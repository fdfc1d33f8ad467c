------------------------------ MODULE TxRouting ------------------------------
(***************************************************************************)
(* What the radio transmits: the microphone at the radio (MIC) or the USB  *)
(* codec (REAR and USB).  SetRemoteTX of internal/rig/serial.go is called  *)
(* by the transmit audio socket /ws/tx, which routes the radio when it     *)
(* opens and unkeys and hands the microphone back when it closes, and by   *)
(* /api/remote-tx/on and off.  PTT is pressed by others meanwhile.         *)
(*                                                                         *)
(* The radio ignores, silently, a menu write that follows another within   *)
(* 50 ms (serial.go:588-590): settling says that one was less than that    *)
(* ago, and send() waits it out under the CAT lock, whoever wrote.         *)
(***************************************************************************)
EXTENDS Naturals

CONSTANTS
    Sockets,     \* /ws/tx connections
    Buttons,     \* requests to /api/remote-tx/on and off
    MaxFaults    \* bound: writes that fail

\* What the constants have to satisfy; Station assumes it.
TxRoutingAssumption ==
    /\ Sockets \cap Buttons = {}
    /\ MaxFaults \in Nat

VARIABLES
    pc,          \* the next thing each handler does
    source,      \* SSB MOD SOURCE
    select,      \* REAR SELECT
    settling,    \* a menu write was less than 50 ms ago
    keyed,
    held,        \* remote-tx/on put it on REAR and nobody took it back (history)
    pressed,     \* handlers that found PTT pressed again after unkeying (history)
    alone,       \* the handler with nobody else under way since it began (history)
    faults       \* failed writes so far

Handlers == Sockets \cup Buttons
radioVars == <<source, select, settling, keyed>>
histVars == <<held, pressed, alone>>
vars == <<pc, radioVars, histVars, faults>>

TypeOK ==
    /\ pc \in [Handlers -> {"idle", "rear", "usb", "gain", "open", "unkey", "mic"}]
    /\ \A b \in Buttons : pc[b] # "open"
    /\ source \in {"MIC", "REAR"}
    /\ select \in {"DATA", "USB"}
    /\ settling \in BOOLEAN
    /\ keyed \in BOOLEAN
    /\ held \in BOOLEAN
    /\ pressed \subseteq {h \in Handlers : pc[h] = "mic"}
    /\ alone \subseteq Handlers
    /\ faults \in 0..MaxFaults

Init ==
    /\ pc = [h \in Handlers |-> "idle"]
    /\ source = "MIC" /\ select \in {"DATA", "USB"}
    /\ settling = FALSE /\ keyed = FALSE
    /\ held = FALSE /\ pressed = {} /\ alone = {} /\ faults = 0

Goto(h, step) == pc' = [pc EXCEPT ![h] = step]

-----------------------------------------------------------------------------
(* The menu writes of SetRemoteTX                                          *)

\* Mutant: menu writes back to back, of which the radio takes the first.
WriteAtOnce(effect, none) ==
    /\ IF settling THEN none ELSE effect
    /\ settling' = TRUE

\* A menu write: effect is what it does to the radio, none its being ignored.
MenuWrite(effect, none) ==
    /\ ~settling
    /\ effect
    /\ settling' = TRUE

WriteRear(h) ==
    /\ pc[h] = "rear"
    /\ MenuWrite(source' = "REAR" /\ held' = (held \/ h \in Buttons),
                 UNCHANGED <<source, held>>)
    /\ Goto(h, "usb")
    /\ UNCHANGED <<select, keyed, pressed, alone, faults>>

WriteUsb(h) ==
    /\ pc[h] = "usb"
    /\ MenuWrite(select' = "USB", UNCHANGED select)
    /\ Goto(h, "gain")
    /\ UNCHANGED <<source, keyed, histVars, faults>>

\* RPORT GAIN, the last: a socket is then open, a button is done.
WriteGain(h) ==
    /\ pc[h] = "gain"
    /\ MenuWrite(TRUE, TRUE)
    /\ Goto(h, IF h \in Sockets THEN "open" ELSE "idle")
    /\ UNCHANGED <<source, select, keyed, histVars, faults>>

\* An error returns at once: the handler answers it and ends, and what was
\* already written stays.
RouteFails(h) ==
    /\ pc[h] \in {"rear", "usb", "gain"}
    /\ faults < MaxFaults
    /\ faults' = faults + 1
    /\ Goto(h, "idle")
    /\ UNCHANGED <<radioVars, histVars>>

-----------------------------------------------------------------------------
(* The handlers                                                            *)

\* What begins a handler, for the history.
Begins(h) ==
    alone' = IF \A g \in Handlers \ {h} : pc[g] = "idle" THEN {h} ELSE {}

\* A socket opens, or somebody asks for remote-tx/on.
Route(h) ==
    /\ pc[h] = "idle"
    /\ Goto(h, "rear")
    /\ Begins(h)
    /\ UNCHANGED <<radioVars, held, pressed, faults>>

\* Mutant: the microphone comes back without the unkey.
HandBackAtOnce(h) ==
    /\ \/ h \in Sockets /\ pc[h] = "open" /\ UNCHANGED alone
       \/ h \in Buttons /\ pc[h] = "idle" /\ Begins(h)
    /\ Goto(h, "mic")
    /\ UNCHANGED <<radioVars, held, pressed, faults>>

\* The socket's read fails, or somebody asks for remote-tx/off.
HandBack(h) ==
    /\ \/ h \in Sockets /\ pc[h] = "open" /\ UNCHANGED alone
       \/ h \in Buttons /\ pc[h] = "idle" /\ Begins(h)
    /\ Goto(h, "unkey")
    /\ UNCHANGED <<radioVars, held, pressed, faults>>

\* SetPTT(false) FIRST.
Unkey(h) ==
    /\ pc[h] = "unkey"
    /\ keyed' = FALSE
    /\ Goto(h, "mic")
    /\ UNCHANGED <<source, select, settling, histVars, faults>>

\* Mutant: a closing socket leaves the radio on REAR.
LeaveRear(h) ==
    /\ pc[h] = "mic"
    /\ Goto(h, "idle")
    /\ pressed' = pressed \ {h}
    /\ UNCHANGED <<radioVars, held, alone, faults>>

\* Then the microphone.
WriteMic(h) ==
    /\ pc[h] = "mic"
    /\ MenuWrite(source' = "MIC" /\ held' = FALSE, UNCHANGED <<source, held>>)
    /\ Goto(h, "idle")
    /\ pressed' = pressed \ {h}
    /\ UNCHANGED <<select, keyed, alone, faults>>

\* Both errors are passed over.
HandBackFails(h) ==
    /\ pc[h] \in {"unkey", "mic"}
    /\ faults < MaxFaults
    /\ faults' = faults + 1
    /\ Goto(h, IF pc[h] = "unkey" THEN "mic" ELSE "idle")
    /\ pressed' = pressed \ {h}
    /\ UNCHANGED <<radioVars, held, alone>>

-----------------------------------------------------------------------------
(* Around them                                                             *)

Press ==
    /\ keyed' = TRUE
    /\ pressed' = {h \in Handlers : pc[h] = "mic"}
    /\ UNCHANGED <<pc, source, select, settling, held, alone, faults>>

Release ==
    /\ keyed' = FALSE
    /\ UNCHANGED <<pc, source, select, settling, histVars, faults>>

\* 50 ms since the last menu write.
Settle ==
    /\ settling
    /\ settling' = FALSE
    /\ UNCHANGED <<pc, source, select, keyed, histVars, faults>>

Handle(h) ==
    \/ Route(h) \/ WriteRear(h) \/ WriteUsb(h) \/ WriteGain(h) \/ RouteFails(h)
    \/ HandBack(h) \/ Unkey(h) \/ WriteMic(h) \/ HandBackFails(h)

Next == (\E h \in Handlers : Handle(h)) \/ Press \/ Release \/ Settle

Spec == Init /\ [][Next]_vars
-----------------------------------------------------------------------------
(* Properties                                                              *)

AllIdle == \A h \in Handlers : pc[h] = "idle"

\* "Whatever sets this must put it back" (serial.go:585-586): with no handler
\* under way and no write lost, the operator's own microphone is live, unless a
\* button routed the radio away from it.
QuietMeansMic == AllIdle /\ ~held /\ faults = 0 => source = "MIC"

\* A handler that gives the microphone back to a keyed radio saw PTT pressed
\* again after its own unkey, or lost that unkey (api.go:757-762, 689-691).
MicBack ==
    \A h \in Handlers :
        pc[h] = "mic" /\ pc'[h] = "idle" /\ keyed /\ faults = 0 => h \in pressed
MicBackUnkeyed == [][MicBack]_vars

\* A socket that opened with nobody else routing the radio has it: the radio
\* took all three menu writes, also when a MIC write had just gone before.
SoleSocketHasRadio ==
    \A s \in Sockets :
        pc[s] = "open" /\ s \in alone /\ faults = 0
            => source = "REAR" /\ select = "USB"
=============================================================================
