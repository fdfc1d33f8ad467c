----------------------------- MODULE PanelView -----------------------------
(***************************************************************************)
(* What the operator's panel (client/lib/main.dart) knows of the radio and *)
(* does with it.  The panel shows the answer to /api/status that arrived   *)
(* last, of polls that overlap and of the question that follows each of    *)
(* its own commands; from it, it decides whether the PTT button keys or    *)
(* unkeys, where a click of the tuning goes, and whether receive audio is  *)
(* played.  The host answers from what its own poll of the radio read last.*)
(*                                                                         *)
(* A call is a client of RigRoutes while its handler runs; when the        *)
(* network is down it may be given up, with its handler still running or   *)
(* never begun.                                                            *)
(***************************************************************************)
EXTENDS RigRoutes

CONSTANTS
    TuneStep,    \* one step of the tuning, in Hz
    Multiples    \* of it, up or down: by an arrow key, and with shift

ASSUME PanelViewAssumption ==
    /\ TuneStep \in {10, 100, 1000, 10000} /\ Multiples \subseteq {-10, -1, 1, 10}
    /\ \A m \in DOMAIN Menus : Menus[m].panel \subseteq {"poll", "button", "key", "tune"}

VARIABLES
    snap,        \* what the host read last: dial and transmit flag
    reading,     \* the dial of the host's poll under way, or None
    task,        \* where each async function of the panel is
    view,        \* _rig, None before the first answer
    wasTx,       \* _wasTx: what was announced last
    keyed,       \* _wasKeyed and _rx.keyed: receive is silenced
    net          \* the network

hostVars == <<snap, reading>>
showVars == <<view, wasTx, keyed>>
panelVars == <<hostVars, task, showVars, net>>
vars == <<rigVars, panelVars>>

None == <<>>   \* an answer is <<>> or a sequence of one
Seen == [freq : Int, tx : BOOLEAN]
Known(got) == got = None \/ (Len(got) = 1 /\ got[1] \in Seen)
NoTask == [kind |-> "none", step |-> "done", got |-> None]

PanelTypeOK ==
    /\ TypeOK
    /\ snap \in Seen
    /\ \A c \in Clients :
          /\ task[c].kind \in {"none", "poll", "button", "key", "tune"}
          /\ task[c].step \in {"done", "acting", "status", "back"}
          /\ Known(task[c].got)
          /\ task[c].step = "acting" => task[c].kind # "poll"
    /\ Known(view)
    /\ wasTx \in BOOLEAN /\ keyed \in BOOLEAN
    /\ net \in {"up", "down"}

\* The radio as a poll of the host that runs now would read it.
Now == [freq |-> radio["FA"], tx |-> radio["TX"] # 0]

Init ==
    /\ RigInit
    /\ snap = Now /\ reading = None
    /\ task = [c \in Clients |-> NoTask]
    /\ view = None /\ wasTx = FALSE /\ keyed = FALSE
    /\ net = "up"

-----------------------------------------------------------------------------
(* The host's poll: the dial first, the transmit flag later, what was read *)
(* published together.  A question that fails leaves the old value.        *)

Reads == UNCHANGED faults
ReadFails == faults < MaxFaults /\ faults' = faults + 1
PollOnly == UNCHANGED <<radio, job, receiverVars, menu, asked, histVars, task, showVars, net>>

HostReadsDial ==
    /\ Menus[menu].panel # {}
    /\ reading = None
    /\ \/ Reads /\ reading' = <<radio["FA"]>>
       \/ ReadFails /\ reading' = <<snap.freq>>
    /\ UNCHANGED snap
    /\ PollOnly

HostPublishes ==
    /\ reading # None
    /\ \/ Reads /\ snap' = [freq |-> reading[1], tx |-> radio["TX"] # 0]
       \/ ReadFails /\ snap' = [freq |-> reading[1], tx |-> snap.tx]
    /\ reading' = None
    /\ PollOnly

\* It gives way to a command, and what it read is lost.
HostYields ==
    /\ reading # None
    /\ ~Quiet
    /\ reading' = None
    /\ UNCHANGED <<rigVars, snap, task, showVars, net>>

-----------------------------------------------------------------------------
(* Calls                                                                   *)

Free(c) == task[c].step = "done" /\ job[c].step = "idle"
Goto(c, kind, step, got) ==
    task' = [task EXCEPT ![c] = [kind |-> kind, step |-> step, got |-> got]]

\* A command of the panel: it reaches the host, or is lost on the way.
Command(c, kind, route, meant) ==
    /\ Free(c)
    /\ kind \in Menus[menu].panel
    /\ asked < Menus[menu].max
    /\ asked' = asked + 1
    /\ \/ Accept(c, route, meant)
       \/ net = "down" /\ UNCHANGED <<radio, job, receiverVars, menu, faults, histVars>>
    /\ Goto(c, kind, "acting", None)
    /\ UNCHANGED <<hostVars, showVars, net>>

Ptt(on) == Switch("TX", IF on THEN 1 ELSE 0)
ShownTx == view # None /\ view[1].tx
ShownFreq == IF view = None THEN 0 ELSE view[1].freq

\* The button and the space bar do the opposite of what is shown.
PttButton(c) == Command(c, "button", Ptt(~ShownTx), Ptt(~ShownTx))

\* An edge of the system-wide key (PanelPtt).
PttKey(c, on) == Command(c, "key", Ptt(on), Ptt(on))

\* So many steps from the frequency shown, meant as so many from where it is.
TuneBy(c, multiple) ==
    /\ InRange(ShownFreq + multiple * TuneStep)
    /\ Command(c, "tune", FreqSet(ShownFreq + multiple * TuneStep), Step(multiple * TuneStep))

\* The command was answered, or given up: every one is followed by /api/status.
AsksStatus(c) ==
    /\ task[c].step = "acting"
    /\ job[c].step = "idle" \/ net = "down"
    /\ Goto(c, task[c].kind, "status", None)
    /\ UNCHANGED <<rigVars, hostVars, showVars, net>>

\* Every half second, whether or not the last poll is back.
StartPoll(c) ==
    /\ "poll" \in Menus[menu].panel
    /\ Free(c)
    /\ Goto(c, "poll", "status", None)
    /\ UNCHANGED <<rigVars, hostVars, showVars, net>>

\* The host answers with its snapshot; the answer is on its way, behind three
\* more calls if it is a poll's.
StatusAnswered(c) ==
    /\ task[c].step = "status"
    /\ Goto(c, task[c].kind, "back", <<snap>>)
    /\ UNCHANGED <<rigVars, hostVars, showVars, net>>

\* No answer is null.
StatusLost(c) ==
    /\ task[c].step \in {"status", "back"}
    /\ task[c].step = "back" => task[c].got # None
    /\ net = "down"
    /\ Goto(c, task[c].kind, "back", None)
    /\ UNCHANGED <<rigVars, hostVars, showVars, net>>

-----------------------------------------------------------------------------
(* What comes back                                                         *)

SyncKeyed(tx) == keyed' = tx

\* Mutant: the poll silences and restores receive only when it announces.
PollAppliesOnChange(got) ==
    LET nowTx == got # None /\ got[1].tx
    IN  /\ wasTx' = nowTx
        /\ IF nowTx # wasTx THEN SyncKeyed(nowTx) ELSE UNCHANGED keyed
        /\ view' = IF got = None THEN view ELSE got

\* To a poll an answer that did not come says "not transmitting".
PollApplies(got) ==
    LET nowTx == got # None /\ got[1].tx
    IN  /\ wasTx' = nowTx
        /\ SyncKeyed(nowTx)
        /\ view' = IF got = None THEN view ELSE got

\* _refresh after the key, and the others' plain repaint, ignore null.
RefreshApplies(got) ==
    IF got = None THEN UNCHANGED showVars
    ELSE view' = got /\ SyncKeyed(got[1].tx) /\ UNCHANGED wasTx
RepaintApplies(got) ==
    /\ view' = IF got = None THEN view ELSE got
    /\ UNCHANGED <<wasTx, keyed>>

Applies(c) ==
    /\ task[c].step = "back"
    /\ CASE task[c].kind = "poll" -> PollApplies(task[c].got)
         [] task[c].kind = "key" -> RefreshApplies(task[c].got)
         [] OTHER -> RepaintApplies(task[c].got)
    /\ task' = [task EXCEPT ![c] = NoTask]
    /\ UNCHANGED <<rigVars, hostVars, net>>

-----------------------------------------------------------------------------
NetChanges ==
    /\ Menus[menu].outages
    /\ net' = IF net = "up" THEN "down" ELSE "up"
    /\ UNCHANGED <<rigVars, hostVars, task, showVars>>

Panel(c) ==
    \/ PttButton(c) \/ \E on \in BOOLEAN : PttKey(c, on)
    \/ \E multiple \in Multiples : TuneBy(c, multiple)
    \/ AsksStatus(c) \/ StartPoll(c)
    \/ StatusAnswered(c) \/ StatusLost(c) \/ Applies(c)

\* The host and everybody else at the radio.
Others ==
    /\ \/ \E c \in Clients : (task[c].step = "done" /\ Request(c)) \/ Serve(c)
       \/ FrontPanel
    /\ UNCHANGED panelVars

Host == HostReadsDial \/ HostPublishes
Next ==
    \/ \E c \in Clients : Panel(c)
    \/ Others \/ Host \/ HostYields \/ NetChanges

\* What is under way goes on: the host's poll and handlers, the panel's calls; and
\* the panel's timer ticks.
GoesOn(c) ==
    \/ Serve(c) /\ UNCHANGED panelVars
    \/ AsksStatus(c) \/ StatusAnswered(c) \/ Applies(c)
Fairness ==
    /\ WF_vars(Host)
    /\ \A c \in Clients : WF_vars(GoesOn(c))
    /\ WF_vars(\E c \in Clients : StartPoll(c))

Spec == Init /\ [][Next]_vars /\ Fairness
-----------------------------------------------------------------------------
(* Properties                                                              *)

\* "What you hear and what the radio is doing must be the same moment"
\* (main.dart:323-328): once the radio stays keyed or unkeyed and the network is
\* up, receive is silenced or played accordingly for good, and announced so,
\* whatever order the answers came in and whichever of them were lost.
Steady == <>[](net = "up") /\ <>[][Now.tx' = Now.tx]_vars
AudioFollowsKey ==
    "poll" \in Menus[menu].panel /\ Steady => <>[](keyed = Now.tx /\ wasTx = Now.tx)
=============================================================================
