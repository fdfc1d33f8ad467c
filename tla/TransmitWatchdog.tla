-------------------------- MODULE TransmitWatchdog --------------------------
(***************************************************************************)
(* Serial.SetPTT and the transmit watchdog of internal/rig/serial.go: any  *)
(* number of goroutines (HTTP handlers, the audio socket's cleanup, the    *)
(* tuner) key and unkey one transmitter, each key press arms a timer that  *)
(* unkeys it, the port may fail under any write, and raw CAT (the CAT      *)
(* proxy, /api/rawcat) may key it without passing through SetPTT.          *)
(*                                                                         *)
(* SetPTT is three separate steps: stop the timer (under mu), write to the *)
(* rig (under cat), arm a new timer (under mu).  Nothing holds a lock over *)
(* all three, so the steps of two callers interleave.                      *)
(*                                                                         *)
(* One tick is a slice of the watchdog's timeout (180 s by default).  A    *)
(* call of SetPTT is milliseconds and at most the 1.2 s of an exchange     *)
(* that holds the line, so no tick passes inside one.                      *)
(***************************************************************************)
EXTENDS Naturals, FiniteSets

CONSTANTS
    Callers,       \* goroutines that may be inside SetPTT
    Timers,        \* timers that may be pending at once
    NoTimer,       \* the nil of s.pttTimer
    Timeout,       \* ticks of pttTimeout
    MaxFaults,     \* bound: times the port stops taking writes
    RawKeying      \* TRUE when raw CAT may carry TX1; and TX0;

ASSUME WatchdogAssumption ==
    /\ Timeout \in Nat \ {0}       \* SetPTTTimeout refuses d <= 0
    /\ NoTimer \notin Timers
    /\ MaxFaults \in Nat
    /\ RawKeying \in BOOLEAN

VARIABLES
    pc,            \* where each caller is inside SetPTT
    timers,        \* what each timer is doing
    left,          \* ticks left before a running timer expires
    pttTimer,      \* the field s.pttTimer
    port,          \* whether the port takes writes
    faults,        \* failures of the port so far
    carrier,       \* the transmitter: off, or up with its watchdog intact or lost
    airtime        \* ticks since the last TX1 of this over, capped

vars == <<pc, timers, left, pttTimer, port, faults, carrier, airtime>>
callVars  == <<pc>>
timerVars == <<timers, left, pttTimer>>
portVars  == <<port, faults>>
rigVars   == <<carrier, airtime>>

TypeOK ==
    /\ pc \in [Callers -> {"idle", "key", "arm", "unkey"}]
    /\ timers \in [Timers -> {"free", "running", "firing"}]
    /\ left \in [Timers -> 0..Timeout]
    /\ pttTimer \in Timers \cup {NoTimer}
    /\ port \in {"open", "dead"}
    /\ faults \in 0..MaxFaults
    /\ carrier \in {"off", "guarded", "lapsed"}
    /\ airtime \in 0..(Timeout + 1)

Init ==
    /\ pc = [p \in Callers |-> "idle"]
    /\ timers = [t \in Timers |-> "free"]
    /\ left = [t \in Timers |-> 0]
    /\ pttTimer = NoTimer
    /\ port = "open"
    /\ faults = 0
    /\ carrier = "off"
    /\ airtime = 0

Free == {t \in Timers : timers[t] = "free"}
Running == {t \in Timers : timers[t] = "running"}
Keying == {p \in Callers : pc[p] \in {"key", "arm"}}
Keyed == carrier # "off"
AllIdle == \A p \in Callers : pc[p] = "idle"

-----------------------------------------------------------------------------
(* Writes to the rig.                                                      *)

\* A carrier that had lost its watchdog has it back only at Arm.
TransmitterUp ==
    /\ carrier' = IF Keyed THEN carrier ELSE "guarded"
    /\ airtime' = 0

TransmitterDown == carrier' = "off" /\ airtime' = 0

\* A write the port does not take: the rig stays as it was, and whatever
\* carrier is up has lost the timer this call stopped or was.
WriteLost ==
    /\ port = "dead"
    /\ carrier' = IF Keyed THEN "lapsed" ELSE carrier
    /\ UNCHANGED airtime

-----------------------------------------------------------------------------
(* SetPTT                                                                  *)

\* Mutant: the field is cleared and the timer left running.
ForgetTimer == pttTimer' = NoTimer /\ UNCHANGED <<timers, left>>

\* s.pttTimer.Stop(); s.pttTimer = nil.  Stop has no effect on a timer whose
\* function has already started.
StopTimer ==
    /\ timers' = [t \in Timers |->
                    IF t = pttTimer /\ timers[t] = "running"
                    THEN "free" ELSE timers[t]]
    /\ pttTimer' = NoTimer
    /\ UNCHANGED left

\* Bound: a key press starts only while every call under way can arm.
TimerToSpare == Cardinality(Free) > Cardinality(Keying)

BeginKey(p) ==
    /\ pc[p] = "idle"
    /\ TimerToSpare
    /\ StopTimer
    /\ pc' = [pc EXCEPT ![p] = "key"]
    /\ UNCHANGED <<portVars, rigVars>>

BeginUnkey(p) ==
    /\ pc[p] = "idle"
    /\ StopTimer
    /\ pc' = [pc EXCEPT ![p] = "unkey"]
    /\ UNCHANGED <<portVars, rigVars>>

SendTX1(p) ==
    /\ pc[p] = "key"
    /\ port = "open"
    /\ TransmitterUp
    /\ pc' = [pc EXCEPT ![p] = "arm"]
    /\ UNCHANGED <<timerVars, portVars>>

\* send("TX1;") failed: return err, and no timer is armed.
TX1Fails(p) ==
    /\ pc[p] = "key"
    /\ WriteLost
    /\ pc' = [pc EXCEPT ![p] = "idle"]
    /\ UNCHANGED <<timerVars, portVars>>

\* Mutant: the timer is armed for one tick too long.
ArmTooLong(p) ==
    /\ pc[p] = "arm"
    /\ \E t \in Free :
        /\ timers' = [timers EXCEPT ![t] = "running"]
        /\ left' = [left EXCEPT ![t] = Timeout + 1]
        /\ pttTimer' = t
    /\ carrier' = IF Keyed THEN "guarded" ELSE carrier
    /\ pc' = [pc EXCEPT ![p] = "idle"]
    /\ UNCHANGED <<portVars, airtime>>

\* Mutant: the old timer is stopped after the new one is armed.
ArmThenStop(p) ==
    /\ pc[p] = "arm"
    /\ pttTimer' = NoTimer
    /\ carrier' = IF Keyed THEN "guarded" ELSE carrier
    /\ pc' = [pc EXCEPT ![p] = "idle"]
    /\ UNCHANGED <<timers, left, portVars, airtime>>

Arm(p) ==
    /\ pc[p] = "arm"
    /\ \E t \in Free :
        /\ timers' = [timers EXCEPT ![t] = "running"]
        /\ left' = [left EXCEPT ![t] = Timeout]
        /\ pttTimer' = t
    /\ carrier' = IF Keyed THEN "guarded" ELSE carrier
    /\ pc' = [pc EXCEPT ![p] = "idle"]
    /\ UNCHANGED <<portVars, airtime>>

SendTX0(p) ==
    /\ pc[p] = "unkey"
    /\ port = "open"
    /\ TransmitterDown
    /\ pc' = [pc EXCEPT ![p] = "idle"]
    /\ UNCHANGED <<timerVars, portVars>>

TX0Fails(p) ==
    /\ pc[p] = "unkey"
    /\ WriteLost
    /\ pc' = [pc EXCEPT ![p] = "idle"]
    /\ UNCHANGED <<timerVars, portVars>>

-----------------------------------------------------------------------------
(* The timer's function, in its own goroutine.                             *)

Expire(t) ==
    /\ timers[t] = "running"
    /\ left[t] = 0
    /\ timers' = [timers EXCEPT ![t] = "firing"]
    /\ UNCHANGED <<callVars, left, pttTimer, portVars, rigVars>>

\* Mutant: the function logs and sends nothing.
WatchdogOnlyLogs(t) ==
    /\ timers[t] = "firing"
    /\ timers' = [timers EXCEPT ![t] = "free"]
    /\ UNCHANGED <<callVars, left, pttTimer, portVars, rigVars>>

\* _ = s.send("TX0;"): once, unconditionally, and the error is dropped.
WatchdogUnkeys(t) ==
    /\ timers[t] = "firing"
    /\ port = "open"
    /\ TransmitterDown
    /\ timers' = [timers EXCEPT ![t] = "free"]
    /\ UNCHANGED <<callVars, left, pttTimer, portVars>>

WatchdogFails(t) ==
    /\ timers[t] = "firing"
    /\ WriteLost
    /\ timers' = [timers EXCEPT ![t] = "free"]
    /\ UNCHANGED <<callVars, left, pttTimer, portVars>>

-----------------------------------------------------------------------------
(* Raw CAT: Send writes the verb and knows nothing of the timer.           *)

RawTX1 ==
    /\ RawKeying
    /\ port = "open"
    /\ carrier' = IF Keyed THEN carrier ELSE "lapsed"
    /\ UNCHANGED <<airtime, callVars, timerVars, portVars>>

RawTX0 ==
    /\ RawKeying
    /\ port = "open"
    /\ TransmitterDown
    /\ UNCHANGED <<callVars, timerVars, portVars>>

-----------------------------------------------------------------------------
(* The port and the clock.                                                 *)

PortFails ==
    /\ port = "open"
    /\ faults < MaxFaults
    /\ port' = "dead"
    /\ faults' = faults + 1
    /\ UNCHANGED <<callVars, timerVars, rigVars>>

PortRecovers ==
    /\ port = "dead"
    /\ port' = "open"
    /\ UNCHANGED <<callVars, timerVars, faults, rigVars>>

\* An expired timer fires before more time passes.
Tick ==
    /\ AllIdle
    /\ \A t \in Timers :
        /\ timers[t] # "firing"
        /\ timers[t] = "running" => left[t] > 0
    /\ left' = [t \in Timers |->
                  IF timers[t] = "running" THEN left[t] - 1 ELSE left[t]]
    /\ airtime' = IF Keyed /\ airtime <= Timeout THEN airtime + 1 ELSE airtime
    /\ UNCHANGED <<callVars, timers, pttTimer, portVars, carrier>>

-----------------------------------------------------------------------------
Call(p) ==
    \/ BeginKey(p) \/ SendTX1(p) \/ TX1Fails(p) \/ Arm(p)
    \/ BeginUnkey(p) \/ SendTX0(p) \/ TX0Fails(p)

Watchdog(t) == Expire(t) \/ WatchdogUnkeys(t) \/ WatchdogFails(t)

Next ==
    \/ \E p \in Callers : Call(p)
    \/ \E t \in Timers : Watchdog(t)
    \/ RawTX1 \/ RawTX0
    \/ PortFails \/ PortRecovers
    \/ Tick

Spec == Init /\ [][Next]_vars

\* A call that has begun is carried through, a timer runs and fires, and time
\* passes.  Nothing makes an operator call or a port recover.
Finishes(p) ==
    SendTX1(p) \/ TX1Fails(p) \/ Arm(p) \/ SendTX0(p) \/ TX0Fails(p)

Fairness ==
    /\ \A p \in Callers : WF_vars(Finishes(p))
    /\ \A t \in Timers : WF_vars(Watchdog(t))
    /\ WF_vars(Tick)

FairSpec == Spec /\ Fairness
-----------------------------------------------------------------------------
(* Properties                                                              *)

\* While an over has its watchdog - every write since its key press went
\* through, and the press came through SetPTT - the carrier is never up for
\* longer than the timeout, however the callers interleave.
CarrierBounded == carrier = "guarded" => airtime <= Timeout

\* The reason: at every moment a carrier that has its watchdog is answered for
\* by a running timer that expires in time, by a timer already firing, or by
\* a call of SetPTT that has yet to write or to arm.
Guarded ==
    carrier = "guarded" =>
        \/ \E t \in Running : left[t] + airtime <= Timeout
        \/ \E t \in Timers : timers[t] = "firing"
        \/ ~AllIdle

\* Every running timer is the one s.pttTimer names, so that "a deliberate
\* unkey - or another key press - stops that timer" (serial.go:535-536).
NoOrphanTimer == Running \subseteq {pttTimer}

\* What the -ptt-timeout flag promises: the host unkeys the rig after this
\* long, whatever the client is doing (cmd/hamdeck-host/main.go:67).
CarrierAlwaysBounded == Keyed => airtime <= Timeout

\* A guarded carrier comes down unless somebody calls SetPTT again or the
\* guard is lost on the way.
CarrierComesDown ==
    carrier = "guarded" ~> carrier # "guarded" \/ ~AllIdle

\* The watchdog implements the promise stated in Carrier.
Promise == INSTANCE Carrier WITH Limit <- Timeout
CarrierPromise == Promise!Spec
=============================================================================
