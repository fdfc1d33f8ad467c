---------------------------- MODULE SerialHealth ----------------------------
(***************************************************************************)
(* What the host knows about the life of the serial line                   *)
(* (internal/rig/serial.go): the poll goroutine asks for the frequency,    *)
(* stamps lastOK when a whole cycle brought it, derives Connected, and     *)
(* after a run of silence closes and reopens the port under the CAT lock;  *)
(* Snapshot derives Stale from the age of lastOK.  Operators exchange      *)
(* under the same lock, and the cycle yields to them.                      *)
(*                                                                         *)
(* Time counts in seconds; ages stop at Never, which also stands for a     *)
(* lastOK never stamped.                                                   *)
(***************************************************************************)
EXTENDS CatLock, Integers

CONSTANTS
    StaleAfter,      \* Stale says the last answer is older
    ConnectedWithin, \* Connected says it is younger
    DeadAfter,       \* deadPolls polls of 250 ms
    MaxEvents        \* bound: times the radio or its cable changes

ASSUME HealthAssumption ==
    /\ {StaleAfter, ConnectedWithin, DeadAfter, MaxEvents} \subseteq Nat
    /\ StaleAfter < ConnectedWithin /\ ConnectedWithin < DeadAfter

VARIABLES
    age,         \* seconds since lastOK
    unheard,     \* seconds since a poll brought the frequency (history)
    connected,   \* snap.Connected
    loop,        \* where the poll goroutine is
    heard,       \* what its FA; brought
    port,        \* the open file: live, dead (its device went away) or closed
    opened,      \* how many times the port was swapped, modulo 2
    device,      \* the radio: answering, off (its USB port is there) or gone
    events,
    op,          \* each operator: idle, waiting or mid-exchange
    began        \* which port each one's exchange began on (history)

ageVars == <<age, unheard>>
worldVars == <<device, events>>
opVars == <<op, began>>
healthVars == <<ageVars, connected, loop, heard, port, opened, worldVars, opVars, holder>>

Never == DeadAfter + 1
Ages == 0..Never

\* With the types: the port being replaced is closed first, under the lock.
HealthTypeOK ==
    /\ {age, unheard} \subseteq Ages
    /\ age <= unheard
    /\ connected \in {"yes", "no"}
    /\ loop \in {"sleep", "ask", "read", "rest", "check", "lock", "open"}
    /\ heard \in {"nothing", "frequency"}
    /\ port \in {"live", "dead", "closed"}
    /\ opened \in {0, 1}
    /\ device \in {"answering", "off", "gone"}
    /\ events \in 0..MaxEvents
    /\ op \in [Operators -> {"idle", "waiting", "exchange"}]
    /\ began \in [Operators -> {0, 1}]
    /\ holder \in Clients \cup {Nobody}
    /\ loop = "open" => port = "closed" /\ holder = Poller

HealthInit ==
    /\ age = Never /\ unheard = Never
    /\ connected = "no"
    /\ loop = "sleep" /\ heard = "nothing"
    /\ port = "live" /\ opened = 0
    /\ device \in {"answering", "off"} /\ events = 0
    /\ op = [o \in Operators |-> "idle"] /\ began = [o \in Operators |-> 0]
    /\ holder = Nobody

\* s.waiting.Load() > 0
OperatorWaits == \E o \in Operators : op[o] # "idle"
Answers == port = "live" /\ device = "answering"
Stale == age > StaleAfter
Silent == age > DeadAfter

-----------------------------------------------------------------------------
(* pollOnce                                                                *)

PollBegins ==
    /\ loop = "sleep"
    /\ loop' = IF OperatorWaits THEN "check" ELSE "ask"
    /\ heard' = "nothing"
    /\ UNCHANGED <<ageVars, connected, port, opened, worldVars, opVars, holder>>

TakeLine ==
    /\ loop = "ask"
    /\ holder = Nobody
    /\ holder' = Poller
    /\ loop' = "read"
    /\ UNCHANGED <<ageVars, connected, heard, port, opened, worldVars, opVars>>

\* The answer to FA;, or an error.
FrequencyRead ==
    /\ loop = "read"
    /\ heard' = IF Answers THEN "frequency" ELSE "nothing"
    /\ loop' = "rest"
    /\ holder' = Nobody
    /\ UNCHANGED <<ageVars, connected, port, opened, worldVars, opVars>>

\* An operator came: the cycle ends there and what it heard is dropped.
CycleYields ==
    /\ loop = "rest"
    /\ OperatorWaits
    /\ loop' = "check"
    /\ UNCHANGED <<ageVars, connected, heard, port, opened, worldVars, opVars, holder>>

\* The rest of the questions, and the results under mu.
CycleEnds ==
    /\ loop = "rest"
    /\ IF heard = "frequency"
       THEN age' = 0 /\ unheard' = 0
       ELSE UNCHANGED ageVars
    /\ connected' = IF age' < ConnectedWithin THEN "yes" ELSE "no"
    /\ loop' = "check"
    /\ UNCHANGED <<heard, port, opened, worldVars, opVars, holder>>

-----------------------------------------------------------------------------
(* reopenIfDead                                                            *)

DeadCheck ==
    /\ loop = "check"
    /\ loop' = IF Silent THEN "lock" ELSE "sleep"
    /\ UNCHANGED <<ageVars, connected, heard, port, opened, worldVars, opVars, holder>>

\* Mutant: the port is swapped without the CAT lock.
SwapUnlocked ==
    /\ loop = "lock"
    /\ port' = "closed"
    /\ loop' = "open"
    /\ UNCHANGED <<ageVars, connected, heard, opened, worldVars, opVars, holder>>

\* Mutant: the old port is replaced without being closed.
LeakOld ==
    /\ loop = "lock"
    /\ holder = Nobody
    /\ IF Silent
       THEN loop' = "open" /\ holder' = Poller
       ELSE loop' = "sleep" /\ UNCHANGED holder
    /\ UNCHANGED <<ageVars, connected, heard, port, opened, worldVars, opVars>>

\* The lock, the second look at lastOK, and the old port closed.
CloseOld ==
    /\ loop = "lock"
    /\ holder = Nobody
    /\ IF Silent
       THEN loop' = "open" /\ holder' = Poller /\ port' = "closed"
       ELSE loop' = "sleep" /\ UNCHANGED <<holder, port>>
    /\ UNCHANGED <<ageVars, connected, heard, opened, worldVars, opVars>>

\* lastOK is stamped, "a fresh chance".
OpenNew ==
    /\ loop = "open"
    /\ device # "gone"
    /\ port' = "live"
    /\ opened' = 1 - opened
    /\ age' = 0
    /\ holder' = Nobody
    /\ loop' = "sleep"
    /\ UNCHANGED <<unheard, connected, heard, worldVars, opVars>>

\* Mutant: the error return that forgets the lock.
OpenFailsLocked ==
    /\ loop = "open"
    /\ device = "gone"
    /\ loop' = "sleep"
    /\ UNCHANGED <<ageVars, connected, heard, port, opened, worldVars, opVars, holder>>

\* Mutant: lastOK is stamped whether or not the port opened.
OpenFailsStamped ==
    /\ loop = "open"
    /\ device = "gone"
    /\ age' = 0
    /\ holder' = Nobody
    /\ loop' = "sleep"
    /\ UNCHANGED <<unheard, connected, heard, port, opened, worldVars, opVars>>

OpenFails ==
    /\ loop = "open"
    /\ device = "gone"
    /\ holder' = Nobody
    /\ loop' = "sleep"
    /\ UNCHANGED <<ageVars, connected, heard, port, opened, worldVars, opVars>>

-----------------------------------------------------------------------------
(* Operators, the radio and time                                           *)

OperatorComes(o) ==
    /\ op[o] = "idle"
    /\ op' = [op EXCEPT ![o] = "waiting"]
    /\ UNCHANGED <<ageVars, connected, loop, heard, port, opened, worldVars, began, holder>>

\* An exchange goes through the port that is open when it begins.
ExchangeBegins(o) ==
    /\ op[o] = "waiting"
    /\ holder = Nobody
    /\ holder' = o
    /\ op' = [op EXCEPT ![o] = "exchange"]
    /\ began' = [began EXCEPT ![o] = opened]
    /\ UNCHANGED <<ageVars, connected, loop, heard, port, opened, worldVars>>

ExchangeEnds(o) ==
    /\ op[o] = "exchange"
    /\ holder' = Nobody
    /\ op' = [op EXCEPT ![o] = "idle"]
    /\ UNCHANGED <<ageVars, connected, loop, heard, port, opened, worldVars, began>>

\* Switched on or off, unplugged or plugged in: a port open on a device that
\* went away stays dead.
DeviceChanges ==
    /\ events < MaxEvents
    /\ events' = events + 1
    /\ device' \in {"answering", "off", "gone"} \ {device}
    /\ port' = IF device' = "gone" /\ port = "live" THEN "dead" ELSE port
    /\ UNCHANGED <<ageVars, connected, loop, heard, opened, opVars, holder>>

Older(a) == IF a < Never THEN a + 1 ELSE Never

Tick ==
    /\ age' = Older(age) /\ unheard' = Older(unheard)
    /\ UNCHANGED <<connected, loop, heard, port, opened, worldVars, opVars, holder>>

-----------------------------------------------------------------------------
PollGoroutine ==
    \/ PollBegins \/ TakeLine \/ FrequencyRead \/ CycleYields \/ CycleEnds
    \/ DeadCheck \/ CloseOld \/ OpenNew \/ OpenFails

Operator(o) == OperatorComes(o) \/ ExchangeBegins(o) \/ ExchangeEnds(o)

HealthNext ==
    \/ PollGoroutine
    \/ \E o \in Operators : Operator(o)
    \/ DeviceChanges \/ Tick

HealthSpec == HealthInit /\ [][HealthNext]_healthVars

\* The goroutine runs, time passes, and an exchange that began ends.
Fairness ==
    /\ WF_healthVars(PollGoroutine) /\ WF_healthVars(Tick)
    /\ \A o \in Operators : WF_healthVars(ExchangeEnds(o))

FairHealthSpec == HealthSpec /\ Fairness
-----------------------------------------------------------------------------
(* Properties                                                              *)

\* No exchange begins on one port and ends on another, and none loses its port
\* on the way: the swap takes the CAT lock (serial.go:239-240).
NoSwapMidExchange ==
    \A o \in Operators :
        op[o] = "exchange" => began[o] = opened /\ loop # "open"

\* A radio that is there and answers is heard again, whatever happened to the
\* port before, once the operators leave the line to the poller: the yield
\* checks owe it nothing while they do not.
HeardAgain == <>[](device = "answering" /\ ~OperatorWaits) => []<>(unheard = 0)

\* A radio unplugged for good is shown as not connected, and what was read of it
\* as stale, for good: no attempt to reopen its port makes it look alive
\* (serial.go:255-267, 427-429).
UnpluggedIsShown ==
    <>[](device = "gone" /\ ~OperatorWaits) => <>[](connected = "no" /\ Stale)
=============================================================================
