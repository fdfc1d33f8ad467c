--------------------------- MODULE TunerSequence ---------------------------
(***************************************************************************)
(* TGXL.Tune of internal/tuner/tgxl.go: save the radio's power and mode    *)
(* (from the poll cache), set 15 W and CW, connect, key, start the tuner,  *)
(* watch it go 1 then 0, and on every way out unkey and put back what was  *)
(* saved.  Around it: the poll loop that fills the cache, an operator who  *)
(* sets power and mode and may drop PTT, the tuner itself, and writes that *)
(* fail.                                                                   *)
(*                                                                         *)
(* active makes a second Tune return at once, so one sequence is enough.   *)
(* The clock counts seconds since "C1|autotune" was sent.                  *)
(*                                                                         *)
(* The radio's mode is a code, the host's a name: it knows some codes by   *)
(* name, two of them by one (DATA), and writes a name back as one code.    *)
(***************************************************************************)
EXTENDS Integers, Sequences

CONSTANTS
    Powers,        \* power settings in watts
    TunePower,     \* tunePowerWatts
    Codes,         \* the radio's modes
    Names,         \* the host's
    NameOf,        \* modeByCode, "" for a code it does not know
    CodeOf,        \* codeByMode
    CW,
    IgnoreEarly,   \* a 1 to 0 earlier than this is the burst on connecting
    NoStartGiveUp, \* later than this a tuner still at 0 has not started
    OverallLimit,  \* the watch ends here
    MaxFaults,     \* bound: writes to the radio that fail
    MaxBacklog     \* bound: status replies on the way

ASSUME TunerAssumption ==
    /\ Powers \subseteq Nat \ {0}
    /\ TunePower \in Powers
    /\ CW \in Names /\ "" \notin Names
    /\ NameOf \in [Codes -> Names \cup {""}] /\ CodeOf \in [Names -> Codes]
    /\ \A name \in Names : NameOf[CodeOf[name]] = name
    /\ {IgnoreEarly, NoStartGiveUp, OverallLimit} \subseteq Nat \ {0}
    /\ IgnoreEarly < NoStartGiveUp /\ NoStartGiveUp < OverallLimit
    /\ {MaxFaults, MaxBacklog} \subseteq Nat

VARIABLES
    pc,            \* the step of Tune under way
    stop,          \* t.stop
    power, mode, keyed,           \* the radio
    cache,         \* power and mode in the poll cache, 0 and "" before a poll
    saved,         \* savedPower and savedMode, unread outside Tune
    keyedFlag,     \* the local variable keyed
    seenTuning,
    clock,
    outcome,       \* what Tune is about to return
    burst,         \* lines of the burst 0, 1, 0 on connecting still unread
    replies,       \* status replies on their way, oldest first
    device,        \* the tuner: waiting, tuning or done
    faults,        \* failed writes so far
    basis,         \* what a tune has to go on (history): a fresh cache, a
                   \* stale one, or a radio the operator has set meanwhile
    orphan         \* history: the carrier is one whose deferred unkey failed

radioVars == <<power, mode, keyed>>
deviceVars == <<burst, replies, device>>
watchVars == <<seenTuning, clock>>
vars == <<pc, stop, radioVars, cache, saved, keyedFlag, watchVars, outcome,
          deviceVars, faults, basis, orphan>>

Steps == {"idle", "save", "lowPower", "cw", "connect", "key", "autotune",
          "watch", "read", "unkey", "restoreMode", "restorePower"}
Readings == [power : Powers \cup {0}, mode : Names \cup {""}]

TypeOK ==
    /\ pc \in Steps
    /\ stop \in BOOLEAN
    /\ power \in Powers /\ mode \in Codes /\ keyed \in BOOLEAN
    /\ cache \in Readings
    /\ saved \in Readings
    /\ keyedFlag \in BOOLEAN
    /\ seenTuning \in BOOLEAN
    /\ clock \in 0..OverallLimit
    /\ outcome \in {"none", "error", "stopped", "tuned", "notStarted", "tooLong"}
    /\ burst \in 0..3
    /\ replies \in Seq({0, 1}) /\ Len(replies) <= MaxBacklog
    /\ device \in {"waiting", "tuning", "done"}
    /\ faults \in 0..MaxFaults
    /\ basis \in {"fresh", "stale", "disturbed"}
    /\ orphan \in BOOLEAN

Unread == [power |-> 0, mode |-> ""]

\* A reading of the radio: a mode the host has no name for leaves the old one.
Seen == [power |-> power, mode |-> IF NameOf[mode] = "" THEN cache.mode ELSE NameOf[mode]]
CacheTrue == cache.power = power /\ NameOf[mode] # "" /\ cache.mode = NameOf[mode]

Init ==
    /\ pc = "idle" /\ stop = FALSE
    /\ power \in Powers /\ mode \in Codes /\ keyed = FALSE
    /\ cache = Unread /\ saved = Unread
    /\ keyedFlag = FALSE /\ seenTuning = FALSE /\ clock = 0
    /\ outcome = "none"
    /\ burst = 0 /\ replies = <<>> /\ device = "waiting"
    /\ faults = 0 /\ basis = "fresh" /\ orphan = FALSE

active == pc # "idle"

\* The connection closes and the deferred function begins: unkey when this
\* sequence keyed, else restore.
Leave(why) ==
    /\ outcome' = why
    /\ pc' = IF keyedFlag THEN "unkey" ELSE "restoreMode"
    /\ seenTuning' = FALSE /\ clock' = 0
    /\ burst' = 0 /\ replies' = <<>> /\ UNCHANGED device

\* Tune returns: its locals are gone and active is false.
Finish ==
    /\ pc' = "idle"
    /\ saved' = Unread /\ keyedFlag' = FALSE
    /\ outcome' = "none" /\ device' = "waiting"
    /\ basis' = "fresh"

-----------------------------------------------------------------------------
(* Up to the carrier                                                       *)

Begin ==
    /\ pc = "idle"
    /\ pc' = "save"
    /\ stop' = FALSE
    /\ UNCHANGED <<radioVars, cache, saved, keyedFlag, watchVars, outcome,
                   deviceVars, faults, basis, orphan>>

\* t.rig.Snapshot(): the cache, not the radio.
Save ==
    /\ pc = "save"
    /\ saved' = cache
    /\ basis' = IF basis = "fresh" /\ ~CacheTrue THEN "stale" ELSE basis
    /\ pc' = "lowPower"
    /\ UNCHANGED <<stop, radioVars, cache, keyedFlag, watchVars, outcome,
                   deviceVars, faults, orphan>>

\* A write that fails: the radio is as it was.
Fault ==
    /\ faults < MaxFaults
    /\ faults' = faults + 1

SetLowPower ==
    /\ pc = "lowPower"
    /\ power' = TunePower
    /\ pc' = "cw"
    /\ UNCHANGED <<stop, mode, keyed, cache, saved, keyedFlag, watchVars,
                   outcome, deviceVars, faults, basis, orphan>>

\* Mutant: the carrier goes up in the operator's mode.
SkipCW ==
    /\ pc = "cw"
    /\ pc' = "connect"
    /\ UNCHANGED <<stop, radioVars, cache, saved, keyedFlag, watchVars,
                   outcome, deviceVars, faults, basis, orphan>>

SetCW ==
    /\ pc = "cw"
    /\ mode' = CodeOf[CW]
    /\ pc' = "connect"
    /\ UNCHANGED <<stop, power, keyed, cache, saved, keyedFlag, watchVars,
                   outcome, deviceVars, faults, basis, orphan>>

\* Each of these steps returns its error before the carrier is up.
SetupFails ==
    /\ pc \in {"lowPower", "cw", "key"}
    /\ Fault
    /\ Leave("error")
    /\ UNCHANGED <<stop, radioVars, cache, saved, keyedFlag, basis, orphan>>

\* The connection, with the burst 0, 1, 0 the tuner sends at once.
Connect ==
    /\ pc = "connect"
    /\ pc' = "key"
    /\ burst' = 3 /\ replies' = <<>> /\ device' = "waiting"
    /\ UNCHANGED <<stop, radioVars, cache, saved, keyedFlag, watchVars, outcome,
                   faults, basis, orphan>>

ConnectFails ==
    /\ pc = "connect"
    /\ Leave("error")
    /\ UNCHANGED <<stop, radioVars, cache, saved, keyedFlag, faults, basis, orphan>>

Key ==
    /\ pc = "key"
    /\ keyed' = TRUE /\ orphan' = FALSE
    /\ keyedFlag' = TRUE
    /\ pc' = "autotune"
    /\ UNCHANGED <<stop, power, mode, cache, saved, watchVars, outcome,
                   deviceVars, faults, basis>>

Autotune ==
    /\ pc = "autotune"
    /\ pc' = "watch"
    /\ clock' = 0 /\ seenTuning' = FALSE
    /\ UNCHANGED <<stop, radioVars, cache, saved, keyedFlag, outcome, deviceVars,
                   faults, basis, orphan>>

\* Mutant: an error return outside the deferred function.
LeaveKeyed ==
    /\ pc \in {"autotune", "watch", "read"}
    /\ outcome' = "error"
    /\ pc' = "restoreMode"
    /\ UNCHANGED <<stop, radioVars, cache, saved, keyedFlag, watchVars,
                   deviceVars, faults, basis, orphan>>

\* The connection breaks under a write or a read.
ConnectionLost ==
    /\ pc \in {"autotune", "watch", "read"}
    /\ Leave("error")
    /\ UNCHANGED <<stop, radioVars, cache, saved, keyedFlag, faults, basis, orphan>>

-----------------------------------------------------------------------------
(* The watch loop                                                          *)

\* Mutant: the overall limit only counts once the tuner has started.
WatchEndsOnceTuning ==
    /\ pc = "watch"
    /\ clock >= OverallLimit
    /\ seenTuning
    /\ Leave("tooLong")
    /\ UNCHANGED <<stop, radioVars, cache, saved, keyedFlag, faults, basis, orphan>>

WatchEnds ==
    /\ pc = "watch"
    /\ clock >= OverallLimit
    /\ Leave("tooLong")
    /\ UNCHANGED <<stop, radioVars, cache, saved, keyedFlag, faults, basis, orphan>>

WatchStopped ==
    /\ pc = "watch"
    /\ clock < OverallLimit
    /\ stop
    /\ Leave("stopped")
    /\ UNCHANGED <<stop, radioVars, cache, saved, keyedFlag, faults, basis, orphan>>

\* Write "C1|status"; the tuner answers with its state, or not at all.
AskStatus ==
    /\ pc = "watch"
    /\ clock < OverallLimit
    /\ ~stop
    /\ pc' = "read"
    /\ \/ UNCHANGED replies
       \/ /\ Len(replies) < MaxBacklog
          /\ replies' = Append(replies, IF device = "tuning" THEN 1 ELSE 0)
    /\ UNCHANGED <<stop, radioVars, cache, saved, keyedFlag, watchVars, outcome,
                   burst, device, faults, basis, orphan>>

\* The next line: what is left of the burst comes before any reply.
NextLine ==
    IF burst > 0 THEN IF burst = 2 THEN 1 ELSE 0 ELSE Head(replies)

TakeLine ==
    IF burst > 0
    THEN burst' = burst - 1 /\ UNCHANGED replies
    ELSE replies' = Tail(replies) /\ UNCHANGED burst

LineWaits == burst > 0 \/ replies # <<>>

StayInWatch == pc' = "watch" /\ TakeLine /\ UNCHANGED <<outcome, clock, device>>

ReadOne ==
    /\ pc = "read"
    /\ LineWaits /\ NextLine = 1
    /\ StayInWatch
    /\ seenTuning' = TRUE
    /\ UNCHANGED <<stop, radioVars, cache, saved, keyedFlag, faults, basis, orphan>>

\* Mutant: tuning=0 after a 1 ends the watch at any time.
ReadZeroAtOnce ==
    /\ pc = "read"
    /\ LineWaits /\ NextLine = 0
    /\ \/ seenTuning /\ Leave("tuned")
       \/ ~seenTuning /\ StayInWatch /\ UNCHANGED seenTuning
    /\ UNCHANGED <<stop, radioVars, cache, saved, keyedFlag, faults, basis, orphan>>

\* A 0 is the end of a tune, the end of the burst (disarm), a tuner that
\* never started, or nothing yet.
ReadZero ==
    /\ pc = "read"
    /\ LineWaits /\ NextLine = 0
    /\ \/ seenTuning /\ clock >= IgnoreEarly /\ Leave("tuned")
       \/ seenTuning /\ clock < IgnoreEarly /\ StayInWatch /\ seenTuning' = FALSE
       \/ ~seenTuning /\ clock > NoStartGiveUp /\ Leave("notStarted")
       \/ ~seenTuning /\ clock <= NoStartGiveUp /\ StayInWatch /\ UNCHANGED seenTuning
    /\ UNCHANGED <<stop, radioVars, cache, saved, keyedFlag, faults, basis, orphan>>

\* Nothing for two seconds, or a line without a state: round again.  The
\* burst is there before either.
ReadNothing ==
    /\ pc = "read"
    /\ burst = 0
    /\ pc' = "watch"
    /\ UNCHANGED <<stop, radioVars, cache, saved, keyedFlag, watchVars, outcome,
                   deviceVars, faults, basis, orphan>>

-----------------------------------------------------------------------------
(* The deferred restore: every error in it is dropped                      *)

Unkey ==
    /\ pc = "unkey"
    /\ keyed' = FALSE /\ orphan' = FALSE
    /\ pc' = "restoreMode"
    /\ UNCHANGED <<stop, power, mode, cache, saved, keyedFlag, watchVars,
                   outcome, deviceVars, faults, basis>>

RestoreMode ==
    /\ pc = "restoreMode"
    /\ mode' = IF saved.mode = "" THEN mode ELSE CodeOf[saved.mode]
    /\ pc' = "restorePower"
    /\ UNCHANGED <<stop, power, keyed, cache, saved, keyedFlag, watchVars,
                   outcome, deviceVars, faults, basis, orphan>>

\* Mutant: the power is left at 15 W.
ForgetPower ==
    /\ pc = "restorePower"
    /\ UNCHANGED <<power, stop, mode, keyed, cache, watchVars, burst, replies, faults, orphan>>
    /\ Finish

\* Mutant: restored without asking whether there is anything to restore.
RestoreUnread ==
    /\ pc = "restorePower"
    /\ power' = saved.power
    /\ UNCHANGED <<stop, mode, keyed, cache, watchVars, burst, replies, faults, orphan>>
    /\ Finish

RestorePower ==
    /\ pc = "restorePower"
    /\ power' = IF saved.power = 0 THEN power ELSE saved.power
    /\ UNCHANGED <<stop, mode, keyed, cache, watchVars, burst, replies, faults, orphan>>
    /\ Finish

\* A write of the restore fails and the next is made all the same.
RestoreFails ==
    /\ Fault
    /\ UNCHANGED <<stop, radioVars, cache, watchVars, burst, replies>>
    /\ \/ pc = "restorePower" /\ Finish /\ UNCHANGED orphan
       \/ /\ \/ pc = "unkey" /\ pc' = "restoreMode" /\ orphan' = keyed
             \/ pc = "restoreMode" /\ pc' = "restorePower" /\ UNCHANGED orphan
          /\ UNCHANGED <<saved, keyedFlag, outcome, device, basis>>

-----------------------------------------------------------------------------
(* Around the sequence                                                     *)

\* pollOnce stores what each of its questions brought: either may have failed.
Poll ==
    /\ cache' \in {Seen, [cache EXCEPT !.power = power], [cache EXCEPT !.mode = Seen.mode]}
    /\ UNCHANGED <<pc, stop, radioVars, saved, keyedFlag, watchVars, outcome,
                   deviceVars, faults, basis, orphan>>

\* The operator sets power and mode, from the panel or at the radio.
OperatorSets ==
    /\ power' \in Powers /\ mode' \in Codes
    /\ basis' = IF active THEN "disturbed" ELSE basis
    /\ UNCHANGED <<pc, stop, keyed, cache, saved, keyedFlag, watchVars, outcome,
                   deviceVars, faults, orphan>>

\* Somebody drops PTT: lockdown, the panic button, a closing audio socket.
OperatorUnkeys ==
    /\ keyed' = FALSE /\ orphan' = FALSE
    /\ UNCHANGED <<pc, stop, power, mode, cache, saved, keyedFlag, watchVars,
                   outcome, deviceVars, faults, basis>>

Stop ==
    /\ stop' = TRUE
    /\ UNCHANGED <<pc, radioVars, cache, saved, keyedFlag, watchVars, outcome,
                   deviceVars, faults, basis, orphan>>

\* The tuner starts when it likes; a real tune takes three seconds and more.
DeviceStarts ==
    /\ pc \in {"watch", "read"}
    /\ device = "waiting"
    /\ device' = "tuning"
    /\ UNCHANGED <<pc, stop, radioVars, cache, saved, keyedFlag, watchVars,
                   outcome, burst, replies, faults, basis, orphan>>

DeviceFinishes ==
    /\ pc \in {"watch", "read"}
    /\ device = "tuning"
    /\ clock >= IgnoreEarly
    /\ device' = "done"
    /\ UNCHANGED <<pc, stop, radioVars, cache, saved, keyedFlag, watchVars,
                   outcome, burst, replies, faults, basis, orphan>>

\* The burst came within milliseconds: it is read before a second is over.
Tick ==
    /\ pc \in {"watch", "read"}
    /\ burst = 0
    /\ clock < OverallLimit
    /\ clock' = clock + 1
    /\ UNCHANGED <<pc, stop, radioVars, cache, saved, keyedFlag, seenTuning,
                   outcome, deviceVars, faults, basis, orphan>>

-----------------------------------------------------------------------------
SetUp ==
    \/ Begin \/ Save \/ SetLowPower \/ SetCW \/ Connect \/ Key \/ Autotune
    \/ SetupFails \/ ConnectFails

Watch ==
    WatchEnds \/ WatchStopped \/ AskStatus \/ ReadOne \/ ReadZero \/ ReadNothing

Restore == Unkey \/ RestoreMode \/ RestorePower \/ RestoreFails

Around ==
    \/ Poll \/ OperatorSets \/ OperatorUnkeys \/ Stop
    \/ ConnectionLost \/ DeviceStarts \/ DeviceFinishes \/ Tick

Next == SetUp \/ Watch \/ Restore \/ Around

Spec == Init /\ [][Next]_vars

\* The goroutine that runs Tune goes on, and time passes.  The connection need
\* not break.
Fairness ==
    /\ WF_vars(active /\ (SetUp \/ Watch \/ Restore))
    /\ SF_vars(Tick)

FairSpec == Spec /\ Fairness
-----------------------------------------------------------------------------
(* Properties                                                              *)

\* As long as the carrier the tune has put up is on the air the radio is at 15 W
\* in CW, in the sequence, in its restore and after it: the restore comes behind
\* the unkey.  Not if the operator sets the radio, and not once the unkey itself
\* has failed: its error is dropped, and mode and power are put back under the
\* carrier (tgxl.go:126-135).
KeyedOnlyAtTunePower ==
    keyed /\ basis # "disturbed" => orphan \/ (power = TunePower /\ mode = CodeOf[CW])

\* "7 must happen on every path out" (tgxl.go:26): unless a write failed no
\* path ends with the carrier up.
UnkeyedAtTheEnd == ~active /\ faults = 0 => ~keyed

\* "Tuned" is only said of a tuner that finished a tune: the burst on
\* connecting is never taken for one (tgxl.go:44-45).
TunedMeansTuned == outcome = "tuned" => device = "done"

Finishes == pc # "idle" /\ pc' = "idle"

\* A sequence that found the cache true, met no fault and was left alone hands
\* the radio back as it was (tgxl.go:123-124): at its power, and in a mode that
\* the host calls by the same name, which is all it knows of it.  Of two modes
\* called DATA it hands back the one it has the code of.
HandsBackWhenFresh ==
    [][Finishes /\ basis = "fresh" /\ faults' = 0
          => power' = saved.power /\ NameOf[mode'] = saved.mode]_vars

\* Every tune ends, whatever the tuner answers.
TuneEnds == active ~> ~active
=============================================================================
