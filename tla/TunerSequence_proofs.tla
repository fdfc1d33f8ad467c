------------------------ MODULE TunerSequence_proofs ------------------------
(***************************************************************************)
(* Proofs about TunerSequence, for any powers, modes, limits and number of *)
(* failed writes: what the carrier goes up with, that it comes down on     *)
(* every way out, what "tuned" rests on, and that the radio is handed back.*)
(***************************************************************************)
EXTENDS TunerSequence, TLAPS

\* The assumption, number by number.
LEMMA Limits ==
  /\ IgnoreEarly \in Nat /\ NoStartGiveUp \in Nat /\ OverallLimit \in Nat
  /\ 0 < IgnoreEarly /\ IgnoreEarly < NoStartGiveUp /\ NoStartGiveUp < OverallLimit
  /\ MaxFaults \in Nat /\ MaxBacklog \in Nat
<1>1. IgnoreEarly \in Nat \ {0} /\ NoStartGiveUp \in Nat \ {0} /\ OverallLimit \in Nat \ {0}
  BY TunerAssumption DEF TunerAssumption
<1>2. IgnoreEarly < NoStartGiveUp /\ NoStartGiveUp < OverallLimit
  BY TunerAssumption DEF TunerAssumption
<1>3. MaxFaults \in Nat /\ MaxBacklog \in Nat
  BY TunerAssumption DEF TunerAssumption
<1>4. QED
  BY <1>1, <1>2, <1>3

LEMMA Settings ==
  /\ TunePower \in Powers /\ 0 \notin Powers
  /\ CW \in Names /\ CodeOf[CW] \in Codes /\ "" \notin Names
  /\ \A c \in Codes : NameOf[c] \in Names \cup {""}
  /\ \A n \in Names : CodeOf[n] \in Codes /\ NameOf[CodeOf[n]] = n
BY TunerAssumption DEF TunerAssumption

Watching == {"watch", "read"}
CarrierUp == {"autotune", "unkey"} \cup Watching
Leaving == {"unkey", "restoreMode", "restorePower"}

-----------------------------------------------------------------------------
(* Types                                                                   *)

\* What Leave and Finish assign.
LEMMA LeaveKeepsTypes ==
  ASSUME TypeOK, NEW why \in {"error", "stopped", "tuned", "notStarted", "tooLong"}, Leave(why)
  PROVE  /\ outcome' \in {"none", "error", "stopped", "tuned", "notStarted", "tooLong"}
         /\ pc' \in Steps /\ seenTuning' \in BOOLEAN /\ clock' \in 0..OverallLimit
         /\ burst' \in 0..3 /\ replies' \in Seq({0, 1}) /\ Len(replies') <= MaxBacklog
         /\ device' \in {"waiting", "tuning", "done"}
<1>1. 0 \in 0..OverallLimit /\ 0 \in 0..3
  BY Limits
<1>2. <<>> \in Seq({0, 1}) /\ Len(<<>>) <= MaxBacklog
  BY Limits
<1>3. QED
  BY <1>1, <1>2 DEF TypeOK, Leave, Steps

LEMMA TakeLineKeepsTypes ==
  ASSUME TypeOK, LineWaits, TakeLine
  PROVE  burst' \in 0..3 /\ replies' \in Seq({0, 1}) /\ Len(replies') <= MaxBacklog
<1>1. CASE burst > 0
  BY <1>1 DEF TypeOK, TakeLine
<1>2. CASE burst = 0
  <2>1. replies \in Seq({0, 1}) /\ replies # <<>> /\ Len(replies) <= MaxBacklog
    BY <1>2 DEF TypeOK, LineWaits
  <2>2. Tail(replies) \in Seq({0, 1}) /\ Len(Tail(replies)) <= MaxBacklog
    BY <2>1, Limits
  <2>3. QED
    BY <1>2, <2>2 DEF TypeOK, TakeLine
<1>3. QED
  BY <1>1, <1>2 DEF TypeOK

LEMMA SetUpKeepsTypes == ASSUME TypeOK, SetUp PROVE TypeOK'
<1> USE DEF TypeOK, radioVars, deviceVars, watchVars, Steps
<1>1. CASE Begin
  BY <1>1 DEF Begin
<1>2. CASE Save
  BY <1>2 DEF Save
<1>3. CASE SetLowPower
  BY <1>3, Settings DEF SetLowPower
<1>4. CASE SetCW
  BY <1>4, Settings DEF SetCW
<1>5. CASE Connect
  <2>1. <<>> \in Seq({0, 1}) /\ Len(<<>>) <= MaxBacklog
    BY Limits
  <2>2. QED
    BY <1>5, <2>1 DEF Connect
<1>6. CASE Key
  BY <1>6 DEF Key
<1>7. CASE Autotune
  <2>1. 0 \in 0..OverallLimit
    BY Limits
  <2>2. QED
    BY <1>7, <2>1 DEF Autotune
<1>8. CASE SetupFails
  BY <1>8, LeaveKeepsTypes, Limits DEF SetupFails, Fault
<1>9. CASE ConnectFails
  BY <1>9, LeaveKeepsTypes DEF ConnectFails
<1>10. QED
  BY <1>1, <1>2, <1>3, <1>4, <1>5, <1>6, <1>7, <1>8, <1>9 DEF SetUp

LEMMA WatchKeepsTypes == ASSUME TypeOK, Watch PROVE TypeOK'
<1> USE DEF TypeOK, radioVars, deviceVars, watchVars, Steps
<1>1. CASE WatchEnds
  BY <1>1, LeaveKeepsTypes DEF WatchEnds
<1>2. CASE WatchStopped
  BY <1>2, LeaveKeepsTypes DEF WatchStopped
<1>3. CASE AskStatus
  BY <1>3, Limits DEF AskStatus
<1>4. CASE ReadOne
  BY <1>4, TakeLineKeepsTypes DEF ReadOne, StayInWatch
<1>5. CASE ReadZero
  <2>1. CASE StayInWatch /\ seenTuning' \in BOOLEAN
    BY <1>5, <2>1, TakeLineKeepsTypes DEF ReadZero, StayInWatch
  <2>2. CASE Leave("tuned")
    BY <1>5, <2>2, LeaveKeepsTypes DEF ReadZero
  <2>3. CASE Leave("notStarted")
    BY <1>5, <2>3, LeaveKeepsTypes DEF ReadZero
  <2>4. QED
    BY <1>5, <2>1, <2>2, <2>3 DEF ReadZero
<1>6. CASE ReadNothing
  BY <1>6 DEF ReadNothing
<1>7. QED
  BY <1>1, <1>2, <1>3, <1>4, <1>5, <1>6 DEF Watch

\* What the radio is set to is a reading, and a reading is a setting or nothing.
LEMMA ReadingsOfTheRadio ==
  ASSUME TypeOK
  PROVE  /\ Seen \in Readings /\ Unread \in Readings
         /\ [cache EXCEPT !.power = power] \in Readings
         /\ [cache EXCEPT !.mode = Seen.mode] \in Readings
         /\ saved.power \in Powers \cup {0} /\ saved.mode \in Names \cup {""}
<1>1. NameOf[mode] \in Names \cup {""}
  BY Settings DEF TypeOK
<1>2. Seen \in Readings /\ Seen.mode \in Names \cup {""}
  BY <1>1 DEF TypeOK, Seen, Readings
<1>3. QED
  BY <1>2 DEF TypeOK, Unread, Readings

LEMMA FinishKeepsTypes ==
  ASSUME TypeOK, Finish
  PROVE  /\ pc' \in Steps /\ saved' \in Readings /\ keyedFlag' \in BOOLEAN
         /\ outcome' \in {"none", "error", "stopped", "tuned", "notStarted", "tooLong"}
         /\ device' \in {"waiting", "tuning", "done"}
         /\ basis' \in {"fresh", "stale", "disturbed"}
BY ReadingsOfTheRadio DEF Finish, Steps

LEMMA RestoreKeepsTypes == ASSUME TypeOK, Restore PROVE TypeOK'
<1> USE DEF TypeOK, radioVars, deviceVars, watchVars, Steps
<1>1. CASE Unkey
  BY <1>1 DEF Unkey
<1>2. CASE RestoreMode
  <2>1. mode' \in Codes
    BY <1>2, ReadingsOfTheRadio, Settings DEF RestoreMode
  <2>2. QED
    BY <1>2, <2>1 DEF RestoreMode
<1>3. CASE RestorePower
  BY <1>3, ReadingsOfTheRadio, FinishKeepsTypes DEF RestorePower
<1>4. CASE RestoreFails
  <2>1. faults' \in 0..MaxFaults
    BY <1>4, Limits DEF RestoreFails, Fault
  <2>2. QED
    BY <1>4, <2>1, FinishKeepsTypes DEF RestoreFails
<1>5. QED
  BY <1>1, <1>2, <1>3, <1>4 DEF Restore

LEMMA AroundKeepsTypes == ASSUME TypeOK, Around PROVE TypeOK'
<1> USE DEF TypeOK, radioVars, deviceVars, watchVars, Steps
<1>1. CASE Poll
  <2>1. cache' \in Readings
    BY <1>1, ReadingsOfTheRadio DEF Poll
  <2>2. QED
    BY <1>1, <2>1, SMTT(30) DEF Poll
<1>2. CASE OperatorSets
  BY <1>2 DEF OperatorSets
<1>3. CASE OperatorUnkeys
  BY <1>3, ZenonT(60) DEF OperatorUnkeys
<1>4. CASE Stop
  BY <1>4 DEF Stop
<1>5. CASE ConnectionLost
  BY <1>5, LeaveKeepsTypes DEF ConnectionLost
<1>6. CASE DeviceStarts \/ DeviceFinishes
  BY <1>6 DEF DeviceStarts, DeviceFinishes
<1>7. CASE Tick
  BY <1>7, Limits DEF Tick
<1>8. QED
  BY <1>1, <1>2, <1>3, <1>4, <1>5, <1>6, <1>7 DEF Around

\* Every variable keeps its type: readings come from the radio or are unread, and
\* the backlog stays in its bound.
THEOREM TunerTypeCorrect == Spec => []TypeOK
<1>1. Init => TypeOK
  <2>1. 0 \in 0..OverallLimit /\ 0 \in 0..MaxFaults
    BY Limits
  <2>2. Unread \in Readings
    BY DEF Unread, Readings
  <2>3. <<>> \in Seq({0, 1}) /\ Len(<<>>) <= MaxBacklog
    BY Limits
  <2>4. 0 \in 0..3
    OBVIOUS
  <2>5. QED
    BY <2>1, <2>2, <2>3, <2>4, ZenonT(60) DEF Init, TypeOK, Steps
<1>2. TypeOK /\ [Next]_vars => TypeOK'
  <2>1. TypeOK /\ UNCHANGED vars => TypeOK'
    BY DEF TypeOK, vars, radioVars, deviceVars, watchVars
  <2>2. QED
    BY <2>1, SetUpKeepsTypes, WatchKeepsTypes, RestoreKeepsTypes, AroundKeepsTypes DEF Next
<1>3. QED
  BY <1>1, <1>2, PTL DEF Spec

-----------------------------------------------------------------------------
(* The carrier                                                             *)

\* The local variable keyed says whether the sequence is past its key press,
\* and only then is the carrier up, unless a write failed.
CarrierKnown ==
    /\ pc \in CarrierUp => keyedFlag = TRUE
    /\ pc \in {"idle", "save", "lowPower", "cw", "connect", "key"} => keyedFlag = FALSE
    /\ faults = 0 /\ keyed = TRUE => pc \in CarrierUp

\* What has been set so far stays set while nobody else sets it.
SetForTune ==
    basis # "disturbed" =>
        /\ pc \in {"cw", "connect", "key"} \cup CarrierUp => power = TunePower
        /\ pc \in {"connect", "key"} \cup CarrierUp => mode = CodeOf[CW]

\* A carrier outside those steps is one whose unkey failed.
CarrierOrKnown == keyed = TRUE /\ orphan = FALSE => pc \in CarrierUp

CarrierInv == CarrierKnown /\ SetForTune /\ CarrierOrKnown

LEMMA StepKeepsCarrierKnown ==
  ASSUME TypeOK, CarrierKnown, [Next]_vars
  PROVE  CarrierKnown'
<1> USE DEF CarrierKnown, CarrierUp, Watching, radioVars, deviceVars, watchVars, Leave, Finish
<1>1. CASE SetUp
  BY <1>1 DEF SetUp, Begin, Save, SetLowPower, SetCW, Connect, Key, Autotune, ConnectFails,
              SetupFails, Fault, TypeOK
<1>2. CASE Watch
  BY <1>2 DEF Watch, WatchEnds, WatchStopped, AskStatus, ReadOne, ReadZero, ReadNothing,
              StayInWatch
<1>3. CASE Unkey \/ RestoreMode \/ RestorePower
  BY <1>3 DEF Unkey, RestoreMode, RestorePower
<1>4. CASE RestoreFails
  <2>1. faults' # 0
    BY <1>4 DEF RestoreFails, Fault, TypeOK
  <2>2. QED
    BY <1>4, <2>1 DEF RestoreFails
<1>5. CASE Around
  BY <1>5 DEF Around, Poll, OperatorSets, OperatorUnkeys, Stop, ConnectionLost, DeviceStarts,
              DeviceFinishes, Tick
<1>6. CASE UNCHANGED vars
  BY <1>6 DEF vars
<1>7. QED
  BY <1>1, <1>2, <1>3, <1>4, <1>5, <1>6 DEF Next, Restore

LEMMA StepKeepsSetForTune ==
  ASSUME TypeOK, CarrierKnown, SetForTune, [Next]_vars
  PROVE  SetForTune'
<1> USE DEF SetForTune, CarrierKnown, CarrierUp, Watching, radioVars, deviceVars, watchVars,
            Leave, Finish
<1>1. CASE SetUp
  BY <1>1 DEF SetUp, Begin, Save, SetLowPower, SetCW, Connect, Key, Autotune, ConnectFails,
              SetupFails
<1>2. CASE Watch
  BY <1>2 DEF Watch, WatchEnds, WatchStopped, AskStatus, ReadOne, ReadZero, ReadNothing,
              StayInWatch
<1>3. CASE Restore
  BY <1>3 DEF Restore, Unkey, RestoreMode, RestorePower, RestoreFails
<1>4. CASE Around
  BY <1>4 DEF Around, Poll, OperatorSets, OperatorUnkeys, Stop, ConnectionLost, DeviceStarts,
              DeviceFinishes, Tick, active
<1>5. CASE UNCHANGED vars
  BY <1>5 DEF vars
<1>6. QED
  BY <1>1, <1>2, <1>3, <1>4, <1>5 DEF Next

LEMMA StepKeepsCarrierOrKnown ==
  ASSUME TypeOK, CarrierKnown, CarrierOrKnown, [Next]_vars
  PROVE  CarrierOrKnown'
<1> USE DEF CarrierOrKnown, CarrierKnown, CarrierUp, Watching, radioVars, deviceVars, watchVars,
            Leave, Finish
<1>1. CASE SetUp
  BY <1>1 DEF SetUp, Begin, Save, SetLowPower, SetCW, Connect, Key, Autotune, ConnectFails,
              SetupFails, Fault, TypeOK
<1>2. CASE Watch
  BY <1>2 DEF Watch, WatchEnds, WatchStopped, AskStatus, ReadOne, ReadZero, ReadNothing,
              StayInWatch
<1>3. CASE Restore
  BY <1>3 DEF Restore, Unkey, RestoreMode, RestorePower, RestoreFails, TypeOK
<1>4. CASE Around
  BY <1>4 DEF Around, Poll, OperatorSets, OperatorUnkeys, Stop, ConnectionLost, DeviceStarts,
              DeviceFinishes, Tick
<1>5. CASE UNCHANGED vars
  BY <1>5 DEF vars
<1>6. QED
  BY <1>1, <1>2, <1>3, <1>4, <1>5 DEF Next

LEMMA CarrierInvariant == Spec => []CarrierInv
<1>1. Init => CarrierInv
  BY DEF Init, CarrierInv, CarrierKnown, SetForTune, CarrierOrKnown, CarrierUp, Watching
<1>2. TypeOK /\ CarrierInv /\ [Next]_vars => CarrierInv'
  BY StepKeepsCarrierKnown, StepKeepsSetForTune, StepKeepsCarrierOrKnown DEF CarrierInv
<1>3. QED
  BY <1>1, <1>2, TunerTypeCorrect, PTL DEF Spec

\* While the tune's carrier is on the air the radio is at the tuning power in CW,
\* in the restore and after it too, unless somebody else sets the radio or the
\* deferred unkey itself has failed.
THEOREM TunerKeyedAtTunePower == Spec => []KeyedOnlyAtTunePower
<1>1. TypeOK /\ CarrierInv => KeyedOnlyAtTunePower
  BY DEF TypeOK, CarrierInv, CarrierOrKnown, SetForTune, CarrierUp, Watching,
         KeyedOnlyAtTunePower
<1>2. QED
  BY <1>1, CarrierInvariant, TunerTypeCorrect, PTL

\* No way out of the sequence leaves the carrier up, unless a write failed.
THEOREM TunerUnkeyedAtTheEnd == Spec => []UnkeyedAtTheEnd
<1>1. CarrierInv /\ TypeOK => UnkeyedAtTheEnd
  BY DEF CarrierInv, CarrierKnown, CarrierUp, Watching, UnkeyedAtTheEnd, active, TypeOK
<1>2. QED
  BY <1>1, CarrierInvariant, TunerTypeCorrect, PTL

-----------------------------------------------------------------------------
(* What "tuned" rests on                                                   *)

\* The watch's locals outside the watch.
WatchIdle ==
    /\ pc \notin Watching => ~seenTuning /\ clock = 0 /\ replies = <<>>
    /\ pc \notin Leaving => outcome = "none"

\* The burst is read within the first second.
BurstFirst == burst > 0 => clock = 0

\* The replies on their way tell the tuner's states in order, and a 1 that the
\* watch has taken from behind the burst was the tuner's own.
RepliesInOrder ==
    /\ device = "waiting" => \A i \in DOMAIN replies : replies[i] = 0
    /\ device = "tuning" => \A i, j \in DOMAIN replies : i < j => replies[i] <= replies[j]
    /\ burst = 0 /\ seenTuning => device # "waiting"
    /\ burst = 0 /\ seenTuning /\ device = "tuning" =>
           \A i \in DOMAIN replies : replies[i] = 1

TunedInv == WatchIdle /\ BurstFirst /\ RepliesInOrder /\ TunedMeansTuned

LEMMA LeaveKeepsTuned ==
  ASSUME TypeOK, NEW why, Leave(why), why = "tuned" => device = "done"
  PROVE  TunedInv'
<1>1. pc' \in Leaving /\ outcome' = why /\ ~seenTuning' /\ clock' = 0 /\ burst' = 0
      /\ replies' = <<>> /\ device' = device
  BY DEF Leave, Leaving
<1>2. DOMAIN replies' = {}
  BY <1>1
<1>3. QED
  BY <1>1, <1>2 DEF TunedInv, WatchIdle, BurstFirst, RepliesInOrder, TunedMeansTuned, Leaving,
                    Watching

\* A 0 behind the burst, after a 1 behind the burst, is the end of a tune.
LEMMA ZeroAfterOne ==
  ASSUME TypeOK, TunedInv, burst = 0, seenTuning, LineWaits, NextLine = 0
  PROVE  device = "done"
<1>1. replies \in Seq({0, 1}) /\ replies # <<>> /\ Head(replies) = 0
  BY DEF TypeOK, LineWaits, NextLine
<1>2. 1 \in DOMAIN replies /\ replies[1] = 0
  BY <1>1
<1>3. QED
  BY <1>2 DEF TunedInv, RepliesInOrder, TypeOK

\* Taking a line away, or asking for one, keeps the replies in order.
LEMMA TakeKeepsOrder ==
  ASSUME TypeOK, TunedInv, LineWaits, TakeLine, UNCHANGED device,
         pc' = "watch", UNCHANGED <<outcome, clock>>, pc = "read",
         \/ NextLine = 1 /\ seenTuning' = TRUE
         \/ NextLine = 0 /\ seenTuning' = FALSE
  PROVE  TunedInv'
<1>1. WatchIdle' /\ TunedMeansTuned'
  BY DEF TunedInv, WatchIdle, TunedMeansTuned, Watching, Leaving
<1>2. CASE burst > 0
  <2>1. UNCHANGED replies /\ burst' = burst - 1 /\ burst \in 1..3
    BY <1>2 DEF TakeLine, TypeOK
  <2>2. BurstFirst'
    BY <2>1 DEF TunedInv, BurstFirst
  <2>3. burst' = 0 => seenTuning' = FALSE
    BY <2>1, <1>2 DEF NextLine
  <2>4. QED
    BY <1>1, <2>1, <2>2, <2>3 DEF TunedInv, RepliesInOrder
<1>3. CASE burst = 0
  <2>1. /\ replies \in Seq({0, 1}) /\ replies # <<>> /\ Head(replies) = NextLine
        /\ replies' = Tail(replies) /\ burst' = 0
    BY <1>3 DEF TypeOK, LineWaits, TakeLine, NextLine
  <2>2. 1 \in DOMAIN replies /\ replies[1] = NextLine
    BY <2>1
  <2>3. /\ \A i \in DOMAIN replies' : i \in Nat /\ i + 1 \in DOMAIN replies
                                     /\ replies'[i] = replies[i + 1] /\ replies'[i] \in {0, 1}
    BY <2>1
  <2>4. \A i \in DOMAIN replies : replies[i] \in {0, 1}
    BY <2>1
  <2>5. BurstFirst'
    BY <2>1 DEF BurstFirst
  <2>6. device = "waiting" => \A i \in DOMAIN replies' : replies'[i] = 0
    BY <2>3 DEF TunedInv, RepliesInOrder
  <2>7. device = "tuning" =>
           \A i, j \in DOMAIN replies' : i < j => replies'[i] <= replies'[j]
    BY <2>3 DEF TunedInv, RepliesInOrder
  <2>8. seenTuning' => device # "waiting"
    BY <2>2 DEF TunedInv, RepliesInOrder
  <2>9. seenTuning' /\ device = "tuning" => \A i \in DOMAIN replies' : replies'[i] = 1
    <3>1. SUFFICES ASSUME seenTuning', device = "tuning", NEW i \in DOMAIN replies'
                   PROVE  replies'[i] = 1
      OBVIOUS
    <3>2. NextLine = 1
      BY <3>1
    <3>3. replies[1] <= replies[i + 1]
      BY <3>1, <2>2, <2>3 DEF TunedInv, RepliesInOrder
    <3>4. QED
      BY <3>2, <3>3, <2>2, <2>3
  <2>10. QED
    BY <1>1, <2>1, <2>5, <2>6, <2>7, <2>8, <2>9 DEF TunedInv, RepliesInOrder
<1>4. QED
  BY <1>2, <1>3 DEF TypeOK

LEMMA WatchKeepsTuned == ASSUME TypeOK, TunedInv, Watch PROVE TunedInv'
<1>1. CASE WatchEnds
  BY <1>1, LeaveKeepsTuned DEF WatchEnds
<1>2. CASE WatchStopped
  BY <1>2, LeaveKeepsTuned DEF WatchStopped
<1>3. CASE AskStatus
  <2>1. pc = "watch" /\ pc' = "read" /\ UNCHANGED <<seenTuning, clock, outcome, burst, device>>
    BY <1>3 DEF AskStatus, watchVars
  <2>2. WatchIdle' /\ BurstFirst' /\ TunedMeansTuned'
    BY <2>1 DEF TunedInv, WatchIdle, BurstFirst, TunedMeansTuned, Watching, Leaving
  <2>3. CASE UNCHANGED replies
    BY <2>1, <2>2, <2>3 DEF TunedInv, RepliesInOrder
  <2>4. CASE replies' = Append(replies, IF device = "tuning" THEN 1 ELSE 0)
    <3>1. \A i \in DOMAIN replies' :
             \/ i \in DOMAIN replies /\ replies'[i] = replies[i] /\ replies'[i] \in {0, 1}
             \/ /\ i = Len(replies) + 1
                /\ replies'[i] = IF device = "tuning" THEN 1 ELSE 0
      BY <2>4 DEF TypeOK
    <3>2. /\ \A i \in DOMAIN replies : i \in Nat /\ i < Len(replies) + 1
          /\ Len(replies) \in Nat
      BY DEF TypeOK
    <3>3. device = "waiting" => \A i \in DOMAIN replies' : replies'[i] = 0
      BY <3>1 DEF TunedInv, RepliesInOrder
    <3>4. device = "tuning" =>
             \A i, j \in DOMAIN replies' : i < j => replies'[i] <= replies'[j]
      BY <3>1, <3>2 DEF TunedInv, RepliesInOrder
    <3>5. burst = 0 /\ seenTuning /\ device = "tuning" =>
             \A i \in DOMAIN replies' : replies'[i] = 1
      BY <3>1 DEF TunedInv, RepliesInOrder
    <3>6. QED
      BY <2>1, <2>2, <3>3, <3>4, <3>5 DEF TunedInv, RepliesInOrder
  <2>5. QED
    BY <1>3, <2>3, <2>4 DEF AskStatus
<1>4. CASE ReadOne
  BY <1>4, TakeKeepsOrder DEF ReadOne, StayInWatch
<1>5. CASE ReadZero
  <2>1. CASE seenTuning /\ clock >= IgnoreEarly /\ Leave("tuned")
    <3>1. burst = 0
      BY <2>1, Limits DEF TunedInv, BurstFirst, TypeOK
    <3>2. device = "done"
      BY <1>5, <2>1, <3>1, ZeroAfterOne DEF ReadZero
    <3>3. QED
      BY <2>1, <3>2, LeaveKeepsTuned
  <2>2. CASE Leave("notStarted")
    BY <2>2, LeaveKeepsTuned
  <2>3. CASE StayInWatch /\ seenTuning' = FALSE
    BY <1>5, <2>3, TakeKeepsOrder DEF ReadZero, StayInWatch
  <2>4. CASE StayInWatch /\ ~seenTuning /\ UNCHANGED seenTuning
    <3>1. seenTuning' = FALSE
      BY <2>4 DEF TypeOK
    <3>2. QED
      BY <2>3, <2>4, <3>1
  <2>5. QED
    BY <1>5, <2>1, <2>2, <2>3, <2>4 DEF ReadZero
<1>6. CASE ReadNothing
  BY <1>6 DEF ReadNothing, TunedInv, WatchIdle, BurstFirst, RepliesInOrder, TunedMeansTuned,
              Watching, Leaving, deviceVars, watchVars
<1>7. QED
  BY <1>1, <1>2, <1>3, <1>4, <1>5, <1>6 DEF Watch

LEMMA SetUpKeepsTuned == ASSUME TypeOK, TunedInv, SetUp PROVE TunedInv'
<1> USE DEF WatchIdle, BurstFirst, RepliesInOrder, TunedMeansTuned, Watching, Leaving,
            deviceVars, watchVars
<1>1. CASE Begin \/ Save \/ SetLowPower \/ SetCW \/ Key
  BY <1>1 DEF TunedInv, Begin, Save, SetLowPower, SetCW, Key
<1>2. CASE Connect
  BY <1>2 DEF TunedInv, Connect
<1>3. CASE Autotune
  BY <1>3 DEF TunedInv, Autotune
<1>4. CASE SetupFails \/ ConnectFails
  BY <1>4, LeaveKeepsTuned DEF SetupFails, ConnectFails
<1>5. QED
  BY <1>1, <1>2, <1>3, <1>4 DEF SetUp

LEMMA RestoreKeepsTuned == ASSUME TypeOK, TunedInv, Restore PROVE TunedInv'
<1> USE DEF WatchIdle, BurstFirst, RepliesInOrder, TunedMeansTuned, Watching, Leaving,
            deviceVars, watchVars, Finish, TunedInv
<1>1. CASE Unkey
  BY <1>1 DEF Unkey
<1>2. CASE RestoreMode
  BY <1>2 DEF RestoreMode
<1>3. CASE RestorePower
  BY <1>3 DEF RestorePower
<1>4. CASE RestoreFails
  BY <1>4 DEF RestoreFails
<1>5. QED
  BY <1>1, <1>2, <1>3, <1>4 DEF Restore

LEMMA AroundKeepsTuned == ASSUME TypeOK, TunedInv, Around PROVE TunedInv'
<1> USE DEF WatchIdle, BurstFirst, RepliesInOrder, TunedMeansTuned, Watching, Leaving,
            deviceVars, watchVars
<1>1. CASE Poll \/ OperatorSets \/ OperatorUnkeys \/ Stop
  BY <1>1 DEF TunedInv, Poll, OperatorSets, OperatorUnkeys, Stop
<1>2. CASE ConnectionLost
  BY <1>2, LeaveKeepsTuned DEF ConnectionLost
<1>3. CASE DeviceStarts
  <2>1. \A i \in DOMAIN replies : replies[i] = 0
    BY <1>3 DEF TunedInv, DeviceStarts
  <2>2. QED
    BY <1>3, <2>1 DEF TunedInv, DeviceStarts
<1>4. CASE DeviceFinishes
  BY <1>4 DEF TunedInv, DeviceFinishes
<1>5. CASE Tick
  BY <1>5 DEF TunedInv, Tick
<1>6. QED
  BY <1>1, <1>2, <1>3, <1>4, <1>5 DEF Around

LEMMA TunedInvariant == Spec => []TunedInv
<1>1. Init => TunedInv
  BY DEF Init, TunedInv, WatchIdle, BurstFirst, RepliesInOrder, TunedMeansTuned, Watching
<1>2. TypeOK /\ TunedInv /\ [Next]_vars => TunedInv'
  <2>1. TunedInv /\ UNCHANGED vars => TunedInv'
    BY DEF vars, deviceVars, watchVars, TunedInv, WatchIdle, BurstFirst, RepliesInOrder,
           TunedMeansTuned
  <2>2. QED
    BY <2>1, SetUpKeepsTuned, WatchKeepsTuned, RestoreKeepsTuned, AroundKeepsTuned DEF Next
<1>3. QED
  BY <1>1, <1>2, TunerTypeCorrect, PTL DEF Spec

\* "Tuned" is only said of a tuner that finished a tune, however late its replies
\* arrive and whatever the burst on connecting looked like.
THEOREM TunerTunedMeansTuned == Spec => []TunedMeansTuned
<1>1. TunedInv => TunedMeansTuned
  BY DEF TunedInv
<1>2. QED
  BY <1>1, TunedInvariant, PTL

-----------------------------------------------------------------------------
(* Handing the radio back                                                  *)

\* A sequence whose cache was true has saved a setting, not a blank, and with
\* no fault has put the mode back before the power.
Handover ==
    basis = "fresh" =>
        /\ pc \notin {"idle", "save"} => saved.power \in Powers /\ saved.mode \in Names
        /\ pc = "restorePower" /\ faults = 0 => NameOf[mode] = saved.mode

LEMMA StepKeepsHandover == ASSUME TypeOK, Handover, [Next]_vars PROVE Handover'
<1> USE DEF Handover, radioVars, deviceVars, watchVars, Leave, Finish
<1>1. CASE Save
  BY <1>1, Settings DEF Save, CacheTrue, TypeOK
<1>2. CASE SetUp /\ ~Save
  BY <1>2 DEF SetUp, Begin, SetLowPower, SetCW, Connect, Key, Autotune, ConnectFails, SetupFails
<1>3. CASE Watch
  BY <1>3 DEF Watch, WatchEnds, WatchStopped, AskStatus, ReadOne, ReadZero, ReadNothing,
              StayInWatch
<1>4. CASE Unkey \/ RestoreMode \/ RestorePower
  BY <1>4, Settings DEF Unkey, RestoreMode, RestorePower
<1>5. CASE RestoreFails
  <2>1. faults' # 0
    BY <1>5 DEF RestoreFails, Fault, TypeOK
  <2>2. QED
    BY <1>5, <2>1 DEF RestoreFails
<1>6. CASE Around
  BY <1>6 DEF Around, Poll, OperatorSets, OperatorUnkeys, Stop, ConnectionLost, DeviceStarts,
              DeviceFinishes, Tick, active
<1>7. CASE UNCHANGED vars
  BY <1>7 DEF vars
<1>8. QED
  BY <1>1, <1>2, <1>3, <1>4, <1>5, <1>6, <1>7 DEF Next, Restore

\* The one step that ends the sequence, and what it leaves.
LEMMA StepHandsBack ==
  ASSUME TypeOK, Handover, [Next]_vars, Finishes, basis = "fresh", faults' = 0
  PROVE  power' = saved.power /\ NameOf[mode'] = saved.mode
<1>1. RestorePower \/ RestoreFails
  BY DEF Finishes, Next, SetUp, Watch, Restore, Around, Begin, Save, SetLowPower, SetCW, Connect,
         Key, Autotune, ConnectFails, SetupFails, Leave, WatchEnds, WatchStopped, AskStatus,
         ReadOne, ReadZero, ReadNothing, StayInWatch, Unkey, RestoreMode, Poll, OperatorSets,
         OperatorUnkeys, Stop, ConnectionLost, DeviceStarts, DeviceFinishes, Tick, vars
<1>2. ~RestoreFails
  BY DEF RestoreFails, Fault, TypeOK
<1>3. QED
  BY <1>1, <1>2, Settings DEF RestorePower, Handover

\* A sequence that found the cache true, met no fault and was left alone hands
\* the radio back as it found it, as far as the host knows its modes by name.
THEOREM TunerHandsBackWhenFresh == Spec => HandsBackWhenFresh
<1>1. Init => Handover
  BY DEF Init, Handover
<1>2. TypeOK /\ Handover /\ [Next]_vars => Handover'
  BY StepKeepsHandover
<1>3. TypeOK /\ Handover /\ [Next]_vars =>
          [Finishes /\ basis = "fresh" /\ faults' = 0
             => power' = saved.power /\ NameOf[mode'] = saved.mode]_vars
  BY StepHandsBack
<1>4. QED
  BY <1>1, <1>2, <1>3, TunerTypeCorrect, PTL DEF Spec, HandsBackWhenFresh
=============================================================================
