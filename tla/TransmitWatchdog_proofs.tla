----------------------- MODULE TransmitWatchdog_proofs -----------------------
(***************************************************************************)
(* Proofs about TransmitWatchdog, for any set of callers and timers, any   *)
(* timeout, any number of port failures, with and without raw CAT.         *)
(***************************************************************************)
EXTENDS TransmitWatchdog, TLAPS

USE WatchdogAssumption DEF WatchdogAssumption

\* Every variable keeps its type, in every step of every caller and timer.
THEOREM TypeCorrect == Spec => []TypeOK
<1>1. Init => TypeOK
  BY DEF Init, TypeOK
<1>2. TypeOK /\ [Next]_vars => TypeOK'
  <2> SUFFICES ASSUME TypeOK, [Next]_vars PROVE TypeOK'
    OBVIOUS
  <2> USE DEF TypeOK, Keyed, callVars, timerVars, portVars, rigVars
  <2>1. ASSUME NEW p \in Callers, BeginKey(p) PROVE TypeOK'
    BY <2>1 DEF BeginKey, StopTimer
  <2>2. ASSUME NEW p \in Callers, BeginUnkey(p) PROVE TypeOK'
    BY <2>2 DEF BeginUnkey, StopTimer
  <2>3. ASSUME NEW p \in Callers, SendTX1(p) PROVE TypeOK'
    BY <2>3 DEF SendTX1, TransmitterUp
  <2>4. ASSUME NEW p \in Callers, TX1Fails(p) PROVE TypeOK'
    BY <2>4 DEF TX1Fails, WriteLost
  <2>5. ASSUME NEW p \in Callers, Arm(p) PROVE TypeOK'
    BY <2>5 DEF Arm, Free
  <2>6. ASSUME NEW p \in Callers, SendTX0(p) PROVE TypeOK'
    BY <2>6 DEF SendTX0, TransmitterDown
  <2>7. ASSUME NEW p \in Callers, TX0Fails(p) PROVE TypeOK'
    BY <2>7 DEF TX0Fails, WriteLost
  <2>8. ASSUME NEW t \in Timers, Watchdog(t) PROVE TypeOK'
    BY <2>8 DEF Watchdog, Expire, WatchdogUnkeys, WatchdogFails,
                TransmitterDown, WriteLost
  <2>9. CASE RawTX1 \/ RawTX0
    BY <2>9 DEF RawTX1, RawTX0, TransmitterDown
  <2>10. CASE PortFails \/ PortRecovers
    BY <2>10 DEF PortFails, PortRecovers
  <2>11. CASE Tick
    BY <2>11 DEF Tick
  <2>12. CASE UNCHANGED vars
    BY <2>12 DEF vars
  <2>13. QED
    BY <2>1, <2>2, <2>3, <2>4, <2>5, <2>6, <2>7, <2>8, <2>9, <2>10, <2>11,
       <2>12 DEF Next, Call
<1>3. QED
  BY <1>1, <1>2, PTL DEF Spec

-----------------------------------------------------------------------------
\* No time has passed since TX1 while a caller is about to arm, nor while the
\* rig receives: so a timer armed now outlives the carrier it guards.
Fresh == (\E p \in Callers : pc[p] = "arm") \/ ~Keyed => airtime = 0

\* The inductive invariant: Guarded alone does not say that the carrier is
\* within its bound when a call stops the timer, nor Fresh when it arms.
WatchdogInv == TypeOK /\ Fresh /\ Guarded /\ CarrierBounded

LEMMA WatchdogInvInit == Init => WatchdogInv
  BY DEF Init, WatchdogInv, TypeOK, Fresh, Guarded, CarrierBounded, Keyed

LEMMA CallKeepsInv ==
  ASSUME WatchdogInv, TypeOK', NEW p \in Callers, Call(p)
  PROVE  WatchdogInv'
<1> USE DEF WatchdogInv, TypeOK, Fresh, Guarded, CarrierBounded, AllIdle, Keyed,
            callVars, timerVars, portVars, rigVars
<1>1. CASE BeginKey(p)
  BY <1>1 DEF BeginKey, StopTimer
<1>2. CASE BeginUnkey(p)
  BY <1>2 DEF BeginUnkey, StopTimer
<1>3. CASE SendTX1(p)
  BY <1>3 DEF SendTX1, TransmitterUp
<1>4. CASE TX1Fails(p)
  BY <1>4 DEF TX1Fails, WriteLost
<1>5. CASE Arm(p)
  <2>1. PICK t \in Free :
            /\ timers' = [timers EXCEPT ![t] = "running"]
            /\ left' = [left EXCEPT ![t] = Timeout]
    BY <1>5 DEF Arm
  <2>2. airtime = 0 /\ UNCHANGED airtime
    BY <1>5 DEF Arm
  <2>3. t \in Running' /\ (left[t] + airtime <= Timeout)'
    BY <2>1, <2>2 DEF Free, Running
  <2>4. Fresh'
    BY <2>2
  <2>5. QED
    BY <2>2, <2>3, <2>4
<1>6. CASE SendTX0(p)
  BY <1>6 DEF SendTX0, TransmitterDown
<1>7. CASE TX0Fails(p)
  BY <1>7 DEF TX0Fails, WriteLost
<1>8. QED
  BY <1>1, <1>2, <1>3, <1>4, <1>5, <1>6, <1>7 DEF Call

LEMMA WatchdogKeepsInv ==
  ASSUME WatchdogInv, TypeOK', NEW t \in Timers, Watchdog(t)
  PROVE  WatchdogInv'
<1> USE DEF WatchdogInv, TypeOK, Fresh, Guarded, CarrierBounded, AllIdle, Keyed,
            callVars, timerVars, portVars, rigVars
<1>1. CASE Expire(t)
  <2>1. timers'[t] = "firing" /\ UNCHANGED <<pc, left, carrier, airtime>>
    BY <1>1 DEF Expire
  <2>2. QED
    BY <2>1
<1>2. CASE WatchdogUnkeys(t)
  BY <1>2 DEF WatchdogUnkeys, TransmitterDown
<1>3. CASE WatchdogFails(t)
  BY <1>3 DEF WatchdogFails, WriteLost
<1>4. QED
  BY <1>1, <1>2, <1>3 DEF Watchdog

LEMMA TickKeepsInv ==
  ASSUME WatchdogInv, TypeOK', Tick
  PROVE  WatchdogInv'
<1> USE DEF WatchdogInv, TypeOK
<1>1. AllIdle /\ AllIdle' /\ UNCHANGED <<pc, timers, carrier>>
  BY DEF Tick, AllIdle, callVars
<1>2. Fresh'
  BY <1>1 DEF Fresh, AllIdle, Tick, Keyed
<1>3. CASE carrier = "guarded"
  <2>1. PICK t \in Running : left[t] + airtime <= Timeout
    BY <1>1, <1>3 DEF Guarded, Tick
  <2>2. left[t] > 0 /\ left'[t] = left[t] - 1
    BY <2>1 DEF Running, Tick
  <2>3. airtime' = airtime + 1
    BY <1>3, <2>1 DEF CarrierBounded, Tick, Running, Keyed
  <2>4. left'[t] + airtime' <= Timeout
    BY <2>1, <2>2, <2>3 DEF Running
  <2>5. t \in Running'
    BY <1>1, <2>1 DEF Running
  <2>6. airtime' <= Timeout
    BY <2>1, <2>4, <2>5 DEF Running
  <2>7. QED
    BY <1>1, <1>2, <2>4, <2>5, <2>6 DEF Guarded, CarrierBounded
<1>4. CASE carrier # "guarded"
  BY <1>1, <1>2, <1>4 DEF Guarded, CarrierBounded
<1>5. QED
  BY <1>3, <1>4

\* A step of the rest of the world: raw CAT and the port.
LEMMA WorldKeepsInv ==
  ASSUME WatchdogInv, TypeOK',
         RawTX1 \/ RawTX0 \/ PortFails \/ PortRecovers \/ UNCHANGED vars
  PROVE  WatchdogInv'
<1> USE DEF WatchdogInv, TypeOK, Fresh, Guarded, CarrierBounded, AllIdle, Keyed,
            Running, callVars, timerVars, portVars, rigVars
<1>1. CASE RawTX1
  BY <1>1 DEF RawTX1
<1>2. CASE RawTX0
  BY <1>2 DEF RawTX0, TransmitterDown
<1>3. CASE PortFails \/ PortRecovers
  BY <1>3 DEF PortFails, PortRecovers
<1>4. CASE UNCHANGED vars
  BY <1>4 DEF vars
<1>5. QED
  BY <1>1, <1>2, <1>3, <1>4

\* The inductive invariant holds throughout.
LEMMA WatchdogInvariant == Spec => []WatchdogInv
<1>1. WatchdogInv /\ TypeOK' /\ [Next]_vars => WatchdogInv'
  BY CallKeepsInv, WatchdogKeepsInv, TickKeepsInv, WorldKeepsInv DEF Next
<1>2. QED
  BY <1>1, WatchdogInvInit, TypeCorrect, PTL DEF Spec

\* However the callers' steps interleave and the port fails, a carrier that
\* has its watchdog is never up for longer than the timeout.
THEOREM Bounded == Spec => []CarrierBounded
  BY WatchdogInvariant, PTL DEF WatchdogInv

\* ... because something always answers for it: a timer that expires in time,
\* a timer that is firing, or a call under way.
THEOREM AlwaysGuarded == Spec => []Guarded
  BY WatchdogInvariant, PTL DEF WatchdogInv

\* With a port that never fails and no raw keying no over ever loses its
\* watchdog, so the promise of the -ptt-timeout flag holds without condition.
THEOREM BoundedWithoutFaults ==
  ASSUME MaxFaults = 0, RawKeying = FALSE
  PROVE  Spec => []CarrierAlwaysBounded
<1> DEFINE Sound == port = "open" /\ carrier # "lapsed"
<1>1. Init => Sound
  BY DEF Init
<1>2. Sound /\ TypeOK /\ [Next]_vars => Sound'
  BY DEF TypeOK, Next, vars, Call, Watchdog, BeginKey, BeginUnkey, SendTX1,
     TX1Fails, Arm, SendTX0, TX0Fails, Expire, WatchdogUnkeys, WatchdogFails,
     RawTX1, RawTX0, PortFails, PortRecovers, Tick, TransmitterUp,
     TransmitterDown, WriteLost, Keyed, portVars, rigVars
<1>3. Sound /\ WatchdogInv => CarrierAlwaysBounded
  BY DEF WatchdogInv, TypeOK, CarrierBounded, CarrierAlwaysBounded, Keyed
<1>4. QED
  BY <1>1, <1>2, <1>3, TypeCorrect, WatchdogInvariant, PTL DEF Spec

\* When calls of SetPTT never overlap - one caller - a key press or an unkey
\* can always stop the running timer.
THEOREM NoOrphanWhenSerial ==
  ASSUME \A p, q \in Callers : p = q
  PROVE  Spec => []NoOrphanTimer
<1> DEFINE Stopped == AllIdle \/ Running = {}
           Inv == Stopped /\ NoOrphanTimer
<1>1. Init => Inv
  BY DEF Init, Running, NoOrphanTimer, AllIdle
<1>2. Inv /\ TypeOK /\ TypeOK' /\ [Next]_vars => Inv'
  <2> SUFFICES ASSUME Inv, TypeOK, TypeOK', [Next]_vars PROVE Inv'
    OBVIOUS
  <2> USE DEF TypeOK, AllIdle, Running, NoOrphanTimer, timerVars, callVars
  <2>1. ASSUME NEW p \in Callers, Call(p) PROVE Inv'
    <3>1. CASE BeginKey(p) \/ BeginUnkey(p)
      <4>1. Running' = {}
        BY <3>1 DEF BeginKey, BeginUnkey, StopTimer
      <4>2. QED
        BY <4>1
    <3>2. CASE SendTX1(p)
      BY <3>2 DEF SendTX1
    <3>3. CASE TX1Fails(p) \/ SendTX0(p) \/ TX0Fails(p)
      <4>1. AllIdle'
        BY <3>3 DEF TX1Fails, SendTX0, TX0Fails
      <4>2. QED
        BY <3>3, <4>1 DEF TX1Fails, SendTX0, TX0Fails
    <3>4. CASE Arm(p)
      <4>1. AllIdle' /\ Running = {}
        BY <3>4 DEF Arm
      <4>2. QED
        BY <3>4, <4>1 DEF Arm, Free
    <3>5. QED
      BY <2>1, <3>1, <3>2, <3>3, <3>4 DEF Call
  <2>2. ASSUME NEW t \in Timers, Watchdog(t) PROVE Inv'
    BY <2>2 DEF Watchdog, Expire, WatchdogUnkeys, WatchdogFails
  <2>3. CASE RawTX1 \/ RawTX0 \/ PortFails \/ PortRecovers \/ Tick
             \/ UNCHANGED vars
    BY <2>3 DEF RawTX1, RawTX0, PortFails, PortRecovers, Tick, vars
  <2>4. QED
    BY <2>1, <2>2, <2>3 DEF Next
<1>3. QED
  BY <1>1, <1>2, TypeCorrect, PTL DEF Spec

-----------------------------------------------------------------------------
\* Every step of the watchdog is a step of the promise, or does not touch the
\* carrier.
LEMMA StepRefines ==
  ASSUME WatchdogInv, [Next]_vars
  PROVE  [Promise!Next]_(Promise!vars)
<1> USE DEF WatchdogInv, TypeOK, Keyed, callVars, timerVars, portVars, rigVars,
            Promise!Next, Promise!vars
<1>1. ASSUME NEW p \in Callers, Call(p) PROVE [Promise!Next]_(Promise!vars)
  <2>1. CASE BeginKey(p) \/ BeginUnkey(p)
    BY <2>1 DEF BeginKey, BeginUnkey
  <2>2. CASE SendTX1(p)
    BY <2>2 DEF SendTX1, TransmitterUp, Promise!KeyPress
  <2>3. CASE TX1Fails(p) \/ TX0Fails(p)
    BY <2>3 DEF TX1Fails, TX0Fails, WriteLost, Promise!LosePromise
  <2>4. CASE Arm(p)
    <3>1. airtime = 0 /\ airtime' = 0
      BY <2>4 DEF Arm, Fresh
    <3>2. QED
      BY <2>4, <3>1 DEF Arm, Promise!KeyPress
  <2>5. CASE SendTX0(p)
    BY <2>5 DEF SendTX0, TransmitterDown, Promise!Unkey
  <2>6. QED
    BY <1>1, <2>1, <2>2, <2>3, <2>4, <2>5 DEF Call
<1>2. ASSUME NEW t \in Timers, Watchdog(t) PROVE [Promise!Next]_(Promise!vars)
  BY <1>2 DEF Watchdog, Expire, WatchdogUnkeys, WatchdogFails, WriteLost,
              TransmitterDown, Promise!Unkey, Promise!LosePromise
<1>3. CASE RawTX1
  BY <1>3 DEF RawTX1, Fresh, Promise!KeyPress
<1>4. CASE RawTX0
  BY <1>4 DEF RawTX0, TransmitterDown, Promise!Unkey
<1>5. CASE Tick
  <2>1. ASSUME carrier = "guarded" PROVE airtime < Timeout
    <3>1. PICK t \in Running : left[t] + airtime <= Timeout
      BY <1>5, <2>1 DEF Guarded, Tick
    <3>2. left[t] > 0
      BY <1>5, <3>1 DEF Tick, Running
    <3>3. QED
      BY <3>1, <3>2 DEF Running
  <2>2. QED
    BY <1>5, <2>1 DEF Tick, Promise!Tick
<1>6. CASE PortFails \/ PortRecovers \/ UNCHANGED vars
  BY <1>6 DEF PortFails, PortRecovers, vars
<1>7. QED
  BY <1>1, <1>2, <1>3, <1>4, <1>5, <1>6 DEF Next

\* SetPTT and its watchdog implement the promise stated in Carrier.
THEOREM ImplementsCarrier == Spec => CarrierPromise
<1>1. Init => Promise!Init
  BY DEF Init, Promise!Init
<1>2. QED
  BY <1>1, StepRefines, WatchdogInvariant, PTL
     DEF Spec, CarrierPromise, Promise!Spec
=============================================================================
