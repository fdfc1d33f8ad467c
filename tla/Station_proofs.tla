---------------------------- MODULE Station_proofs ----------------------------
(***************************************************************************)
(* Proofs about Lockdown and about Station, for any parties and any number *)
(* of failures.  Every step of the station is one that Lockdown and        *)
(* TxRouting each allow, so the invariants of both hold of the transmitter *)
(* they share.                                                             *)
(***************************************************************************)
EXTENDS Station, TLAPS

-----------------------------------------------------------------------------
(* Lockdown by itself                                                      *)

USE LockdownAssumption DEF LockdownAssumption
\* The inductive invariant: a carrier that counts as admitted needs an open
\* server, an unkey still to come or a lost one, and a request that has still
\* to key at a locked server was overtaken by the lock.
LockdownInv == TypeOK /\ NoneLetIn /\ LockdownHolds

LEMMA StepKeepsTypes == TypeOK /\ [Next]_vars => TypeOK'
<1> SUFFICES ASSUME TypeOK, [Next]_vars PROVE TypeOK'
  OBVIOUS
<1> USE DEF TypeOK
<1>1. ASSUME NEW r \in Requests, NEW s \in Servers, AdmitPTT(r, s) PROVE TypeOK'
  BY <1>1 DEF AdmitPTT
<1>2. ASSUME NEW r \in Requests, NEW s \in Servers, AdmitTune(r, s) PROVE TypeOK'
  BY <1>2 DEF AdmitTune
<1>9. ASSUME NEW r \in Requests, NEW s \in Servers, AdmitRadio(r, s) PROVE TypeOK'
  BY <1>9 DEF AdmitRadio
<1>3. ASSUME NEW r \in Requests, BeginTune(r) \/ Key(r) PROVE TypeOK'
  BY <1>3 DEF BeginTune, TunerActive, Key
<1>4. ASSUME NEW r \in Requests, TuneFails(r) \/ TuneOver(r) \/ SendToRadio(r)
      PROVE TypeOK'
  BY <1>4 DEF TuneFails, TuneOver, PTTOff, SendToRadio
<1>10. ASSUME NEW r \in Requests, KeyFails(r) \/ TuneUnkeyFails(r) PROVE TypeOK'
  BY <1>10 DEF KeyFails, TuneUnkeyFails, PTTLost
<1>5. ASSUME NEW a \in Admins, NEW s \in Servers, LockOn(a, s) PROVE TypeOK'
  BY <1>5 DEF LockOn
<1>6. ASSUME NEW a \in Admins, LockUnkeys(a) \/ LockUnkeyFails(a) PROVE TypeOK'
  BY <1>6 DEF LockUnkeys, LockUnkeyFails, PTTOff, PTTLost
<1>7. CASE Unkey \/ UnkeyFails \/ (\E s \in Servers : LockOff(s)) \/ UNCHANGED vars
  BY <1>7 DEF Unkey, UnkeyFails, PTTOff, PTTLost, LockOff, vars
<1>8. QED
  BY <1>1, <1>2, <1>9, <1>3, <1>4, <1>10, <1>5, <1>6, <1>7 DEF Next, Keying, Locking

\* The lock, the handlers and the requests keep their types, and one tune runs
\* at a time.
THEOREM LockdownTypeCorrect == Spec => []TypeOK
<1>1. Init => TypeOK
  BY DEF Init, TypeOK
<1>2. QED
  BY <1>1, StepKeepsTypes, PTL DEF Spec

LEMMA KeyingKeepsInv ==
  ASSUME LockdownInv, TypeOK', NEW r \in Requests, Keying(r)
  PROVE  LockdownInv'
<1> USE DEF LockdownInv, TypeOK, NoneLetIn, LockdownHolds, AllLocked, Settled, UnderWay
<1>1. ASSUME NEW s \in Servers, AdmitPTT(r, s) PROVE LockdownInv'
  BY <1>1 DEF AdmitPTT, MayTransmit
<1>2. ASSUME NEW s \in Servers, AdmitTune(r, s) PROVE LockdownInv'
  BY <1>2 DEF AdmitTune, MayTransmit
<1>9. ASSUME NEW s \in Servers, AdmitRadio(r, s) PROVE LockdownInv'
  BY <1>9 DEF AdmitRadio, MayTransmit
<1>3. CASE Key(r)
  \* If every server is locked, the request was overtaken.
  <2>1. NoneLetIn'
    BY <1>3 DEF Key
  <2>2. at[r] \in Servers
    OBVIOUS
  <2>3. AllLocked => r \in straddling
    BY <1>3, <2>2 DEF Key
  <2>4. LockdownHolds'
    BY <1>3, <2>3 DEF Key
  <2>5. QED
    BY <2>1, <2>4
<1>4. CASE TuneFails(r) \/ SendToRadio(r)
  BY <1>4 DEF TuneFails, SendToRadio
<1>5. CASE TuneOver(r)
  BY <1>5 DEF TuneOver, PTTOff
<1>8. CASE KeyFails(r) \/ TuneUnkeyFails(r)
  <2>1. faults' # 0
    BY <1>8 DEF KeyFails, TuneUnkeyFails, PTTLost
  <2>2. NoneLetIn'
    BY <1>8 DEF KeyFails, TuneUnkeyFails, PTTLost
  <2>3. QED
    BY <2>1, <2>2
<1>6. CASE BeginTune(r)
  BY <1>6 DEF BeginTune
<1>7. QED
  BY <1>1, <1>2, <1>9, <1>3, <1>4, <1>8, <1>5, <1>6 DEF Keying

LEMMA LockingKeepsInv ==
  ASSUME LockdownInv, TypeOK', NEW a \in Admins, Locking(a)
  PROVE  LockdownInv'
<1> USE DEF LockdownInv, TypeOK, NoneLetIn, LockdownHolds, AllLocked, Settled, UnderWay
<1>1. ASSUME NEW s \in Servers, LockOn(a, s) PROVE LockdownInv'
  BY <1>1 DEF LockOn
<1>2. CASE LockUnkeys(a)
  BY <1>2 DEF LockUnkeys, PTTOff
<1>3. CASE LockUnkeyFails(a)
  BY <1>3 DEF LockUnkeyFails, PTTLost
<1>4. QED
  BY <1>1, <1>2, <1>3 DEF Locking

LEMMA InitiallyInv == Init => LockdownInv
BY DEF Init, LockdownInv, TypeOK, NoneLetIn, LockdownHolds, UnderWay

LEMMA StepKeepsInv == LockdownInv /\ [Next]_vars => LockdownInv'
<1> SUFFICES ASSUME LockdownInv, [Next]_vars PROVE LockdownInv'
  OBVIOUS
<1>1. TypeOK'
  BY StepKeepsTypes DEF LockdownInv
<1>2. CASE Unkey \/ UnkeyFails \/ (\E s \in Servers : LockOff(s)) \/ UNCHANGED vars
  BY <1>1, <1>2
  DEF Unkey, UnkeyFails, PTTOff, PTTLost, LockOff, vars, LockdownInv, TypeOK, NoneLetIn,
      LockdownHolds, AllLocked, Settled, UnderWay
<1>3. QED
  BY <1>1, <1>2, KeyingKeepsInv, LockingKeepsInv DEF Next

LEMMA LockdownInvariant == Spec => []LockdownInv
BY InitiallyInv, StepKeepsInv, PTL DEF Spec

\* With every server locked and the handlers done, a carrier is only ever that
\* of a request the lock overtook, for any number of requests.
THEOREM LockdownAlwaysHolds == Spec => []LockdownHolds
<1>1. LockdownInv => LockdownHolds
  BY DEF LockdownInv
<1>2. QED
  BY <1>1, LockdownInvariant, PTL

\* No route lets a keying request in at a locked server.
THEOREM NoneEverLetIn == Spec => []NoneLetIn
<1>1. LockdownInv => NoneLetIn
  BY DEF LockdownInv
<1>2. QED
  BY <1>1, LockdownInvariant, PTL

-----------------------------------------------------------------------------
(* TxRouting, one step at a time                                           *)

\* A write lost elsewhere, of which the two share the count.
LostElsewhere ==
    /\ faults < MaxFaults
    /\ faults' = faults + 1
    /\ UNCHANGED <<pc, Routing!radioVars, Routing!histVars>>

\* A step of TxRouting, or of those it shares the radio with.
RoutingStep == [Routing!Next]_(Routing!vars) \/ LostElsewhere

\* A radio on REAR was put there by a button, or by a socket that has still to
\* give it back.
RearAnswered ==
    source = "REAR" /\ ~held /\ faults = 0
        => \E s \in Sockets : pc[s] \in {"usb", "gain", "open", "unkey", "mic"}

\* Whoever is alone is.
AloneIsAlone == \A h \in alone : \A g \in Routing!Handlers \ {h} : pc[g] = "idle"

\* A socket alone on its way finds the radio as it left it.
SoleOnItsWay ==
    \A s \in Sockets \cap alone :
        faults = 0 =>
            /\ pc[s] \in {"usb", "gain", "open"} => source = "REAR"
            /\ pc[s] \in {"gain", "open"} => select = "USB"

\* Between its unkey and its MIC a handler finds PTT down, or pressed again.
UnkeyedFirst ==
    \A h \in Routing!Handlers :
        pc[h] = "mic" /\ carrier # "none" /\ faults = 0 => h \in pressed

RoutingInv == Routing!TypeOK /\ RearAnswered /\ AloneIsAlone /\ SoleOnItsWay /\ UnkeyedFirst

LEMMA RoutingInitially == ASSUME Routing!TxRoutingAssumption, Routing!Init PROVE RoutingInv
<1>1. Routing!TypeOK
  <2>1. 0 \in 0..MaxFaults
    BY DEF Routing!TxRoutingAssumption
  <2>2. QED
    BY <2>1 DEF Routing!Init, Routing!TypeOK, Routing!Handlers
<1>2. RearAnswered /\ AloneIsAlone /\ SoleOnItsWay /\ UnkeyedFirst
  BY DEF Routing!Init, RearAnswered, AloneIsAlone, SoleOnItsWay, UnkeyedFirst,
         Routing!Handlers
<1>3. QED
  BY <1>1, <1>2 DEF RoutingInv

LEMMA RoutingKeepsTypes ==
  ASSUME Routing!TxRoutingAssumption, Routing!TypeOK, RoutingStep
  PROVE  Routing!TypeOK'
<1> USE DEF Routing!TxRoutingAssumption, Routing!TypeOK, Routing!Handlers,
            Routing!radioVars, Routing!histVars, Routing!Goto, Routing!Begins,
            Routing!MenuWrite
<1>1. ASSUME NEW h \in Routing!Handlers, Routing!Route(h) \/ Routing!HandBack(h)
      PROVE  Routing!TypeOK'
  BY <1>1 DEF Routing!Route, Routing!HandBack
<1>2. ASSUME NEW h \in Routing!Handlers,
             Routing!WriteRear(h) \/ Routing!WriteUsb(h) \/ Routing!WriteGain(h)
      PROVE  Routing!TypeOK'
  BY <1>2 DEF Routing!WriteRear, Routing!WriteUsb, Routing!WriteGain
<1>3. ASSUME NEW h \in Routing!Handlers, Routing!RouteFails(h) \/ Routing!HandBackFails(h)
      PROVE  Routing!TypeOK'
  BY <1>3 DEF Routing!RouteFails, Routing!HandBackFails
<1>4. ASSUME NEW h \in Routing!Handlers, Routing!Unkey(h) \/ Routing!WriteMic(h)
      PROVE  Routing!TypeOK'
  BY <1>4 DEF Routing!Unkey, Routing!WriteMic
<1>5. CASE Routing!Press \/ Routing!Release
  BY <1>5 DEF Routing!Press, Routing!Release
<1>6. CASE Routing!Settle \/ UNCHANGED Routing!vars
  BY <1>6 DEF Routing!Settle, Routing!vars
<1>7. CASE LostElsewhere
  BY <1>7 DEF LostElsewhere
<1> HIDE DEF Routing!TypeOK, Routing!radioVars, Routing!histVars, Routing!Goto,
             Routing!Begins, Routing!MenuWrite
<1>8. QED
  BY <1>1, <1>2, <1>3, <1>4, <1>5, <1>6, <1>7 DEF RoutingStep, Routing!Next, Routing!Handle

LEMMA RouteKeepsInv ==
  ASSUME Routing!TxRoutingAssumption, RoutingInv, Routing!TypeOK', NEW h \in Routing!Handlers,
         Routing!Route(h) \/ Routing!HandBack(h) \/ Routing!Unkey(h)
  PROVE  RoutingInv'
<1> USE DEF Routing!TxRoutingAssumption, RoutingInv, Routing!TypeOK, Routing!Handlers,
            Routing!radioVars, Routing!histVars, Routing!Goto, Routing!Begins
<1>1. RearAnswered'
  BY DEF RearAnswered, Routing!Route, Routing!HandBack, Routing!Unkey
<1>2. AloneIsAlone'
  BY DEF AloneIsAlone, Routing!Route, Routing!HandBack, Routing!Unkey
<1>3. SoleOnItsWay'
  BY DEF SoleOnItsWay, Routing!Route, Routing!HandBack, Routing!Unkey
<1>4. UnkeyedFirst'
  BY DEF UnkeyedFirst, Routing!Route, Routing!HandBack, Routing!Unkey
<1>5. QED
  BY <1>1, <1>2, <1>3, <1>4

LEMMA WriteKeepsInv ==
  ASSUME Routing!TxRoutingAssumption, RoutingInv, Routing!TypeOK', NEW h \in Routing!Handlers,
         \/ Routing!WriteRear(h) \/ Routing!WriteUsb(h)
         \/ Routing!WriteGain(h) \/ Routing!WriteMic(h)
  PROVE  RoutingInv'
<1> USE DEF Routing!TxRoutingAssumption, RoutingInv, Routing!TypeOK, Routing!Handlers,
            Routing!radioVars, Routing!histVars, Routing!Goto, Routing!MenuWrite
<1>1. RearAnswered'
  BY DEF RearAnswered, Routing!WriteRear, Routing!WriteUsb, Routing!WriteGain,
         Routing!WriteMic
<1>2. AloneIsAlone'
  BY DEF AloneIsAlone, Routing!WriteRear, Routing!WriteUsb, Routing!WriteGain,
         Routing!WriteMic
<1>3. SoleOnItsWay'
  BY DEF SoleOnItsWay, AloneIsAlone, Routing!WriteRear, Routing!WriteUsb,
         Routing!WriteGain, Routing!WriteMic
<1>4. UnkeyedFirst'
  BY DEF UnkeyedFirst, Routing!WriteRear, Routing!WriteUsb, Routing!WriteGain,
         Routing!WriteMic
<1>5. QED
  BY <1>1, <1>2, <1>3, <1>4

\* After a lost write only AloneIsAlone promises anything.
LEMMA FaultKeepsInv ==
  ASSUME Routing!TxRoutingAssumption, RoutingInv, Routing!TypeOK',
         \/ LostElsewhere
         \/ \E h \in Routing!Handlers : Routing!RouteFails(h) \/ Routing!HandBackFails(h)
  PROVE  RoutingInv'
<1> USE DEF Routing!TxRoutingAssumption, RoutingInv, Routing!TypeOK, Routing!Handlers,
            Routing!radioVars, Routing!histVars, Routing!Goto
<1>1. faults' # 0
  BY DEF LostElsewhere, Routing!RouteFails, Routing!HandBackFails
<1>2. AloneIsAlone'
  BY DEF AloneIsAlone, LostElsewhere, Routing!RouteFails, Routing!HandBackFails
<1>3. QED
  BY <1>1, <1>2 DEF RearAnswered, SoleOnItsWay, UnkeyedFirst

LEMMA RoutingStepKeepsInv ==
  ASSUME Routing!TxRoutingAssumption, RoutingInv, RoutingStep
  PROVE  RoutingInv'
<1>1. Routing!TypeOK'
  BY RoutingKeepsTypes DEF RoutingInv
<1>2. CASE Routing!Press \/ Routing!Release \/ Routing!Settle \/ UNCHANGED Routing!vars
  BY <1>1, <1>2 DEF Routing!Press, Routing!Release, Routing!Settle, Routing!vars,
                    Routing!radioVars, Routing!histVars, RoutingInv, Routing!TypeOK,
                    RearAnswered, AloneIsAlone, SoleOnItsWay, UnkeyedFirst
<1>3. QED
  BY <1>1, <1>2, RouteKeepsInv, WriteKeepsInv, FaultKeepsInv DEF RoutingStep,
                        Routing!Next, Routing!Handle

\* With nobody under way the microphone is live, unless a button took it away.
LEMMA InvQuiet == ASSUME RoutingInv PROVE Routing!QuietMeansMic
BY DEF RoutingInv, Routing!TypeOK, RearAnswered, Routing!QuietMeansMic, Routing!AllIdle,
       Routing!Handlers

\* A socket that opened alone has the radio.
LEMMA InvSole == ASSUME RoutingInv PROVE Routing!SoleSocketHasRadio
BY DEF RoutingInv, SoleOnItsWay, Routing!SoleSocketHasRadio

\* The microphone goes back to a keyed radio only for who pressed again.
LEMMA InvMicBack == ASSUME RoutingInv PROVE Routing!MicBack
BY DEF RoutingInv, UnkeyedFirst, Routing!MicBack

-----------------------------------------------------------------------------
(* Both                                                                    *)

\* A write of TxRouting that is lost counts for Lockdown too.
LostRouting ==
    /\ faults < MaxFaults
    /\ faults' = faults + 1
    /\ watchdog' \in {"off", "running"}
    /\ UNCHANGED <<lock, admin, request, at, carrier, straddling>>

StationInv == LockdownInv /\ RoutingInv /\ crowd \in Crowds

LEMMA RoutingAssumed == Routing!TxRoutingAssumption
BY StationAssumption

-----------------------------------------------------------------------------
(* Every step of the station is a step of Lockdown, or a write it loses.   *)

LEMMA LockdownSteps ==
  ASSUME TypeOK, [StationNext]_stationVars
  PROVE  [Next]_vars \/ LostRouting
<1> USE DEF LockdownOnly, RoutingOnly, vars
<1>1. ASSUME NEW r \in Requests, Arrives(r) \/ Proceeds(r)
      PROVE  Keying(r)
  BY <1>1 DEF Arrives, Proceeds, KeyUp, TuneEnds, Keying
<1>2. ASSUME NEW a \in Admins, Locks(a) PROVE Locking(a)
  BY <1>2 DEF Locks, LockdownUnkeys, Locking
<1>3. ASSUME NEW h, Routes(h) PROVE [Next]_vars \/ LostRouting
  <2>1. CASE HandlerUnkeys(h)
    BY <2>1 DEF HandlerUnkeys, Next
  <2>2. CASE RoutingOnly(Routing!RouteFails(h)) \/ HandBackFails(h)
    BY <2>2 DEF LostRouting, Routing!RouteFails, HandBackFails, Routing!HandBackFails, TypeOK
  <2>3. CASE AdmitRoute(h) \/ RoutingOnly(Routing!HandBack(h))
    BY <2>3 DEF AdmitRoute, Routing!Route, Routing!HandBack
  <2>4. CASE \/ RoutingOnly(Routing!WriteRear(h)) \/ RoutingOnly(Routing!WriteUsb(h))
             \/ RoutingOnly(Routing!WriteGain(h)) \/ RoutingOnly(Routing!WriteMic(h))
    BY <2>4 DEF Routing!WriteRear, Routing!WriteUsb, Routing!WriteGain, Routing!WriteMic
  <2>5. QED
    BY <1>3, <2>1, <2>2, <2>3, <2>4 DEF Routes
<1>4. CASE \E s \in Servers : LockdownOnly(LockOff(s))
  BY <1>4 DEF Next
<1>5. CASE OperatorUnkeys \/ WatchdogUnkeys \/ LockdownOnly(UnkeyFails) \/ WatchdogFails
  BY <1>5 DEF OperatorUnkeys, WatchdogUnkeys, WatchdogFails, Next
<1>6. CASE RoutingOnly(Routing!Settle)
  BY <1>6 DEF Routing!Settle
<1>7. CASE UNCHANGED stationVars
  BY <1>7 DEF stationVars
<1>8. QED
  BY <1>1, <1>2, <1>3, <1>4, <1>5, <1>6, <1>7 DEF StationNext, Next

-----------------------------------------------------------------------------
(* And one of TxRouting, or a write it shares the count of.                *)

\* What Lockdown does beside PTT.
LEMMA BesidesRouting ==
  ASSUME TypeOK, UNCHANGED routingVars, carrier' = carrier, faults' = faults
  PROVE  UNCHANGED Routing!vars
BY DEF routingVars, Routing!vars, Routing!radioVars, Routing!histVars

LEMMA LostBesides ==
  ASSUME UNCHANGED routingVars, PTTLost
  PROVE  LostElsewhere
BY DEF PTTLost, routingVars, LostElsewhere, Routing!radioVars, Routing!histVars

LEMMA RoutingSteps ==
  ASSUME TypeOK, [StationNext]_stationVars
  PROVE  RoutingStep
<1> USE DEF LockdownOnly, RoutingOnly, RoutingStep, Routing!Next
<1>1. ASSUME NEW r \in Requests, Arrives(r) \/ Proceeds(r) PROVE RoutingStep
  <2>1. CASE KeyUp(r)
    BY <2>1 DEF KeyUp
  <2>2. CASE TuneEnds(r)
    BY <2>2 DEF TuneEnds
  <2>3. CASE \/ LockdownOnly(BeginTune(r)) \/ LockdownOnly(TuneFails(r))
             \/ LockdownOnly(SendToRadio(r))
    BY <2>3, BesidesRouting DEF BeginTune, TuneFails, SendToRadio
  <2>6. CASE LockdownOnly(KeyFails(r)) \/ LockdownOnly(TuneUnkeyFails(r))
    BY <2>6, LostBesides DEF KeyFails, TuneUnkeyFails
  <2>4. CASE Arrives(r)
    BY <2>4, BesidesRouting DEF Arrives, AdmitPTT, AdmitTune, AdmitRadio
  <2>5. QED
    BY <1>1, <2>1, <2>2, <2>3, <2>4, <2>6 DEF Proceeds
<1>2. ASSUME NEW a \in Admins, Locks(a) PROVE RoutingStep
  <2>1. CASE LockdownUnkeys(a)
    BY <2>1 DEF LockdownUnkeys
  <2>2. CASE \E s \in Servers : LockdownOnly(LockOn(a, s))
    BY <2>2, BesidesRouting DEF LockOn
  <2>3. CASE LockdownOnly(LockUnkeyFails(a))
    BY <2>3, LostBesides DEF LockUnkeyFails
  <2>4. QED
    BY <1>2, <2>1, <2>2, <2>3 DEF Locks
<1>3. ASSUME NEW h \in Sockets \cup Buttons, Routes(h) PROVE Routing!Handle(h)
  BY <1>3 DEF Routes, HandlerUnkeys, HandBackFails, AdmitRoute, Routing!Handle
<1>4. CASE \E s \in Servers : LockdownOnly(LockOff(s))
  BY <1>4, BesidesRouting DEF LockOff
<1>5. CASE OperatorUnkeys \/ WatchdogUnkeys
  BY <1>5 DEF OperatorUnkeys, WatchdogUnkeys
<1>9. CASE LockdownOnly(UnkeyFails) \/ WatchdogFails
  BY <1>9, LostBesides DEF UnkeyFails, WatchdogFails
<1>6. CASE RoutingOnly(Routing!Settle)
  BY <1>6
<1>7. CASE UNCHANGED stationVars
  BY <1>7, BesidesRouting DEF stationVars, vars
<1> HIDE DEF RoutingStep
<1>8. QED
  BY <1>1, <1>2, <1>3, <1>4, <1>5, <1>9, <1>6, <1>7 DEF StationNext, RoutingStep, Routing!Handlers

-----------------------------------------------------------------------------
(* The invariants of both.                                                 *)

LEMMA LostKeepsLockdown == ASSUME LockdownInv, LostRouting PROVE LockdownInv'
<1> USE LockdownAssumption DEF LockdownAssumption, LockdownInv, LostRouting
<1>1. TypeOK'
  BY DEF TypeOK
<1>2. faults' # 0
  BY DEF TypeOK
<1>3. NoneLetIn'
  BY DEF NoneLetIn, UnderWay
<1>4. QED
  BY <1>1, <1>2, <1>3 DEF LockdownHolds

LEMMA StationInvariant == StationSpec => []StationInv
<1>1. StationInit => StationInv
  <2>1. StationInit => Routing!Init
    BY DEF StationInit, Routing!Init, Routing!Handlers
  <2>2. Routing!Init => RoutingInv
    BY RoutingAssumed, RoutingInitially
  <2>3. QED
    BY <2>1, <2>2, InitiallyInv DEF StationInit, StationInv
<1>2. StationInv /\ [StationNext]_stationVars => StationInv'
  <2> SUFFICES ASSUME StationInv, [StationNext]_stationVars PROVE StationInv'
    OBVIOUS
  <2>1. LockdownInv'
    BY LockdownSteps, StepKeepsInv, LostKeepsLockdown DEF StationInv, LockdownInv
  <2>2. RoutingInv'
    BY RoutingSteps, RoutingAssumed, RoutingStepKeepsInv DEF StationInv, LockdownInv
  <2>3. crowd' = crowd
    BY DEF StationNext, stationVars
  <2>4. QED
    BY <2>1, <2>2, <2>3 DEF StationInv
<1>3. QED
  BY <1>1, <1>2, PTL DEF StationSpec

\* The lock, the requests, the handlers and the radio's menus keep their types.
THEOREM StationTypeCorrect == StationSpec => []StationTypeOK
<1>1. StationInv => StationTypeOK
  BY DEF StationInv, LockdownInv, RoutingInv, StationTypeOK, Routing!TypeOK,
         Routing!Handlers
<1>2. QED
  BY <1>1, StationInvariant, PTL

\* However the transmitter is routed meanwhile: locked everywhere, only a request
\* the lock overtook is on the air.
THEOREM StationLockdownHolds == StationSpec => []LockdownHolds
<1>1. StationInv => LockdownHolds
  BY DEF StationInv, LockdownInv
<1>2. QED
  BY <1>1, StationInvariant, PTL

\* However many sockets and requests route the radio, once they are done the
\* operator's own microphone is live, unless a button took it away.
THEOREM StationQuietMeansMic == StationSpec => []QuietMeansMic
<1>1. StationInv => QuietMeansMic
  BY InvQuiet DEF StationInv, QuietMeansMic
<1>2. QED
  BY <1>1, StationInvariant, PTL

\* A socket nobody else was routing against has the radio.
THEOREM StationSoleSocketHasRadio == StationSpec => []SoleSocketHasRadio
<1>1. StationInv => SoleSocketHasRadio
  BY InvSole DEF StationInv, SoleSocketHasRadio
<1>2. QED
  BY <1>1, StationInvariant, PTL

\* The microphone is given back to a keyed radio only when somebody pressed again
\* after the handler's own unkey.
THEOREM StationMicBackUnkeyed == StationSpec => MicBackUnkeyed
<1>1. StationInv => Routing!MicBack
  BY InvMicBack DEF StationInv
<1>2. QED
  BY <1>1, StationInvariant, PTL DEF MicBackUnkeyed, Routing!MicBackUnkeyed
=============================================================================
