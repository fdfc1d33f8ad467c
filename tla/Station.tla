------------------------------ MODULE Station ------------------------------
(***************************************************************************)
(* The transmitter as everybody at the station has it: keying requests and *)
(* the lockdown (Lockdown) together with the sockets and buttons that      *)
(* route it (TxRouting).  Both know one carrier: what Lockdown keys is     *)
(* what TxRouting must not give a microphone to, and every unkey of a      *)
(* closing socket is one for the lockdown too.  A step that keys or unkeys *)
(* is a step of both, any other one a step of one of them.                 *)
(***************************************************************************)
EXTENDS Lockdown

CONSTANTS
    Sockets,     \* /ws/tx connections
    Buttons,     \* requests to /api/remote-tx/on and off
    Crowds       \* bound: who may be at the station together

VARIABLES pc, source, select, settling, held, pressed, alone,  \* of TxRouting
          crowd  \* who is at this one

Routing == INSTANCE TxRouting WITH keyed <- (carrier # "none")

routingVars == <<pc, source, select, settling, held, pressed, alone>>
stationVars == <<vars, routingVars, crowd>>

ASSUME StationAssumption ==
    /\ Routing!TxRoutingAssumption
    /\ \A c \in Crowds : c \subseteq Requests \cup Admins \cup Sockets \cup Buttons

StationTypeOK ==
    /\ TypeOK
    /\ Routing!TypeOK
    /\ crowd \in Crowds

StationInit ==
    /\ Init
    /\ Routing!Init
    /\ crowd \in Crowds

-----------------------------------------------------------------------------
(* The joint steps                                                         *)

\* A step of Lockdown that leaves PTT alone.
LockdownOnly(step) == step /\ UNCHANGED routingVars
\* A step of TxRouting that leaves PTT alone.
RoutingOnly(step) ==
    UNCHANGED <<lock, admin, request, at, carrier, watchdog, straddling>> /\ step

\* SetPTT(true), for whoever was admitted.
KeyUp(r) == Key(r) /\ Routing!Press

\* SetPTT(false): the end of a tune, a lockdown's.
TuneEnds(r) == TuneOver(r) /\ Routing!Release

\* Mutant: the lockdown without its unkey is a label.
LockdownIsALabel(a) == LockdownOnly(LockIsALabel(a))

LockdownUnkeys(a) == LockUnkeys(a) /\ Routing!Release

\* /api/ptt/off, /api/admin/unkey.
OperatorUnkeys == Unkey /\ Routing!Release

\* What TransmitWatchdog promises, of a carrier that still has its watchdog.
WatchdogUnkeys == watchdog = "running" /\ Unkey /\ Routing!Release
WatchdogFails == watchdog = "running" /\ LockdownOnly(UnkeyFails)

\* Before it gives the microphone back, a socket or a button unkeys,
HandlerUnkeys(h) == Unkey /\ Routing!Unkey(h)

\* and loses the watchdog when that write is lost.
HandBackFails(h) ==
    /\ UNCHANGED <<lock, admin, request, at, carrier, straddling>>
    /\ watchdog' = IF pc[h] = "unkey" THEN "off" ELSE watchdog
    /\ Routing!HandBackFails(h)

\* mayTransmit, at whichever server the request came to.
AdmitRoute(h) ==
    /\ \E s \in Servers : MayTransmit(s)
    /\ RoutingOnly(Routing!Route(h))

-----------------------------------------------------------------------------
(* A keying request goes its way.                                          *)
Proceeds(r) ==
    \/ LockdownOnly(BeginTune(r)) \/ LockdownOnly(KeyFails(r))
    \/ LockdownOnly(SendToRadio(r)) \/ LockdownOnly(TuneFails(r))
    \/ LockdownOnly(TuneUnkeyFails(r))
    \/ KeyUp(r) \/ TuneEnds(r)

Arrives(r) ==
    \E s \in Servers :
        \/ LockdownOnly(AdmitPTT(r, s)) \/ LockdownOnly(AdmitTune(r, s))
        \/ LockdownOnly(AdmitRadio(r, s))

Locks(a) ==
    \/ \E s \in Servers : LockdownOnly(LockOn(a, s))
    \/ LockdownUnkeys(a) \/ LockdownOnly(LockUnkeyFails(a))

Routes(h) ==
    \/ AdmitRoute(h) \/ HandlerUnkeys(h)
    \/ RoutingOnly(Routing!WriteRear(h)) \/ RoutingOnly(Routing!WriteUsb(h))
    \/ RoutingOnly(Routing!WriteGain(h)) \/ RoutingOnly(Routing!RouteFails(h))
    \/ RoutingOnly(Routing!HandBack(h)) \/ RoutingOnly(Routing!WriteMic(h))
    \/ HandBackFails(h)

StationNext ==
    /\ \/ \E r \in Requests \cap crowd : Arrives(r) \/ Proceeds(r)
       \/ \E a \in Admins \cap crowd : Locks(a)
       \/ \E h \in (Sockets \cup Buttons) \cap crowd : Routes(h)
       \/ \E s \in Servers : LockdownOnly(LockOff(s))
       \/ OperatorUnkeys \/ LockdownOnly(UnkeyFails)
       \/ WatchdogUnkeys \/ WatchdogFails
       \/ RoutingOnly(Routing!Settle)
    /\ UNCHANGED crowd

\* Only a timer that runs has to fire: a request may be stuck on its way for ever.
StationFairness ==
    WF_stationVars((WatchdogUnkeys \/ WatchdogFails) /\ UNCHANGED crowd)

StationSpec == StationInit /\ [][StationNext]_stationVars /\ StationFairness
-----------------------------------------------------------------------------
(* Properties                                                              *)

\* See TxRouting, of which these are the properties, here with the carrier of
\* the requests that key: the microphone is live when all is quiet
\* (serial.go:585-586),
QuietMeansMic == Routing!QuietMeansMic

\* a socket nobody else was routing against has the radio (api.go:752-756, serial.go:588-590),
SoleSocketHasRadio == Routing!SoleSocketHasRadio

\* and a microphone given back to a keyed radio was given to somebody who keyed
\* after the handler's own unkey (api.go:757-762).
MicBackUnkeyed == Routing!MicBackUnkeyed

\* A lockdown that stays on everywhere does in the end silence the station, also
\* a request it overtook that keyed after its unkey: nobody is admitted any more,
\* and a carrier that no write of SetPTT was lost under has its watchdog
\* (admin.go:200-207, serial.go:551-575).  A lost one leaves none behind.
LockedGoesQuiet ==
    <>[]AllLocked => <>[](carrier = "none" \/ (watchdog = "off" /\ faults > 0))
=============================================================================
