------------------------------ MODULE Lockdown ------------------------------
(***************************************************************************)
(* The station lockdown (internal/api/admin.go) against the routes that    *)
(* key the radio.  Each HTTP server of the host has a Lockdown of its own; *)
(* a keying request is admitted by mayTransmit and keys later, at once for *)
(* /api/ptt/on, after power, mode and a connection for the tuner.  Turning *)
(* the lockdown on sets the flag and then unkeys.                          *)
(*                                                                         *)
(* Of keying by the radio itself (CW text, its own ATU) the admission is   *)
(* here and the command that starts it; what it then transmits, and when   *)
(* it stops, is the radio's and not this carrier.  Raw CAT is left out.    *)
(***************************************************************************)
EXTENDS Naturals

CONSTANTS
    Servers,     \* api.Server values, each with its Lock
    Requests,    \* requests that want to key
    Admins,      \* requests to /api/admin/lockdown
    MaxFaults    \* bound: writes the radio does not take

ASSUME LockdownAssumption ==
    /\ Servers # {} /\ Requests # {} /\ Admins # {}
    /\ MaxFaults \in Nat

VARIABLES
    lock,        \* Lock.on of each server
    admin,       \* where each lockdown handler is
    request,     \* where each keying request is
    at,          \* the server each one came to
    carrier,     \* SetPTT's: none, or whose it is: keyed by a request a server
                 \* admitted after its last lockdown, or by one it overtook
    watchdog,    \* pttTimer: SetPTT(true) arms it once the radio has taken TX1;,
                 \* and every call of SetPTT stops it before it writes
    straddling,  \* requests under way when their server was locked (history)
    faults       \* writes of SetPTT lost so far

vars == <<lock, admin, request, at, carrier, watchdog, straddling, faults>>

\* With the types: one tune runs at a time.
TypeOK ==
    /\ lock \in [Servers -> {"open", "locked"}]
    /\ admin \in [Admins -> {"idle", "unkeying"}]
    /\ request \in [Requests -> {"idle", "ptt", "radio", "asked", "tune", "tuning"}]
    /\ at \in [Requests -> Servers]
    /\ carrier \in {"none", "admitted", "straddling"}
    /\ watchdog \in {"off", "running"}
    /\ straddling \subseteq Requests
    /\ faults \in 0..MaxFaults
    /\ \A r1, r2 \in Requests :
          {request[r1], request[r2]} \subseteq {"tune", "tuning"} => r1 = r2

Init ==
    /\ lock = [s \in Servers |-> "open"]
    /\ admin = [a \in Admins |-> "idle"]
    /\ request = [r \in Requests |-> "idle"]
    /\ at \in [Requests -> Servers]
    /\ carrier = "none" /\ watchdog = "off"
    /\ straddling = {}
    /\ faults = 0

MayTransmit(s) == lock[s] = "open"
UnderWay(r) == request[r] \in {"ptt", "radio", "asked", "tune"}
TunerActive == \E r \in Requests : request[r] \in {"tune", "tuning"}

-----------------------------------------------------------------------------
(* Keying requests                                                         *)

\* /api/ptt/on, past mayTransmit.
AdmitPTT(r, s) ==
    /\ request[r] = "idle"
    /\ MayTransmit(s)
    /\ request' = [request EXCEPT ![r] = "ptt"]
    /\ at' = [at EXCEPT ![r] = s]
    /\ straddling' = straddling \ {r}
    /\ UNCHANGED <<lock, admin, carrier, watchdog, faults>>

\* /api/tune, /api/cw/send/ and /api/cw/memory/ ask the lock themselves: the
\* command that has the radio key is to be sent.
AdmitRadio(r, s) ==
    /\ request[r] = "idle"
    /\ MayTransmit(s)
    /\ request' = [request EXCEPT ![r] = "radio"]
    /\ at' = [at EXCEPT ![r] = s]
    /\ straddling' = straddling \ {r}
    /\ UNCHANGED <<lock, admin, carrier, watchdog, faults>>

\* Mutant: the tuner route without the check, as it once was.
AdmitTuneUnchecked(r, s) ==
    /\ request[r] = "idle"
    /\ request' = [request EXCEPT ![r] = "asked"]
    /\ at' = [at EXCEPT ![r] = s]
    /\ straddling' = straddling \ {r}
    /\ UNCHANGED <<lock, admin, carrier, watchdog, faults>>

\* /api/tune/tgxl, past mayTransmit: Tune is to run in the background.
AdmitTune(r, s) ==
    /\ request[r] = "idle"
    /\ MayTransmit(s)
    /\ request' = [request EXCEPT ![r] = "asked"]
    /\ at' = [at EXCEPT ![r] = s]
    /\ straddling' = straddling \ {r}
    /\ UNCHANGED <<lock, admin, carrier, watchdog, faults>>

\* Mutant: a tune that does not look for another.
BeginSecondTune(r) ==
    /\ request[r] = "asked"
    /\ request' = [request EXCEPT ![r] = "tune"]
    /\ UNCHANGED <<lock, admin, at, carrier, watchdog, straddling, faults>>

\* Tune: a second one returns at once.
BeginTune(r) ==
    /\ request[r] = "asked"
    /\ request' = [request EXCEPT ![r] = IF TunerActive THEN "idle" ELSE "tune"]
    /\ UNCHANGED <<lock, admin, at, carrier, watchdog, straddling, faults>>

\* SetPTT(true).  Nothing looks at the lock again.
Key(r) ==
    /\ request[r] \in {"ptt", "tune"}
    /\ carrier' = IF r \in straddling THEN "straddling" ELSE "admitted"
    /\ watchdog' = "running"
    /\ request' = [request EXCEPT ![r] = IF @ = "tune" THEN "tuning" ELSE "idle"]
    /\ UNCHANGED <<lock, admin, at, straddling, faults>>

\* KY1, KM or AC002 is sent, or is not: PTT stays as it is.
SendToRadio(r) ==
    /\ request[r] = "radio"
    /\ request' = [request EXCEPT ![r] = "idle"]
    /\ UNCHANGED <<lock, admin, at, carrier, watchdog, straddling, faults>>

\* A write of SetPTT that is lost: the timer is stopped and the radio as it was.
PTTLost ==
    /\ faults < MaxFaults
    /\ faults' = faults + 1
    /\ watchdog' = "off"
    /\ UNCHANGED carrier

KeyFails(r) ==
    /\ request[r] \in {"ptt", "tune"}
    /\ PTTLost
    /\ request' = [request EXCEPT ![r] = "idle"]
    /\ UNCHANGED <<lock, admin, at, straddling>>

\* Power or mode is refused, or the tuner is not reached: Tune ends before it keys.
TuneFails(r) ==
    /\ request[r] = "tune"
    /\ request' = [request EXCEPT ![r] = "idle"]
    /\ UNCHANGED <<lock, admin, at, carrier, watchdog, straddling, faults>>

\* SetPTT(false), and the watchdog's own TX0;.
PTTOff == carrier' = "none" /\ watchdog' = "off" /\ UNCHANGED faults

\* The tune is over and unkeys;
TuneOver(r) ==
    /\ request[r] = "tuning"
    /\ PTTOff
    /\ request' = [request EXCEPT ![r] = "idle"]
    /\ UNCHANGED <<lock, admin, at, straddling>>

\* the error of that is dropped.
TuneUnkeyFails(r) ==
    /\ request[r] = "tuning"
    /\ PTTLost
    /\ request' = [request EXCEPT ![r] = "idle"]
    /\ UNCHANGED <<lock, admin, at, straddling>>

\* /api/ptt/off, /api/admin/unkey, a closing audio socket, the watchdog.
Unkey == PTTOff /\ UNCHANGED <<lock, admin, request, at, straddling>>
UnkeyFails == PTTLost /\ UNCHANGED <<lock, admin, request, at, straddling>>

-----------------------------------------------------------------------------
(* /api/admin/lockdown/on and off                                          *)

LockOn(a, s) ==
    /\ admin[a] = "idle"
    /\ lock' = [lock EXCEPT ![s] = "locked"]
    /\ straddling' = straddling \cup {r \in Requests : UnderWay(r) /\ at[r] = s}
    /\ admin' = [admin EXCEPT ![a] = "unkeying"]
    /\ UNCHANGED <<request, at, carrier, watchdog, faults>>

\* Mutant: the lockdown without its unkey is a label.
LockIsALabel(a) ==
    /\ admin[a] = "unkeying"
    /\ admin' = [admin EXCEPT ![a] = "idle"]
    /\ UNCHANGED <<lock, request, at, carrier, watchdog, straddling, faults>>

LockUnkeys(a) ==
    /\ admin[a] = "unkeying"
    /\ PTTOff
    /\ admin' = [admin EXCEPT ![a] = "idle"]
    /\ UNCHANGED <<lock, request, at, straddling>>

\* The error of this SetPTT is dropped and the reply says "unkeyed": true.
LockUnkeyFails(a) ==
    /\ admin[a] = "unkeying"
    /\ PTTLost
    /\ admin' = [admin EXCEPT ![a] = "idle"]
    /\ UNCHANGED <<lock, request, at, straddling>>

LockOff(s) ==
    /\ lock' = [lock EXCEPT ![s] = "open"]
    /\ UNCHANGED <<admin, request, at, carrier, watchdog, straddling, faults>>

-----------------------------------------------------------------------------
Keying(r) ==
    \/ \E s \in Servers : AdmitPTT(r, s) \/ AdmitTune(r, s) \/ AdmitRadio(r, s)
    \/ SendToRadio(r) \/ BeginTune(r) \/ Key(r) \/ KeyFails(r)
    \/ TuneFails(r) \/ TuneOver(r) \/ TuneUnkeyFails(r)

Locking(a) ==
    \/ \E s \in Servers : LockOn(a, s)
    \/ LockUnkeys(a) \/ LockUnkeyFails(a)

Next ==
    \/ \E r \in Requests : Keying(r)
    \/ \E a \in Admins : Locking(a)
    \/ \E s \in Servers : LockOff(s)
    \/ Unkey \/ UnkeyFails

Spec == Init /\ [][Next]_vars
-----------------------------------------------------------------------------
(* Properties                                                              *)

\* No lockdown handler is between the flag and the unkey.
Settled == \A a \in Admins : admin[a] = "idle"
AllLocked == \A s \in Servers : lock[s] = "locked"

\* Once the lockdown is on, on every server, and has unkeyed (admin.go:200-207),
\* the only carrier is one keyed by a request it overtook.
LockdownHolds == AllLocked /\ Settled /\ faults = 0 => carrier # "admitted"

\* A request still to key at a locked server was there before the lock: none is
\* let in after it, by /api/ptt/on (api.go:499-504), the tuner's route, or those
\* that have the radio key itself (rigroutes.go:143-153, 381-420).
NoneLetIn ==
    \A r \in Requests :
        UnderWay(r) /\ lock[at[r]] = "locked" => r \in straddling

\* What admin.go:16-17 says: turning it on genuinely takes the transmitter away.
TransmitterTakenAway == AllLocked /\ Settled /\ faults = 0 => carrier = "none"
=============================================================================
