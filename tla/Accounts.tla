------------------------------ MODULE Accounts ------------------------------
(***************************************************************************)
(* The accounts of a station (internal/auth): the host's copy in memory    *)
(* with its sessions, the file it was loaded from, and everybody who       *)
(* changes it: admin requests in the host, the users command in a process  *)
(* of its own with a copy of its own, and the ticker that reloads a file   *)
(* whose modification time is not the one the host remembers.  A change is *)
(* made in memory under the lock, and written after it: to a temporary     *)
(* file, one path for all writers, which is then renamed.                  *)
(*                                                                         *)
(* A hash stands for a password: every SetPassword makes one never made    *)
(* before.  Modification times are counted.                                *)
(***************************************************************************)
EXTENDS Naturals, FiniteSets

CONSTANTS
    Names, Tokens,
    Web,         \* admin requests of the host
    Terminals,   \* users commands in processes of their own
    Torn,        \* what is read of a file caught half-written
    None,        \* no file
    MaxHashes,   \* bound: passwords ever set
    MaxTime,     \* bound: times the file is replaced
    MaxFaults,   \* bound: writes that fail
    MaxCrashes   \* bound: restarts of the host

\* No account: the empty name.
NoOne == ""

\* The writers are counted against the time left: there are finitely many.
ASSUME AccountsAssumption ==
    /\ Web \cap Terminals = {} /\ NoOne \notin Names
    /\ IsFiniteSet(Web) /\ IsFiniteSet(Terminals)
    /\ MaxHashes \in Nat \ {0} /\ {MaxTime, MaxFaults, MaxCrashes} \subseteq Nat

VARIABLES
    users,       \* the host's accounts
    sessions,    \* token to account name, NoOne for no session
    proof,       \* the hash each session was opened with (history)
    loadedAt,    \* the modification time the host remembers
    file, time,  \* the accounts file and its modification time
    tmp,         \* what is at the temporary path
    job,         \* where each writer is, with the copy it writes
    tick,        \* where the reload ticker is
    hashes, faults, crashes,
    acked,       \* the accounts last acknowledged as written, or read at a start
                 \* (history)
    overlapped,  \* a save has begun while another was on its way (history)
    raced        \* a reload, a start or another request's change met a change
                 \* under way (history)

hostVars == <<users, sessions, proof, loadedAt, tick>>
diskVars == <<file, time, tmp>>
bounds == <<hashes, faults, crashes>>
histVars == <<acked, overlapped, raced>>
vars == <<hostVars, diskVars, job, bounds, histVars>>

Writers == Web \cup Terminals
Absent == [hash |-> 0, perms |-> {}]
Account == [hash : 1..MaxHashes, perms : SUBSET {"tx", "admin"}]
Books == [Names -> Account \cup {Absent}]

ASSUME TornAssumption == Torn # None /\ {Torn, None} \cap Books = {}

Idle == [step |-> "idle", book |-> None, name |-> NoOne, perms |-> {}]
Known(book) == {n \in Names : book[n] # Absent}
Admins(book) == {n \in Names : "admin" \in book[n].perms}

\* With the types: no session without an account.
TypeOK ==
    /\ users \in Books
    /\ sessions \in [Tokens -> Names \cup {NoOne}]
    /\ proof \in [Tokens -> 0..MaxHashes]
    /\ loadedAt \in 0..MaxTime /\ time \in 0..MaxTime
    /\ file \in Books \cup {Torn} /\ tmp \in Books \cup {Torn, None}
    /\ job \in [Writers -> [step : {"idle", "edit", "perms", "tmp", "fill", "fillFile",
                                    "fillGone", "rename", "stamp"},
                            book : Books \cup {None}, name : Names \cup {NoOne},
                            perms : SUBSET {"tx", "admin"}]]
    /\ tick \in [step : {"idle", "load", "replace", "boot"}, mt : 0..MaxTime,
                 book : Books \cup {None}]
    /\ hashes \in 0..MaxHashes /\ faults \in 0..MaxFaults /\ crashes \in 0..MaxCrashes
    /\ acked \in Books
    /\ {overlapped, raced} \subseteq BOOLEAN
    /\ \A t \in Tokens : sessions[t] # NoOne => sessions[t] \in Known(users)

NotTicking == [step |-> "idle", mt |-> 0, book |-> None]

Founded(n) ==
    [m \in Names |-> IF m = n THEN [hash |-> 1, perms |-> {"tx", "admin"}] ELSE Absent]
Unfounded == [m \in Names |-> Absent]

\* A station with one administrator and its accounts on disk; where there is a
\* terminal to do it at, also one nobody has set up.
Init ==
    /\ users \in {Founded(n) : n \in Names} \cup (IF Terminals = {} THEN {} ELSE {Unfounded})
    /\ sessions = [t \in Tokens |-> NoOne] /\ proof = [t \in Tokens |-> 0]
    /\ file = users /\ time = 0 /\ loadedAt = 0 /\ tmp = None
    /\ job = [w \in Writers |-> Idle]
    /\ tick = NotTicking
    /\ hashes = (IF users = Unfounded THEN 0 ELSE 1) /\ faults = 0 /\ crashes = 0
    /\ acked = users /\ overlapped = FALSE /\ raced = FALSE

-----------------------------------------------------------------------------
(* Sessions                                                                *)

Login(t, n) ==
    /\ tick.step # "boot"
    /\ sessions[t] = NoOne
    /\ n \in Known(users)
    /\ sessions' = [sessions EXCEPT ![t] = n]
    /\ proof' = [proof EXCEPT ![t] = users[n].hash]
    /\ UNCHANGED <<users, loadedAt, tick, diskVars, job, bounds, histVars>>

\* Logout, kick or expiry.
SessionEnds(t) ==
    /\ sessions[t] # NoOne
    /\ sessions' = [sessions EXCEPT ![t] = NoOne]
    /\ UNCHANGED <<users, proof, loadedAt, tick, diskVars, job, bounds, histVars>>

EndSessionsOf(n) ==
    sessions' = [t \in Tokens |-> IF sessions[t] = n THEN NoOne ELSE sessions[t]]

-----------------------------------------------------------------------------
(* Changes: to the host's copy by a request, to its own by a command       *)

\* Bound: no writer begins that could not rename.
TimeToSpare == time + Cardinality({w \in Writers : job[w].step # "idle"}) < MaxTime

\* An administrator's request passes the check of its session: the name it is
\* from stays with it, the session and the rights may go before it acts.
Admitted(w) ==
    /\ w \in Web
    /\ job[w].step = "idle" /\ TimeToSpare
    /\ tick.step # "boot"
    /\ \E t \in Tokens :
          /\ sessions[t] \in Admins(users)
          /\ job' = [job EXCEPT ![w] = [Idle EXCEPT !.step = "edit", !.name = sessions[t]]]
    /\ UNCHANGED <<hostVars, diskVars, bounds, histVars>>

\* usersCommand loads the file into a service of its own.
TerminalLoads(w) ==
    /\ w \in Terminals
    /\ job[w].step = "idle" /\ TimeToSpare
    /\ file # Torn
    /\ job' = [job EXCEPT ![w] = [Idle EXCEPT !.step = "edit", !.book = file]]
    /\ UNCHANGED <<hostVars, diskVars, bounds, histVars>>

\* Between the temporary file and the answer.
OnItsWay(v) == job[v].step \in {"fill", "fillFile", "fillGone", "rename", "stamp"}

\* A change made in memory that is not the accounts file yet.
Unsaved(v) == job[v].step \in {"tmp", "fill", "fillFile", "fillGone", "rename"}

\* The changed copy is on its way out: the accounts as they are now, so of two
\* requests whose saves come in the other order the later's change is lost on disk.
Write(w, changed) ==
    /\ job' = [job EXCEPT ![w] = [Idle EXCEPT !.step = "tmp", !.book = changed]]
    /\ raced' = (raced \/ (w \in Web /\ (tick.step # "idle" \/ \E v \in Web : Unsaved(v))))
    /\ UNCHANGED <<acked, overlapped>>

Ready(w) == job[w].step = "edit"
BookOf(w) == IF w \in Web THEN users ELSE job[w].book

\* The account SetPassword leaves; the first of a station is its administrator.
WithPassword(book, n, h) ==
    [book EXCEPT ![n] =
        [hash |-> h,
         perms |-> IF Known(book) = {} THEN {"tx", "admin"} ELSE book[n].perms]]

\* /api/admin/user/add and password, users set.
SetPassword(w, n) ==
    /\ Ready(w)
    /\ hashes < MaxHashes
    /\ hashes' = hashes + 1
    /\ LET changed == WithPassword(BookOf(w), n, hashes + 1) IN
        /\ Write(w, changed)
        /\ IF w \in Web
           THEN users' = changed /\ EndSessionsOf(n)
           ELSE UNCHANGED <<users, sessions>>
    /\ UNCHANGED <<proof, loadedAt, tick, diskVars, faults, crashes>>

\* Mutant: the account goes and its sessions stay.
RemoveAccountOnly(w, n) ==
    /\ Ready(w)
    /\ n \in Known(BookOf(w))
    /\ Known(BookOf(w)) # {n}
    /\ n # job[w].name
    /\ LET changed == [BookOf(w) EXCEPT ![n] = Absent] IN
        /\ Write(w, changed)
        /\ users' = IF w \in Web THEN changed ELSE users
    /\ UNCHANGED <<sessions, proof, loadedAt, tick, diskVars, bounds>>

\* /api/admin/user/remove, of an account not one's own; users remove, of any.
Remove(w, n) ==
    /\ Ready(w)
    /\ n \in Known(BookOf(w))
    /\ Known(BookOf(w)) # {n}
    /\ n # job[w].name
    /\ LET changed == [BookOf(w) EXCEPT ![n] = Absent] IN
        /\ Write(w, changed)
        /\ IF w \in Web
           THEN users' = changed /\ EndSessionsOf(n)
           ELSE UNCHANGED <<users, sessions>>
    /\ UNCHANGED <<proof, loadedAt, tick, diskVars, bounds>>

\* PermsOf, with one flag changed: the permissions SetPerms will be given.  A
\* request does not take away its own admin flag.
ReadPerms(w, n) ==
    /\ Ready(w)
    /\ n \in Known(BookOf(w))
    /\ \E flag \in {"tx", "admin"} :
         LET p == BookOf(w)[n].perms IN
         \E q \in {p \cup {flag}, p \ {flag}} :
            /\ ~(n = job[w].name /\ flag = "admin" /\ "admin" \notin q)
            /\ job' = [job EXCEPT
                   ![w] = [step |-> "perms", book |-> @.book, name |-> n, perms |-> q]]
    /\ UNCHANGED <<hostVars, diskVars, bounds, histVars>>

SetPerms(w) ==
    /\ job[w].step = "perms"
    /\ LET n == job[w].name
           book == BookOf(w)
           refused == \/ n \notin Known(book)
                      \/ n \in Admins(book) /\ "admin" \notin job[w].perms /\ Admins(book) = {n}
           changed == [book EXCEPT ![n].perms = job[w].perms]
       IN IF refused
          THEN job' = [job EXCEPT ![w] = Idle] /\ UNCHANGED <<users, histVars>>
          ELSE /\ Write(w, changed)
               /\ users' = IF w \in Web THEN changed ELSE users
    /\ UNCHANGED <<sessions, proof, loadedAt, tick, diskVars, bounds>>

-----------------------------------------------------------------------------
(* persist: Store.Save, then the modification time                         *)

\* WriteFile truncates the temporary file, then fills it.
Truncate(w) ==
    /\ job[w].step = "tmp"
    /\ tmp' = Torn
    /\ job' = [job EXCEPT ![w].step = "fill"]
    /\ overlapped' = (overlapped \/ \E v \in Writers : OnItsWay(v))
    /\ UNCHANGED <<hostVars, file, time, bounds, acked, raced>>

\* Over what another writer put there a shorter text leaves the longer one's end.
Over(old, new) == {new} \cup (IF old \in {Torn, None} THEN {} ELSE {Torn})

Fill(w) ==
    /\ job[w].step = "fill"
    /\ tmp' \in Over(tmp, job[w].book)
    /\ job' = [job EXCEPT ![w].step = "rename"]
    /\ UNCHANGED <<hostVars, file, time, bounds, histVars>>

\* Another writer renamed the file under this one: it is the accounts file by
\* now, or was replaced since.
FillRenamed(w) ==
    /\ job[w].step \in {"fillFile", "fillGone"}
    /\ IF job[w].step = "fillFile" THEN file' \in Over(file, job[w].book) ELSE UNCHANGED file
    /\ job' = [job EXCEPT ![w].step = "rename"]
    /\ UNCHANGED <<hostVars, time, tmp, bounds, histVars>>

Renamed(step) ==
    CASE step = "fill" -> "fillFile" [] step = "fillFile" -> "fillGone" [] OTHER -> step

Rename(w) ==
    /\ job[w].step = "rename"
    /\ tmp # None
    /\ file' = tmp /\ tmp' = None /\ time' = time + 1
    /\ job' = [v \in Writers |->
                 [job[v] EXCEPT !.step = IF v = w THEN "stamp" ELSE Renamed(@)]]
    /\ raced' = (raced \/ tick.step \in (IF w \in Web THEN {"load", "replace"} ELSE {"boot"}))
    /\ UNCHANGED <<hostVars, bounds, acked, overlapped>>

\* The temporary file is gone: the request fails, its change stays in memory.
NothingToRename(w) ==
    /\ job[w].step = "rename"
    /\ tmp = None
    /\ job' = [job EXCEPT ![w] = Idle]
    /\ UNCHANGED <<hostVars, diskVars, bounds, histVars>>

\* Mutant: an error of Save that persist does not pass on.
SaveErrorDropped(w) ==
    /\ job[w].step \in {"tmp", "fill", "rename"}
    /\ faults < MaxFaults
    /\ faults' = faults + 1
    /\ tmp' = IF job[w].step = "rename" THEN None ELSE tmp
    /\ job' = [job EXCEPT ![w].step = "stamp"]
    /\ UNCHANGED <<hostVars, file, time, hashes, crashes, histVars>>

\* The disk refuses: the change stays in memory, a failed rename is cleared up.
SaveFails(w) ==
    /\ job[w].step \in {"tmp", "fill", "rename"}
    /\ faults < MaxFaults
    /\ faults' = faults + 1
    /\ tmp' = IF job[w].step = "rename" THEN None ELSE tmp
    /\ job' = [job EXCEPT ![w] = Idle]
    /\ UNCHANGED <<hostVars, file, time, hashes, crashes, histVars>>

\* The modification time the file has by then.
Stamp(w) ==
    /\ job[w].step = "stamp"
    /\ loadedAt' = IF w \in Web THEN time ELSE loadedAt
    /\ acked' = job[w].book
    /\ job' = [job EXCEPT ![w] = Idle]
    /\ UNCHANGED <<users, sessions, proof, tick, diskVars, bounds, overlapped, raced>>

-----------------------------------------------------------------------------
(* ReloadIfChanged, every three seconds                                    *)

TickChecks ==
    /\ tick.step = "idle"
    /\ time # loadedAt
    /\ tick' = [tick EXCEPT !.step = "load", !.mt = time]
    /\ UNCHANGED <<users, sessions, proof, loadedAt, diskVars, job, bounds, histVars>>

\* A file that is not JSON is an error and changes nothing.
TickLoads ==
    /\ tick.step = "load"
    /\ tick' = IF file = Torn THEN NotTicking
               ELSE [tick EXCEPT !.step = "replace", !.book = file]
    /\ UNCHANGED <<users, sessions, proof, loadedAt, diskVars, job, bounds, histVars>>

\* Mutant: a reload that looks at the accounts and not at their passwords.
ReplaceAndKeep ==
    /\ tick.step = "replace"
    /\ users' = tick.book
    /\ sessions' = [t \in Tokens |->
                      IF sessions[t] \in Known(tick.book) THEN sessions[t] ELSE NoOne]
    /\ loadedAt' = tick.mt
    /\ tick' = NotTicking
    /\ raced' = (raced \/ \E w \in Web : Unsaved(w))
    /\ UNCHANGED <<proof, diskVars, job, bounds, acked, overlapped>>

\* Mutant: the modification time is asked for when memory is replaced.
ReplaceAndStampNow ==
    /\ tick.step = "replace"
    /\ users' = tick.book
    /\ sessions' = [t \in Tokens |->
                      IF /\ sessions[t] \in Known(tick.book)
                         /\ users[sessions[t]].hash = tick.book[sessions[t]].hash
                      THEN sessions[t] ELSE NoOne]
    /\ loadedAt' = time
    /\ tick' = NotTicking
    /\ raced' = (raced \/ \E w \in Web : Unsaved(w))
    /\ UNCHANGED <<proof, diskVars, job, bounds, acked, overlapped>>

\* replaceLocked ends the sessions of accounts gone or with another password.
TickReplaces ==
    /\ tick.step = "replace"
    /\ users' = tick.book
    /\ sessions' = [t \in Tokens |->
                      IF /\ sessions[t] \in Known(tick.book)
                         /\ users[sessions[t]].hash = tick.book[sessions[t]].hash
                      THEN sessions[t] ELSE NoOne]
    /\ loadedAt' = tick.mt
    /\ tick' = NotTicking
    /\ raced' = (raced \/ \E w \in Web : Unsaved(w))
    /\ UNCHANGED <<proof, diskVars, job, bounds, acked, overlapped>>

-----------------------------------------------------------------------------
(* The host stops and starts: sessions and requests are lost               *)

Restart ==
    /\ crashes < MaxCrashes
    /\ crashes' = crashes + 1
    /\ file # Torn
    /\ users' = file
    /\ sessions' = [t \in Tokens |-> NoOne]
    /\ job' = [w \in Writers |-> IF w \in Web THEN Idle ELSE job[w]]
    /\ tick' = [NotTicking EXCEPT !.step = "boot"]
    /\ acked' = file
    /\ UNCHANGED <<proof, loadedAt, diskVars, hashes, faults, overlapped, raced>>

\* Load takes the modification time after it has read.
Boot ==
    /\ tick.step = "boot"
    /\ loadedAt' = time
    /\ tick' = NotTicking
    /\ UNCHANGED <<users, sessions, proof, diskVars, job, bounds, histVars>>

-----------------------------------------------------------------------------
Persist(w) ==
    \/ Truncate(w) \/ Fill(w) \/ FillRenamed(w) \/ Rename(w) \/ NothingToRename(w)
    \/ SaveFails(w) \/ Stamp(w)

Edit(w) ==
    \/ Admitted(w) \/ TerminalLoads(w) \/ SetPerms(w)
    \/ \E n \in Names : SetPassword(w, n) \/ Remove(w, n) \/ ReadPerms(w, n)

Ticker == TickChecks \/ TickLoads \/ TickReplaces

Next ==
    \/ \E t \in Tokens : SessionEnds(t) \/ (\E n \in Names : Login(t, n))
    \/ \E w \in Writers : Edit(w) \/ Persist(w)
    \/ Ticker \/ Restart \/ Boot

Spec == Init /\ [][Next]_vars
-----------------------------------------------------------------------------
(* Properties                                                              *)

\* A session stands on the password it was opened with: a reset, a removal and
\* a reload of either end it (auth.go:114-119, 325-326, 338-341).
SessionStands ==
    \A t \in Tokens : sessions[t] # NoOne => users[sessions[t]].hash = proof[t]

\* The accounts file is never one that cannot be read, whatever fails and
\* whenever the host stops (store.go:91-92), and what was acknowledged is what a
\* restart finds: the file is the accounts last acknowledged, but between the
\* rename and the answer (auth.go:417-427).  All of it as long as no two saves
\* overlap: they share one temporary file.
AckedIsDurable ==
    ~overlapped =>
        /\ file # Torn
        /\ (\A w \in Writers : job[w].step # "stamp") => file = acked

\* Nothing is on its way between memory and disk, and the host believes it has
\* read the file.
Quiet ==
    /\ \A w \in Writers : job[w].step \in {"idle", "edit", "perms"}
    /\ tick.step = "idle" /\ loadedAt = time

\* The host works with the accounts on disk, its own and a terminal's changes
\* ("reloads live", AUDIT.md:147), as long as no save overlaps another and no
\* reload, start or other request's change a change under way.
QuietAgrees == Quiet /\ faults = 0 /\ ~overlapped /\ ~raced => users = file
=============================================================================
