--------------------------- MODULE Accounts_proofs ---------------------------
(***************************************************************************)
(* Proofs about Accounts, for any names, sessions and writers: a session   *)
(* stands on the password it was opened with, what was acknowledged is on  *)
(* disk as long as no two saves overlap, and the host works with it.       *)
(***************************************************************************)
EXTENDS Accounts, FiniteSetTheorems, TLAPS

LEMMA Assumed ==
  /\ MaxHashes \in Nat \ {0} /\ Web \cap Terminals = {} /\ NoOne \notin Names
  /\ Torn # None /\ Torn \notin Books /\ None \notin Books
BY AccountsAssumption, TornAssumption DEF AccountsAssumption, TornAssumption

JobSteps == {"idle", "edit", "perms", "tmp", "fill", "fillFile", "fillGone", "rename", "stamp"}
Jobs == [step : JobSteps, book : Books \cup {None}, name : Names \cup {NoOne},
         perms : SUBSET {"tx", "admin"}]
Ticks == [step : {"idle", "load", "replace", "boot"}, mt : Nat, book : Books \cup {None}]

\* Every copy of the accounts is a book where it is used as one.
Typed ==
    /\ users \in Books /\ hashes \in 0..MaxHashes
    /\ sessions \in [Tokens -> Names \cup {NoOne}] /\ proof \in [Tokens -> Nat]
    /\ file \in Books \cup {Torn} /\ tmp \in Books \cup {Torn, None} /\ time \in Nat
    /\ job \in [Writers -> Jobs] /\ tick \in Ticks
    /\ tick.step = "replace" => tick.book \in Books
    /\ \A w \in Writers :
          /\ job[w].step \in {"edit", "perms"} /\ w \notin Web => job[w].book \in Books
          /\ job[w].step = "perms" => job[w].name \in Names
          /\ job[w].step \notin {"idle", "edit", "perms"} => job[w].book \in Books

-----------------------------------------------------------------------------
(* What the changes do to a book                                           *)

LEMMA BookFacts ==
  ASSUME NEW book \in Books, NEW n \in Names
  PROVE  /\ book[n].hash \in Nat /\ book[n].hash <= MaxHashes
         /\ book[n].perms \subseteq {"tx", "admin"}
         /\ book[n] \in Account \/ book[n] = Absent
<1>1. CASE book[n] \in Account
  BY <1>1, Assumed DEF Account
<1>2. CASE book[n] = Absent
  BY <1>2, Assumed DEF Absent
<1>3. QED
  BY <1>1, <1>2 DEF Books

LEMMA SettingAPassword ==
  ASSUME NEW book \in Books, NEW n \in Names, NEW h \in 1..MaxHashes
  PROVE  /\ WithPassword(book, n, h) \in Books
         /\ WithPassword(book, n, h)[n].hash = h
         /\ \A m \in Names \ {n} : WithPassword(book, n, h)[m] = book[m]
<1>1. (IF Known(book) = {} THEN {"tx", "admin"} ELSE book[n].perms) \in SUBSET {"tx", "admin"}
  BY BookFacts
<1>2. [hash |-> h, perms |-> IF Known(book) = {} THEN {"tx", "admin"} ELSE book[n].perms]
        \in Account
  BY <1>1 DEF Account
<1>3. QED
  BY <1>2 DEF WithPassword, Books

LEMMA Removing ==
  ASSUME NEW book \in Books, NEW n \in Names
  PROVE  /\ [book EXCEPT ![n] = Absent] \in Books
         /\ \A m \in Names \ {n} : [book EXCEPT ![n] = Absent][m] = book[m]
BY DEF Books

LEMMA SettingPerms ==
  ASSUME NEW book \in Books, NEW n \in Names, NEW p \in SUBSET {"tx", "admin"},
         n \in Known(book)
  PROVE  /\ [book EXCEPT ![n].perms = p] \in Books
         /\ [book EXCEPT ![n].perms = p][n] # Absent
         /\ \A m \in Names : [book EXCEPT ![n].perms = p][m].hash = book[m].hash
         /\ \A m \in Names \ {n} : [book EXCEPT ![n].perms = p][m] = book[m]
<1>1. book[n] \in Account
  BY BookFacts DEF Known
<1>2. [book[n] EXCEPT !.perms = p] \in Account /\ [book[n] EXCEPT !.perms = p].hash = book[n].hash
  BY <1>1 DEF Account
<1>3. [book[n] EXCEPT !.perms = p] # Absent
  BY <1>2 DEF Account, Absent
<1>4. QED
  BY <1>2, <1>3 DEF Books

-----------------------------------------------------------------------------
(* Sessions stand                                                          *)

\* No session without an account, and each on the account's password.
SessionsInv ==
    \A t \in Tokens : sessions[t] # NoOne =>
        /\ sessions[t] \in Known(users)
        /\ users[sessions[t]].hash = proof[t]

\* What a change to the host's accounts may do: it ends the sessions of an
\* account it takes away or gives another password.
Respects(new) ==
    /\ users' = new
    /\ UNCHANGED proof
    /\ sessions' \in [Tokens -> Names \cup {NoOne}]
    /\ \A t \in Tokens : sessions'[t] # NoOne =>
          /\ sessions'[t] = sessions[t]
          /\ new[sessions[t]] # Absent
          /\ new[sessions[t]].hash = users[sessions[t]].hash

LEMMA RespectKeepsSessions ==
  ASSUME Typed, SessionsInv, NEW new \in Books, Respects(new)
  PROVE  SessionsInv'
BY DEF Typed, SessionsInv, Respects, Known

LEMMA UntouchedSessions ==
  ASSUME SessionsInv, UNCHANGED <<users, sessions, proof>>
  PROVE  SessionsInv'
BY DEF SessionsInv, Known

\* One writer moves on to a step at which its book is one, and the rest stays.
LEMMA MoveKeepsTypes ==
  ASSUME Typed, NEW w \in Writers, NEW j \in Jobs, job' = [job EXCEPT ![w] = j],
         j.step \in {"edit", "perms"} /\ w \notin Web => j.book \in Books,
         j.step = "perms" => j.name \in Names,
         j.step \notin {"idle", "edit", "perms"} => j.book \in Books
  PROVE  /\ job' \in [Writers -> Jobs]
         /\ \A v \in Writers :
              /\ job'[v].step \in {"edit", "perms"} /\ v \notin Web => job'[v].book \in Books
              /\ job'[v].step = "perms" => job'[v].name \in Names
              /\ job'[v].step \notin {"idle", "edit", "perms"} => job'[v].book \in Books
BY DEF Typed

LEMMA JobStep ==
  ASSUME NEW j \in Jobs, NEW step \in JobSteps
  PROVE  /\ [j EXCEPT !.step = step] \in Jobs
         /\ [j EXCEPT !.step = step].step = step
         /\ [j EXCEPT !.step = step].book = j.book
         /\ [j EXCEPT !.step = step].name = j.name
BY DEF Jobs

LEMMA IdleJob == Idle \in Jobs /\ Idle.step = "idle"
BY DEF Idle, Jobs, JobSteps

\* A writer on its way out has a book to write.
LEMMA WriteKeepsTypes ==
  ASSUME Typed, NEW w \in Writers, NEW changed \in Books, Write(w, changed)
  PROVE  /\ job' \in [Writers -> Jobs]
         /\ \A v \in Writers :
              /\ job'[v].step \in {"edit", "perms"} /\ v \notin Web => job'[v].book \in Books
              /\ job'[v].step = "perms" => job'[v].name \in Names
              /\ job'[v].step \notin {"idle", "edit", "perms"} => job'[v].book \in Books
<1>1. [Idle EXCEPT !.step = "tmp", !.book = changed] \in Jobs
  BY DEF Idle, Jobs, JobSteps
<1>2. /\ [Idle EXCEPT !.step = "tmp", !.book = changed].step = "tmp"
      /\ [Idle EXCEPT !.step = "tmp", !.book = changed].book = changed
  BY DEF Idle
<1>3. QED
  BY <1>1, <1>2, MoveKeepsTypes DEF Write

\* The book a writer that is ready changes.
LEMMA BookOfReady ==
  ASSUME Typed, NEW w \in Writers, job[w].step \in {"edit", "perms"}
  PROVE  BookOf(w) \in Books
BY DEF Typed, BookOf

LEMMA SetPasswordKeeps ==
  ASSUME Typed, SessionsInv, NEW w \in Writers, NEW n \in Names, SetPassword(w, n)
  PROVE  Typed' /\ SessionsInv'
<1> DEFINE h == hashes + 1
           changed == WithPassword(BookOf(w), n, h)
<1>1. h \in 1..MaxHashes /\ hashes' = h
  BY Assumed DEF Typed, SetPassword
<1>2. BookOf(w) \in Books
  BY BookOfReady DEF SetPassword, Ready
<1>3. changed \in Books /\ \A m \in Names \ {n} : changed[m] = BookOf(w)[m]
  BY <1>1, <1>2, SettingAPassword
<1> HIDE DEF h
<1>4. Write(w, changed) /\ UNCHANGED <<proof, loadedAt, tick, diskVars>>
  BY DEF SetPassword, h
<1>5. CASE w \in Web
  <2>1. users' = changed /\ EndSessionsOf(n) /\ BookOf(w) = users
    BY <1>5 DEF SetPassword, BookOf, h
  <2> HIDE DEF changed
  <2>2. Respects(changed)
    BY <1>3, <1>4, <2>1 DEF Respects, EndSessionsOf, SessionsInv, Known, Typed
  <2>3. Typed'
    BY <1>1, <1>3, <1>4, <2>1, <2>2, WriteKeepsTypes DEF Typed, diskVars, Respects
  <2>4. QED
    BY <1>3, <2>2, <2>3, RespectKeepsSessions
<1>6. CASE w \notin Web
  <2>1. UNCHANGED <<users, sessions>>
    BY <1>6 DEF SetPassword
  <2> HIDE DEF changed
  <2>2. Typed'
    BY <1>1, <1>3, <1>4, <2>1, WriteKeepsTypes DEF Typed, diskVars
  <2>3. QED
    BY <1>4, <2>1, <2>2, UntouchedSessions
<1>7. QED
  BY <1>5, <1>6

LEMMA RemoveKeeps ==
  ASSUME Typed, SessionsInv, NEW w \in Writers, NEW n \in Names, Remove(w, n)
  PROVE  Typed' /\ SessionsInv'
<1> DEFINE changed == [BookOf(w) EXCEPT ![n] = Absent]
<1>1. BookOf(w) \in Books
  BY BookOfReady DEF Remove, Ready
<1>2. changed \in Books /\ \A m \in Names \ {n} : changed[m] = BookOf(w)[m]
  BY <1>1, Removing
<1>3. Write(w, changed) /\ UNCHANGED <<proof, loadedAt, tick, diskVars, bounds>>
  BY DEF Remove
<1>4. CASE w \in Web
  <2>1. users' = changed /\ EndSessionsOf(n) /\ BookOf(w) = users
    BY <1>4 DEF Remove, BookOf
  <2> HIDE DEF changed
  <2>2. Respects(changed)
    BY <1>2, <1>3, <2>1 DEF Respects, EndSessionsOf, SessionsInv, Known, Typed
  <2>3. Typed'
    BY <1>2, <1>3, <2>1, <2>2, WriteKeepsTypes DEF Typed, diskVars, bounds, Respects
  <2>4. QED
    BY <1>2, <2>2, <2>3, RespectKeepsSessions
<1>5. CASE w \notin Web
  <2>1. UNCHANGED <<users, sessions>>
    BY <1>5 DEF Remove
  <2> HIDE DEF changed
  <2>2. Typed'
    BY <1>2, <1>3, <2>1, WriteKeepsTypes DEF Typed, diskVars, bounds
  <2>3. QED
    BY <1>3, <2>1, <2>2, UntouchedSessions
<1>6. QED
  BY <1>4, <1>5

LEMMA SetPermsKeeps ==
  ASSUME Typed, SessionsInv, NEW w \in Writers, SetPerms(w)
  PROVE  Typed' /\ SessionsInv'
<1> DEFINE n == job[w].name
           p == job[w].perms
           changed == [BookOf(w) EXCEPT ![n].perms = p]
<1>1. job[w].step = "perms" /\ n \in Names /\ p \in SUBSET {"tx", "admin"}
      /\ UNCHANGED <<sessions, proof, loadedAt, tick, diskVars, bounds>>
  BY DEF SetPerms, Typed, Jobs
<1> HIDE DEF n, p
<1>2. BookOf(w) \in Books
  BY <1>1, BookOfReady
<1>3. CASE job' = [job EXCEPT ![w] = Idle] /\ UNCHANGED users
  <2>1. Typed'
    BY <1>1, <1>3, IdleJob, MoveKeepsTypes DEF Typed, diskVars, bounds
  <2>2. QED
    BY <1>1, <1>3, <2>1, UntouchedSessions
<1>4. CASE /\ n \in Known(BookOf(w)) /\ Write(w, changed)
           /\ users' = IF w \in Web THEN changed ELSE users
  <2>1. /\ changed \in Books /\ changed[n] # Absent
        /\ \A m \in Names : changed[m].hash = BookOf(w)[m].hash
        /\ \A m \in Names \ {n} : changed[m] = BookOf(w)[m]
    BY <1>1, <1>2, <1>4, SettingPerms
  <2> HIDE DEF changed
  <2>2. CASE w \in Web
    <3>1. BookOf(w) = users
      BY <2>2 DEF BookOf
    <3>2. Respects(changed)
      BY <1>1, <1>4, <2>1, <2>2, <3>1 DEF Respects, SessionsInv, Known, Typed
    <3>3. Typed'
      BY <1>1, <1>4, <2>1, <2>2, WriteKeepsTypes DEF Typed, diskVars, bounds
    <3>4. QED
      BY <2>1, <3>2, <3>3, RespectKeepsSessions
  <2>3. CASE w \notin Web
    <3>1. Typed'
      BY <1>1, <1>4, <2>1, <2>3, WriteKeepsTypes DEF Typed, diskVars, bounds
    <3>2. QED
      BY <1>1, <1>4, <2>3, <3>1, UntouchedSessions
  <2>4. QED
    BY <2>2, <2>3
<1>5. QED
  BY <1>3, <1>4 DEF SetPerms, n, p

\* Admitted, TerminalLoads and ReadPerms: a job is made, nothing else.
LEMMA BeginningKeeps ==
  ASSUME Typed, SessionsInv, NEW w \in Writers,
         Admitted(w) \/ TerminalLoads(w) \/ \E n \in Names : ReadPerms(w, n)
  PROVE  Typed' /\ SessionsInv'
<1>1. UNCHANGED <<hostVars, diskVars, bounds, histVars>>
  BY DEF Admitted, TerminalLoads, ReadPerms
<1>2. SessionsInv'
  BY <1>1, UntouchedSessions DEF hostVars
<1>3. CASE Admitted(w)
  <2>1. PICK t \in Tokens :
           job' = [job EXCEPT ![w] = [Idle EXCEPT !.step = "edit", !.name = sessions[t]]]
    BY <1>3 DEF Admitted
  <2>2. [Idle EXCEPT !.step = "edit", !.name = sessions[t]] \in Jobs
        /\ [Idle EXCEPT !.step = "edit", !.name = sessions[t]].step = "edit"
    BY DEF Typed, Idle, Jobs, JobSteps
  <2>3. w \in Web
    BY <1>3 DEF Admitted
  <2>4. Typed'
    BY <1>1, <2>1, <2>2, <2>3, MoveKeepsTypes DEF Typed, hostVars, diskVars, bounds
  <2>5. QED
    BY <1>2, <2>4
<1>4. CASE TerminalLoads(w)
  <2>1. file \in Books /\ job' = [job EXCEPT ![w] = [Idle EXCEPT !.step = "edit", !.book = file]]
    BY <1>4 DEF TerminalLoads, Typed
  <2>2. /\ [Idle EXCEPT !.step = "edit", !.book = file] \in Jobs
        /\ [Idle EXCEPT !.step = "edit", !.book = file].step = "edit"
        /\ [Idle EXCEPT !.step = "edit", !.book = file].book = file
    BY <2>1 DEF Idle, Jobs, JobSteps
  <2>3. Typed'
    BY <1>1, <2>1, <2>2, MoveKeepsTypes DEF Typed, hostVars, diskVars, bounds
  <2>4. QED
    BY <1>2, <2>3
<1>5. ASSUME NEW n \in Names, ReadPerms(w, n) PROVE Typed' /\ SessionsInv'
  <2>1. /\ job[w].step = "edit"
        /\ BookOf(w)[n].perms \subseteq {"tx", "admin"}
    BY <1>5, BookOfReady, BookFacts DEF ReadPerms, Ready
  <2>2. PICK q \in SUBSET {"tx", "admin"} :
           job' = [job EXCEPT ![w] =
                     [step |-> "perms", book |-> job[w].book, name |-> n, perms |-> q]]
    BY <1>5, <2>1 DEF ReadPerms, Typed
  <2>3. [step |-> "perms", book |-> job[w].book, name |-> n, perms |-> q] \in Jobs
    BY DEF Typed, Jobs, JobSteps
  <2>4. Typed'
    BY <1>1, <2>1, <2>2, <2>3, MoveKeepsTypes DEF Typed, hostVars, diskVars, bounds
  <2>5. QED
    BY <1>2, <2>4
<1>6. QED
  BY <1>3, <1>4, <1>5

\* persist moves books to disk and sessions nowhere.
LEMMA PersistKeeps ==
  ASSUME Typed, SessionsInv, NEW w \in Writers, Persist(w)
  PROVE  Typed' /\ SessionsInv'
<1>1. UNCHANGED <<users, sessions, proof, tick, hashes>>
  BY DEF Persist, Truncate, Fill, FillRenamed, Rename, NothingToRename, SaveFails, Stamp,
         hostVars, bounds
<1>2. SessionsInv'
  BY <1>1, UntouchedSessions
<1>3. job[w] \in Jobs
  BY DEF Typed
<1>4. ASSUME NEW step \in JobSteps \ {"edit", "perms"},
             job[w].step \notin {"idle", "edit", "perms"},
             job' = [job EXCEPT ![w].step = step]
      PROVE  /\ job' \in [Writers -> Jobs]
             /\ \A v \in Writers :
                  /\ job'[v].step \in {"edit", "perms"} /\ v \notin Web => job'[v].book \in Books
                  /\ job'[v].step = "perms" => job'[v].name \in Names
                  /\ job'[v].step \notin {"idle", "edit", "perms"} => job'[v].book \in Books
  <2> DEFINE k == [job[w] EXCEPT !.step = step]
  <2>1. job' = [job EXCEPT ![w] = k]
    BY <1>4 DEF Typed
  <2>2. job[w].book \in Books
    BY <1>4 DEF Typed
  <2>3. k \in Jobs /\ k.step = step /\ k.book = job[w].book
    BY <1>3, JobStep
  <2>4. step \notin {"edit", "perms"}
    OBVIOUS
  <2> HIDE DEF k
  <2>5. QED
    BY <2>1, <2>2, <2>3, <2>4, MoveKeepsTypes
<1>5. CASE Truncate(w)
  <2>1. "fill" \in JobSteps \ {"edit", "perms"}
    BY DEF JobSteps
  <2>2. QED
    BY <1>1, <1>2, <1>4, <1>5, <2>1 DEF Truncate, Typed
<1>6. CASE Fill(w) \/ FillRenamed(w)
  <2>1. "rename" \in JobSteps \ {"edit", "perms"}
    BY DEF JobSteps
  <2>2. job[w].book \in Books
    BY <1>6 DEF Fill, FillRenamed, Typed
  <2>3. file' \in Books \cup {Torn} /\ tmp' \in Books \cup {Torn, None} /\ time' \in Nat
    BY <1>6, <2>2 DEF Fill, FillRenamed, Over, Typed
  <2>4. job[w].step \notin {"idle", "edit", "perms"} /\ job' = [job EXCEPT ![w].step = "rename"]
    BY <1>6 DEF Fill, FillRenamed
  <2>5. QED
    BY <1>1, <1>2, <1>4, <2>1, <2>3, <2>4 DEF Typed
<1>7. CASE Rename(w)
  <2>1. \A v \in Writers : \E step \in JobSteps :
           /\ job'[v] = [job[v] EXCEPT !.step = step]
           /\ \/ step = job[v].step
              \/ /\ step \in {"fillFile", "fillGone", "stamp"}
                 /\ job[v].step \in {"fill", "fillFile", "rename"}
    BY <1>7 DEF Rename, Renamed, Typed, Jobs, JobSteps
  <2>2. ASSUME NEW v \in Writers
        PROVE  /\ job'[v] \in Jobs /\ job'[v].book = job[v].book
               /\ job'[v].name = job[v].name
               /\ \/ job'[v].step = job[v].step
                  \/ /\ job'[v].step \in {"fillFile", "fillGone", "stamp"}
                     /\ job[v].step \in {"fill", "fillFile", "rename"}
    <3>1. PICK step \in JobSteps :
             /\ job'[v] = [job[v] EXCEPT !.step = step]
             /\ \/ step = job[v].step
                \/ /\ step \in {"fillFile", "fillGone", "stamp"}
                   /\ job[v].step \in {"fill", "fillFile", "rename"}
      BY <2>1
    <3>2. job[v] \in Jobs
      BY DEF Typed
    <3>3. QED
      BY <3>1, <3>2, JobStep
  <2>3. job' \in [Writers -> Jobs]
    BY <1>7, <2>2 DEF Rename
  <2>4. \A v \in Writers :
           /\ job'[v].step \in {"edit", "perms"} /\ v \notin Web => job'[v].book \in Books
           /\ job'[v].step = "perms" => job'[v].name \in Names
           /\ job'[v].step \notin {"idle", "edit", "perms"} => job'[v].book \in Books
    BY <2>2 DEF Typed
  <2>5. file' \in Books \cup {Torn} /\ tmp' \in Books \cup {Torn, None} /\ time' \in Nat
    BY <1>7 DEF Rename, Typed
  <2>6. QED
    BY <1>1, <1>2, <2>3, <2>4, <2>5 DEF Typed
<1>8. CASE NothingToRename(w) \/ SaveFails(w) \/ Stamp(w)
  <2>1. job' = [job EXCEPT ![w] = Idle] /\ UNCHANGED <<file, time>> /\ tmp' \in {tmp, None}
    BY <1>8 DEF NothingToRename, SaveFails, Stamp, diskVars
  <2>2. QED
    BY <1>1, <1>2, <2>1, IdleJob, MoveKeepsTypes DEF Typed
<1>9. QED
  BY <1>5, <1>6, <1>7, <1>8 DEF Persist

LEMMA LoginKeeps ==
  ASSUME Typed, SessionsInv, NEW t \in Tokens,
         SessionEnds(t) \/ \E n \in Names : Login(t, n)
  PROVE  Typed' /\ SessionsInv'
<1>1. CASE SessionEnds(t)
  BY <1>1 DEF SessionEnds, Typed, SessionsInv, Known, diskVars, bounds
<1>2. ASSUME NEW n \in Names, Login(t, n) PROVE Typed' /\ SessionsInv'
  <2>1. users[n].hash \in Nat
    BY BookFacts DEF Typed
  <2>2. QED
    BY <1>2, <2>1 DEF Login, Typed, SessionsInv, Known, diskVars, bounds
<1>3. QED
  BY <1>1, <1>2

\* A reload ends the sessions of accounts gone or with another password.
LEMMA TickerKeeps ==
  ASSUME Typed, SessionsInv, Ticker
  PROVE  Typed' /\ SessionsInv'
<1>1. CASE TickChecks
  <2>1. [tick EXCEPT !.step = "load", !.mt = time] \in Ticks
        /\ [tick EXCEPT !.step = "load", !.mt = time].step = "load"
    BY DEF Typed, Ticks
  <2>2. Typed'
    BY <1>1, <2>1 DEF TickChecks, Typed, diskVars, bounds
  <2>3. QED
    BY <1>1, <2>2, UntouchedSessions DEF TickChecks
<1>2. CASE TickLoads
  <2>1. NotTicking \in Ticks /\ NotTicking.step = "idle"
    BY DEF NotTicking, Ticks
  <2>2. file # Torn => /\ [tick EXCEPT !.step = "replace", !.book = file] \in Ticks
                       /\ [tick EXCEPT !.step = "replace", !.book = file].book = file
                       /\ file \in Books
    BY DEF Typed, Ticks
  <2>3. tick' \in Ticks /\ (tick'.step = "replace" => tick'.book \in Books)
    BY <1>2, <2>1, <2>2 DEF TickLoads
  <2>4. Typed'
    BY <1>2, <2>3 DEF TickLoads, Typed, diskVars, bounds
  <2>5. QED
    BY <1>2, <2>4, UntouchedSessions DEF TickLoads
<1>3. CASE TickReplaces
  <2>1. NotTicking \in Ticks /\ NotTicking.step = "idle"
    BY DEF NotTicking, Ticks
  <2>2. tick.book \in Books /\ tick.mt \in Nat
    BY <1>3 DEF TickReplaces, Typed, Ticks
  <2>3. Respects(tick.book)
    BY <1>3 DEF TickReplaces, Respects, SessionsInv, Typed, Known
  <2>4. Typed'
    BY <1>3, <2>1, <2>2, <2>3 DEF TickReplaces, Typed, Respects, diskVars, bounds
  <2>5. QED
    BY <2>2, <2>3, <2>4, RespectKeepsSessions
<1>4. QED
  BY <1>1, <1>2, <1>3 DEF Ticker

LEMMA RestartKeeps ==
  ASSUME Typed, SessionsInv, Restart \/ Boot
  PROVE  Typed' /\ SessionsInv'
<1>1. NotTicking \in Ticks /\ NotTicking.step = "idle"
  BY DEF NotTicking, Ticks
<1>2. CASE Restart
  <2>1. [NotTicking EXCEPT !.step = "boot"] \in Ticks
        /\ [NotTicking EXCEPT !.step = "boot"].step = "boot"
    BY DEF NotTicking, Ticks
  <2>2. file \in Books
    BY <1>2 DEF Restart, Typed
  <2>3. job' \in [Writers -> Jobs]
    BY <1>2, IdleJob DEF Restart, Typed
  <2>4. \A w \in Writers : job'[w] = job[w] \/ job'[w].step = "idle"
    BY <1>2, IdleJob DEF Restart
  <2>5. Typed'
    BY <1>2, <2>1, <2>2, <2>3, <2>4 DEF Restart, Typed, diskVars
  <2>6. SessionsInv'
    BY <1>2 DEF Restart, SessionsInv
  <2>7. QED
    BY <2>5, <2>6
<1>3. CASE Boot
  <2>1. Typed'
    BY <1>1, <1>3 DEF Boot, Typed, diskVars, bounds
  <2>2. QED
    BY <1>3, <2>1, UntouchedSessions DEF Boot
<1>4. QED
  BY <1>2, <1>3

LEMMA StartsTyped == Init => Typed /\ SessionsInv
<1>1. SUFFICES ASSUME Init PROVE Typed /\ SessionsInv
  OBVIOUS
<1>2. users \in Books
  <2>1. CASE users = Unfounded
    BY <2>1 DEF Unfounded, Books
  <2>2. ASSUME NEW n \in Names, users = Founded(n) PROVE users \in Books
    <3>1. [hash |-> 1, perms |-> {"tx", "admin"}] \in Account
      BY Assumed DEF Account
    <3>2. QED
      BY <2>2, <3>1 DEF Founded, Books
  <2>3. QED
    BY <1>1, <2>1, <2>2 DEF Init
<1>3. NotTicking \in Ticks /\ NotTicking.step = "idle"
  BY DEF NotTicking, Ticks
<1>4. hashes \in 0..MaxHashes
  BY <1>1, Assumed DEF Init
<1>5. QED
  BY <1>1, <1>2, <1>3, <1>4, IdleJob DEF Init, Typed, SessionsInv

LEMMA StepKeepsSessions == Typed /\ SessionsInv /\ [Next]_vars => Typed' /\ SessionsInv'
<1>1. SUFFICES ASSUME Typed, SessionsInv, [Next]_vars PROVE Typed' /\ SessionsInv'
  OBVIOUS
<1>2. ASSUME NEW w \in Writers, Edit(w) PROVE Typed' /\ SessionsInv'
  BY <1>1, <1>2, BeginningKeeps, SetPermsKeeps, SetPasswordKeeps, RemoveKeeps DEF Edit
<1>3. CASE UNCHANGED vars
  BY <1>1, <1>3 DEF vars, hostVars, diskVars, bounds, Typed, SessionsInv, Known
<1>4. QED
  BY <1>1, <1>2, <1>3, LoginKeeps, PersistKeeps, TickerKeeps, RestartKeeps DEF Next

LEMMA SessionsInvariant == Spec => [](Typed /\ SessionsInv)
BY StartsTyped, StepKeepsSessions, PTL DEF Spec

\* A session stands on the password it was opened with, whoever changes the
\* accounts, in the host, at a terminal or by replacing the file.
THEOREM AccountsSessionStands == Spec => []SessionStands
<1>1. SessionsInv => SessionStands
  BY DEF SessionsInv, SessionStands
<1>2. QED
  BY <1>1, SessionsInvariant, PTL

-----------------------------------------------------------------------------
(* What was acknowledged is on disk                                        *)

\* While no two saves have overlapped one writer at most is on its way, and
\* between its temporary file and its answer the disk holds what it writes.
SaveInv ==
    /\ overlapped \in BOOLEAN
    /\ overlapped = FALSE =>
        /\ \A v, w \in Writers : OnItsWay(v) /\ OnItsWay(w) => v = w
        /\ \A w \in Writers :
              /\ job[w].step \notin {"fillFile", "fillGone"}
              /\ job[w].step = "fill" => tmp = Torn
              /\ job[w].step = "rename" => tmp = job[w].book
              /\ job[w].step = "stamp" => file = job[w].book
        /\ file # Torn
        /\ (\A w \in Writers : job[w].step # "stamp") => file = acked

\* Steps of writers that are not on their way disturb nobody who is.
LEMMA OffTheWay ==
  ASSUME SaveInv, UNCHANGED <<file, tmp, acked, overlapped>>,
         \A w \in Writers : job'[w] = job[w] \/ (~OnItsWay(w) /\ ~OnItsWay(w)')
  PROVE  SaveInv'
<1>1. \A w \in Writers :
         \/ job'[w] = job[w]
         \/ /\ job[w].step \notin {"fill", "fillFile", "fillGone", "rename", "stamp"}
            /\ job'[w].step \notin {"fill", "fillFile", "fillGone", "rename", "stamp"}
  BY DEF OnItsWay
<1>2. QED
  BY <1>1 DEF SaveInv, OnItsWay

LEMMA EditKeepsSaved ==
  ASSUME Typed, SaveInv, NEW w \in Writers, Edit(w)
  PROVE  SaveInv'
<1>1. UNCHANGED <<file, tmp, acked, overlapped>>
  BY DEF Edit, Admitted, TerminalLoads, SetPerms, SetPassword, Remove, ReadPerms, Write, diskVars,
         histVars
<1>2. job[w].step \in {"idle", "edit", "perms"}
  BY DEF Edit, Admitted, TerminalLoads, SetPerms, SetPassword, Remove, ReadPerms, Ready
<1>3. PICK j : job' = [job EXCEPT ![w] = j] /\ j.step \in {"idle", "edit", "perms", "tmp"}
  <2>1. CASE Admitted(w) \/ TerminalLoads(w)
    BY <2>1 DEF Admitted, TerminalLoads, Idle
  <2>2. ASSUME NEW changed, Write(w, changed)
        PROVE  \E j : job' = [job EXCEPT ![w] = j] /\ j.step \in {"idle", "edit", "perms", "tmp"}
    <3> DEFINE k == [Idle EXCEPT !.step = "tmp", !.book = changed]
    <3>1. k.step = "tmp" /\ job' = [job EXCEPT ![w] = k]
      BY <2>2 DEF Write, Idle
    <3> HIDE DEF k
    <3>2. QED
      BY <3>1
  <2>3. CASE SetPerms(w)
    BY <2>2, <2>3 DEF SetPerms, Idle
  <2>4. ASSUME NEW n \in Names, SetPassword(w, n) \/ Remove(w, n)
        PROVE  \E j : job' = [job EXCEPT ![w] = j] /\ j.step \in {"idle", "edit", "perms", "tmp"}
    BY <2>2, <2>4 DEF SetPassword, Remove
  <2>5. ASSUME NEW n \in Names, ReadPerms(w, n)
        PROVE  \E j : job' = [job EXCEPT ![w] = j] /\ j.step \in {"idle", "edit", "perms", "tmp"}
    <3>1. PICK q : job' = [job EXCEPT ![w] =
                             [step |-> "perms", book |-> job[w].book, name |-> n, perms |-> q]]
      BY <2>5 DEF ReadPerms
    <3> DEFINE k == [step |-> "perms", book |-> job[w].book, name |-> n, perms |-> q]
    <3>2. k.step = "perms" /\ job' = [job EXCEPT ![w] = k]
      BY <3>1
    <3> HIDE DEF k
    <3>3. QED
      BY <3>2
  <2>6. QED
    BY <2>1, <2>3, <2>4, <2>5 DEF Edit
<1>4. \A v \in Writers : v # w => job'[v] = job[v]
  BY <1>3 DEF Typed
<1>5. job'[w].step \in {"idle", "edit", "perms", "tmp"}
  BY <1>3 DEF Typed
<1>6. QED
  BY <1>1, <1>2, <1>4, <1>5, OffTheWay DEF OnItsWay

LEMMA PersistKeepsSaved ==
  ASSUME Typed, SaveInv, NEW w \in Writers, Persist(w)
  PROVE  SaveInv'
<1>1. SUFFICES ASSUME overlapped' = FALSE PROVE SaveInv'
  BY DEF SaveInv, Persist, Truncate, Fill, FillRenamed, Rename, NothingToRename, SaveFails, Stamp,
         histVars
<1>2. overlapped = FALSE
  BY <1>1 DEF SaveInv, Persist, Truncate, Fill, FillRenamed, Rename, NothingToRename, SaveFails,
              Stamp, histVars
<1>3. job[w].step \notin {"idle", "edit", "perms"} => job[w].book \in Books
  BY DEF Typed
<1>4. OnItsWay(w) => \A v \in Writers : v # w => ~OnItsWay(v)
  BY <1>2 DEF SaveInv
<1>5. CASE Truncate(w)
  <2>1. \A v \in Writers : ~OnItsWay(v)
    BY <1>1, <1>5 DEF Truncate
  <2>2. /\ job'[w].step = "fill" /\ tmp' = Torn
        /\ \A v \in Writers : v # w => job'[v] = job[v]
        /\ UNCHANGED <<file, acked>>
    BY <1>5 DEF Truncate, Typed, Jobs
  <2>3. QED
    BY <1>1, <1>2, <2>1, <2>2 DEF SaveInv, OnItsWay
<1>6. CASE Fill(w)
  <2>1. tmp = Torn
    BY <1>2, <1>6 DEF SaveInv, Fill
  <2>2. /\ job'[w].step = "rename" /\ job'[w].book = job[w].book /\ tmp' = job[w].book
        /\ \A v \in Writers : v # w => job'[v] = job[v]
        /\ UNCHANGED <<file, acked>>
    BY <1>6, <2>1 DEF Fill, Over, Typed, Jobs, histVars
  <2>3. \A v \in Writers : v # w => ~OnItsWay(v)
    BY <1>4, <1>6 DEF Fill, OnItsWay
  <2>4. job[w].step # "stamp"
    BY <1>6 DEF Fill
  <2>5. QED
    BY <1>1, <1>2, <2>2, <2>3, <2>4 DEF SaveInv, OnItsWay
<1>7. CASE FillRenamed(w)
  BY <1>2, <1>7 DEF FillRenamed, SaveInv
<1>8. CASE Rename(w)
  <2>1. tmp = job[w].book /\ job[w].book \in Books
    BY <1>2, <1>3, <1>8 DEF SaveInv, Rename
  <2>2. \A v \in Writers : v # w => ~OnItsWay(v)
    BY <1>4, <1>8 DEF Rename, OnItsWay
  <2>3. /\ job'[w].step = "stamp" /\ job'[w].book = job[w].book /\ file' = job[w].book
    BY <1>8, <2>1 DEF Rename, Typed, Jobs
  <2>4. \A v \in Writers : v # w => job'[v].step = job[v].step
    BY <1>8, <2>2 DEF Rename, Renamed, OnItsWay, Typed, Jobs
  <2>5. file' # Torn
    BY <2>1, <2>3, Assumed
  <2>6. QED
    BY <1>1, <2>2, <2>3, <2>4, <2>5 DEF SaveInv, OnItsWay
<1>9. CASE NothingToRename(w)
  <2>1. tmp \in Books
    BY <1>2, <1>3, <1>9 DEF SaveInv, NothingToRename
  <2>2. QED
    BY <1>9, <2>1, Assumed DEF NothingToRename
<1>10. CASE SaveFails(w)
  <2>1. /\ job'[w].step = "idle" /\ \A v \in Writers : v # w => job'[v] = job[v]
        /\ UNCHANGED <<file, acked>>
    BY <1>10, IdleJob DEF SaveFails, Typed, histVars
  <2>2. CASE job[w].step = "tmp"
    BY <1>10, <2>1, <2>2, OffTheWay DEF SaveFails, OnItsWay, histVars
  <2>3. CASE job[w].step # "tmp"
    <3>1. OnItsWay(w) /\ job[w].step # "stamp"
      BY <1>10, <2>3 DEF SaveFails, OnItsWay
    <3>2. QED
      BY <1>1, <1>2, <1>4, <2>1, <3>1 DEF SaveInv, OnItsWay
  <2>4. QED
    BY <2>2, <2>3
<1>11. CASE Stamp(w)
  <2>1. /\ job'[w].step = "idle" /\ \A v \in Writers : v # w => job'[v] = job[v]
        /\ UNCHANGED file /\ acked' = job[w].book
    BY <1>11, IdleJob DEF Stamp, Typed, diskVars
  <2>2. file = job[w].book /\ OnItsWay(w)
    BY <1>2, <1>11 DEF SaveInv, Stamp, OnItsWay
  <2>3. QED
    BY <1>1, <1>2, <1>4, <2>1, <2>2 DEF SaveInv, OnItsWay
<1>12. QED
  BY <1>5, <1>6, <1>7, <1>8, <1>9, <1>10, <1>11 DEF Persist

LEMMA RestartKeepsSaved ==
  ASSUME Typed, SaveInv, Restart
  PROVE  SaveInv'
<1>1. \A w \in Writers : job'[w] = job[w] \/ job'[w].step = "idle"
  BY IdleJob DEF Restart
<1>2. file' = file /\ file # Torn /\ tmp' = tmp /\ acked' = file /\ overlapped' = overlapped
  BY DEF Restart, diskVars
<1>3. QED
  BY <1>1, <1>2 DEF SaveInv, OnItsWay

LEMMA StepKeepsSaved == Typed /\ SaveInv /\ [Next]_vars => SaveInv'
<1>1. SUFFICES ASSUME Typed, SaveInv, [Next]_vars PROVE SaveInv'
  OBVIOUS
<1>2. CASE UNCHANGED <<diskVars, job, histVars>>
  BY <1>1, <1>2, OffTheWay DEF diskVars, histVars
<1>3. CASE Ticker
  <2>1. UNCHANGED <<file, tmp, acked, overlapped, job>>
    BY <1>3 DEF Ticker, TickChecks, TickLoads, TickReplaces, diskVars, histVars
  <2>2. QED
    BY <1>1, <2>1, OffTheWay
<1>4. ASSUME NEW t \in Tokens, SessionEnds(t) \/ \E n \in Names : Login(t, n) PROVE SaveInv'
  BY <1>2, <1>4 DEF SessionEnds, Login
<1>5. CASE Boot \/ UNCHANGED vars
  BY <1>2, <1>5 DEF Boot, vars
<1>6. QED
  BY <1>1, <1>3, <1>4, <1>5, EditKeepsSaved, PersistKeepsSaved, RestartKeepsSaved DEF Next

LEMMA SavedInvariant == Spec => []SaveInv
<1>1. Init => SaveInv
  <2>1. SUFFICES ASSUME Init PROVE SaveInv
    OBVIOUS
  <2>2. users \in Books
    BY <2>1, StartsTyped DEF Typed
  <2>3. QED
    BY <2>1, <2>2, IdleJob, Assumed DEF Init, SaveInv, OnItsWay
<1>2. QED
  BY <1>1, SessionsInvariant, StepKeepsSaved, PTL DEF Spec

\* What was acknowledged is what a restart finds, as long as no two saves overlap
\* on their one temporary file: a crash or a refused write between any two steps
\* leaves a file that can be read, the old or the new.
THEOREM AccountsAckedIsDurable == Spec => []AckedIsDurable
<1>1. SaveInv => AckedIsDurable
  BY DEF SaveInv, AckedIsDurable
<1>2. QED
  BY <1>1, SavedInvariant, PTL

-----------------------------------------------------------------------------
(* The host works with the accounts on disk                                *)

Undisturbed == faults = 0 /\ overlapped = FALSE /\ raced = FALSE

UnsavedSteps == {"tmp", "fill", "fillFile", "fillGone", "rename"}
WebUnsaved == \E w \in Web : job[w].step \in UnsavedSteps
WebStamps == \E w \in Web : job[w].step = "stamp"

\* One request's change at most is on its way, and it is the host's accounts; else
\* those are the file, or the file is newer than the host believes, or than the
\* reload under way will.
Agrees ==
    /\ \A v, w \in Web : job[v].step \in UnsavedSteps /\ job[w].step \in UnsavedSteps => v = w
    /\ \A w \in Web : job[w].step \in UnsavedSteps => job[w].book = users
    /\ ~WebUnsaved => users = file \/ (loadedAt < time /\ ~WebStamps)
    /\ tick.step = "replace" => tick.book = file \/ (tick.mt < time /\ ~WebStamps)
    /\ tick.step = "boot" => users = file /\ \A w \in Web : job[w].step = "idle"

Clocks ==
    /\ faults \in Nat /\ raced \in BOOLEAN
    /\ loadedAt \in Nat /\ loadedAt <= time /\ tick.mt <= time

AgreeInv == Clocks /\ (Undisturbed => Agrees)

\* A request or a command that begins.
LEMMA Beginning ==
  ASSUME NEW w \in Writers, Admitted(w) \/ TerminalLoads(w)
  PROVE  /\ job[w].step = "idle" /\ (tick.step = "boot" => w \notin Web)
         /\ UNCHANGED <<hostVars, diskVars, bounds, histVars>>
         /\ \E j : job' = [job EXCEPT ![w] = j] /\ j.step = "edit"
<1>1. CASE Admitted(w)
  <2>1. /\ job[w].step = "idle" /\ tick.step # "boot"
        /\ UNCHANGED <<hostVars, diskVars, bounds, histVars>>
    BY <1>1, Zenon DEF Admitted
  <2>2. PICK t \in Tokens :
          job' = [job EXCEPT ![w] = [Idle EXCEPT !.step = "edit", !.name = sessions[t]]]
    BY <1>1, Zenon DEF Admitted
  <2> DEFINE k == [Idle EXCEPT !.step = "edit", !.name = sessions[t]]
  <2>3. k.step = "edit" /\ job' = [job EXCEPT ![w] = k]
    BY <2>2 DEF Idle
  <2> HIDE DEF k
  <2>4. QED
    BY <2>1, <2>3
<1>2. CASE TerminalLoads(w)
  <2> DEFINE k == [Idle EXCEPT !.step = "edit", !.book = file]
  <2>1. /\ w \in Terminals /\ job[w].step = "idle"
        /\ UNCHANGED <<hostVars, diskVars, bounds, histVars>>
        /\ job' = [job EXCEPT ![w] = k]
    BY <1>2, Zenon DEF TerminalLoads
  <2>2. k.step = "edit"
    BY DEF Idle
  <2> HIDE DEF k
  <2>3. QED
    BY <2>1, <2>2, Assumed
<1>3. QED
  BY <1>1, <1>2

\* What no change to the accounts touches.
LEMMA EditLeaves ==
  ASSUME NEW w \in Writers, Edit(w)
  PROVE  /\ UNCHANGED <<file, time, loadedAt, tick, faults, overlapped>>
         /\ raced' = raced \/ (raced' \in BOOLEAN /\ (raced => raced'))
<1>1. CASE Admitted(w) \/ TerminalLoads(w)
  BY <1>1, Beginning DEF hostVars, diskVars, bounds, histVars
<1>2. ASSUME NEW changed, Write(w, changed)
      PROVE  /\ UNCHANGED overlapped
             /\ raced' = raced \/ (raced' \in BOOLEAN /\ (raced => raced'))
  BY <1>2 DEF Write
<1>3. CASE SetPerms(w)
  <2>1. UNCHANGED <<file, time, loadedAt, tick, faults>>
    BY <1>3 DEF SetPerms, diskVars, bounds
  <2>2. UNCHANGED histVars \/ \E changed : Write(w, changed)
    BY <1>3, Zenon DEF SetPerms
  <2>3. QED
    BY <1>2, <2>1, <2>2 DEF histVars
<1>4. ASSUME NEW n \in Names, SetPassword(w, n)
      PROVE  /\ UNCHANGED <<file, time, loadedAt, tick, faults, overlapped>>
             /\ raced' = raced \/ (raced' \in BOOLEAN /\ (raced => raced'))
  BY <1>2, <1>4 DEF SetPassword, diskVars
<1>5. ASSUME NEW n \in Names, Remove(w, n)
      PROVE  /\ UNCHANGED <<file, time, loadedAt, tick, faults, overlapped>>
             /\ raced' = raced \/ (raced' \in BOOLEAN /\ (raced => raced'))
  BY <1>2, <1>5 DEF Remove, diskVars, bounds
<1>6. ASSUME NEW n \in Names, ReadPerms(w, n)
      PROVE  UNCHANGED <<file, time, loadedAt, tick, faults, overlapped, raced>>
  BY <1>6 DEF ReadPerms, hostVars, diskVars, bounds, histVars
<1>7. QED
  BY <1>1, <1>3, <1>4, <1>5, <1>6 DEF Edit

\* A disturbance stays on record.
LEMMA UndisturbedBefore ==
  ASSUME Typed, SaveInv, Clocks, [Next]_vars, Undisturbed'
  PROVE  Undisturbed
<1>1. ASSUME NEW w \in Writers, Edit(w) PROVE Undisturbed
  BY <1>1, EditLeaves DEF Undisturbed, Clocks
<1>2. ASSUME NEW w \in Writers, Persist(w) PROVE Undisturbed
  BY <1>2 DEF Persist, Truncate, Fill, FillRenamed, Rename, NothingToRename, SaveFails, Stamp,
              Undisturbed, Clocks, SaveInv, bounds, histVars
<1>3. CASE Ticker \/ Restart \/ Boot
  BY <1>3 DEF Ticker, TickChecks, TickLoads, TickReplaces, Restart, Boot, Undisturbed, Clocks,
              bounds, histVars
<1>4. ASSUME NEW t \in Tokens, SessionEnds(t) \/ \E n \in Names : Login(t, n) PROVE Undisturbed
  BY <1>4 DEF SessionEnds, Login, Undisturbed, bounds, histVars
<1>5. CASE UNCHANGED vars
  BY <1>5 DEF vars, Undisturbed, bounds, histVars
<1>6. QED
  BY <1>1, <1>2, <1>3, <1>4, <1>5 DEF Next

\* No clock runs ahead of the file's.
LEMMA ClocksKeep ==
  ASSUME Typed, Typed', Clocks, [Next]_vars
  PROVE  Clocks'
<1>1. /\ time \in Nat /\ loadedAt \in Nat /\ faults \in Nat /\ raced \in BOOLEAN
      /\ loadedAt <= time /\ tick.mt <= time
  BY DEF Typed, Clocks
<1>2. ASSUME NEW w \in Writers, Edit(w) PROVE Clocks'
  BY <1>1, <1>2, EditLeaves DEF Clocks
<1>3. ASSUME NEW w \in Writers, Persist(w) PROVE Clocks'
  <2>1. CASE Truncate(w) \/ Fill(w) \/ FillRenamed(w) \/ NothingToRename(w)
    BY <1>1, <2>1 DEF Truncate, Fill, FillRenamed, NothingToRename, Clocks, hostVars, diskVars,
                      bounds, histVars
  <2>2. CASE Rename(w)
    <3>1. time' = time + 1 /\ UNCHANGED <<loadedAt, tick, faults>>
      BY <2>2 DEF Rename, hostVars, bounds
    <3>2. raced' \in BOOLEAN
      BY <1>1, <2>2 DEF Rename
    <3>3. tick.mt \in Nat
      BY DEF Typed, Ticks
    <3>4. QED
      BY <1>1, <3>1, <3>2, <3>3 DEF Clocks
  <2>3. CASE SaveFails(w)
    BY <1>1, <2>3 DEF SaveFails, Clocks, hostVars, histVars
  <2>4. CASE Stamp(w)
    BY <1>1, <2>4 DEF Stamp, Clocks, diskVars, bounds
  <2>5. QED
    BY <1>3, <2>1, <2>2, <2>3, <2>4 DEF Persist
<1>4. CASE Ticker \/ Boot
  <2>1. UNCHANGED <<time, faults>> /\ raced' \in BOOLEAN
    BY <1>1, <1>4 DEF Ticker, TickChecks, TickLoads, TickReplaces, Boot, diskVars, bounds, histVars
  <2>2. tick.mt \in Nat /\ tick \in Ticks
    BY DEF Typed, Ticks
  <2>3. tick'.mt \in {tick.mt, 0, time}
    <3>1. NotTicking.mt = 0
      BY DEF NotTicking
    <3>2. CASE TickChecks
      BY <2>2, <3>2 DEF TickChecks, Ticks
    <3>3. CASE TickLoads
      BY <2>2, <3>1, <3>3 DEF TickLoads, Ticks
    <3>4. CASE TickReplaces \/ Boot
      BY <3>1, <3>4 DEF TickReplaces, Boot
    <3>5. QED
      BY <1>4, <3>2, <3>3, <3>4 DEF Ticker
  <2>4. loadedAt' \in {loadedAt, tick.mt, time}
    BY <1>4 DEF Ticker, TickChecks, TickLoads, TickReplaces, Boot
  <2>5. QED
    BY <1>1, <2>1, <2>2, <2>3, <2>4 DEF Clocks
<1>5. CASE Restart
  BY <1>1, <1>5 DEF Restart, NotTicking, Clocks, diskVars
<1>6. ASSUME NEW t \in Tokens, SessionEnds(t) \/ \E n \in Names : Login(t, n) PROVE Clocks'
  BY <1>1, <1>6 DEF SessionEnds, Login, Clocks, diskVars, bounds, histVars
<1>7. CASE UNCHANGED vars
  BY <1>1, <1>7 DEF vars, hostVars, diskVars, bounds, histVars, Clocks
<1>8. QED
  BY <1>2, <1>3, <1>4, <1>5, <1>6, <1>7 DEF Next

\* Steps that neither begin nor end a request's save.
LEMMA NothingSavedOrRead ==
  ASSUME Agrees, UNCHANGED <<users, file, time, loadedAt>>,
         tick' = tick \/ tick'.step = "load",
         \A v \in Web :
            /\ job'[v].step \in UnsavedSteps <=> job[v].step \in UnsavedSteps
            /\ job[v].step \in UnsavedSteps => job'[v].book = job[v].book
            /\ job'[v].step = "stamp" <=> job[v].step = "stamp"
            /\ tick.step = "boot" /\ job[v].step = "idle" => job'[v].step = "idle"
  PROVE  Agrees'
BY DEF Agrees, WebUnsaved, WebStamps

LEMMA EditAgrees ==
  ASSUME Typed, Agrees, NEW w \in Writers, Edit(w), Undisturbed'
  PROVE  Agrees'
<1>1. UNCHANGED <<file, time, loadedAt, tick>>
  BY EditLeaves
<1>2. ASSUME NEW changed, Write(w, changed), job[w].step \in {"edit", "perms"},
             users' = IF w \in Web THEN changed ELSE users
      PROVE  Agrees'
  <2>1. job'[w].step = "tmp" /\ job'[w].book = changed
    BY <1>2 DEF Write, Idle, Typed
  <2>2. \A v \in Writers : v # w => job'[v] = job[v]
    BY <1>2 DEF Write, Typed
  <2>3. CASE w \in Web
    <3>1. tick.step = "idle" /\ ~WebUnsaved
      BY <1>2, <2>3 DEF Write, Undisturbed, Unsaved, UnsavedSteps, WebUnsaved
    <3>2. \A v \in Web : v # w => job'[v].step \notin UnsavedSteps
      BY <2>2, <3>1 DEF WebUnsaved, Writers
    <3>3. job'[w].step \in UnsavedSteps /\ users' = job'[w].book
      BY <1>2, <2>1, <2>3 DEF UnsavedSteps
    <3>4. WebUnsaved'
      BY <2>3, <3>3 DEF WebUnsaved
    <3>5. QED
      BY <1>1, <3>1, <3>2, <3>3, <3>4 DEF Agrees
  <2>4. CASE w \notin Web
    <3>1. \A v \in Web : job'[v] = job[v]
      BY <2>2, <2>4 DEF Writers
    <3>2. QED
      BY <1>1, <1>2, <2>4, <3>1, NothingSavedOrRead
  <2>5. QED
    BY <2>3, <2>4
<1>3. ASSUME NEW j, job' = [job EXCEPT ![w] = j], j.step \in {"idle", "edit", "perms"},
             job[w].step \in {"idle", "edit", "perms"}, users' = users,
             tick.step = "boot" /\ w \in Web => job[w].step # "idle"
      PROVE  Agrees'
  <2>1. job'[w] = j /\ \A v \in Writers : v # w => job'[v] = job[v]
    BY <1>3 DEF Typed
  <2>2. \A v \in Web :
            /\ job'[v].step \in UnsavedSteps <=> job[v].step \in UnsavedSteps
            /\ job[v].step \in UnsavedSteps => job'[v].book = job[v].book
            /\ job'[v].step = "stamp" <=> job[v].step = "stamp"
            /\ tick.step = "boot" /\ job[v].step = "idle" => job'[v].step = "idle"
    BY <1>3, <2>1 DEF UnsavedSteps, Writers
  <2>3. QED
    BY <1>1, <1>3, <2>2, NothingSavedOrRead
<1>4. CASE Admitted(w) \/ TerminalLoads(w)
  BY <1>3, <1>4, Beginning DEF hostVars
<1>5. CASE SetPerms(w)
  BY <1>2, <1>3, <1>5, IdleJob DEF SetPerms
<1>6. ASSUME NEW n \in Names, SetPassword(w, n) \/ Remove(w, n) PROVE Agrees'
  BY <1>2, <1>6 DEF SetPassword, Remove, Ready
<1>7. ASSUME NEW n \in Names, ReadPerms(w, n) PROVE Agrees'
  <2>1. PICK q : job' = [job EXCEPT ![w] =
                           [step |-> "perms", book |-> job[w].book, name |-> n, perms |-> q]]
    BY <1>7 DEF ReadPerms
  <2>2. job[w].step = "edit" /\ users' = users
    BY <1>7 DEF ReadPerms, Ready, hostVars
  <2>3. QED
    BY <1>3, <2>1, <2>2
<1>8. QED
  BY <1>4, <1>5, <1>6, <1>7 DEF Edit

LEMMA PersistAgrees ==
  ASSUME Typed, SaveInv, Clocks, Undisturbed, Agrees, NEW w \in Writers, Persist(w), Undisturbed'
  PROVE  Agrees'
<1>1. UNCHANGED <<users, tick>>
  BY DEF Persist, Truncate, Fill, FillRenamed, Rename, NothingToRename, SaveFails, Stamp, hostVars
<1>2. \A v \in Writers : job[v] \in Jobs
  BY DEF Typed
<1>3. CASE Truncate(w) \/ Fill(w)
  <2>1. /\ job'[w].step \in UnsavedSteps /\ job[w].step \in UnsavedSteps
        /\ job'[w].book = job[w].book
        /\ \A v \in Writers : v # w => job'[v] = job[v]
    BY <1>2, <1>3 DEF Truncate, Fill, UnsavedSteps, Typed, Jobs
  <2>2. UNCHANGED <<file, time, loadedAt>>
    BY <1>3 DEF Truncate, Fill, hostVars
  <2>3. \A v \in Web :
            /\ job'[v].step \in UnsavedSteps <=> job[v].step \in UnsavedSteps
            /\ job[v].step \in UnsavedSteps => job'[v].book = job[v].book
            /\ job'[v].step = "stamp" <=> job[v].step = "stamp"
            /\ tick.step = "boot" /\ job[v].step = "idle" => job'[v].step = "idle"
    BY <2>1 DEF UnsavedSteps, Writers
  <2>4. QED
    BY <1>1, <2>2, <2>3, NothingSavedOrRead
<1>4. CASE FillRenamed(w)
  BY <1>4 DEF FillRenamed, SaveInv, Undisturbed
<1>5. CASE NothingToRename(w)
  <2>1. tmp = job[w].book /\ job[w].book \in Books
    BY <1>5 DEF SaveInv, NothingToRename, Undisturbed, Typed
  <2>2. QED
    BY <1>5, <2>1, Assumed DEF NothingToRename
<1>6. CASE SaveFails(w)
  BY <1>6 DEF SaveFails, Undisturbed
<1>7. CASE Rename(w)
  <2>1. file' = job[w].book /\ time' = time + 1 /\ loadedAt' = loadedAt /\ job[w].step = "rename"
    BY <1>7 DEF SaveInv, Rename, Undisturbed, hostVars
  <2>2. \A v \in Writers : v # w => ~OnItsWay(v)
    BY <2>1 DEF SaveInv, Undisturbed, OnItsWay
  <2>3. job'[w].step = "stamp" /\ \A v \in Writers : v # w => job'[v].step = job[v].step
                                                           /\ job'[v].book = job[v].book
    BY <1>2, <1>7, <2>2 DEF Rename, Renamed, OnItsWay, Jobs
  <2>4. CASE w \in Web
    <3>1. tick.step \notin {"load", "replace"}
      BY <1>7, <2>4 DEF Rename, Undisturbed
    <3>2. tick.step # "boot" /\ users = job[w].book
      BY <2>1, <2>4 DEF Agrees, UnsavedSteps
    <3>3. \A v \in Web : job'[v].step \notin UnsavedSteps
      BY <2>1, <2>3, <2>4 DEF Agrees, UnsavedSteps, Writers
    <3>4. QED
      BY <1>1, <2>1, <3>1, <3>2, <3>3 DEF Agrees
  <2>5. CASE w \notin Web
    <3>1. tick.step # "boot"
      BY <1>7, <2>5 DEF Rename, Undisturbed
    <3>2. \A v \in Web : job'[v].step = job[v].step /\ job'[v].book = job[v].book
      BY <2>3, <2>5 DEF Writers
    <3>3. ~WebStamps'
      BY <2>2, <2>5, <3>2 DEF WebStamps, OnItsWay, Writers
    <3>4. loadedAt < time' /\ tick.mt < time'
      <4>1. tick.mt \in Nat /\ time \in Nat
        BY DEF Typed, Ticks
      <4>2. QED
        BY <2>1, <4>1 DEF Clocks
    <3>5. QED
      BY <1>1, <2>1, <3>1, <3>2, <3>3, <3>4 DEF Agrees
  <2>6. QED
    BY <2>4, <2>5
<1>8. CASE Stamp(w)
  <2>1. /\ job[w].step = "stamp" /\ UNCHANGED <<file, time>>
        /\ loadedAt' = IF w \in Web THEN time ELSE loadedAt
        /\ job'[w].step = "idle" /\ \A v \in Writers : v # w => job'[v] = job[v]
    BY <1>8, IdleJob DEF Stamp, Typed, diskVars
  <2>2. \A v \in Web : job'[v].step \in UnsavedSteps <=> job[v].step \in UnsavedSteps
    BY <2>1 DEF UnsavedSteps, Writers
  <2>3. \A v \in Web : job'[v].step \in UnsavedSteps => job'[v] = job[v]
    BY <2>1 DEF UnsavedSteps, Writers
  <2>4. \A v \in Web : job'[v].step = "stamp" => job[v].step = "stamp"
    BY <2>1 DEF Writers
  <2>5. \A v \in Web : job[v].step = "idle" => job'[v].step = "idle"
    BY <2>1 DEF Writers
  <2>6. CASE w \in Web
    <3>1. WebStamps
      BY <2>1, <2>6 DEF WebStamps
    <3>2. WebUnsaved' <=> WebUnsaved
      BY <2>2 DEF WebUnsaved
    <3>3. QED
      BY <1>1, <2>1, <2>2, <2>3, <2>5, <3>1, <3>2 DEF Agrees
  <2>7. CASE w \notin Web
    <3>1. \A v \in Web : job'[v] = job[v]
      BY <2>1, <2>7 DEF Writers
    <3>2. QED
      BY <1>1, <2>1, <2>7, <3>1, NothingSavedOrRead
  <2>8. QED
    BY <2>6, <2>7
<1>9. QED
  BY <1>3, <1>4, <1>5, <1>6, <1>7, <1>8 DEF Persist

LEMMA TickerAgrees ==
  ASSUME Typed, Agrees, Ticker, Undisturbed'
  PROVE  Agrees'
<1>1. UNCHANGED <<file, time, job>> /\ tick \in Ticks
  BY DEF Ticker, TickChecks, TickLoads, TickReplaces, diskVars, Typed
<1>2. CASE TickChecks
  BY <1>1, <1>2, NothingSavedOrRead DEF TickChecks, Ticks
<1>3. CASE TickLoads
  <2>1. /\ tick' = NotTicking \/ (tick'.step = "replace" /\ tick'.book = file)
        /\ UNCHANGED <<users, loadedAt>>
    BY <1>1, <1>3 DEF TickLoads, Ticks
  <2>2. QED
    BY <1>1, <2>1 DEF Agrees, WebUnsaved, WebStamps, NotTicking
<1>4. CASE TickReplaces
  <2>1. /\ users' = tick.book /\ loadedAt' = tick.mt /\ tick'.step = "idle"
        /\ tick.step = "replace"
    BY <1>4 DEF TickReplaces, NotTicking
  <2>2. \A w \in Web : job[w].step \notin UnsavedSteps
    BY <1>4 DEF TickReplaces, Undisturbed, Unsaved, UnsavedSteps
  <2>3. QED
    BY <1>1, <2>1, <2>2 DEF Agrees, WebStamps
<1>5. QED
  BY <1>2, <1>3, <1>4 DEF Ticker

LEMMA StepAgrees == Typed /\ SaveInv /\ AgreeInv /\ [Next]_vars /\ Typed' => AgreeInv'
<1>1. SUFFICES ASSUME Typed, SaveInv, AgreeInv, [Next]_vars, Typed', Undisturbed' PROVE Agrees'
  BY ClocksKeep DEF AgreeInv
<1>2. Clocks /\ Undisturbed /\ Agrees
  BY <1>1, UndisturbedBefore DEF AgreeInv
<1>3. CASE Restart
  <2>1. /\ UNCHANGED <<file, time, loadedAt>> /\ users' = file /\ tick'.step = "boot"
        /\ \A w \in Web : job'[w].step = "idle"
    BY <1>3, IdleJob DEF Restart, NotTicking, diskVars, Writers
  <2>2. QED
    BY <2>1 DEF Agrees, UnsavedSteps
<1>4. CASE Boot
  BY <1>2, <1>4 DEF Boot, Agrees, NotTicking, diskVars, WebUnsaved, WebStamps
<1>5. CASE UNCHANGED <<users, loadedAt, tick, diskVars, job>>
  BY <1>2, <1>5, NothingSavedOrRead DEF diskVars
<1>6. ASSUME NEW t \in Tokens, SessionEnds(t) \/ \E n \in Names : Login(t, n) PROVE Agrees'
  BY <1>5, <1>6 DEF SessionEnds, Login
<1>7. QED
  BY <1>1, <1>2, <1>3, <1>4, <1>5, <1>6, EditAgrees, PersistAgrees, TickerAgrees
     DEF Next, vars, hostVars

LEMMA AgreeInvariant == Spec => []AgreeInv
<1>1. Init => AgreeInv
  <2>1. SUFFICES ASSUME Init PROVE AgreeInv
    OBVIOUS
  <2>2. \A w \in Writers : job[w].step = "idle"
    BY <2>1, IdleJob DEF Init
  <2>3. tick.step = "idle" /\ tick.mt = 0
    BY <2>1 DEF Init, NotTicking
  <2>4. faults = 0 /\ raced \in BOOLEAN /\ loadedAt = 0 /\ time = 0 /\ file = users
    BY <2>1 DEF Init
  <2>5. Clocks
    BY <2>3, <2>4 DEF Clocks
  <2>6. Agrees
    BY <2>2, <2>3, <2>4 DEF Agrees, UnsavedSteps, Writers
  <2>7. QED
    BY <2>5, <2>6 DEF AgreeInv
<1>2. QED
  BY <1>1, SessionsInvariant, SavedInvariant, StepAgrees, PTL DEF Spec

\* The host works with the accounts on disk, its own and a terminal's changes, as
\* long as no two saves overlap and no reload, start or other request's change
\* meets a change under way: what is not the file is newer than the host believes.
THEOREM AccountsQuietAgrees == Spec => []QuietAgrees
<1>1. AgreeInv => QuietAgrees
  <2>1. SUFFICES ASSUME AgreeInv, Quiet, faults = 0, ~overlapped, ~raced PROVE users = file
    BY DEF QuietAgrees
  <2>2. ~WebUnsaved
    BY <2>1 DEF Quiet, WebUnsaved, UnsavedSteps, Writers
  <2>3. ~(loadedAt < time)
    BY <2>1 DEF Quiet, AgreeInv, Clocks
  <2>4. QED
    BY <2>1, <2>2, <2>3 DEF AgreeInv, Agrees, Undisturbed
<1>2. QED
  BY <1>1, AgreeInvariant, PTL

-----------------------------------------------------------------------------
(* Type correctness: the bounds are kept too                               *)

\* The writers that may still replace the file.
Spenders == {w \in Writers : job[w].step \notin {"idle", "stamp"}}

\* Every writer under way has a modification time left for its rename.
Room == time + Cardinality(Spenders) <= MaxTime

\* What the types of Typed and Clocks leave open.
Bounded ==
    /\ proof \in [Tokens -> 0..MaxHashes]
    /\ faults \in 0..MaxFaults /\ crashes \in 0..MaxCrashes
    /\ acked \in Books /\ overlapped \in BOOLEAN

LEMMA Counted ==
  /\ IsFiniteSet(Writers) /\ {MaxTime, MaxFaults, MaxCrashes} \subseteq Nat
  /\ \A S \in SUBSET Writers : IsFiniteSet(S) /\ Cardinality(S) \in Nat
<1>1. IsFiniteSet(Writers)
  BY AccountsAssumption, FS_Union DEF AccountsAssumption, Writers
<1>2. ASSUME NEW S \in SUBSET Writers PROVE IsFiniteSet(S) /\ Cardinality(S) \in Nat
  BY <1>1, FS_Subset, FS_CardinalityType
<1>3. QED
  BY <1>1, <1>2, AccountsAssumption DEF AccountsAssumption

\* A writer that begins had time to spare.
LEMMA BeginningHasRoom ==
  ASSUME Typed, NEW w \in Writers, job[w].step = "idle", TimeToSpare, time' = time,
         \A v \in Writers : v # w => job'[v] = job[v]
  PROVE  Room'
<1> DEFINE busy == {v \in Writers : job[v].step # "idle"}
<1>1. busy \in SUBSET Writers /\ busy \cup {w} \in SUBSET Writers /\ w \notin busy
  OBVIOUS
<1>2. time + Cardinality(busy) < MaxTime
  BY DEF TimeToSpare
<1>3. Spenders' \subseteq busy \cup {w}
  BY DEF Spenders
<1> HIDE DEF busy
<1>4. Cardinality(busy \cup {w}) = Cardinality(busy) + 1
  BY <1>1, Counted, FS_AddElement
<1>5. Cardinality(Spenders') <= Cardinality(busy \cup {w})
  BY <1>1, <1>3, Counted, FS_Subset
<1>6. PICK b : b = Cardinality(busy)
  OBVIOUS
<1>7. PICK s : s = Cardinality(Spenders')
  OBVIOUS
<1>8. b \in Nat /\ s \in Nat /\ s <= b + 1 /\ time + b < MaxTime /\ time \in Nat /\ MaxTime \in Nat
  BY <1>1, <1>2, <1>3, <1>4, <1>5, <1>6, <1>7, Counted DEF Typed
<1>9. time + s <= MaxTime
  BY <1>8
<1>10. QED
  BY <1>7, <1>9 DEF Room

\* A rename spends the time of one writer.
LEMMA RenameHasRoom ==
  ASSUME Typed, Room, NEW w \in Writers, Rename(w)
  PROVE  Room'
<1>1. w \in Spenders /\ Spenders \in SUBSET Writers /\ time' = time + 1
  BY DEF Rename, Spenders
<1>2. ASSUME NEW v \in Writers PROVE v # w /\ job[v].step = "idle" => job'[v].step = "idle"
  BY DEF Rename, Renamed, Typed, Jobs
<1>3. ASSUME NEW v \in Writers PROVE v # w /\ job[v].step = "stamp" => job'[v].step = "stamp"
  BY DEF Rename, Renamed, Typed, Jobs
<1>4. job'[w].step = "stamp"
  BY DEF Rename, Typed, Jobs
<1>5. Spenders' \subseteq Spenders \ {w}
  BY <1>2, <1>3, <1>4 DEF Spenders
<1>6. Cardinality(Spenders \ {w}) = Cardinality(Spenders) - 1
  BY <1>1, Counted, FS_RemoveElement
<1>7. Cardinality(Spenders') <= Cardinality(Spenders \ {w})
  BY <1>1, <1>5, Counted, FS_Subset
<1>8. PICK b : b = Cardinality(Spenders)
  OBVIOUS
<1>9. PICK s : s = Cardinality(Spenders')
  OBVIOUS
<1>10. b \in Nat /\ s \in Nat /\ s <= b - 1 /\ time + b <= MaxTime /\ time \in Nat
       /\ MaxTime \in Nat
  BY <1>1, <1>5, <1>6, <1>7, <1>8, <1>9, Counted DEF Typed, Room
<1>11. (time + 1) + s <= MaxTime
  BY <1>10
<1>12. QED
  BY <1>1, <1>9, <1>11 DEF Room

\* Anything else leaves it alone and begins nothing.
LEMMA FewerSpend ==
  ASSUME Typed, Room, time' = time, Spenders' \subseteq Spenders
  PROVE  Room'
<1>1. Spenders \in SUBSET Writers /\ Spenders' \in SUBSET Writers
  BY DEF Spenders
<1>2. Cardinality(Spenders') <= Cardinality(Spenders)
  BY <1>1, Counted, FS_Subset
<1>3. PICK b : b = Cardinality(Spenders)
  OBVIOUS
<1>4. PICK s : s = Cardinality(Spenders')
  OBVIOUS
<1>5. b \in Nat /\ s \in Nat /\ s <= b /\ time + b <= MaxTime /\ time \in Nat /\ MaxTime \in Nat
  BY <1>1, <1>2, <1>3, <1>4, Counted DEF Typed, Room
<1>6. time + s <= MaxTime
  BY <1>5
<1>7. QED
  BY <1>4, <1>6 DEF Room

LEMMA EditHasRoom ==
  ASSUME Typed, Room, NEW w \in Writers, Edit(w)
  PROVE  Room'
<1>1. time' = time
  BY EditLeaves
<1>2. CASE Admitted(w) \/ TerminalLoads(w)
  <2>1. job[w].step = "idle" /\ TimeToSpare
    BY <1>2 DEF Admitted, TerminalLoads
  <2>2. \A v \in Writers : v # w => job'[v] = job[v]
    BY <1>2 DEF Admitted, TerminalLoads, Typed
  <2>3. QED
    BY <1>1, <2>1, <2>2, BeginningHasRoom
<1>3. CASE ~(Admitted(w) \/ TerminalLoads(w))
  <2>1. job[w].step \in {"edit", "perms"}
    BY <1>3 DEF Edit, SetPerms, SetPassword, Remove, ReadPerms, Ready
  <2>2. \A v \in Writers : v # w => job'[v] = job[v]
    <3>1. \E j : job' = [job EXCEPT ![w] = j]
      BY <1>3, Zenon DEF Edit, SetPerms, SetPassword, Remove, ReadPerms, Write
    <3>2. QED
      BY <3>1 DEF Typed
  <2>3. QED
    BY <1>1, <2>1, <2>2, FewerSpend DEF Spenders
<1>4. QED
  BY <1>2, <1>3

LEMMA PersistHasRoom ==
  ASSUME Typed, Room, NEW w \in Writers, Persist(w)
  PROVE  Room'
<1>1. CASE Rename(w)
  BY <1>1, RenameHasRoom
<1>2. CASE ~Rename(w)
  <2>1. time' = time
    BY <1>2 DEF Persist, Truncate, Fill, FillRenamed, NothingToRename, SaveFails, Stamp, diskVars
  <2>2. CASE Truncate(w) \/ Fill(w) \/ FillRenamed(w)
    <3>1. job[w].step \notin {"idle", "stamp"}
      BY <2>2 DEF Truncate, Fill, FillRenamed
    <3>2. \A v \in Writers : v # w => job'[v] = job[v]
      BY <2>2 DEF Truncate, Fill, FillRenamed, Typed
    <3>3. QED
      BY <2>1, <3>1, <3>2, FewerSpend DEF Spenders
  <2>3. CASE NothingToRename(w) \/ SaveFails(w) \/ Stamp(w)
    <3>1. job'[w].step = "idle" /\ \A v \in Writers : v # w => job'[v] = job[v]
      BY <2>3, IdleJob DEF NothingToRename, SaveFails, Stamp, Typed
    <3>2. QED
      BY <2>1, <3>1, FewerSpend DEF Spenders
  <2>4. QED
    BY <1>2, <2>2, <2>3 DEF Persist
<1>3. QED
  BY <1>1, <1>2

LEMMA StepHasRoom ==
  ASSUME Typed, Room, [Next]_vars
  PROVE  Room'
<1>1. CASE Restart
  BY <1>1, IdleJob, FewerSpend DEF Restart, Spenders, diskVars
<1>2. CASE UNCHANGED <<time, job>>
  BY <1>2, FewerSpend DEF Spenders
<1>3. ASSUME NEW t \in Tokens, SessionEnds(t) \/ \E n \in Names : Login(t, n) PROVE Room'
  BY <1>2, <1>3 DEF SessionEnds, Login, diskVars
<1>4. CASE Ticker \/ Boot
  BY <1>2, <1>4 DEF Ticker, TickChecks, TickLoads, TickReplaces, Boot, diskVars
<1>5. QED
  BY <1>1, <1>2, <1>3, <1>4, EditHasRoom, PersistHasRoom DEF Next, vars, diskVars

LEMMA StepBounded ==
  ASSUME Typed, Bounded, [Next]_vars
  PROVE  Bounded'
<1>1. CASE UNCHANGED <<proof, faults, crashes, acked, overlapped>>
  BY <1>1 DEF Bounded
<1>2. ASSUME NEW w \in Writers, Edit(w) PROVE Bounded'
  <2>1. UNCHANGED <<proof, faults, crashes, acked, overlapped>>
    BY <1>2, Zenon DEF Edit, Admitted, TerminalLoads, SetPerms, SetPassword, Remove, ReadPerms,
         Write, hostVars, bounds, histVars
  <2>2. QED
    BY <1>1, <2>1
<1>3. ASSUME NEW w \in Writers, Persist(w) PROVE Bounded'
  <2>1. CASE SaveFails(w)
    BY <2>1, Counted DEF SaveFails, Bounded, hostVars, histVars
  <2>2. CASE Stamp(w)
    <3>1. job[w].book \in Books
      BY <2>2 DEF Stamp, Typed
    <3>2. QED
      BY <2>2, <3>1 DEF Stamp, Bounded, bounds
  <2>3. CASE Truncate(w)
    <3>1. UNCHANGED <<proof, faults, crashes, acked>> /\ overlapped' \in BOOLEAN
      BY <2>3 DEF Truncate, Bounded, hostVars, bounds
    <3>2. QED
      BY <3>1 DEF Bounded
  <2>4. CASE Fill(w) \/ FillRenamed(w) \/ Rename(w) \/ NothingToRename(w)
    BY <1>1, <2>4 DEF Fill, FillRenamed, Rename, NothingToRename, hostVars, bounds, histVars
  <2>5. QED
    BY <1>3, <2>1, <2>2, <2>3, <2>4 DEF Persist
<1>4. CASE Restart
  <2>1. file \in Books
    BY <1>4 DEF Restart, Typed
  <2>2. crashes' \in 0..MaxCrashes
    BY <1>4, Counted DEF Restart, Bounded
  <2>3. QED
    BY <1>4, <2>1, <2>2 DEF Restart, Bounded
<1>5. CASE Ticker \/ Boot
  BY <1>1, <1>5 DEF Ticker, TickChecks, TickLoads, TickReplaces, Boot, bounds, histVars
<1>6. ASSUME NEW t \in Tokens, SessionEnds(t) PROVE Bounded'
  BY <1>1, <1>6 DEF SessionEnds, bounds, histVars
<1>7. ASSUME NEW t \in Tokens, NEW n \in Names, Login(t, n) PROVE Bounded'
  <2>1. users[n].hash \in 0..MaxHashes
    BY BookFacts, Assumed DEF Typed
  <2>2. QED
    BY <1>7, <2>1 DEF Login, Bounded, bounds, histVars
<1>8. CASE UNCHANGED vars
  BY <1>1, <1>8 DEF vars, hostVars, bounds, histVars
<1>9. QED
  BY <1>2, <1>3, <1>4, <1>5, <1>6, <1>7, <1>8 DEF Next

LEMMA StartsBounded == Init => Room /\ Bounded
<1>1. SUFFICES ASSUME Init PROVE Room /\ Bounded
  OBVIOUS
<1>2. Typed
  BY <1>1, StartsTyped
<1>3. Spenders = {}
  BY <1>1, IdleJob DEF Init, Spenders
<1>4. Room
  BY <1>1, <1>3, Counted, FS_EmptySet DEF Init, Room
<1>5. users \in Books
  BY <1>2 DEF Typed
<1>6. 0 \in 0..MaxHashes /\ 0 \in 0..MaxFaults /\ 0 \in 0..MaxCrashes
  BY Counted, Assumed
<1>7. /\ proof = [t \in Tokens |-> 0] /\ faults = 0 /\ crashes = 0
      /\ acked = users /\ overlapped = FALSE
  BY <1>1 DEF Init
<1>8. Bounded
  BY <1>5, <1>6, <1>7 DEF Bounded
<1>9. QED
  BY <1>4, <1>8

\* Every copy of the accounts is a book, no session is without an account, and
\* no counter passes its bound: a writer that begins leaves the others time.
THEOREM AccountsTypeCorrect == Spec => []TypeOK
<1>1. Typed /\ SessionsInv /\ AgreeInv /\ Room /\ Bounded => TypeOK
  <2>1. SUFFICES ASSUME Typed, SessionsInv, AgreeInv, Room, Bounded PROVE TypeOK
    OBVIOUS
  <2>2. time \in 0..MaxTime
    <3>1. Cardinality(Spenders) \in Nat
      BY Counted DEF Spenders
    <3>2. QED
      BY <2>1, <3>1, Counted DEF Typed, Room
  <2>3. loadedAt \in 0..MaxTime
    BY <2>1, <2>2, Counted DEF AgreeInv, Clocks
  <2>4. tick \in [step : {"idle", "load", "replace", "boot"}, mt : 0..MaxTime,
                  book : Books \cup {None}]
    <3>1. tick \in Ticks /\ tick.mt \in Nat
      BY <2>1 DEF Typed, Ticks
    <3>2. tick.mt \in 0..MaxTime
      BY <2>1, <2>2, <3>1, Counted DEF AgreeInv, Clocks
    <3>3. QED
      BY <3>1, <3>2 DEF Ticks
  <2>5. raced \in BOOLEAN
    BY <2>1 DEF AgreeInv, Clocks
  <2>6. \A t \in Tokens : sessions[t] # NoOne => sessions[t] \in Known(users)
    BY <2>1 DEF SessionsInv
  <2>7. QED
    BY <2>1, <2>2, <2>3, <2>4, <2>5, <2>6 DEF TypeOK, Typed, Bounded, Jobs, JobSteps
<1>2. QED
  BY <1>1, SessionsInvariant, SavedInvariant, AgreeInvariant, StartsBounded, StepHasRoom,
     StepBounded, PTL DEF Spec

=============================================================================
