--------------------------- MODULE CatLine_proofs ---------------------------
(***************************************************************************)
(* Proofs about the serial line.  CatExchange, for any operators,          *)
(* questions, poll plan, number of attempts and of late answers: no client *)
(* gets another's answer, an exchange works the line's backlog off, and    *)
(* the poll loop overtakes an operator by one group of questions at most.  *)
(* SerialHealth, for any operators, limits and changes of the device: no   *)
(* exchange loses its port on the way.                                     *)
(***************************************************************************)
EXTENDS CatExchange, SerialHealth, TLAPS

LEMMA Assumed ==
  /\ Nobody \notin Clients /\ Poller \notin Operators /\ Poller \in Clients
  /\ \A o \in Operators : o \in Clients /\ o # Poller /\ o # Nobody
  /\ Plan \in Seq(Groups) /\ Len(Plan) \in Nat /\ 1 <= Len(Plan)
  /\ "set" \notin Items /\ "scrap" \notin Items
  /\ MaxAttempts \in Nat \ {0} /\ MaxLate \in Nat /\ MaxOvertaken \in Nat
BY ExchangeAssumption, CatLockAssumption DEF ExchangeAssumption, CatLockAssumption, Clients

LEMMA PlanFacts ==
  ASSUME NEW g \in 1..Len(Plan)
  PROVE  /\ Plan[g].ask \in Seq(Items) /\ Len(Plan[g].ask) \in Nat
         /\ \A p \in 1..Len(Plan[g].ask) : Plan[g].ask[p] \in Items
<1>1. Plan[g] \in Groups
  BY Assumed
<1>2. QED
  BY <1>1 DEF Groups

-----------------------------------------------------------------------------
(* Types                                                                   *)

\* Answers marked late are still what they were the answers to.
LEMMA MarkLateKeeps ==
  ASSUME NEW line \in Seq(Entries)
  PROVE  /\ MarkLate(line) \in Seq(Entries) /\ Len(MarkLate(line)) = Len(line)
         /\ \A i \in 1..Len(line) : ~Live(MarkLate(line)[i])
<1>1. /\ DOMAIN MarkLate(line) = 1..Len(line) /\ Len(line) \in Nat
      /\ \A i \in 1..Len(line) : MarkLate(line)[i] = [line[i] EXCEPT !.late = TRUE]
  <2>1. DOMAIN line = 1..Len(line) /\ Len(line) \in Nat
    OBVIOUS
  <2>2. QED
    BY <2>1, Zenon DEF MarkLate
<1>2. ASSUME NEW i \in 1..Len(line)
      PROVE  MarkLate(line)[i] \in Entries /\ MarkLate(line)[i].late
  <2>1. line[i] \in Entries
    OBVIOUS
  <2>2. QED
    BY <2>1, <1>1 DEF Entries
<1>3. MarkLate(line) \in [1..Len(line) -> Entries]
  <2>1. MarkLate(line) = [i \in 1..Len(line) |-> MarkLate(line)[i]]
    BY DEF MarkLate
  <2>2. QED
    BY <1>2, <2>1
<1>4. MarkLate(line) \in Seq(Entries) /\ Len(MarkLate(line)) = Len(line)
  BY <1>1, <1>3
<1>5. QED
  BY <1>1, <1>2, <1>4 DEF Live

\* What a question on the line is.
LEMMA QuestionIsEntry ==
  ASSUME TypeOK, NEW c \in Clients, item[c] # "set"
  PROVE  /\ [item |-> item[c], late |-> FALSE] \in Entries
         /\ [item |-> item[c], late |-> TRUE] \in Entries
BY DEF TypeOK, Entries

\* The rest of a reply on the line, in front of nobody's answers.
LEMMA ScrapInFront ==
  ASSUME NEW line \in Seq(Entries), line # <<>>
  PROVE  LET rest == <<Scrap>> \o MarkLate(Tail(line))
         IN  /\ rest \in Seq(Entries) /\ Len(rest) = Len(line)
             /\ \A i \in 1..Len(rest) : ~Live(rest[i])
<1> DEFINE tail == Tail(line)
<1>1. tail \in Seq(Entries) /\ Len(tail) = Len(line) - 1 /\ Len(line) \in Nat \ {0}
  OBVIOUS
<1>2. /\ MarkLate(tail) \in Seq(Entries) /\ Len(MarkLate(tail)) = Len(tail)
      /\ \A i \in 1..Len(tail) : ~Live(MarkLate(tail)[i])
  BY <1>1, MarkLateKeeps
<1>3. <<Scrap>> \in Seq(Entries) /\ ~Live(Scrap)
  BY DEF Entries, Scrap, Live
<1> DEFINE late == MarkLate(tail)
<1>4. /\ <<Scrap>> \o late \in Seq(Entries) /\ Len(<<Scrap>> \o late) = Len(late) + 1
      /\ \A i \in 1..(Len(late) + 1) :
            (<<Scrap>> \o late)[i] = IF i = 1 THEN Scrap ELSE late[i - 1]
  <2>1. late \in Seq(Entries)
    BY <1>2
  <2> HIDE DEF late
  <2>2. QED
    BY <1>3, <2>1
<1>5. Len(late) = Len(tail) /\ \A i \in 1..Len(tail) : ~Live(late[i])
  BY <1>2
<1> HIDE DEF late, tail
<1>6. Len(<<Scrap>> \o late) = Len(line)
  BY <1>1, <1>4, <1>5
<1>7. ASSUME NEW i \in 1..Len(<<Scrap>> \o late) PROVE ~Live((<<Scrap>> \o late)[i])
  <2>1. i = 1 \/ i - 1 \in 1..Len(tail)
    BY <1>1, <1>4, <1>5
  <2>2. QED
    BY <1>1, <1>3, <1>4, <1>5, <1>7, <2>1
<1>8. QED
  BY <1>4, <1>6, <1>7 DEF late, tail

LEMMA LeaveKeepsTypes ==
  ASSUME TypeOK, NEW c \in Clients, Leave(c)
  PROVE  /\ pc' \in [Clients -> {"idle", "waiting", "sending", "reading"}]
         /\ waiting' \in SUBSET Operators
         /\ overtaken' \in [Operators -> 0..MaxOvertaken]
BY Assumed DEF TypeOK, Leave

LEMMA NextGroupKeepsTypes ==
  ASSUME TypeOK, group > 0, NextGroup
  PROVE  group' \in 0..Len(Plan) /\ place' \in Nat
BY Assumed DEF TypeOK, NextGroup

\* A client that reads is one that asked a question.
Asked == \A c \in Clients : pc[c] \in {"waiting", "reading"} => item[c] # "set"

LEMMA ExchangeKeepsTypes ==
  ASSUME TypeOK, Asked, NEW c \in Clients, Exchange(c) PROVE TypeOK' /\ Asked'
<1> USE DEF TypeOK, askVars, lineVars, pollVars
<1>1. CASE Write(c)
  <2>1. asked' \in Seq(Entries)
    <3>1. [item |-> item[c], late |-> FALSE] \in Entries
      BY <1>1, QuestionIsEntry DEF Write, Asked
    <3>2. asked' = Append(asked, [item |-> item[c], late |-> FALSE])
      BY <1>1 DEF Write
    <3>3. QED
      BY <3>1, <3>2
  <2>2. overtaken' \in [Operators -> 0..MaxOvertaken]
    BY <1>1, Assumed DEF Write
  <2>3. 0 \in 0..(MaxAttempts - 1) /\ Len(Line) \in Nat
    BY Assumed DEF Line
  <2>4. TypeOK'
    BY <1>1, <2>1, <2>2, <2>3 DEF Write
  <2>5. QED
    BY <1>1, <2>4 DEF Write, Asked
<1>2. CASE WriteFails(c) \/ Sends(c)
  <2>1. asked' \in Seq(Entries)
    <3>1. CASE UNCHANGED asked
      BY <3>1
    <3>2. CASE item[c] # "set" /\ asked' = Append(asked, [item |-> item[c], late |-> TRUE])
      <4>1. [item |-> item[c], late |-> TRUE] \in Entries
        BY <3>2, QuestionIsEntry
      <4>2. QED
        BY <3>2, <4>1
    <3>3. QED
      BY <1>2, <3>1, <3>2 DEF WriteFails, Sends
  <2>2. TypeOK'
    BY <1>2, <2>1, LeaveKeepsTypes DEF WriteFails, Sends
  <2>3. QED
    BY <1>2, <2>2 DEF WriteFails, Sends, Leave, Asked
<1>3. CASE ReadMatching(c) \/ GiveUp(c) \/ TimeOut(c) \/ ReadFails(c)
  <2>1. attempt' \in 0..(MaxAttempts - 1) /\ holder' \in Clients \cup {Nobody} /\ found' \in Nat
    BY <1>3, Assumed DEF ReadMatching, GiveUp, TimeOut, ReadFails, Release
  <2>2. Leave(c) /\ UNCHANGED <<item, pollVars>>
    BY <1>3 DEF ReadMatching, GiveUp, TimeOut, ReadFails, Release
  <2>3. buffer # <<>> => Tail(buffer) \in Seq(Entries) /\ Head(buffer) \in Entries
    OBVIOUS
  <2>4. MarkLate(asked) \in Seq(Entries) /\ Front(asked) \in Seq(Entries)
    BY MarkLateKeeps DEF Front
  <2>5. asked' \in Seq(Entries)
    BY <1>3, <2>4 DEF ReadMatching, GiveUp, TimeOut, ReadFails
  <2>6. MarkLate(buffer) \in Seq(Entries)
    BY MarkLateKeeps
  <2>7. buffer # <<>> => MarkLate(Tail(buffer)) \in Seq(Entries)
    BY <2>3, MarkLateKeeps
  <2>8. buffer # <<>> => <<Scrap>> \o MarkLate(Tail(buffer)) \in Seq(Entries)
    BY ScrapInFront
  <2>9. buffer' \in Seq(Entries)
    BY <1>3, <2>6, <2>7, <2>8 DEF ReadMatching, GiveUp, TimeOut, ReadFails
  <2>10. got' \in [Clients -> SUBSET Entries]
    BY <1>3, <2>3 DEF ReadMatching, GiveUp, TimeOut, ReadFails
  <2>11. TypeOK'
    BY <2>1, <2>2, <2>5, <2>9, <2>10, LeaveKeepsTypes
  <2>12. QED
    BY <2>2, <2>11 DEF Leave, Asked
<1>4. CASE Discard(c)
  BY <1>4, Assumed DEF Discard, Asked
<1>5. QED
  BY <1>1, <1>2, <1>3, <1>4 DEF Exchange

LEMMA OthersKeepTypes ==
  ASSUME TypeOK, Asked, (\E o \in Operators : Command(o)) \/ Poll \/ RadioAnswers \/ Reopen
  PROVE  TypeOK' /\ Asked'
<1> USE DEF TypeOK, Asked, askVars, lineVars, pollVars
<1>1. ASSUME NEW o \in Operators, Command(o) PROVE TypeOK' /\ Asked'
  <2>1. o \in Clients
    BY Assumed
  <2>2. /\ item' \in [Clients -> Items \cup {"set"}] /\ waiting' \in SUBSET Operators
        /\ pc' \in [Clients -> {"idle", "waiting", "sending", "reading"}]
    BY <1>1, <2>1 DEF Command
  <2>3. QED
    BY <1>1, <2>1, <2>2 DEF Command
<1>2. CASE PollStart
  BY <1>2, Assumed DEF PollStart
<1>3. CASE PollYields \/ PollGoesOn \/ PollSkips \/ PollEndsGroup
  BY <1>3, Assumed DEF PollYields, PollGoesOn, PollSkips, PollEndsGroup, NextGroup
<1>4. CASE PollAsks
  <2>1. Plan[group].ask[place] \in Items /\ Plan[group].ask[place] # "set"
    BY <1>4, PlanFacts, Assumed DEF PollAsks
  <2>2. QED
    BY <1>4, <2>1, Assumed DEF PollAsks
<1>5. CASE RadioAnswers
  BY <1>5 DEF RadioAnswers
<1>6. CASE Reopen
  BY <1>6 DEF Reopen
<1>7. QED
  BY <1>1, <1>2, <1>3, <1>4, <1>5, <1>6 DEF Poll

LEMMA StartsTyped == Init => TypeOK /\ Asked
<1>1. 0 \in 0..(MaxAttempts - 1) /\ 0 \in 0..Len(Plan) /\ 0 \in 0..MaxOvertaken
  BY Assumed
<1>2. QED
  BY <1>1 DEF Init, TypeOK, Asked

LEMMA TypesInvariant == Spec => [](TypeOK /\ Asked)
<1>1. TypeOK /\ Asked /\ UNCHANGED vars => TypeOK' /\ Asked'
  BY DEF TypeOK, Asked, vars, askVars, lineVars, pollVars
<1>2. TypeOK /\ Asked /\ [Next]_vars => TypeOK' /\ Asked'
  BY <1>1, ExchangeKeepsTypes, OthersKeepTypes DEF Next
<1>3. QED
  BY <1>2, StartsTyped, PTL DEF Spec

\* Every variable keeps its type: what is on the line, or was got, is always a
\* question of the plan or of an operator, or the scrap of an answer, and the
\* poll loop stays in its plan.
THEOREM ExchangeTypeCorrect == Spec => []TypeOK
<1>1. QED
  BY TypesInvariant, PTL

-----------------------------------------------------------------------------
(* One asker                                                               *)

HolderReads == \A c \in Clients : pc[c] = "reading" <=> holder = c

Theirs(e) == holder # Nobody /\ e.item = item[holder]

\* Of the answers on the line and of the questions on the way to the radio only
\* the last may have its asker still, and that is the holder.
OneAsker ==
    /\ \A i \in 1..Len(buffer) : Live(buffer[i]) =>
          i = Len(buffer) /\ Len(asked) = 0 /\ Theirs(buffer[i])
    /\ \A i \in 1..Len(asked) : Live(asked[i]) => i = Len(asked) /\ Theirs(asked[i])

\* The holder's question came on top of what it found, and each reply read and
\* dropped since has made the line shorter by one.
Backlog == holder # Nobody => Len(asked) + Len(buffer) + attempt <= found + 1

LineInv == HolderReads /\ OneAsker /\ Backlog /\ OwnAnswerOrLate

\* Nobody on the line has an asker when the lock is free.
LEMMA FreeLine ==
  ASSUME OneAsker, holder = Nobody
  PROVE  /\ \A i \in 1..Len(buffer) : ~Live(buffer[i])
         /\ \A i \in 1..Len(asked) : ~Live(asked[i])
BY DEF OneAsker, Theirs

\* An exchange that ends leaves a line nobody waits for.
LEMMA ReleaseKeepsLine ==
  ASSUME TypeOK, LineInv, NEW c \in Clients, pc[c] = "reading", Release(c), UNCHANGED item,
         \A i \in 1..Len(asked') : ~Live(asked'[i]),
         \A i \in 1..Len(buffer') : ~Live(buffer'[i])
  PROVE  HolderReads' /\ OneAsker' /\ Backlog'
<1>1. holder = c /\ holder' = Nobody
  BY DEF LineInv, HolderReads, Release
<1>2. HolderReads'
  BY <1>1, Assumed DEF LineInv, HolderReads, Release, Leave, TypeOK
<1>3. OneAsker'
  BY DEF OneAsker, Live
<1>4. QED
  BY <1>1, <1>2, <1>3 DEF Backlog, Release

\* What the line carries when an exchange ends: answers nobody waits for, and no
\* more questions than before.
LEMMA ReleaseLine ==
  ASSUME TypeOK, LineInv, NEW c \in Clients,
         ReadMatching(c) \/ GiveUp(c) \/ TimeOut(c) \/ ReadFails(c)
  PROVE  /\ pc[c] = "reading" /\ Release(c) /\ UNCHANGED item
         /\ \A i \in 1..Len(asked') : ~Live(asked'[i])
         /\ \A i \in 1..Len(buffer') : ~Live(buffer'[i])
         /\ Len(asked') \in Nat /\ Len(asked') <= Len(asked)
<1>1. /\ asked \in Seq(Entries) /\ buffer \in Seq(Entries) /\ Len(asked) \in Nat
      /\ buffer # <<>> => Tail(buffer) \in Seq(Entries)
  BY DEF TypeOK
<1>2. /\ pc[c] = "reading" /\ Release(c) /\ UNCHANGED item
      /\ asked' \in {Front(asked), MarkLate(asked)}
      /\ \/ buffer = <<>> /\ buffer' = buffer
         \/ buffer' = MarkLate(buffer)
         \/ buffer # <<>> /\ buffer' = MarkLate(Tail(buffer))
         \/ buffer # <<>> /\ buffer' = <<Scrap>> \o MarkLate(Tail(buffer))
  BY DEF ReadMatching, GiveUp, TimeOut, ReadFails
<1>3. \A i \in 1..Len(buffer') : ~Live(buffer'[i])
  <2>1. CASE buffer = <<>> /\ buffer' = buffer
    BY <2>1
  <2>2. CASE buffer' = MarkLate(buffer)
    BY <1>1, <2>2, MarkLateKeeps
  <2>3. CASE buffer # <<>> /\ buffer' = MarkLate(Tail(buffer))
    BY <1>1, <2>3, MarkLateKeeps
  <2>4. CASE buffer # <<>> /\ buffer' = <<Scrap>> \o MarkLate(Tail(buffer))
    BY <1>1, <2>4, ScrapInFront
  <2>5. QED
    BY <1>2, <2>1, <2>2, <2>3, <2>4
<1>4. CASE asked' = MarkLate(asked)
  <2>1. Len(asked') = Len(asked) /\ \A i \in 1..Len(asked) : ~Live(asked'[i])
    BY <1>1, <1>4, MarkLateKeeps
  <2>2. QED
    BY <1>1, <1>2, <1>3, <2>1
<1>5. CASE asked' = Front(asked)
  <2>1. /\ Len(asked') = IF Len(asked) = 0 THEN 0 ELSE Len(asked) - 1
        /\ \A i \in 1..Len(asked') : asked'[i] = asked[i] /\ i \in 1..Len(asked)
                                      /\ i # Len(asked)
    BY <1>1, <1>5 DEF Front
  <2>2. \A i \in 1..Len(asked) : i # Len(asked) => ~Live(asked[i])
    BY DEF LineInv, OneAsker
  <2>3. \A i \in 1..Len(asked') : ~Live(asked'[i])
    BY <2>1, <2>2
  <2>4. Len(asked') \in Nat /\ Len(asked') <= Len(asked)
    BY <1>1, <2>1
  <2>5. QED
    BY <1>2, <1>3, <2>3, <2>4
<1>6. QED
  BY <1>2, <1>4, <1>5

LEMMA ExchangeKeepsLine ==
  ASSUME TypeOK, LineInv, NEW c \in Clients, Exchange(c)
  PROVE  LineInv'
<1>1. CASE Write(c)
  <2>1. holder = Nobody /\ holder' = c /\ c # Nobody
    BY <1>1, Assumed DEF Write
  <2>2. HolderReads'
    BY <1>1, <2>1, Assumed DEF Write, LineInv, HolderReads, TypeOK
  <2>3. OneAsker'
    <3>1. \A i \in 1..Len(buffer') : ~Live(buffer[i]) /\ buffer' = buffer
      BY <1>1, <2>1, FreeLine DEF Write, LineInv
    <3>2. \A i \in 1..Len(asked') :
             \/ i \in 1..Len(asked) /\ asked'[i] = asked[i]
             \/ i = Len(asked') /\ asked'[i] = [item |-> item[c], late |-> FALSE]
      BY <1>1 DEF Write, TypeOK
    <3>3. \A i \in 1..Len(asked) : ~Live(asked[i])
      BY <2>1, FreeLine DEF LineInv
    <3>4. UNCHANGED item
      BY <1>1 DEF Write
    <3>5. QED
      BY <2>1, <3>1, <3>2, <3>3, <3>4 DEF OneAsker, Live, Theirs
  <2>4. Backlog'
    <3>1. Len(asked') = Len(asked) + 1 /\ buffer' = buffer /\ attempt' = 0
      BY <1>1 DEF Write, TypeOK
    <3>2. found' = Len(buffer) + Len(asked) /\ Len(buffer) \in Nat /\ Len(asked) \in Nat
      BY <1>1 DEF Write, Line, TypeOK
    <3>3. QED
      BY <3>1, <3>2 DEF Backlog
  <2>5. OwnAnswerOrLate'
    BY <1>1 DEF Write, LineInv, OwnAnswerOrLate, Live
  <2>6. QED
    BY <2>2, <2>3, <2>4, <2>5 DEF LineInv
<1>2. CASE WriteFails(c) \/ Sends(c)
  <2>1. /\ UNCHANGED <<item, holder, buffer, got>> /\ Leave(c) /\ pc[c] # "reading"
        /\ holder = Nobody
    BY <1>2 DEF WriteFails, Sends, lineVars
  <2>2. HolderReads'
    BY <2>1 DEF LineInv, HolderReads, Leave, TypeOK
  <2>3. \A i \in 1..Len(asked') : ~Live(asked'[i])
    <3>1. \A i \in 1..Len(asked') :
             \/ i \in 1..Len(asked) /\ asked'[i] = asked[i]
             \/ asked'[i] = [item |-> item[c], late |-> TRUE]
      <4>1. asked' = asked \/ asked' = Append(asked, [item |-> item[c], late |-> TRUE])
        BY <1>2 DEF WriteFails, Sends, lineVars
      <4> DEFINE sent == [item |-> item[c], late |-> TRUE]
      <4>2. asked \in Seq(Entries)
        BY DEF TypeOK
      <4> HIDE DEF sent
      <4>3. asked' = asked \/ asked' = Append(asked, sent)
        BY <4>1 DEF sent
      <4>4. QED
        BY <4>2, <4>3 DEF sent
    <3>2. QED
      BY <2>1, <3>1, FreeLine DEF LineInv, Live
  <2>4. OneAsker'
    BY <2>1, <2>3, FreeLine DEF LineInv, OneAsker, Live
  <2>5. QED
    BY <2>1, <2>2, <2>4 DEF LineInv, Backlog, OwnAnswerOrLate, Live
<1>3. CASE ReadMatching(c) \/ GiveUp(c) \/ TimeOut(c) \/ ReadFails(c)
  <2>1. /\ pc[c] = "reading" /\ Release(c) /\ UNCHANGED item
        /\ HolderReads' /\ OneAsker' /\ Backlog'
    BY <1>3, ReleaseLine, ReleaseKeepsLine
  <2>2. holder = c /\ c # Nobody
    BY <2>1, Assumed DEF LineInv, HolderReads
  <2>3. OwnAnswerOrLate'
    <3>1. CASE GiveUp(c) \/ TimeOut(c) \/ ReadFails(c)
      BY <2>1, <3>1 DEF GiveUp, TimeOut, ReadFails, LineInv, OwnAnswerOrLate, Live, TypeOK
    <3>2. CASE ReadMatching(c)
      <4>1. buffer # <<>> /\ Len(buffer) \in Nat /\ 1 \in 1..Len(buffer)
            /\ Head(buffer) = buffer[1]
        BY <3>2 DEF ReadMatching, TypeOK
      <4>2. Live(Head(buffer)) => Head(buffer).item = item[c]
        BY <2>2, <4>1 DEF LineInv, OneAsker, Theirs
      <4>3. /\ Matches(Head(buffer), c) /\ got' = [got EXCEPT ![c] = {Head(buffer)}]
        BY <3>2 DEF ReadMatching
      <4>4. QED
        BY <2>1, <4>2, <4>3 DEF LineInv, OwnAnswerOrLate, Matches, Live, TypeOK
    <3>3. QED
      BY <1>3, <3>1, <3>2
  <2>4. QED
    BY <2>1, <2>3 DEF LineInv
<1>5. CASE Discard(c)
  <2>1. /\ buffer # <<>> /\ buffer' = Tail(buffer)
        /\ UNCHANGED <<pc, item, holder, found, asked, got>>
    BY <1>5 DEF Discard
  <2>2. /\ Len(buffer') = Len(buffer) - 1 /\ Len(buffer) \in Nat /\ Len(asked) \in Nat
        /\ \A i \in 1..Len(buffer') : buffer'[i] = buffer[i + 1] /\ i + 1 \in 1..Len(buffer)
    BY <2>1 DEF TypeOK
  <2>3. OneAsker'
    <3>1. ASSUME NEW i \in 1..Len(buffer'), Live(buffer'[i])
          PROVE  i = Len(buffer') /\ Len(asked) = 0 /\ Theirs(buffer'[i])
      <4>1. Live(buffer[i + 1]) /\ i + 1 \in 1..Len(buffer) /\ buffer'[i] = buffer[i + 1]
        BY <2>2, <3>1
      <4>2. i + 1 = Len(buffer) /\ Len(asked) = 0 /\ Theirs(buffer[i + 1])
        BY <4>1 DEF LineInv, OneAsker
      <4>3. QED
        BY <2>2, <4>1, <4>2
    <3>2. \A i \in 1..Len(asked) : Live(asked[i]) => i = Len(asked) /\ Theirs(asked[i])
      BY DEF LineInv, OneAsker
    <3>3. QED
      BY <2>1, <3>1, <3>2 DEF OneAsker, Live, Theirs
  <2>4. HolderReads' /\ OwnAnswerOrLate'
    BY <2>1 DEF LineInv, HolderReads, OwnAnswerOrLate, Live
  <2>5. Backlog'
    <3>1. holder # Nobody /\ attempt \in Nat /\ attempt' = attempt + 1
      BY <1>5, Assumed DEF Discard, LineInv, HolderReads, TypeOK
    <3>2. QED
      BY <2>1, <2>2, <3>1 DEF LineInv, Backlog, TypeOK
  <2>6. QED
    BY <2>3, <2>4, <2>5 DEF LineInv
<1>6. QED
  BY <1>1, <1>2, <1>3, <1>5 DEF Exchange

LEMMA OthersKeepLine ==
  ASSUME TypeOK, LineInv, (\E o \in Operators : Command(o)) \/ Poll \/ RadioAnswers \/ Reopen
  PROVE  LineInv'
<1>1. ASSUME NEW c \in Clients, pc[c] = "idle", NEW w \in {"waiting", "sending"},
             pc' = [pc EXCEPT ![c] = w], NEW i, item' = [item EXCEPT ![c] = i],
             got' = [got EXCEPT ![c] = {}],
             UNCHANGED <<holder, askVars, lineVars>>
      PROVE  LineInv'
  <2>1. holder # c
    BY <1>1 DEF LineInv, HolderReads
  <2>2. HolderReads'
    BY <1>1, <2>1 DEF LineInv, HolderReads, TypeOK
  <2>3. item'[holder] = item[holder] \/ holder = Nobody
    BY <1>1, <2>1 DEF TypeOK
  <2>4. OneAsker' /\ Backlog'
    BY <1>1, <2>3 DEF LineInv, OneAsker, Backlog, Live, Theirs, askVars, lineVars
  <2>5. OwnAnswerOrLate'
    BY <1>1 DEF LineInv, OwnAnswerOrLate, Live, TypeOK
  <2>6. QED
    BY <2>2, <2>4, <2>5 DEF LineInv
<1>2. ASSUME NEW o \in Operators, Command(o) PROVE LineInv'
  <2>1. /\ o \in Clients /\ \E i : item' = [item EXCEPT ![o] = i]
        /\ \E w \in {"waiting", "sending"} : pc' = [pc EXCEPT ![o] = w]
    BY <1>2, Assumed DEF Command
  <2>2. QED
    BY <1>1, <1>2, <2>1 DEF Command
<1>3. CASE PollAsks
  BY <1>1, <1>3, Assumed DEF PollAsks
<1>4. CASE PollStart \/ PollYields \/ PollGoesOn \/ PollSkips \/ PollEndsGroup
  <2>1. UNCHANGED <<pc, item, holder, askVars, lineVars, got>>
    BY <1>4 DEF PollStart, PollYields, PollGoesOn, PollSkips, PollEndsGroup
  <2>2. QED
    BY <2>1
       DEF LineInv, HolderReads, OneAsker, Backlog, OwnAnswerOrLate, Live, Theirs, askVars, lineVars
<1>5. CASE RadioAnswers
  <2>1. /\ asked # <<>> /\ asked' = Tail(asked) /\ buffer' = Append(buffer, Head(asked))
        /\ UNCHANGED <<pc, item, holder, attempt, found, got>>
    BY <1>5 DEF RadioAnswers, askVars
  <2>2. /\ Len(asked') = Len(asked) - 1 /\ Len(asked) \in Nat /\ Len(asked) > 0
        /\ \A i \in 1..Len(asked') : asked'[i] = asked[i + 1] /\ i + 1 \in 1..Len(asked)
    BY <2>1 DEF TypeOK
  <2>3. /\ Len(buffer') = Len(buffer) + 1 /\ Len(buffer) \in Nat
        /\ \A i \in 1..Len(buffer') :
              \/ i \in 1..Len(buffer) /\ buffer'[i] = buffer[i]
              \/ i = Len(buffer') /\ buffer'[i] = asked[1]
    BY <2>1 DEF TypeOK
  <2>4. OneAsker'
    <3>1. \A i \in 1..Len(buffer) : ~Live(buffer[i])
      BY <2>2 DEF LineInv, OneAsker
    <3>2. \A i \in 1..Len(asked) : Live(asked[i]) => i = Len(asked) /\ Theirs(asked[i])
      BY DEF LineInv, OneAsker
    <3>3. ASSUME NEW i \in 1..Len(asked'), Live(asked'[i])
          PROVE  i = Len(asked') /\ Theirs(asked'[i])
      <4>1. Live(asked[i + 1]) /\ i + 1 \in 1..Len(asked) /\ asked'[i] = asked[i + 1]
        BY <2>2, <3>3
      <4>2. i + 1 = Len(asked) /\ Theirs(asked[i + 1])
        BY <3>2, <4>1
      <4>3. QED
        BY <2>2, <4>1, <4>2
    <3>4. ASSUME NEW i \in 1..Len(buffer'), Live(buffer'[i])
          PROVE  i = Len(buffer') /\ Len(asked') = 0 /\ Theirs(buffer'[i])
      <4>1. i = Len(buffer') /\ buffer'[i] = asked[1] /\ Live(asked[1]) /\ 1 \in 1..Len(asked)
        BY <2>2, <2>3, <3>1, <3>4
      <4>2. 1 = Len(asked) /\ Theirs(asked[1])
        BY <3>2, <4>1
      <4>3. Len(asked') = 0
        BY <2>1, <4>2 DEF TypeOK
      <4>4. Theirs(buffer'[i])
        BY <4>1, <4>2 DEF Theirs
      <4>5. QED
        BY <4>1, <4>3, <4>4
    <3>5. QED
      BY <2>1, <3>3, <3>4 DEF OneAsker, Live, Theirs
  <2>5. HolderReads' /\ OwnAnswerOrLate'
    BY <2>1 DEF LineInv, HolderReads, OwnAnswerOrLate, Live
  <2>6. Backlog'
    BY <2>1, <2>2, <2>3 DEF LineInv, Backlog, TypeOK
  <2>7. QED
    BY <2>4, <2>5, <2>6 DEF LineInv
<1>6. CASE Reopen
  <2>1. /\ holder = Nobody /\ buffer' = <<>> /\ UNCHANGED <<pc, item, holder, attempt, asked, got>>
    BY <1>6 DEF Reopen, askVars
  <2>2. OneAsker'
    BY <2>1, FreeLine DEF LineInv, OneAsker, Live
  <2>3. QED
    BY <2>1, <2>2, Assumed DEF LineInv, HolderReads, Backlog, OwnAnswerOrLate, Live, TypeOK
<1>7. QED
  BY <1>2, <1>3, <1>4, <1>5, <1>6 DEF Poll

LEMMA LineInvariant == Spec => []LineInv
<1>1. Init => LineInv
  BY Assumed DEF Init, LineInv, HolderReads, OneAsker, Backlog, OwnAnswerOrLate
<1>2. LineInv /\ UNCHANGED vars => LineInv'
  BY DEF LineInv, HolderReads, OneAsker, Backlog, OwnAnswerOrLate, Live, Theirs, vars, askVars,
         lineVars
<1>3. TypeOK /\ LineInv /\ [Next]_vars => LineInv'
  BY <1>2, ExchangeKeepsLine, OthersKeepLine DEF Next
<1>4. QED
  BY <1>1, <1>3, ExchangeTypeCorrect, PTL DEF Spec

\* No client ever gets the answer to another's question: what it gets is its own
\* or a late one to a question with the same verb, and of the whole line only the
\* last has anybody waiting for it.
THEOREM ExchangeNoCrossedAnswers == Spec => []NoCrossedAnswers
<1>1. TypeOK /\ LineInv => NoCrossedAnswers
  <2>1. SUFFICES ASSUME TypeOK, LineInv PROVE NoCrossedAnswers
    OBVIOUS
  <2>2. /\ buffer \in Seq(Entries) /\ asked \in Seq(Entries)
        /\ Len(buffer) \in Nat /\ Len(asked) \in Nat
    BY <2>1 DEF TypeOK
  <2>3. /\ DOMAIN Line = 1..(Len(buffer) + Len(asked)) /\ Len(Line) = Len(buffer) + Len(asked)
        /\ \A i \in DOMAIN Line :
              Line[i] = IF i <= Len(buffer) THEN buffer[i] ELSE asked[i - Len(buffer)]
    BY <2>2 DEF Line
  <2>4. ASSUME NEW i \in DOMAIN Line, Live(Line[i])
        PROVE  i = Len(Line) /\ Theirs(Line[i])
    <3>1. CASE i <= Len(buffer)
      <4>1. i \in 1..Len(buffer) /\ Line[i] = buffer[i]
        BY <2>2, <2>3, <3>1
      <4>2. i = Len(buffer) /\ Len(asked) = 0 /\ Theirs(buffer[i])
        BY <2>1, <2>4, <4>1 DEF LineInv, OneAsker
      <4>3. QED
        BY <2>2, <2>3, <4>1, <4>2
    <3>2. CASE ~(i <= Len(buffer))
      <4>1. i - Len(buffer) \in 1..Len(asked) /\ Line[i] = asked[i - Len(buffer)]
        BY <2>2, <2>3, <3>2
      <4>2. i - Len(buffer) = Len(asked) /\ Theirs(asked[i - Len(buffer)])
        BY <2>1, <2>4, <4>1 DEF LineInv, OneAsker
      <4>3. QED
        BY <2>2, <2>3, <4>1, <4>2
    <3>3. QED
      BY <3>1, <3>2
  <2>5. QED
    BY <2>1, <2>4 DEF LineInv, NoCrossedAnswers, Theirs
<1>2. QED
  BY <1>1, ExchangeTypeCorrect, LineInvariant, PTL

\* However often askers give up, and whatever is sent with nobody to read the
\* answer: an exchange leaves on the line what it found and its own question,
\* less every reply it read.
THEOREM ExchangeWorksBacklogOff == Spec => BacklogWorkedOff
<1>1. ASSUME TypeOK, Asked, LineInv, Next, holder # Nobody, holder' = Nobody
      PROVE  Len(Line') + attempt + (Len(buffer) - Len(buffer')) <= found + 1
  <2>1. PICK c \in Clients : ReadMatching(c) \/ GiveUp(c) \/ TimeOut(c) \/ ReadFails(c)
    <3>1. CASE \E c \in Clients : Exchange(c)
      BY <1>1, <3>1, Assumed DEF Exchange, Write, WriteFails, Sends, Discard, Clients
    <3>2. CASE \E o \in Operators : Command(o)
      BY <1>1, <3>2 DEF Command
    <3>3. CASE Poll \/ RadioAnswers \/ Reopen
      BY <1>1, <3>3 DEF Poll, PollStart, PollYields, PollGoesOn, PollSkips, PollAsks,
                        PollEndsGroup, RadioAnswers, Reopen
    <3>4. QED
      BY <1>1, <3>1, <3>2, <3>3 DEF Next
  <2>2. Len(asked') \in Nat /\ Len(asked') <= Len(asked)
    BY <1>1, <2>1, ReleaseLine
  <2>3. TypeOK'
    BY <1>1, <2>1, ExchangeKeepsTypes DEF Exchange, LineInv
  <2>4. Len(Line') = Len(buffer') + Len(asked') /\ Len(buffer') \in Nat
    BY <2>3 DEF TypeOK, Line
  <2>5. Len(asked) + Len(buffer) + attempt <= found + 1
    BY <1>1 DEF LineInv, Backlog
  <2>6. /\ Len(asked) \in Nat /\ Len(buffer) \in Nat /\ attempt \in Nat /\ found \in Nat
    BY <1>1, Assumed DEF TypeOK
  <2>7. QED
    BY <2>2, <2>4, <2>5, <2>6
<1>2. TypeOK /\ Asked /\ LineInv /\ [Next]_vars =>
        [holder # Nobody /\ holder' = Nobody =>
            Len(Line') + attempt + (Len(buffer) - Len(buffer')) <= found + 1]_vars
  BY <1>1
<1>3. QED
  BY <1>2, TypesInvariant, LineInvariant, PTL DEF Spec, BacklogWorkedOff

-----------------------------------------------------------------------------
(* Overtaken by one group                                                  *)

Longest(g) == \A h \in 1..Len(Plan) : Len(Plan[h].ask) <= Len(Plan[g].ask)

\* The questions of its group the poll loop has begun, were none left out.
Begun == IF pc[Poller] = "waiting" THEN place - 2 ELSE place - 1

\* Within a group each question overtakes once; behind a yield check nothing
\* does, and who does not wait is not overtaken.
OvertakenInv ==
    /\ pc[Poller] # "idle" => group > 0 /\ place > 1
    /\ group = 0 => place = 0
    /\ place > 0 => group > 0 /\ place <= Len(Plan[group].ask) + 1
    /\ \A o \in Operators : o \notin waiting => overtaken[o] = 0
    /\ \A o \in waiting : place > 0 => overtaken[o] <= Begun
    /\ OvertakenByOneGroup

\* The bound for everybody is the bound of the group under way.
LEMMA GroupBoundsAll ==
  ASSUME TypeOK, OvertakenInv, place > 0, NEW n \in Nat, n <= place - 1,
         NEW g \in 1..Len(Plan), Longest(g)
  PROVE  n <= Len(Plan[g].ask)
<1>1. group \in 1..Len(Plan) /\ place - 1 <= Len(Plan[group].ask) /\ place \in Nat
  BY Assumed DEF TypeOK, OvertakenInv
<1>2. Len(Plan[group].ask) <= Len(Plan[g].ask)
  BY <1>1 DEF Longest
<1>3. QED
  BY <1>1, <1>2, PlanFacts

\* Steps that begin no question: nobody is overtaken who was not before.
LEMMA NoneOvertaken ==
  ASSUME TypeOK, OvertakenInv, waiting' \subseteq Operators,
         UNCHANGED <<group, place>>,
         \/ pc'[Poller] = pc[Poller]
         \/ pc[Poller] # "idle" /\ pc'[Poller] = "idle",
         \A o \in Operators :
            /\ overtaken'[o] = overtaken[o] \/ overtaken'[o] = 0
            /\ o \in waiting' => o \in waiting \/ overtaken'[o] = 0
            /\ o \notin waiting' => overtaken'[o] = 0
  PROVE  OvertakenInv'
<1>1. \A o \in Operators : overtaken[o] \in Nat
  BY Assumed DEF TypeOK
<1>2. place \in Nat /\ waiting \subseteq Operators
  BY DEF TypeOK
<1>3. ASSUME NEW o \in waiting', place' > 0 PROVE overtaken'[o] <= Begun'
  <2>1. Begun' >= Begun /\ Begun \in Int /\ Begun' \in Int /\ Begun' >= 0
    BY <1>2, <1>3 DEF OvertakenInv, Begun
  <2>2. CASE overtaken'[o] = 0
    BY <2>1, <2>2
  <2>3. CASE o \in waiting /\ overtaken'[o] = overtaken[o]
    <3>1. overtaken[o] <= Begun
      BY <1>3, <2>3 DEF OvertakenInv
    <3>2. QED
      BY <1>1, <1>2, <2>1, <2>3, <3>1
  <2>4. QED
    BY <2>2, <2>3
<1>4. ASSUME NEW o \in waiting', NEW g \in 1..Len(Plan), Longest(g)
      PROVE  overtaken'[o] <= Len(Plan[g].ask)
  <2>1. CASE overtaken'[o] = 0
    BY <2>1, PlanFacts
  <2>2. CASE o \in waiting /\ overtaken'[o] = overtaken[o]
    BY <1>4, <2>2 DEF OvertakenInv, OvertakenByOneGroup, Longest
  <2>3. QED
    BY <1>4, <2>1, <2>2
<1>5. OvertakenByOneGroup'
  BY <1>4 DEF OvertakenByOneGroup, Longest
<1>6. QED
  BY <1>3, <1>5 DEF OvertakenInv

LEMMA ExchangeKeepsOvertaken ==
  ASSUME TypeOK, OvertakenInv, NEW c \in Clients, Exchange(c)
  PROVE  OvertakenInv'
<1>1. /\ Poller \in Clients /\ waiting \subseteq Operators
      /\ \A o \in Operators : overtaken[o] \in Nat /\ o # Poller
  BY Assumed DEF TypeOK
<1>2. CASE Write(c)
  <2>1. /\ pc[c] = "waiting" /\ pc' = [pc EXCEPT ![c] = "reading"]
        /\ UNCHANGED <<waiting, group, place>>
    BY <1>2 DEF Write, pollVars
  <2>2. CASE c # Poller
    <3>1. pc'[Poller] = pc[Poller] /\ \A o \in Operators : overtaken'[o] = overtaken[o]
      BY <1>1, <1>2, <2>1, <2>2 DEF Write, TypeOK
    <3>2. \A o \in Operators : o \notin waiting => overtaken[o] = 0
      BY DEF OvertakenInv
    <3>3. QED
      BY <1>1, <2>1, <3>1, <3>2, NoneOvertaken
  <2>3. CASE c = Poller
    <3>1. /\ pc[Poller] = "waiting" /\ pc'[Poller] = "reading" /\ group > 0 /\ place > 1
          /\ place \in Nat
      BY <1>1, <2>1, <2>3 DEF TypeOK, OvertakenInv
    <3>2. \A o \in Operators :
             /\ overtaken'[o] \in Nat
             /\ o \in waiting => overtaken'[o] <= overtaken[o] + 1
             /\ o \notin waiting => overtaken'[o] = overtaken[o]
      BY <1>1, <1>2, <2>3, Assumed DEF Write, TypeOK
    <3>3. \A o \in waiting : overtaken[o] <= place - 2
      BY <3>1 DEF OvertakenInv, Begun
    <3>4. \A o \in waiting : overtaken'[o] \in Nat /\ overtaken'[o] <= place - 1
      BY <1>1, <3>1, <3>2, <3>3
    <3>5. ASSUME NEW o \in waiting, NEW g \in 1..Len(Plan), Longest(g)
          PROVE  overtaken'[o] <= Len(Plan[g].ask)
      BY <3>1, <3>4, <3>5, GroupBoundsAll
    <3>6. OvertakenByOneGroup'
      BY <2>1, <3>5 DEF OvertakenByOneGroup, Longest
    <3>7. QED
      BY <2>1, <3>1, <3>2, <3>4, <3>6 DEF OvertakenInv, Begun
  <2>4. QED
    BY <2>2, <2>3
<1>3. CASE Discard(c)
  <2>1. UNCHANGED <<waiting, pc, group, place, overtaken>>
    BY <1>3 DEF Discard, pollVars
  <2>2. QED
    BY <2>1 DEF OvertakenInv, Begun, OvertakenByOneGroup
<1>4. CASE Leave(c) /\ pc[c] # "idle" /\ UNCHANGED pollVars
  <2>1. /\ pc'[Poller] = pc[Poller] \/ (pc[Poller] # "idle" /\ pc'[Poller] = "idle")
        /\ waiting' \subseteq Operators
        /\ UNCHANGED <<group, place>>
    BY <1>1, <1>4 DEF Leave, TypeOK, pollVars
  <2>2. \A o \in Operators :
            /\ overtaken'[o] = overtaken[o] \/ overtaken'[o] = 0
            /\ o \in waiting' => o \in waiting \/ overtaken'[o] = 0
            /\ o \notin waiting' => overtaken'[o] = 0
    BY <1>4 DEF Leave, OvertakenInv
  <2>3. QED
    BY <2>1, <2>2, NoneOvertaken
<1>5. CASE \/ WriteFails(c) \/ Sends(c)
           \/ ReadMatching(c) \/ GiveUp(c) \/ TimeOut(c) \/ ReadFails(c)
  BY <1>4, <1>5 DEF WriteFails, Sends, ReadMatching, GiveUp, TimeOut, ReadFails, Release
<1>6. QED
  BY <1>2, <1>3, <1>5 DEF Exchange

LEMMA OthersKeepOvertaken ==
  ASSUME TypeOK, OvertakenInv,
         (\E o \in Operators : Command(o)) \/ Poll \/ RadioAnswers \/ Reopen
  PROVE  OvertakenInv'
<1>1. place \in Nat /\ waiting \subseteq Operators
  BY DEF TypeOK
<1>2. ASSUME NEW o \in Operators, Command(o) PROVE OvertakenInv'
  <2>1. /\ waiting' \in {waiting, waiting \cup {o}} /\ pc'[Poller] = pc[Poller]
        /\ UNCHANGED <<group, place, overtaken>>
    BY <1>2, Assumed DEF Command, TypeOK, pollVars
  <2>2. waiting' \subseteq Operators
    BY <1>1, <2>1
  <2>3. QED
    BY <2>1, <2>2, NoneOvertaken DEF OvertakenInv
<1>3. CASE PollAsks
  <2>1. /\ group > 0 /\ place \in 1..Len(Plan[group].ask) /\ pc[Poller] = "idle"
        /\ pc'[Poller] = "waiting" /\ place' = place + 1
        /\ UNCHANGED <<waiting, group, overtaken>>
    BY <1>3, Assumed DEF PollAsks, TypeOK
  <2>2. Len(Plan[group].ask) \in Nat
    BY <2>1, PlanFacts, Assumed DEF TypeOK
  <2>3. Begun' = Begun
    BY <1>1, <2>1 DEF Begun
  <2>4. QED
    BY <1>1, <2>1, <2>2, <2>3 DEF OvertakenInv, OvertakenByOneGroup
<1>4. CASE PollGoesOn
  <2>1. /\ waiting = {} /\ pc[Poller] = "idle" /\ group > 0 /\ place' = 1
        /\ UNCHANGED <<waiting, pc, group, overtaken>>
    BY <1>1, <1>4 DEF PollGoesOn, Yield, OvertakenInv
  <2>2. Len(Plan[group].ask) \in Nat
    BY <2>1, PlanFacts, Assumed DEF TypeOK
  <2>3. QED
    BY <2>1, <2>2 DEF OvertakenInv, OvertakenByOneGroup
<1>5. CASE PollStart \/ PollYields \/ PollSkips \/ PollEndsGroup
  <2>1. /\ pc[Poller] = "idle" /\ place' = 0
        /\ UNCHANGED <<waiting, pc, overtaken>>
    BY <1>1, <1>5 DEF PollStart, PollYields, PollSkips, PollEndsGroup, NextGroup, OvertakenInv
  <2>2. QED
    BY <2>1 DEF OvertakenInv, OvertakenByOneGroup
<1>6. CASE RadioAnswers \/ Reopen
  <2>1. UNCHANGED <<waiting, pc, group, place, overtaken>>
    BY <1>6 DEF RadioAnswers, Reopen, pollVars
  <2>2. QED
    BY <2>1 DEF OvertakenInv, Begun, OvertakenByOneGroup
<1>7. QED
  BY <1>2, <1>3, <1>4, <1>5, <1>6 DEF Poll

\* An operator counted as waiting is overtaken by no more poll questions than the
\* longest group asks between two yield checks.
THEOREM ExchangeOvertakenByOneGroup == Spec => []OvertakenByOneGroup
<1>1. Init => OvertakenInv
  BY Assumed DEF Init, OvertakenInv, OvertakenByOneGroup
<1>2. OvertakenInv /\ UNCHANGED vars => OvertakenInv'
  BY DEF OvertakenInv, Begun, OvertakenByOneGroup, vars, pollVars
<1>3. TypeOK /\ OvertakenInv /\ [Next]_vars => OvertakenInv'
  BY <1>2, ExchangeKeepsOvertaken, OthersKeepOvertaken DEF Next
<1>4. OvertakenInv => OvertakenByOneGroup
  BY DEF OvertakenInv
<1>5. QED
  BY <1>1, <1>3, <1>4, ExchangeTypeCorrect, PTL DEF Spec

-----------------------------------------------------------------------------
(* The life of the port                                                    *)

\* The inductive invariant: an operator mid-exchange has the CAT lock, and so has
\* the poll goroutine while it reads and while the port is closed.
HolderKnown ==
    /\ \A o \in Operators : op[o] = "exchange" <=> holder = o
    /\ loop \in {"read", "open"} <=> holder = Poller

LEMMA HealthAssumed ==
  /\ StaleAfter \in Nat /\ ConnectedWithin \in Nat /\ DeadAfter \in Nat /\ MaxEvents \in Nat
  /\ Nobody \notin Operators /\ Poller \notin Operators /\ Nobody # Poller
  /\ Clients = Operators \cup {Poller}
BY HealthAssumption, CatLockAssumption DEF HealthAssumption, CatLockAssumption, Clients

HealthInv == HealthTypeOK /\ HolderKnown /\ NoSwapMidExchange

LEMMA PollKeepsInv == ASSUME HealthInv, PollGoroutine PROVE HealthInv'
<1> USE HealthAssumed
        DEF HealthInv, HealthTypeOK, HolderKnown, NoSwapMidExchange, ageVars, worldVars, opVars,
            Never, Ages
<1>1. CASE PollBegins
  BY <1>1 DEF PollBegins
<1>2. CASE TakeLine
  BY <1>2 DEF TakeLine
<1>3. CASE FrequencyRead
  BY <1>3 DEF FrequencyRead
<1>4. CASE CycleYields
  BY <1>4 DEF CycleYields
<1>5. CASE CycleEnds
  BY <1>5 DEF CycleEnds
<1>6. CASE DeadCheck
  BY <1>6 DEF DeadCheck
<1>7. CASE CloseOld
  BY <1>7 DEF CloseOld
<1>8. CASE OpenNew
  \* Nobody is mid-exchange: the lock is the poll goroutine's.
  BY <1>8 DEF OpenNew
<1>9. CASE OpenFails
  BY <1>9 DEF OpenFails
<1>10. QED
  BY <1>1, <1>2, <1>3, <1>4, <1>5, <1>6, <1>7, <1>8, <1>9 DEF PollGoroutine

LEMMA OthersKeepInv ==
  ASSUME HealthInv,
         \/ \E o \in Operators : Operator(o)
         \/ DeviceChanges \/ Tick \/ UNCHANGED healthVars
  PROVE  HealthInv'
<1> USE HealthAssumed
        DEF HealthInv, HealthTypeOK, HolderKnown, NoSwapMidExchange, ageVars, worldVars, opVars,
            Never, Ages
<1>1. ASSUME NEW o \in Operators, OperatorComes(o) PROVE HealthInv'
  BY <1>1 DEF OperatorComes
<1>2. ASSUME NEW o \in Operators, ExchangeBegins(o) PROVE HealthInv'
  BY <1>2 DEF ExchangeBegins
<1>3. ASSUME NEW o \in Operators, ExchangeEnds(o) PROVE HealthInv'
  BY <1>3 DEF ExchangeEnds
<1>4. CASE DeviceChanges
  BY <1>4 DEF DeviceChanges
<1>5. CASE Tick
  BY <1>5 DEF Tick, Older
<1>6. CASE UNCHANGED healthVars
  BY <1>6 DEF healthVars
<1>7. QED
  BY <1>1, <1>2, <1>3, <1>4, <1>5, <1>6 DEF Operator

LEMMA HealthInvariant == HealthSpec => []HealthInv
<1>1. HealthInit => HealthInv
  BY HealthAssumed
     DEF HealthInit, HealthInv, HealthTypeOK, HolderKnown, NoSwapMidExchange, Never, Ages
<1>2. HealthInv /\ [HealthNext]_healthVars => HealthInv'
  BY PollKeepsInv, OthersKeepInv DEF HealthNext
<1>3. QED
  BY <1>1, <1>2, PTL DEF HealthSpec

\* The poll goroutine, the port and the ages keep their types, and a port is
\* replaced only once closed and under the CAT lock.
THEOREM HealthTypeCorrect == HealthSpec => []HealthTypeOK
<1>1. HealthInv => HealthTypeOK
  BY DEF HealthInv
<1>2. QED
  BY <1>1, HealthInvariant, PTL

\* No exchange of any operator loses its port on the way, however often the port
\* is reopened.
THEOREM NeverSwapsMidExchange == HealthSpec => []NoSwapMidExchange
<1>1. HealthInv => NoSwapMidExchange
  BY DEF HealthInv
<1>2. QED
  BY <1>1, HealthInvariant, PTL
=============================================================================
