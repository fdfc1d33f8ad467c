---------------------------- MODULE CatExchange ----------------------------
(***************************************************************************)
(* The CAT line of internal/rig/serial.go: one serial stream shared by the *)
(* poll loop (ask) and by any number of operator commands (Ask, send).     *)
(*                                                                         *)
(* The radio answers questions in the order it got them, possibly after    *)
(* the asker has given up.  A question is an item (RM4, EX010111); ask     *)
(* accepts any reply that starts with the item's leading letters (RM, EX). *)
(* What send writes may be a question too (FA; of quick-split, any verb a  *)
(* logger sends): its answer has no reader, and is the next asker's.       *)
(***************************************************************************)
EXTENDS CatLock, Naturals, SequencesExt

CONSTANTS
    Items,          \* questions
    VerbOf,         \* the leading letters of each question
    Plan,           \* the groups of a poll cycle, in order
    MaxAttempts,    \* replies ask reads before it gives up (4 in the code)
    MaxLate,        \* bound: nothing is asked while the line carries more
    MaxOvertaken    \* bound: where the count of questions begun first stops

\* A group of questions with one yield check in front: a waiting operator
\* makes the poller abandon the cycle, or skip the group; the slow settings
\* are asked for in every eighth cycle only.
Groups == [ask : Seq(Items), ifBusy : {"abandon", "skip"}, slow : BOOLEAN]

ASSUME ExchangeAssumption ==
    /\ DOMAIN VerbOf = Items
    /\ "set" \notin Items /\ "scrap" \notin Items
    /\ Plan \in Seq(Groups) /\ Plan # <<>>
    /\ MaxAttempts \in Nat \ {0}
    /\ {MaxLate, MaxOvertaken} \subseteq Nat

VARIABLES
    waiting,        \* operators counted by s.waiting
    pc,             \* what each client does: idle, waiting for the lock to ask
                    \* or to send, reading the reply
    item,           \* the question each client asks or sends, or "set"
    attempt,        \* replies the holder has read so far
    found,          \* history: what the line carried when the holder asked
    asked,          \* questions the radio has yet to answer
    buffer,         \* answers on the line, unread
    got,            \* the answer each client's last ask returned, if any
    group,          \* the group of the poll cycle under way, 0 between cycles
    place,          \* the question of that group, 0 before the yield check
    overtaken       \* poll questions begun while each operator waited, capped

vars == <<waiting, pc, item, holder, attempt, found, asked, buffer, got, group,
          place, overtaken>>
askVars == <<attempt, found>>
lineVars == <<asked, buffer>>
pollVars == <<group, place>>

\* A question or its answer on the line; late when its asker has left, or none
\* ever waited.  Scrap is what is left of a reply cut short: it has no verb.
Scrap == [item |-> "scrap", late |-> TRUE]
Entries == [item : Items \cup {"scrap"}, late : BOOLEAN]

TypeOK ==
    /\ waiting \in SUBSET Operators
    /\ pc \in [Clients -> {"idle", "waiting", "sending", "reading"}]
    /\ item \in [Clients -> Items \cup {"set"}]
    /\ holder \in Clients \cup {Nobody}
    /\ attempt \in 0..(MaxAttempts - 1)
    /\ found \in Nat
    /\ asked \in Seq(Entries)
    /\ buffer \in Seq(Entries)
    /\ got \in [Clients -> SUBSET Entries]
    /\ group \in 0..Len(Plan)
    /\ place \in Nat
    /\ overtaken \in [Operators -> 0..MaxOvertaken]

Init ==
    /\ waiting = {}
    /\ pc = [c \in Clients |-> "idle"]
    /\ item = [c \in Clients |-> "set"]
    /\ holder = Nobody
    /\ attempt = 0
    /\ found = 0
    /\ asked = <<>>
    /\ buffer = <<>>
    /\ got = [c \in Clients |-> {}]
    /\ group = 0
    /\ place = 0
    /\ overtaken = [o \in Operators |-> 0]

\* s.waiting.Load() > 0
Yield == waiting # {}

\* What the line carries, oldest first.
Line == buffer \o asked
Room == Len(Line) <= MaxLate
Live(e) == ~e.late
\* strings.HasPrefix(reply, verb)
Matches(e, c) == e.item \in Items /\ VerbOf[e.item] = VerbOf[item[c]]
MarkLate(line) == [i \in DOMAIN line |-> [line[i] EXCEPT !.late = TRUE]]

-----------------------------------------------------------------------------
(* One exchange: askOnce, with the lock held from the write to the reply.  *)

\* The deferred s.waiting.Add(-1) is the last thing a client does.
Leave(c) ==
    /\ pc' = [pc EXCEPT ![c] = "idle"]
    /\ waiting' = waiting \ {c}
    /\ overtaken' = [o \in Operators |-> IF o = c THEN 0 ELSE overtaken[o]]

Release(c) ==
    /\ holder' = Nobody
    /\ attempt' = 0
    /\ found' = 0
    /\ Leave(c)

\* Mutant: the lock guards the write only, another client may write too.
WriteUnlocked(c) ==
    /\ pc[c] = "waiting" /\ Room
    /\ holder' = c
    /\ attempt' = 0
    /\ found' = Len(Line)
    /\ pc' = [pc EXCEPT ![c] = "reading"]
    /\ asked' = Append(asked, [item |-> item[c], late |-> FALSE])
    /\ UNCHANGED <<waiting, item, buffer, got, pollVars, overtaken>>

\* The lock is taken and the question written.
Write(c) ==
    /\ pc[c] = "waiting" /\ Room
    /\ holder = Nobody
    /\ holder' = c
    /\ attempt' = 0
    /\ found' = Len(Line)
    /\ pc' = [pc EXCEPT ![c] = "reading"]
    /\ asked' = Append(asked, [item |-> item[c], late |-> FALSE])
    /\ overtaken' = [o \in Operators |->
                       IF c = Poller /\ o \in waiting /\ overtaken[o] < MaxOvertaken
                       THEN overtaken[o] + 1 ELSE overtaken[o]]
    /\ UNCHANGED <<waiting, item, buffer, got, pollVars>>

\* The port does not take the bytes: ask and send return the error.
WriteFails(c) ==
    /\ pc[c] \in {"waiting", "sending"}
    /\ holder = Nobody
    /\ Leave(c)
    /\ UNCHANGED <<item, holder, askVars, lineVars, got, pollVars>>

\* send holds the lock for the write alone and reads nothing: a set brings no
\* reply, the answer to a question is left on the line.
Sends(c) ==
    /\ pc[c] = "sending"
    /\ holder = Nobody
    /\ \/ item[c] = "set" /\ UNCHANGED asked
       \/ item[c] # "set" /\ Room /\ asked' = Append(asked, [item |-> item[c], late |-> TRUE])
    /\ Leave(c)
    /\ UNCHANGED <<item, holder, askVars, buffer, got, pollVars>>

\* A reply with the verb of the question is the answer.  Should it be a late
\* one, the question's own answer becomes late in turn.
ReadMatching(c) ==
    /\ pc[c] = "reading"
    /\ buffer # <<>>
    /\ Matches(Head(buffer), c)
    /\ got' = [got EXCEPT ![c] = {Head(buffer)}]
    /\ buffer' = MarkLate(Tail(buffer))
    /\ asked' = MarkLate(asked)
    /\ Release(c)
    /\ UNCHANGED <<item, pollVars>>

\* Mutant: the question is written again after a reply that does not match.
DiscardAndAskAgain(c) ==
    /\ pc[c] = "reading"
    /\ buffer # <<>>
    /\ ~Matches(Head(buffer), c)
    /\ attempt + 1 < MaxAttempts
    /\ attempt' = attempt + 1
    /\ buffer' = Tail(buffer)
    /\ asked' = Append(asked, [item |-> item[c], late |-> FALSE])
    /\ UNCHANGED <<waiting, pc, item, holder, found, got, pollVars, overtaken>>

\* Any other reply is dropped, and the next one read without asking again.
Discard(c) ==
    /\ pc[c] = "reading"
    /\ buffer # <<>>
    /\ ~Matches(Head(buffer), c)
    /\ attempt + 1 < MaxAttempts
    /\ attempt' = attempt + 1
    /\ buffer' = Tail(buffer)
    /\ UNCHANGED <<waiting, pc, item, holder, found, asked, got, pollVars, overtaken>>

\* The last attempt, or the 1.2 s of all attempts together are over.
GiveUp(c) ==
    /\ pc[c] = "reading"
    /\ buffer # <<>>
    /\ ~Matches(Head(buffer), c)
    /\ attempt + 1 = MaxAttempts \/ attempt > 0
    /\ got' = [got EXCEPT ![c] = {}]
    /\ buffer' = MarkLate(Tail(buffer))
    /\ asked' = MarkLate(asked)
    /\ Release(c)
    /\ UNCHANGED <<item, pollVars>>

\* No byte for 600 ms: askOnce's error ends ask at once.  The radio either
\* never answers this question, the last it was asked, or answers late.
TimeOut(c) ==
    /\ pc[c] = "reading"
    /\ buffer = <<>>
    /\ asked' \in {Front(asked), MarkLate(asked)}
    /\ got' = [got EXCEPT ![c] = {}]
    /\ Release(c)
    /\ UNCHANGED <<item, buffer, pollVars>>

\* Nor does ask go on after a read error, 600 ms in the middle of a reply, or a
\* reply that never ends: the reply begun, if any, is gone or the rest of it is
\* still on the line.
ReadFails(c) ==
    /\ pc[c] = "reading"
    /\ \/ buffer' = MarkLate(buffer)
       \/ buffer # <<>> /\ buffer' = MarkLate(Tail(buffer))
       \/ buffer # <<>> /\ buffer' = <<Scrap>> \o MarkLate(Tail(buffer))
    /\ asked' = MarkLate(asked)
    /\ got' = [got EXCEPT ![c] = {}]
    /\ Release(c)
    /\ UNCHANGED <<item, pollVars>>

RadioAnswers ==
    /\ asked # <<>>
    /\ asked' = Tail(asked)
    /\ buffer' = Append(buffer, Head(asked))
    /\ UNCHANGED <<waiting, pc, item, holder, askVars, got, pollVars, overtaken>>

\* reopenIfDead swaps the port under the lock: what the old one held is gone.
Reopen ==
    /\ holder = Nobody
    /\ buffer' = <<>>
    /\ UNCHANGED <<waiting, pc, item, holder, askVars, asked, got, pollVars, overtaken>>

-----------------------------------------------------------------------------
(* Operators: Ask and send count themselves as waiting before they take    *)
(* the lock; RemoteTXState and SetMuted call ask itself and do not.  Send  *)
(* takes whatever is shaped like a command, a question too.                *)

Command(o) ==
    /\ pc[o] = "idle"
    /\ \E i \in Items \cup {"set"} :
        /\ item' = [item EXCEPT ![o] = i]
        /\ \/ pc' = [pc EXCEPT ![o] = "sending"] /\ waiting' = waiting \cup {o}
           \/ i # "set" /\ pc' = [pc EXCEPT ![o] = "waiting"]
                        /\ waiting' \in {waiting, waiting \cup {o}}
    /\ got' = [got EXCEPT ![o] = {}]
    /\ UNCHANGED <<holder, askVars, lineVars, pollVars, overtaken>>

-----------------------------------------------------------------------------
(* pollOnce                                                                *)

PollStart ==
    /\ group = 0
    /\ group' = 1
    /\ place' = 0
    /\ UNCHANGED <<waiting, pc, item, holder, askVars, lineVars, got, overtaken>>

\* Mutant: the cycle does not end.
NextGroupForever == group' = group + 1 /\ place' = 0

\* The next group, or the end of the cycle.
NextGroup ==
    /\ group' = IF group = Len(Plan) THEN 0 ELSE group + 1
    /\ place' = 0

\* Mutant: the cycle is begun with a check and carried through without.
PollIgnoresYield ==
    /\ group > 1 /\ place = 0
    /\ Yield
    /\ place' = 1
    /\ UNCHANGED <<waiting, pc, item, holder, askVars, lineVars, got, group, overtaken>>

\* The yield check in front of a group.
PollYields ==
    /\ group > 0 /\ place = 0
    /\ Yield
    /\ IF Plan[group].ifBusy = "abandon" THEN group' = 0 /\ place' = 0 ELSE NextGroup
    /\ UNCHANGED <<waiting, pc, item, holder, askVars, lineVars, got, overtaken>>

PollGoesOn ==
    /\ group > 0 /\ place = 0
    /\ ~Yield
    /\ place' = 1
    /\ UNCHANGED <<waiting, pc, item, holder, askVars, lineVars, got, group, overtaken>>

\* Not an eighth cycle.
PollSkips ==
    /\ group > 0 /\ place = 0
    /\ Plan[group].slow
    /\ NextGroup
    /\ UNCHANGED <<waiting, pc, item, holder, askVars, lineVars, got, overtaken>>

PollAsks ==
    /\ group > 0 /\ place \in 1..Len(Plan[group].ask)
    /\ pc[Poller] = "idle"
    /\ item' = [item EXCEPT ![Poller] = Plan[group].ask[place]]
    /\ pc' = [pc EXCEPT ![Poller] = "waiting"]
    /\ got' = [got EXCEPT ![Poller] = {}]
    /\ place' = place + 1
    /\ UNCHANGED <<waiting, holder, askVars, lineVars, group, overtaken>>

PollEndsGroup ==
    /\ group > 0 /\ place > Len(Plan[group].ask)
    /\ pc[Poller] = "idle"
    /\ NextGroup
    /\ UNCHANGED <<waiting, pc, item, holder, askVars, lineVars, got, overtaken>>

-----------------------------------------------------------------------------
Exchange(c) ==
    \/ Write(c) \/ WriteFails(c) \/ Sends(c)
    \/ ReadMatching(c) \/ Discard(c) \/ GiveUp(c) \/ TimeOut(c) \/ ReadFails(c)

Poll ==
    PollStart \/ PollYields \/ PollGoesOn \/ PollSkips \/ PollAsks \/ PollEndsGroup

Next ==
    \/ \E c \in Clients : Exchange(c)
    \/ \E o \in Operators : Command(o)
    \/ Poll
    \/ RadioAnswers \/ Reopen

Spec == Init /\ [][Next]_vars
-----------------------------------------------------------------------------
(* Properties                                                              *)

\* What ask returns is the answer to the client's own question, or one to an
\* earlier question with the same verb that came too late or that nobody read,
\* which nothing in the reply tells from it,
OwnAnswerOrLate ==
    \A c \in Clients : \A e \in got[c] :
        /\ e.item \in Items /\ VerbOf[e.item] = VerbOf[item[c]]
        /\ Live(e) => e.item = item[c]

\* never the answer somebody else is waiting for: the lock spans write and read,
\* so of what the line carries only the last may have an asker still, and that
\* is the holder with its own question (serial.go:127-133).
NoCrossedAnswers ==
    /\ OwnAnswerOrLate
    /\ \A i \in DOMAIN Line : Live(Line[i]) =>
          /\ i = Len(Line)
          /\ holder # Nobody /\ Line[i].item = item[holder]

\* Reading again instead of asking again works the backlog off: whatever else
\* happens on the line meanwhile, an exchange that ends leaves there what it
\* found and its own question, less every reply it has read, so that a mismatch
\* does not grow by being met (serial.go:144-146).  Answers that are late, and
\* those of questions sent with nobody to read them, do add to the backlog.
BacklogWorkedOff ==
    [][holder # Nobody /\ holder' = Nobody =>
          Len(Line') + attempt + (Len(buffer) - Len(buffer')) <= found + 1]_vars

\* A poll question never holds up an operator counted as waiting more often
\* than the longest group of questions asked without a yield check.
OvertakenByOneGroup ==
    \A o \in waiting, g \in 1..Len(Plan) :
        (\A h \in 1..Len(Plan) : Len(Plan[h].ask) <= Len(Plan[g].ask))
            => overtaken[o] <= Len(Plan[g].ask)
=============================================================================
