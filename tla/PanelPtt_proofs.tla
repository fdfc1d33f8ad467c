--------------------------- MODULE PanelPtt_proofs ---------------------------
(***************************************************************************)
(* Proofs about PanelPtt, for any limits and any number of requests: the   *)
(* key leaves no carrier up, and the panel's limit comes before the        *)
(* host's.                                                                 *)
(***************************************************************************)
EXTENDS PanelPtt, SequenceTheorems, TLAPS

LEMMA Limits ==
  /\ HoldLimit \in Nat /\ HostLimit \in Nat /\ MaxSent \in Nat /\ MaxEdges \in Nat
  /\ MaxJobs \in Nat /\ MaxLost \in Nat /\ MaxRefused \in Nat
  /\ 0 < HoldLimit /\ HoldLimit < HostLimit /\ Off = -1
BY PanelPttAssumption DEF PanelPttAssumption, Off

Requests == [cmd : {"on", "off"}, n : 1..MaxSent]

OffOnItsWay == \E r \in net : r.cmd = "off"

\* What a change of key or mode has taken back, and what it has left.
Watched ==
    /\ watch # "plugin" => events = <<>>
    /\ watch = "plugin" => platform # "windows"
    /\ job.step = "awaits" => watch = "plugin"
    /\ job.step = "release" => watch = "nobody"
    /\ gone => ~down /\ watch = "nobody" /\ job = Idle
    /\ down /\ job = Idle => watch # "nobody" /\ limit # Off

\* A held key is down: as the poll last saw it, or as the last event says that
\* the plugin has delivered.
Tracked ==
    job = Idle /\ hold =>
        /\ watch = "poll" /\ down => was = "down"
        /\ watch = "plugin" =>
              /\ ups /\ platform = "macos"
              /\ IF events = <<>> THEN down => finger = "down"
                 ELSE events[Len(events)] = finger

\* Requests are told apart, and none arrives twice.
Numbered ==
    /\ newest <= sent
    /\ \A r \in net : r.n <= sent /\ r.n # newest
    /\ \A r, s \in net : r.n = s.n => r = s

\* The last request is under way or has arrived, and is a key-down only while the
\* panel takes the key to be down.
InOrder ==
    HeardInOrder =>
        /\ sent = newest \/ \E r \in net : r.n = sent
        /\ carrier /\ newest = sent => down
        /\ \A r \in net : r.n = sent /\ r.cmd = "on" => down

\* What is left of the panel's limit and the time on the air are no more than the
\* limit, unless a key-up is under way.
Timed ==
    /\ ~carrier => airtime = 0
    /\ HeardInOrder /\ ~OffOnItsWay =>
          /\ airtime <= HoldLimit
          /\ limit # Off => airtime + limit <= HoldLimit

KeyInv == TypeOK /\ Watched /\ Tracked /\ Numbered /\ InOrder /\ Timed

-----------------------------------------------------------------------------
(* What an edge does                                                       *)

\* A press or a release: the key goes down, it comes up, or nothing but the limit
\* changes.
Edge ==
    \/ /\ ~down /\ down' = TRUE /\ limit' = HoldLimit
       /\ Send("on") \/ UNCHANGED netVars
    \/ down' = FALSE /\ limit' = Off /\ Send("off")
    \/ UNCHANGED <<down, limit, netVars>>
    \/ ~down /\ limit' = Off /\ UNCHANGED <<down, netVars>>

LEMMA PressedIsAnEdge ==
  ASSUME TypeOK, Pressed
  PROVE  /\ Edge /\ hold' = hold
         /\ hold => down'
         /\ ~down => down'
<1>1. down \in BOOLEAN /\ hold \in BOOLEAN
  BY DEF TypeOK
<1>2. QED
  BY <1>1 DEF Pressed, KeyOn, KeyOff, Edge

LEMMA ReleasedIsAnEdge ==
  ASSUME TypeOK, Released
  PROVE  Edge /\ hold' = hold /\ ~down'
<1>1. down \in BOOLEAN
  BY DEF TypeOK
<1>2. QED
  BY <1>1 DEF Released, KeyOff, Edge

\* A request sent takes the next number.
LEMMA Sending ==
  ASSUME TypeOK, NEW cmd \in {"on", "off"}, Send(cmd)
  PROVE  /\ sent' = sent + 1 /\ sent' \in 1..MaxSent
         /\ net' \subseteq Requests
         /\ net' = net \cup {[cmd |-> cmd, n |-> sent']}
<1>1. sent' = sent + 1 /\ sent' \in 1..MaxSent
  BY Limits DEF TypeOK, Send
<1>2. [cmd |-> cmd, n |-> sent'] \in Requests
  BY <1>1 DEF Requests
<1>3. QED
  BY <1>1, <1>2 DEF TypeOK, Send, Requests

\* Types of what an edge changes.
LEMMA EdgeTypes ==
  ASSUME TypeOK, Edge
  PROVE  /\ down' \in BOOLEAN /\ limit' \in {Off} \cup 0..HoldLimit
         /\ net' \subseteq Requests /\ sent' \in 0..MaxSent
<1>1. down' \in BOOLEAN /\ limit' \in {Off} \cup 0..HoldLimit
  <2>1. down \in BOOLEAN /\ limit \in {Off} \cup 0..HoldLimit
    BY DEF TypeOK
  <2>2. down' \in {TRUE, FALSE, down} /\ limit' \in {HoldLimit, Off, limit}
    BY <2>1 DEF Edge
  <2>3. HoldLimit \in 0..HoldLimit
    BY Limits
  <2>4. QED
    BY <2>1, <2>2, <2>3
<1>2. Send("on") \/ Send("off") \/ UNCHANGED netVars
  BY DEF Edge, netVars
<1>3. CASE UNCHANGED netVars
  BY <1>1, <1>3 DEF TypeOK, netVars, Requests
<1>4. CASE Send("on") \/ Send("off")
  BY <1>1, <1>4, Sending
<1>5. QED
  BY <1>2, <1>3, <1>4

-----------------------------------------------------------------------------
(* Requests                                                                *)

\* The panel sends, or does not: a key-down only when it takes the key to be
\* down, and a key it stops taking to be down only with a key-up.
LEMMA PanelKeepsOrder ==
  ASSUME TypeOK, Numbered, InOrder, down' \in BOOLEAN,
         UNCHANGED <<carrier, newest, overtaken, lost, refused>>,
         \/ UNCHANGED netVars /\ (down => down')
         \/ Send("on") /\ down'
         \/ Send("off")
  PROVE  Numbered' /\ InOrder'
<1>1. CASE UNCHANGED netVars /\ (down => down')
  BY <1>1 DEF Numbered, InOrder, HeardInOrder, netVars
<1>2. ASSUME NEW cmd \in {"on", "off"}, Send(cmd), cmd = "on" => down'
      PROVE  Numbered' /\ InOrder'
  <2> DEFINE q == [cmd |-> cmd, n |-> sent']
  <2>1. sent' = sent + 1 /\ net' = net \cup {q} /\ q.n = sent' /\ q.cmd = cmd
    BY <1>2, Sending
  <2>2. sent \in Nat /\ newest \in Nat /\ newest <= sent
    BY DEF TypeOK, Numbered
  <2>3. PICK k \in Nat : k = sent'
    BY <2>1, <2>2
  <2>4. newest < k /\ sent < k
    BY <2>1, <2>2, <2>3
  <2>5. \A r \in net : r.n \in Nat /\ r.n <= sent /\ r.n < k /\ r.n # k
    BY <2>2, <2>4 DEF TypeOK, Numbered
  <2> HIDE DEF q
  <2>6. Numbered'
    <3>1. newest' <= sent'
      BY <2>2, <2>3, <2>4
    <3>2. \A r \in net' : r.n <= sent' /\ r.n # newest'
      BY <2>1, <2>2, <2>3, <2>4, <2>5 DEF Numbered
    <3>3. \A r, s \in net' : r.n = s.n => r = s
      BY <2>1, <2>3, <2>5 DEF Numbered
    <3>4. QED
      BY <3>1, <3>2, <3>3 DEF Numbered
  <2>7. InOrder'
    <3>1. \E r \in net' : r.n = sent'
      BY <2>1
    <3>2. newest' # sent'
      BY <2>2, <2>3, <2>4
    <3>3. \A r \in net' : r.n = sent' /\ r.cmd = "on" => down'
      BY <1>2, <2>1, <2>3, <2>5
    <3>4. QED
      BY <3>1, <3>2, <3>3 DEF InOrder
  <2>8. QED
    BY <2>6, <2>7
<1>3. QED
  BY <1>1, <1>2

LEMMA EdgeKeepsOrder ==
  ASSUME TypeOK, Numbered, InOrder, Edge, UNCHANGED <<carrier, newest, overtaken, lost, refused>>
  PROVE  Numbered' /\ InOrder'
<1>1. down' \in BOOLEAN /\ down \in BOOLEAN
  BY EdgeTypes DEF TypeOK
<1>2. \/ UNCHANGED netVars /\ (down => down')
      \/ Send("on") /\ down'
      \/ Send("off")
  BY <1>1 DEF Edge, netVars
<1>3. QED
  BY <1>1, <1>2, PanelKeepsOrder

\* An arrival is the newest, or overtaken by it; a key press that is refused
\* leaves the carrier to one that was not, and a key-up that is refused counts.
LEMMA ArrivesKeepsOrder ==
  ASSUME TypeOK, Numbered, InOrder, NEW r \in net, Arrives(r) \/ Refused(r)
  PROVE  Numbered' /\ InOrder'
<1>1. /\ net' = net \ {r} /\ UNCHANGED <<sent, down, lost>>
      /\ overtaken' = (overtaken \/ r.n < newest)
      /\ newest' = IF r.n > newest THEN r.n ELSE newest
  BY DEF Arrives, Refused, Reaches, pttVars
<1>2. r.n \in Nat /\ newest \in Nat /\ sent \in Nat /\ r.n <= sent /\ newest <= sent
      /\ r.n # newest
  BY DEF TypeOK, Numbered
<1>3. CASE r.n > newest
  <2>1. newest' = r.n
    BY <1>1, <1>3
  <2>2. Numbered'
    BY <1>1, <1>2, <2>1 DEF Numbered
  <2>3. InOrder'
    <3>1. SUFFICES ASSUME HeardInOrder'
                   PROVE  /\ sent = r.n \/ \E s \in net' : s.n = sent
                          /\ carrier' /\ r.n = sent => down
                          /\ \A s \in net' : s.n = sent /\ s.cmd = "on" => down
      BY <1>1, <2>1 DEF InOrder
    <3>2. HeardInOrder /\ (carrier' => r.cmd = "on")
      <4>1. refused' = 0 /\ refused \in Nat /\ r.cmd \in {"on", "off"}
        BY <3>1 DEF HeardInOrder, TypeOK
      <4>2. refused = 0 /\ (r.cmd = "off" => Arrives(r))
        BY <4>1 DEF Arrives, Refused
      <4>3. QED
        BY <1>1, <3>1, <4>1, <4>2 DEF HeardInOrder, Arrives
    <3>3. sent # newest
      BY <1>2, <1>3
    <3>4. PICK s \in net : s.n = sent
      BY <3>2, <3>3 DEF InOrder
    <3>5. sent = r.n \/ \E q \in net' : q.n = sent
      BY <1>1, <3>4
    <3>6. QED
      BY <1>1, <3>2, <3>5 DEF InOrder
  <2>4. QED
    BY <2>2, <2>3
<1>4. CASE ~(r.n > newest)
  <2>1. newest' = newest /\ overtaken'
    <3>1. r.n < newest
      BY <1>2, <1>4
    <3>2. QED
      BY <1>1, <1>4, <3>1, Zenon
  <2>2. Numbered'
    BY <1>1, <2>1 DEF Numbered
  <2>3. QED
    BY <2>1, <2>2 DEF InOrder, HeardInOrder
<1>5. QED
  BY <1>3, <1>4

-----------------------------------------------------------------------------
(* Types                                                                   *)

LEMMA JobShape ==
  ASSUME TypeOK
  PROVE  /\ job = Idle \/ (job.step \in {"awaits", "release"} /\ job.to \in Targets)
         /\ job = Idle <=> job.step = "idle"
BY DEF TypeOK, Jobs, Idle

LEMMA EventsShrink ==
  ASSUME TypeOK, events # <<>>, events' = Tail(events)
  PROVE  /\ events' \in Seq({"up", "down"}) /\ Head(events) \in {"up", "down"}
         /\ events' = <<>> => events[Len(events)] = Head(events)
         /\ events' # <<>> => events'[Len(events')] = events[Len(events)]
<1>1. events \in Seq({"up", "down"})
  BY DEF TypeOK
<1>2. /\ events' \in Seq({"up", "down"}) /\ Head(events) \in {"up", "down"}
      /\ Len(events') = Len(events) - 1 /\ Len(events) \in Nat /\ Len(events) # 0
      /\ Head(events) = events[1]
      /\ \A i \in 1..Len(events') : events'[i] = events[i + 1]
  BY <1>1, HeadTailProperties, LenProperties, EmptySeq
<1>3. Len(events') \in Nat /\ (events' = <<>> <=> Len(events') = 0)
  BY <1>2, LenProperties, EmptySeq
<1>4. PICK a \in Nat : a = Len(events)
  BY <1>2
<1>5. PICK b \in Nat : b = Len(events')
  BY <1>3
<1>6. b = a - 1
  BY <1>2, <1>4, <1>5
<1>7. CASE events' = <<>>
  <2>1. a = 1
    BY <1>3, <1>5, <1>6, <1>7
  <2>2. QED
    BY <1>2, <1>4, <1>7, <2>1
<1>8. CASE events' # <<>>
  <2>1. b \in 1..b /\ b + 1 = a
    BY <1>3, <1>5, <1>6, <1>8
  <2>2. QED
    BY <1>2, <1>4, <1>5, <1>8, <2>1
<1>9. QED
  BY <1>7, <1>8

LEMMA EventsGrow ==
  ASSUME TypeOK, NEW e \in {"up", "down"}, events' = Append(events, e)
  PROVE  /\ events' \in Seq({"up", "down"})
         /\ events' # <<>> /\ events'[Len(events')] = e
<1>1. events \in Seq({"up", "down"})
  BY DEF TypeOK
<1>2. QED
  BY <1>1, AppendProperties, LenProperties, EmptySeq

\* An event, a look of the poll and the limit running out are edges.
LEMMA EdgeActions ==
  ASSUME TypeOK, Event \/ EdgePoll \/ LimitFires
  PROVE  /\ Edge /\ hold' = hold /\ ~gone
         /\ UNCHANGED <<finger, edges, platform, watch, ups, jobVars, tx, hostVars, histVars>>
         /\ events' \in Seq({"up", "down"}) /\ was' \in {"up", "down"}
<1>1. UNCHANGED <<pttVars, netVars>> => Edge /\ hold' = hold
  BY DEF Edge, pttVars
<1>2. events \in Seq({"up", "down"}) /\ was \in {"up", "down"} /\ finger \in {"up", "down"}
  BY DEF TypeOK
<1>3. CASE Event
  <2>1. Pressed \/ Released \/ UNCHANGED <<pttVars, netVars>>
    BY <1>3, Zenon DEF Event
  <2>2. /\ UNCHANGED <<finger, edges, platform, watch, ups, was, jobVars, tx, hostVars, histVars>>
        /\ events # <<>> /\ ~gone /\ events' = Tail(events)
    BY <1>3 DEF Event, watchVars
  <2>3. events' \in Seq({"up", "down"})
    BY <2>2, EventsShrink
  <2>4. QED
    BY <1>1, <1>2, <2>1, <2>2, <2>3, PressedIsAnEdge, ReleasedIsAnEdge
<1>4. CASE EdgePoll
  <2>1. Pressed \/ Released \/ UNCHANGED <<pttVars, netVars>>
    BY <1>4, Zenon DEF EdgePoll
  <2>2. /\ UNCHANGED <<keyVars, platform, watch, ups, jobVars, tx, hostVars, histVars>>
        /\ ~gone /\ was' = finger
    BY <1>4 DEF EdgePoll
  <2>3. QED
    BY <1>1, <1>2, <2>1, <2>2, PressedIsAnEdge, ReleasedIsAnEdge DEF keyVars
<1>5. CASE LimitFires
  BY <1>2, <1>5, ReleasedIsAnEdge DEF LimitFires, keyVars, watchVars
<1>6. QED
  BY <1>3, <1>4, <1>5

LEMMA EdgeActionTypes ==
  ASSUME TypeOK, Event \/ EdgePoll \/ LimitFires
  PROVE  TypeOK'
<1>1. /\ UNCHANGED <<finger, edges, platform, watch, ups, job, jobs, gone, tx, carrier, airtime,
                     watchdog, newest, overtaken, lost, refused, hold>>
      /\ events' \in Seq({"up", "down"}) /\ was' \in {"up", "down"} /\ Edge
  BY EdgeActions DEF jobVars, hostVars, histVars
<1>2. /\ down' \in BOOLEAN /\ limit' \in {Off} \cup 0..HoldLimit
      /\ net' \subseteq Requests /\ sent' \in 0..MaxSent
  BY <1>1, EdgeTypes
<1>3. QED
  BY <1>1, <1>2 DEF TypeOK, Requests

LEMMA SendTypes ==
  ASSUME TypeOK, NEW cmd \in {"on", "off"}, Send(cmd) \/ UNCHANGED netVars
  PROVE  net' \subseteq Requests /\ sent' \in 0..MaxSent
<1>1. CASE Send(cmd)
  BY <1>1, Sending
<1>2. CASE UNCHANGED netVars
  BY <1>2 DEF TypeOK, Requests, netVars
<1>3. QED
  BY <1>1, <1>2

\* A change of key or mode: what it sets, and that it changes no more.
LEMMA BeginSets ==
  ASSUME TypeOK, Use \/ Quit
  PROVE  /\ job = Idle /\ ~gone /\ jobs' \in 0..MaxJobs
         /\ hold' \in BOOLEAN /\ (hold' => platform # "linux") /\ limit' = Off
         /\ watch' = IF watch = "poll" THEN "nobody" ELSE watch
         /\ job' \in Jobs /\ job' # Idle
         /\ job'.step = IF watch = "plugin" THEN "awaits" ELSE "release"
         /\ UNCHANGED <<keyVars, platform, ups, was, down, gone, tx, netVars, hostVars, histVars>>
<1>1. PICK to \in Targets, wanted \in BOOLEAN : Begin(to, wanted)
  BY DEF Use, Quit, Targets, TypeOK
<1>2. jobs' \in 0..MaxJobs
  BY <1>1, Limits DEF Begin, TypeOK
<1>3. hold' = (wanted /\ CanHold)
  BY <1>1 DEF Begin
<1>4. hold' \in BOOLEAN /\ (hold' => platform # "linux")
  BY <1>3, Zenon DEF CanHold
<1>5. job' \in Jobs /\ job' # Idle /\ job'.step = IF watch = "plugin" THEN "awaits" ELSE "release"
  BY <1>1 DEF Begin, Jobs, Idle
<1>6. QED
  BY <1>1, <1>2, <1>4, <1>5 DEF Begin

LEMMA BeginTypes ==
  ASSUME TypeOK, Use \/ Quit
  PROVE  TypeOK'
<1>1. watch' \in {watch, "nobody"}
  BY BeginSets
<1>2. QED
  BY <1>1, BeginSets DEF TypeOK, keyVars, netVars, hostVars, histVars

\* A change of key or mode that ends.
LEMMA JobEndsSets ==
  ASSUME TypeOK, JobEnds
  PROVE  /\ job.step = "release" /\ job' = Idle /\ down' = FALSE
         /\ tx' \in BOOLEAN /\ gone' \in BOOLEAN /\ (gone' => gone \/ job.to = "quit")
         /\ UNCHANGED <<keyVars, platform, hold, limit, jobs, hostVars, histVars>>
         /\ Send("off") \/ (~down /\ UNCHANGED netVars)
         /\ ups' \in BOOLEAN
         /\ \/ watch' = watch /\ UNCHANGED <<was, ups>>
            \/ watch' = "poll" /\ was' = finger /\ platform = "windows" /\ UNCHANGED <<gone>>
            \/ /\ watch' \in {"plugin", "nobody"} /\ platform # "windows"
               /\ ups' = (hold /\ platform = "macos") /\ UNCHANGED <<was, gone>>
<1>1. job.to \in Targets /\ job.step = "release"
  BY JobShape DEF JobEnds, Idle
<1>2. /\ job' = Idle /\ down' = FALSE
      /\ UNCHANGED <<keyVars, platform, hold, limit, jobs, hostVars, histVars>>
      /\ Send("off") \/ (~down /\ UNCHANGED netVars)
  BY Zenon DEF JobEnds, Settle
<1>3. tx' \in BOOLEAN
  BY Zenon DEF JobEnds
<1>4. Settle(job.to)
  BY DEF JobEnds
<1>5. CASE job.to = "key" /\ platform = "windows"
  BY <1>1, <1>2, <1>3, <1>4, <1>5 DEF Settle, TypeOK
<1>6. CASE job.to = "key" /\ platform # "windows"
  <2>1. ups' = (hold /\ platform = "macos") /\ watch' \in {"plugin", "nobody"}
        /\ UNCHANGED <<was, gone>>
    BY <1>4, <1>6 DEF Settle
  <2>2. ups' \in BOOLEAN
    BY <2>1, Zenon
  <2>3. QED
    BY <1>1, <1>2, <1>3, <1>6, <2>1, <2>2 DEF TypeOK
<1>7. CASE job.to = "off"
  BY <1>1, <1>2, <1>3, <1>4, <1>7 DEF Settle, TypeOK
<1>8. CASE job.to = "quit"
  BY <1>1, <1>2, <1>3, <1>4, <1>8 DEF Settle, TypeOK
<1>9. QED
  BY <1>1, <1>5, <1>6, <1>7, <1>8 DEF Targets

LEMMA JobEndsTypes ==
  ASSUME TypeOK, JobEnds
  PROVE  TypeOK'
<1>1. net' \subseteq Requests /\ sent' \in 0..MaxSent
  BY JobEndsSets, SendTypes
<1>2. job' \in Jobs
  BY JobEndsSets DEF Jobs
<1>3. was' \in {"up", "down"} /\ watch' \in {"nobody", "plugin", "poll"}
      /\ (watch' = "poll" => platform = "windows")
  BY JobEndsSets DEF TypeOK
<1>4. /\ UNCHANGED <<platform, finger, edges, events, hold, limit, jobs, carrier, airtime,
                     watchdog, newest, overtaken, lost, refused>>
      /\ down' \in BOOLEAN /\ tx' \in BOOLEAN /\ gone' \in BOOLEAN /\ ups' \in BOOLEAN
  BY JobEndsSets DEF keyVars, hostVars, histVars
<1>5. QED
  BY <1>1, <1>2, <1>3, <1>4 DEF TypeOK, Requests

LEMMA TickTime ==
  ASSUME TypeOK, Tick
  PROVE  /\ ~carrier => airtime' = 0
         /\ carrier => airtime' = airtime + 1 \/ airtime' = airtime
         /\ limit' \in {Off} \cup 0..HoldLimit /\ airtime' \in 0..HostLimit
<1>1. limit \in {Off} \cup 0..HoldLimit /\ airtime \in 0..HostLimit
  BY DEF TypeOK
<1>2. (limit' = limit - 1 /\ limit > 0) \/ limit' = limit
  BY DEF Tick
<1>3. CASE ~carrier
  <2>1. airtime' = 0
    BY <1>3 DEF Tick
  <2>2. QED
    BY <1>1, <1>2, <1>3, <2>1, Limits
<1>4. CASE carrier
  <2>1. \/ airtime < HostLimit /\ airtime' = airtime + 1
        \/ airtime' = airtime
    BY <1>4 DEF Tick
  <2>2. QED
    BY <1>1, <1>2, <1>4, <2>1, Limits
<1>5. QED
  BY <1>3, <1>4

LEMMA StepTypes == TypeOK /\ [Next]_vars => TypeOK'
<1>1. SUFFICES ASSUME TypeOK, [Next]_vars PROVE TypeOK'
  OBVIOUS
<1>2. CASE KeyGivenBack
  <2>1. job.to \in Targets
    BY <1>1, <1>2, JobShape DEF KeyGivenBack, Idle
  <2>2. job \in Jobs /\ job.step = "awaits"
    BY <1>1, <1>2 DEF KeyGivenBack, TypeOK
  <2>3. [job EXCEPT !.step = "release"] \in Jobs
    BY <2>2 DEF Jobs, Idle
  <2>4. QED
    BY <1>1, <1>2, <2>3 DEF KeyGivenBack, TypeOK, keyVars, pttVars, netVars, hostVars, histVars
<1>3. CASE Escape
  <2>1. net' \subseteq Requests /\ sent' \in 0..MaxSent
    BY <1>1, <1>3, SendTypes DEF Escape
  <2>2. UNCHANGED <<keyVars, watchVars, pttVars, jobVars, hostVars, histVars>> /\ tx' = FALSE
    BY <1>3 DEF Escape
  <2>3. /\ UNCHANGED <<platform, finger, edges, events, watch, ups, was, hold, down, limit, job,
                       jobs, gone, carrier, airtime, watchdog, newest, overtaken, lost, refused>>
        /\ tx' \in BOOLEAN
    BY <2>2 DEF keyVars, watchVars, pttVars, jobVars, hostVars, histVars
  <2>4. QED
    BY <1>1, <2>1, <2>3 DEF TypeOK, Requests
<1>4. CASE Arm
  BY <1>1, <1>4
     DEF Arm, TypeOK, keyVars, watchVars, pttVars, jobVars, netVars, hostVars, histVars
<1>5. CASE KeyMoves
  <2>1. edges' \in 0..MaxEdges /\ finger' \in {"up", "down"}
    BY <1>1, <1>5, Limits DEF KeyMoves, TypeOK
  <2>2. events' = Append(events, finger') \/ events' = events
    BY <1>5 DEF KeyMoves
  <2>3. events' \in Seq({"up", "down"})
    BY <1>1, <2>1, <2>2, EventsGrow DEF TypeOK
  <2>4. QED
    BY <1>1, <1>5, <2>1, <2>3
       DEF KeyMoves, TypeOK, watchVars, pttVars, jobVars, netVars, hostVars, histVars
<1>6. CASE HostUnkeys \/ HostUnkeyFails
  <2>1. carrier' \in BOOLEAN /\ airtime' \in 0..HostLimit /\ watchdog' = "off"
    <3>1. \/ carrier' = FALSE /\ airtime' = 0
          \/ carrier' = carrier /\ airtime' = airtime
      BY <1>6 DEF HostUnkeys, HostUnkeyFails
    <3>2. 0 \in 0..HostLimit /\ carrier \in BOOLEAN /\ airtime \in 0..HostLimit
      BY <1>1, Limits DEF TypeOK
    <3>3. QED
      BY <1>6, <3>1, <3>2, Zenon DEF HostUnkeys, HostUnkeyFails
  <2>2. UNCHANGED <<keyVars, watchVars, pttVars, jobVars, tx, netVars, histVars>>
    BY <1>6 DEF HostUnkeys, HostUnkeyFails
  <2>3. QED
    BY <1>1, <2>1, <2>2
       DEF TypeOK, keyVars, watchVars, pttVars, jobVars, netVars, histVars
<1>7. CASE Tick
  <2>1. limit' \in {Off} \cup 0..HoldLimit /\ airtime' \in 0..HostLimit
    BY <1>1, <1>7, TickTime
  <2>2. UNCHANGED <<keyVars, watchVars, hold, down, jobVars, tx, netVars, carrier, watchdog,
                    histVars>>
    BY <1>7 DEF Tick
  <2>3. QED
    BY <1>1, <2>1, <2>2 DEF TypeOK, keyVars, watchVars, jobVars, netVars, histVars
<1>8. ASSUME NEW r \in net, Arrives(r) \/ Refused(r) PROVE TypeOK'
  <2>1. newest' \in 0..MaxSent /\ net' \subseteq net /\ overtaken' \in BOOLEAN
        /\ UNCHANGED <<keyVars, watchVars, pttVars, jobVars, tx, sent, lost>>
    <3>1. Reaches(r)
      BY <1>8 DEF Arrives, Refused
    <3>2. overtaken' \in BOOLEAN
      BY <3>1, Zenon DEF Reaches
    <3>3. QED
      BY <1>1, <3>1, <3>2, Limits DEF Reaches, TypeOK
  <2>2. carrier' \in BOOLEAN
    <3>1. CASE Arrives(r)
      BY <3>1, Zenon DEF Arrives
    <3>2. CASE Refused(r)
      BY <1>1, <3>2 DEF Refused, TypeOK
    <3>3. QED
      BY <1>8, <3>1, <3>2
  <2>3. airtime' \in 0..HostLimit /\ watchdog' \in {"off", "running"}
        /\ refused' \in 0..MaxRefused
    BY <1>1, <1>8, Limits DEF Arrives, Refused, TypeOK
  <2>4. QED
    BY <1>1, <2>1, <2>2, <2>3 DEF TypeOK, keyVars, watchVars, pttVars, jobVars
<1>9. ASSUME NEW r \in net, Lost(r) PROVE TypeOK'
  <2>1. lost' \in 0..MaxLost /\ net' \subseteq net
    BY <1>1, <1>9, Limits DEF Lost, TypeOK
  <2>2. QED
    BY <1>1, <1>9, <2>1 DEF Lost, TypeOK, keyVars, watchVars, pttVars, jobVars, hostVars
<1>10. CASE UNCHANGED vars
  BY <1>1, <1>10
     DEF vars, TypeOK, keyVars, watchVars, pttVars, jobVars, netVars, hostVars, histVars
<1>11. QED
  BY <1>1, <1>2, <1>3, <1>4, <1>5, <1>6, <1>7, <1>8, <1>9, <1>10, EdgeActionTypes, BeginTypes,
     JobEndsTypes DEF Next, Panel

-----------------------------------------------------------------------------
(* The key and its mode                                                    *)

\* A key that stays given out, at no change of key or mode.
LEMMA EdgeKeepsWatch ==
  ASSUME TypeOK, Watched, Tracked, Event \/ EdgePoll \/ LimitFires
  PROVE  Watched' /\ Tracked'
<1>1. /\ Edge /\ hold' = hold /\ ~gone
      /\ UNCHANGED <<finger, edges, platform, watch, ups, job, gone>>
  BY EdgeActions DEF jobVars
<1>2. down' => limit' # Off \/ (down /\ limit' = limit)
  <2>1. HoldLimit # Off
    BY Limits
  <2>2. QED
    BY <1>1, <2>1 DEF Edge
<1>3. \/ events' = events
      \/ events # <<>> /\ events' = Tail(events) /\ Event
  BY DEF Event, EdgePoll, LimitFires, keyVars
<1>4. watch = "nobody" => down' = FALSE \/ down' = down
  <2>1. SUFFICES ASSUME watch = "nobody" PROVE down' = FALSE \/ down' = down
    OBVIOUS
  <2>2. LimitFires
    BY <2>1 DEF Watched, Event, EdgePoll
  <2>3. QED
    BY <2>2 DEF LimitFires, Released, KeyOff
<1>5. Watched'
  <2>1. watch # "plugin" => events' = <<>>
    BY <1>3 DEF Watched
  <2>2. down' /\ job = Idle => watch # "nobody" /\ limit' # Off
    BY <1>2, <1>4 DEF Watched
  <2>3. QED
    BY <1>1, <2>1, <2>2 DEF Watched
<1>6. Tracked'
  <2>1. SUFFICES ASSUME job = Idle, hold
                 PROVE  /\ watch = "poll" /\ down' => was' = "down"
                        /\ watch = "plugin" =>
                              /\ ups /\ platform = "macos"
                              /\ IF events' = <<>> THEN down' => finger = "down"
                                 ELSE events'[Len(events')] = finger
    BY <1>1 DEF Tracked
  <2>2. ASSUME watch = "poll", down' PROVE was' = "down"
    <3>1. events = <<>>
      BY <2>2 DEF Watched
    <3>2. CASE EdgePoll
      <4>1. was' = finger /\ finger \in {"up", "down"}
        BY <3>2 DEF EdgePoll, TypeOK
      <4>2. finger = "up" => Released
        BY <2>1, <3>2 DEF EdgePoll
      <4>3. QED
        BY <2>2, <4>1, <4>2, ReleasedIsAnEdge
    <3>3. CASE LimitFires
      BY <2>2, <3>3, ReleasedIsAnEdge DEF LimitFires
    <3>4. QED
      BY <3>1, <3>2, <3>3 DEF Event
  <2>3. ASSUME watch = "plugin"
        PROVE  /\ ups /\ platform = "macos"
               /\ IF events' = <<>> THEN down' => finger = "down"
                  ELSE events'[Len(events')] = finger
    <3>1. /\ ups /\ platform = "macos"
          /\ IF events = <<>> THEN down => finger = "down" ELSE events[Len(events)] = finger
      BY <2>1, <2>3 DEF Tracked
    <3>2. CASE LimitFires
      <4>1. ~down' /\ events' = events
        BY <3>2, ReleasedIsAnEdge DEF LimitFires, keyVars
      <4>2. QED
        BY <3>1, <4>1
    <3>3. CASE Event
      <4>1. events # <<>> /\ events' = Tail(events)
        BY <3>3 DEF Event
      <4>2. /\ Head(events) \in {"up", "down"}
            /\ events' = <<>> => finger = Head(events)
            /\ events' # <<>> => events'[Len(events')] = finger
        BY <3>1, <4>1, EventsShrink
      <4>3. Head(events) = "up" => Released
        BY <3>1, <3>3, Zenon DEF Event
      <4>4. QED
        BY <3>1, <4>2, <4>3, ReleasedIsAnEdge
    <3>4. QED
      BY <2>3, <3>2, <3>3 DEF EdgePoll
  <2>4. QED
    BY <2>2, <2>3
<1>7. QED
  BY <1>5, <1>6

LEMMA BeginKeepsWatch ==
  ASSUME TypeOK, Watched, Use \/ Quit
  PROVE  Watched' /\ Tracked'
<1>1. /\ job = Idle /\ ~gone /\ UNCHANGED <<events, platform, gone, down>>
      /\ watch' = IF watch = "poll" THEN "nobody" ELSE watch
      /\ job' # Idle /\ job'.step = IF watch = "plugin" THEN "awaits" ELSE "release"
  BY BeginSets DEF keyVars
<1>2. watch \in {"nobody", "plugin", "poll"}
  BY DEF TypeOK
<1>3. QED
  BY <1>1, <1>2 DEF Watched, Tracked

LEMMA JobEndsKeepsWatch ==
  ASSUME TypeOK, Watched, JobEnds
  PROVE  Watched' /\ Tracked'
<1>1. /\ job.step = "release" /\ job' = Idle /\ down' = FALSE
      /\ UNCHANGED <<finger, events, platform, hold>>
  BY JobEndsSets DEF keyVars
<1>2. watch = "nobody" /\ events = <<>> /\ ~gone
  BY <1>1 DEF Watched, Idle
<1>3. job'.step = "idle"
  BY <1>1 DEF Idle
<1>4. \/ watch' = "nobody"
      \/ watch' = "poll" /\ ~gone'
      \/ watch' = "plugin" /\ ~gone' /\ platform # "windows"
         /\ ups' = (hold /\ platform = "macos")
  BY <1>2, JobEndsSets
<1>5. Watched'
  BY <1>1, <1>2, <1>3, <1>4 DEF Watched
<1>6. Tracked'
  <2>1. platform \in {"macos", "windows", "linux"} /\ (hold => platform # "linux")
    BY DEF TypeOK
  <2>2. watch' = "plugin" /\ hold => ups' /\ platform = "macos"
    BY <1>4, <2>1, Zenon
  <2>3. QED
    BY <1>1, <1>2, <2>2 DEF Tracked
<1>7. QED
  BY <1>5, <1>6

\* The finger moves: the plugin, where there is one, has one event more.
LEMMA KeyMovesKeepsWatch ==
  ASSUME TypeOK, Watched, Tracked, KeyMoves
  PROVE  Watched' /\ Tracked'
<1>1. /\ UNCHANGED <<platform, watch, ups, was, hold, down, limit, job, gone>>
      /\ events' = IF watch = "plugin" /\ (finger' = "down" \/ platform = "macos")
                   THEN Append(events, finger') ELSE events
      /\ finger' \in {"up", "down"}
  BY DEF KeyMoves, watchVars, pttVars, jobVars, TypeOK
<1>2. Watched'
  BY <1>1 DEF Watched
<1>3. Tracked'
  <2>1. watch = "plugin" /\ platform = "macos" =>
           events' # <<>> /\ events'[Len(events')] = finger'
    BY <1>1, EventsGrow
  <2>2. QED
    BY <1>1, <2>1 DEF Tracked
<1>4. QED
  BY <1>2, <1>3

LEMMA StepKeepsWatch ==
  ASSUME TypeOK, Watched, Tracked, [Next]_vars
  PROVE  Watched' /\ Tracked'
<1>1. CASE UNCHANGED <<platform, watch, events, job, gone, down, limit, hold, was, ups, finger>>
  BY <1>1 DEF Watched, Tracked
<1>2. CASE KeyGivenBack
  <2>1. /\ job.step = "awaits" /\ events = <<>> /\ watch' = "nobody"
        /\ UNCHANGED <<platform, events, gone, down, limit, hold>>
        /\ job' = [job EXCEPT !.step = "release"]
    BY <1>2 DEF KeyGivenBack, keyVars, pttVars
  <2>2. job' # Idle /\ job'.step = "release"
    BY <2>1, JobShape DEF Idle, TypeOK, Jobs
  <2>3. ~gone
    BY <2>1 DEF Watched, Idle
  <2>4. QED
    BY <2>1, <2>2, <2>3 DEF Watched, Tracked
<1>3. CASE Tick
  <2>1. UNCHANGED <<platform, watch, events, job, gone, down, hold, was, ups, finger>>
    BY <1>3 DEF Tick, keyVars, watchVars, jobVars
  <2>2. limit' # Off \/ limit = Off
    BY <1>3, Limits DEF Tick, TypeOK
  <2>3. QED
    BY <2>1, <2>2 DEF Watched, Tracked
<1>4. CASE Escape \/ Arm \/ HostUnkeys \/ HostUnkeyFails
  BY <1>1, <1>4 DEF Escape, Arm, HostUnkeys, HostUnkeyFails, keyVars, watchVars, pttVars, jobVars
<1>5. ASSUME NEW r \in net, Arrives(r) \/ Refused(r) \/ Lost(r) PROVE Watched' /\ Tracked'
  BY <1>1, <1>5 DEF Arrives, Refused, Reaches, Lost, keyVars, watchVars, pttVars, jobVars
<1>6. CASE UNCHANGED vars
  BY <1>1, <1>6 DEF vars, keyVars, watchVars, pttVars, jobVars
<1>7. QED
  BY <1>2, <1>3, <1>4, <1>5, <1>6, EdgeKeepsWatch, BeginKeepsWatch, JobEndsKeepsWatch,
     KeyMovesKeepsWatch DEF Next, Panel

-----------------------------------------------------------------------------
(* The order of requests, and time                                         *)

LEMMA StepKeepsOrder ==
  ASSUME TypeOK, TypeOK', Numbered, InOrder, [Next]_vars
  PROVE  Numbered' /\ InOrder'
<1>1. down' \in BOOLEAN
  BY DEF TypeOK
<1>2. CASE UNCHANGED <<netVars, down, carrier, newest, overtaken, lost, refused>>
  BY <1>1, <1>2, PanelKeepsOrder
<1>3. CASE Event \/ EdgePoll \/ LimitFires
  BY <1>3, EdgeActions, EdgeKeepsOrder DEF hostVars, histVars
<1>4. CASE Use \/ Quit
  BY <1>2, <1>4, BeginSets DEF hostVars, histVars
<1>5. CASE JobEnds
  <2>1. UNCHANGED <<carrier, newest, overtaken, lost, refused>>
        /\ (Send("off") \/ (~down /\ UNCHANGED netVars))
    BY <1>5, JobEndsSets DEF hostVars, histVars
  <2>2. QED
    BY <1>1, <2>1, PanelKeepsOrder
<1>6. CASE Escape
  BY <1>1, <1>6, PanelKeepsOrder DEF Escape, hostVars, histVars
<1>7. CASE KeyGivenBack \/ KeyMoves \/ Arm \/ Tick
  BY <1>2, <1>7 DEF KeyGivenBack, KeyMoves, Arm, Tick, pttVars, hostVars, histVars
<1>8. CASE HostUnkeys \/ HostUnkeyFails
  BY <1>8
     DEF HostUnkeys, HostUnkeyFails, Numbered, InOrder, HeardInOrder, netVars, pttVars, histVars
<1>9. ASSUME NEW r \in net, Lost(r) PROVE Numbered' /\ InOrder'
  <2>1. net' \subseteq net /\ lost' # 0 /\ UNCHANGED <<sent, newest>>
    BY <1>9 DEF Lost, TypeOK
  <2>2. QED
    BY <2>1 DEF Numbered, InOrder, HeardInOrder
<1>10. CASE UNCHANGED vars
  BY <1>2, <1>10 DEF vars, pttVars, hostVars, histVars
<1>11. QED
  BY <1>3, <1>4, <1>5, <1>6, <1>7, <1>8, <1>9, <1>10, ArrivesKeepsOrder DEF Next, Panel

\* A carrier without a key-up under way is the one the key is down for.
LEMMA OnAirIsDown ==
  ASSUME TypeOK, InOrder, HeardInOrder, ~OffOnItsWay, carrier
  PROVE  down
<1>1. CASE sent = newest
  BY <1>1 DEF InOrder
<1>2. CASE sent # newest
  <2>1. PICK r \in net : r.n = sent
    BY <1>2 DEF InOrder
  <2>2. r.cmd = "on"
    BY DEF TypeOK, OffOnItsWay
  <2>3. QED
    BY <2>1, <2>2 DEF InOrder
<1>3. QED
  BY <1>1, <1>2

\* What may go out makes no key-up go away.
LEMMA SentStays ==
  ASSUME Send("on") \/ Send("off") \/ UNCHANGED netVars
  PROVE  /\ OffOnItsWay => OffOnItsWay'
         /\ Send("off") => OffOnItsWay'
<1>1. net \subseteq net'
  BY DEF Send, netVars
<1>2. Send("off") => [cmd |-> "off", n |-> sent + 1] \in net'
  BY DEF Send
<1>3. QED
  BY <1>1, <1>2 DEF OffOnItsWay

LEMMA EdgeKeepsTime ==
  ASSUME TypeOK, InOrder, Timed, Edge, UNCHANGED <<carrier, airtime, overtaken, lost, refused>>
  PROVE  Timed'
<1>1. SUFFICES ASSUME HeardInOrder', ~OffOnItsWay'
               PROVE  airtime <= HoldLimit /\ (limit' # Off => airtime + limit' <= HoldLimit)
  BY DEF Timed
<1>2. HeardInOrder /\ ~Send("off") /\ ~OffOnItsWay
  <2>1. Send("on") \/ Send("off") \/ UNCHANGED netVars
    BY DEF Edge, netVars
  <2>2. QED
    BY <1>1, <2>1, SentStays DEF HeardInOrder
<1>3. airtime <= HoldLimit /\ (limit # Off => airtime + limit <= HoldLimit)
  BY <1>2 DEF Timed
<1>4. CASE ~down /\ limit' = HoldLimit
  <2>1. carrier \in BOOLEAN
    BY DEF TypeOK
  <2>2. airtime = 0
    BY <1>2, <1>4, <2>1, OnAirIsDown DEF Timed
  <2>3. QED
    BY <1>4, <2>2, Limits
<1>5. CASE limit' = limit \/ limit' = Off
  BY <1>3, <1>5
<1>6. QED
  BY <1>2, <1>4, <1>5, Zenon DEF Edge

LEMMA TickKeepsTime ==
  ASSUME TypeOK, Watched, InOrder, Timed, Tick
  PROVE  Timed'
<1>1. /\ UNCHANGED <<net, carrier, overtaken, lost, refused, down, job, gone>>
      /\ gone \/ (limit # 0 /\ job = Idle)
      /\ limit' = IF limit > 0 THEN limit - 1 ELSE limit
      /\ ~carrier => airtime' = 0
      /\ carrier => airtime' = airtime + 1 \/ airtime' = airtime
  BY TickTime DEF Tick, netVars, histVars, jobVars
<1>2. limit \in {Off} \cup 0..HoldLimit /\ airtime \in Nat /\ carrier \in BOOLEAN
  BY DEF TypeOK
<1>3. CASE ~carrier
  <2>1. limit' = Off \/ limit' <= HoldLimit
    BY <1>1, <1>2, Limits
  <2>2. limit' # Off => limit' \in Nat
    BY <1>1, <1>2, Limits
  <2>3. airtime' = 0
    BY <1>1, <1>3
  <2>4. 0 <= HoldLimit /\ (limit' # Off => 0 + limit' <= HoldLimit)
    BY <2>1, <2>2, Limits
  <2>5. QED
    BY <2>3, <2>4 DEF Timed
<1>4. CASE carrier
  <2>1. SUFFICES ASSUME HeardInOrder, ~OffOnItsWay
                 PROVE  /\ airtime' <= HoldLimit
                        /\ limit' # Off => airtime' + limit' <= HoldLimit
    BY <1>1, <1>4 DEF Timed, HeardInOrder, OffOnItsWay
  <2>2. down
    BY <1>4, <2>1, OnAirIsDown
  <2>3. limit # 0 /\ limit # Off
    BY <1>1, <2>2 DEF Watched
  <2>4. limit \in 1..HoldLimit /\ airtime + limit <= HoldLimit
    BY <1>2, <2>1, <2>3 DEF Timed
  <2>5. limit' = limit - 1 /\ (airtime' = airtime + 1 \/ airtime' = airtime)
    BY <1>1, <1>4, <2>4
  <2>6. QED
    BY <1>2, <2>4, <2>5, Limits
<1>5. QED
  BY <1>2, <1>3, <1>4

LEMMA StepKeepsTime ==
  ASSUME TypeOK, TypeOK', Watched, InOrder, Timed, [Next]_vars
  PROVE  Timed'
<1>1. ASSUME UNCHANGED <<limit, carrier, airtime, overtaken, lost, refused>>,
             Send("off") \/ UNCHANGED netVars
      PROVE  Timed'
  BY <1>1, SentStays DEF Timed, HeardInOrder
<1>2. CASE Event \/ EdgePoll \/ LimitFires
  BY <1>2, EdgeActions, EdgeKeepsTime DEF hostVars, histVars
<1>3. CASE Use \/ Quit
  <2>1. limit' = Off /\ UNCHANGED <<netVars, carrier, airtime, overtaken, lost, refused>>
    BY <1>3, BeginSets DEF hostVars, histVars
  <2>2. QED
    BY <2>1 DEF Timed, HeardInOrder, OffOnItsWay, netVars
<1>4. CASE JobEnds
  BY <1>1, <1>4, JobEndsSets DEF hostVars, histVars
<1>5. CASE Escape \/ KeyGivenBack \/ KeyMoves \/ Arm
  BY <1>1, <1>5 DEF Escape, KeyGivenBack, KeyMoves, Arm, pttVars, hostVars, histVars
<1>6. ASSUME airtime' = 0 PROVE Timed'
  <2>1. limit' \in {Off} \cup 0..HoldLimit
    BY DEF TypeOK
  <2>2. PICK l : l = limit'
    OBVIOUS
  <2>3. l # Off => l \in 0..HoldLimit
    BY <2>1, <2>2
  <2>4. 0 <= HoldLimit
    BY Limits
  <2>5. l \in 0..HoldLimit => 0 + l <= HoldLimit
    BY Limits
  <2>6. QED
    BY <1>6, <2>2, <2>3, <2>4, <2>5 DEF Timed
<1>7. ASSUME NEW r \in net, Lost(r) PROVE Timed'
  <2>1. lost' # 0 /\ UNCHANGED <<carrier, airtime>>
    BY <1>7 DEF Lost, TypeOK, hostVars
  <2>2. QED
    BY <2>1 DEF Timed, HeardInOrder
<1>8. CASE UNCHANGED vars
  BY <1>1, <1>8 DEF vars, pttVars, hostVars, histVars
<1>9. CASE HostUnkeys \/ \E r \in net : Arrives(r)
  BY <1>6, <1>9 DEF HostUnkeys, Arrives
<1>10. CASE HostUnkeyFails
  BY <1>1, <1>10 DEF HostUnkeyFails, pttVars, histVars
\* A press that is refused leaves the carrier and the limit as they were.
<1>11. ASSUME NEW r \in net, Refused(r) PROVE Timed'
  <2>1. UNCHANGED <<limit, carrier, airtime>>
    BY <1>11 DEF Refused, Reaches, pttVars
  <2>2. ASSUME HeardInOrder', ~OffOnItsWay' PROVE HeardInOrder /\ ~OffOnItsWay
    <3>1. refused' = 0 /\ refused \in Nat /\ r.cmd \in {"on", "off"}
      BY <2>2 DEF HeardInOrder, TypeOK
    <3>2. r.cmd = "on" /\ refused = 0
      BY <1>11, <3>1 DEF Refused
    <3>3. ~overtaken /\ lost = 0 /\ net' = net \ {r}
      BY <1>11, <2>2 DEF Refused, Reaches, HeardInOrder
    <3>4. QED
      BY <2>2, <3>2, <3>3 DEF HeardInOrder, OffOnItsWay
  <2>3. QED
    BY <2>1, <2>2 DEF Timed
<1>12. QED
  BY <1>2, <1>3, <1>4, <1>5, <1>7, <1>8, <1>9, <1>10, <1>11, TickKeepsTime DEF Next, Panel

-----------------------------------------------------------------------------
(* Theorems                                                                *)

LEMMA KeyInvariant == Spec => []KeyInv
<1>1. Init => KeyInv
  <2>1. SUFFICES ASSUME Init PROVE KeyInv
    OBVIOUS
  <2>2. TypeOK
    <3>1. events \in Seq({"up", "down"})
      BY <2>1, EmptySeq DEF Init
    <3>2. /\ edges \in 0..MaxEdges /\ jobs \in 0..MaxJobs /\ sent \in 0..MaxSent
          /\ airtime \in 0..HostLimit /\ newest \in 0..MaxSent /\ lost \in 0..MaxLost
          /\ refused \in 0..MaxRefused
      BY <2>1, Limits DEF Init
    <3>3. hold \in BOOLEAN /\ (hold => platform # "linux")
      BY <2>1, Zenon DEF Init
    <3>4. QED
      BY <2>1, <3>1, <3>2, <3>3 DEF Init, TypeOK, Jobs
  <2>3. Watched /\ Tracked /\ Numbered /\ InOrder
    BY <2>1 DEF Init, Watched, Tracked, Numbered, InOrder, Idle
  <2>4. Timed
    BY <2>1, Limits DEF Init, Timed
  <2>5. QED
    BY <2>2, <2>3, <2>4 DEF KeyInv
<1>2. KeyInv /\ [Next]_vars => KeyInv'
  BY StepTypes, StepKeepsWatch, StepKeepsOrder, StepKeepsTime DEF KeyInv
<1>3. QED
  BY <1>1, <1>2, PTL DEF Spec

\* The panel's key, its mode and its requests are what they should be whatever is
\* done to them: hold is never a mode where no release can arrive.
THEOREM PanelKeyTypeCorrect == Spec => []TypeOK
BY KeyInvariant, PTL DEF KeyInv

\* Once all is settled an operator who is not talking is not transmitting, whatever
\* was done to the key, its mode and the panel meanwhile and whichever of its key
\* presses were refused, if the network kept what it was given and its order and
\* the host refused no key-up and failed to carry out none.
THEOREM PanelLeavesNoCarrierUp == Spec => []NoCarrierLeftUp
<1>1. KeyInv => NoCarrierLeftUp
  <2>1. SUFFICES ASSUME KeyInv, Settled, ~Talking, HeardInOrder, carrier PROVE FALSE
    BY DEF NoCarrierLeftUp, KeyInv, TypeOK
  <2>2. down
    BY <2>1, OnAirIsDown DEF KeyInv, Settled, OffOnItsWay
  <2>3. ~gone /\ job = Idle /\ watch # "nobody"
    BY <2>1, <2>2 DEF KeyInv, Watched, Settled
  <2>4. hold /\ finger = "up"
    BY <2>1, <2>2, <2>3 DEF Talking, KeyInv, TypeOK
  <2>5. QED
    BY <2>1, <2>2, <2>3, <2>4 DEF KeyInv, Tracked, Settled, TypeOK
<1>2. QED
  BY <1>1, KeyInvariant, PTL

\* The panel's limit comes before the host's: when the host's timer runs out, a
\* key-up of the panel is late, was lost, overtaken or refused, or failed at the
\* radio.
THEOREM PanelLimitComesFirst == Spec => PanelFirst
<1>1. KeyInv => (airtime = HostLimit => ~HeardInOrder \/ OffOnItsWay)
  <2>1. SUFFICES ASSUME KeyInv, airtime = HostLimit, HeardInOrder, ~OffOnItsWay
                 PROVE  FALSE
    OBVIOUS
  <2>2. airtime <= HoldLimit
    BY <2>1 DEF KeyInv, Timed
  <2>3. QED
    BY <2>1, <2>2, Limits
<1>2. KeyInv /\ [Next]_vars =>
        [HostLimitReached /\ watchdog' = "off"
          => ~HeardInOrder \/ \E r \in net : r.cmd = "off"]_vars
  BY <1>1 DEF HostLimitReached, OffOnItsWay
<1>3. QED
  BY <1>2, KeyInvariant, PTL DEF PanelFirst, Spec

-----------------------------------------------------------------------------
(* The panel keeps the host's promise too, with its own, shorter limit      *)

\* An over of the operator: its limit is promised until a key-up is under way, the
\* network has lost something or its order, or the host has not carried out a
\* key-up.
Over == IF ~carrier THEN "off" ELSE IF HeardInOrder /\ ~OffOnItsWay THEN "guarded" ELSE "lapsed"

Promise == INSTANCE Carrier WITH Limit <- HoldLimit, carrier <- Over
PanelPromise == Promise!Spec

\* What leaves the carrier alone keeps the promise or loses it.
LEMMA QuietSteps ==
  ASSUME UNCHANGED <<carrier, airtime>>,
         HeardInOrder' /\ ~OffOnItsWay' => HeardInOrder /\ ~OffOnItsWay
  PROVE  [Promise!Next]_(Promise!vars)
<1>1. Over' = Over \/ (Over = "guarded" /\ Over' = "lapsed")
  BY DEF Over
<1>2. QED
  BY <1>1 DEF Promise!Next, Promise!vars, Promise!LosePromise

LEMMA PanelStepsAreQuiet ==
  ASSUME TypeOK, Panel \/ KeyMoves \/ UNCHANGED vars
  PROVE  UNCHANGED <<carrier, airtime, overtaken, lost, refused>> /\ (OffOnItsWay => OffOnItsWay')
<1>1. CASE Event \/ EdgePoll \/ LimitFires
  <2>1. Edge /\ UNCHANGED <<hostVars, histVars>>
    BY <1>1, EdgeActions
  <2>2. Send("on") \/ Send("off") \/ UNCHANGED netVars
    BY <2>1 DEF Edge, netVars
  <2>3. QED
    BY <2>1, <2>2, SentStays DEF hostVars, histVars
<1>2. CASE Use \/ Quit
  BY <1>2, BeginSets, SentStays DEF hostVars, histVars
<1>3. CASE JobEnds
  BY <1>3, JobEndsSets, SentStays DEF hostVars, histVars
<1>4. CASE Escape \/ KeyGivenBack \/ KeyMoves \/ Arm
  BY <1>4, SentStays DEF Escape, KeyGivenBack, KeyMoves, Arm, hostVars, histVars
<1>5. CASE UNCHANGED vars
  BY <1>5, SentStays DEF vars, hostVars, histVars
<1>6. QED
  BY <1>1, <1>2, <1>3, <1>4, <1>5 DEF Panel

LEMMA PanelStepRefines ==
  ASSUME KeyInv, KeyInv', [Next]_vars
  PROVE  [Promise!Next]_(Promise!vars)
<1>1. CASE Panel \/ KeyMoves \/ UNCHANGED vars
  BY <1>1, PanelStepsAreQuiet, QuietSteps DEF KeyInv, HeardInOrder
<1>2. CASE HostUnkeys
  BY <1>2 DEF HostUnkeys, Over, Promise!Next, Promise!Unkey
<1>3. CASE Tick
  <2>1. /\ UNCHANGED <<net, carrier, overtaken, lost, refused>>
        /\ ~carrier => airtime' = 0
        /\ carrier => airtime' = airtime + 1 \/ airtime' = airtime
    BY <1>3, TickTime DEF Tick, netVars, histVars, KeyInv
  <2>2. Over' = Over /\ airtime \in Nat /\ carrier \in BOOLEAN
    <3>1. airtime \in Nat /\ carrier \in BOOLEAN
      BY Limits DEF KeyInv, TypeOK
    <3>2. HeardInOrder' <=> HeardInOrder
      BY <2>1 DEF HeardInOrder
    <3>3. OffOnItsWay' <=> OffOnItsWay
      BY <2>1 DEF OffOnItsWay
    <3>4. QED
      BY <2>1, <3>1, <3>2, <3>3 DEF Over
  <2>3. CASE ~carrier
    <3>1. airtime' = airtime
      BY <2>1, <2>3 DEF KeyInv, Timed
    <3>2. QED
      BY <2>2, <3>1 DEF Promise!vars
  <2>4. CASE carrier /\ airtime' = airtime + 1
    <3>1. ASSUME Over = "guarded" PROVE airtime < HoldLimit
      <4>1. HeardInOrder' /\ ~OffOnItsWay'
        BY <2>2, <3>1 DEF Over
      <4>2. airtime' <= HoldLimit
        BY <4>1 DEF KeyInv, Timed
      <4>3. QED
        BY <2>2, <2>4, <4>2, Limits
    <3>2. QED
      BY <2>2, <2>4, <3>1 DEF Over, Promise!Next, Promise!Tick
  <2>5. CASE airtime' = airtime
    BY <2>2, <2>5 DEF Promise!vars
  <2>6. QED
    BY <2>1, <2>2, <2>3, <2>4, <2>5
<1>4. ASSUME NEW r \in net, Arrives(r) PROVE [Promise!Next]_(Promise!vars)
  <2>1. carrier' = (r.cmd = "on") /\ airtime' = 0
    BY <1>4 DEF Arrives
  <2>2. CASE carrier'
    BY <2>1, <2>2 DEF Over, Promise!Next, Promise!KeyPress
  <2>3. CASE ~carrier'
    BY <2>1, <2>3 DEF Over, Promise!Next, Promise!Unkey
  <2>4. QED
    BY <2>2, <2>3
<1>5. ASSUME NEW r \in net, Lost(r) PROVE [Promise!Next]_(Promise!vars)
  <2>1. lost' # 0 /\ UNCHANGED <<carrier, airtime>>
    BY <1>5 DEF Lost, KeyInv, TypeOK, hostVars
  <2>2. QED
    BY <2>1, QuietSteps DEF HeardInOrder
<1>6. CASE HostUnkeyFails
  <2>1. UNCHANGED <<carrier, airtime, net, overtaken, lost, refused>>
    BY <1>6 DEF HostUnkeyFails, netVars, histVars
  <2>2. QED
    BY <2>1, QuietSteps DEF HeardInOrder, OffOnItsWay
<1>7. ASSUME NEW r \in net, Refused(r) PROVE [Promise!Next]_(Promise!vars)
  <2>1. UNCHANGED <<carrier, airtime>>
    BY <1>7 DEF Refused
  <2>2. ASSUME HeardInOrder', ~OffOnItsWay' PROVE HeardInOrder /\ ~OffOnItsWay
    <3>1. refused' = 0 /\ refused \in Nat /\ r.cmd \in {"on", "off"}
      BY <2>2 DEF HeardInOrder, KeyInv, TypeOK
    <3>2. r.cmd = "on" /\ refused = 0
      BY <1>7, <3>1 DEF Refused
    <3>3. ~overtaken /\ lost = 0 /\ net' = net \ {r}
      BY <1>7, <2>2 DEF Refused, Reaches, HeardInOrder
    <3>4. QED
      BY <2>2, <3>2, <3>3 DEF HeardInOrder, OffOnItsWay
  <2>3. QED
    BY <2>1, <2>2, QuietSteps
<1>8. QED
  BY <1>1, <1>2, <1>3, <1>4, <1>5, <1>6, <1>7 DEF Next

\* The panel implements the promise of Carrier with its own limit, lost only while
\* its key-up is under way, or after the network lost or reordered a request or
\* the host did not carry out a key-up (ptt.dart:24-31).
THEOREM PanelImplementsCarrier == Spec => PanelPromise
<1>1. Init => Promise!Init
  BY DEF Init, Over, Promise!Init
<1>2. KeyInv /\ KeyInv' /\ [Next]_vars => [Promise!Next]_(Promise!vars)
  BY PanelStepRefines
<1>3. QED
  BY <1>1, <1>2, KeyInvariant, PTL DEF Spec, PanelPromise, Promise!Spec
=============================================================================
