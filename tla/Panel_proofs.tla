----------------------------- MODULE Panel_proofs -----------------------------
(***************************************************************************)
(* Proofs about RigRoutes and the panel above it, for any clients, menus   *)
(* and faults: the radio's settings stay within what was asked for, muting *)
(* gives the operator's level back, and every answer the panel works with  *)
(* is one the radio gave.                                                  *)
(***************************************************************************)
EXTENDS PanelView, SequenceTheorems, TLAPS

LEMMA Assumed ==
  /\ MaxFaults \in Nat
  /\ \A m \in DOMAIN Menus :
        /\ Menus[m].max \in Nat
        /\ Menus[m].routes \subseteq Routes /\ Menus[m].knobs \subseteq Commands
        /\ Menus[m].panel \subseteq {"poll", "button", "key", "tune"}
  /\ TuneStep \in 10..10000 /\ Multiples \subseteq {-10, -1, 1, 10}
BY RigRoutesAssumption, PanelViewAssumption DEF RigRoutesAssumption, PanelViewAssumption

-----------------------------------------------------------------------------
(* Routes and their commands                                               *)

LEMMA RouteKinds ==
  ASSUME NEW route \in Routes
  PROVE  \/ route.kind = "fixed" /\ route.cmds \in Seq(Commands)
         \/ route.kind = "get" /\ route.reg \in Registers
         \/ route.kind = "cycle" /\ route.reg \in Plain /\ route.modulo \in Nat \ {0}
         \/ route.kind = "toggle" /\ route.reg \in Plain /\ route.off \in Int /\ route.on \in Int
         \/ /\ route.kind = "nudge" /\ route.reg = "AG" /\ route.delta \in Int
            /\ route.lo = 0 /\ route.hi = 255
         \/ route.kind = "rit" /\ route.reg = "RT" /\ route.delta \in Int
         \/ route.kind = "step" /\ route.reg = "FA" /\ route.delta \in Int
         \/ route.kind = "copy" /\ route.reg \in DialRegisters /\ route.to \in DialRegisters
         \/ route.kind = "mute" /\ route.reg = "AG" /\ route.how \in {"on", "off", "toggle"}
BY DEF Routes

\* What a command may be.
LEMMA CommandShape ==
  ASSUME NEW reg, NEW to \in Int,
         reg \in (Registers \ {"AG"}) \cup {"SV", "none"} \/ (reg = "AG" /\ to \in 0..255)
  PROVE  Write(reg, to) \in Commands /\ Write(reg, to).reg = reg /\ Write(reg, to).to = to
BY DEF Write, Commands

LEMMA CommandParts ==
  ASSUME NEW cmd \in Commands
  PROVE  /\ cmd.reg \in Registers \cup {"SV", "none"} /\ cmd.to \in Int
         /\ cmd.reg = "AG" => cmd.to \in 0..255
         /\ cmd = Write(cmd.reg, cmd.to)
BY DEF Commands, Write, Registers

LEMMA Spans ==
  /\ SpanOf("FA") = "FA" /\ SpanOf("FB") = "FA" /\ SpanOf("AG") = "AG" /\ SpanOf("RT") = "RT"
  /\ \A reg : SpanOf(reg) = "AG" => reg = "AG"
  /\ \A reg : SpanOf(reg) = "RT" => reg = "RT"
  /\ \A reg : SpanOf(reg) = "FA" => reg \in DialRegisters
  /\ \A reg \in Plain \cup {"SV", "none"} : SpanOf(reg) \notin Ranged
BY DEF SpanOf, Ranged, DialRegisters, Plain, Registers

\* Close(v, w, m): w is v or on the way from v by m.
Close(v, w, m) == (v <= w /\ w <= v + m) \/ (v + m <= w /\ w <= v)

LEMMA Clamped ==
  ASSUME NEW v \in 0..255, NEW m \in Int
  PROVE  ClampInt(v + m, 0, 255) \in 0..255 /\ Close(v, ClampInt(v + m, 0, 255), m)
BY DEF ClampInt, Close

\* What a route makes of a reading: nothing, or one command no further from the
\* reading than the route moves.
LEMMA Built ==
  ASSUME NEW route \in Routes, route.kind \notin {"fixed", "mute"}, NEW cur \in Int,
         route.reg = "AG" => cur \in 0..255
  PROVE  \/ Build(route, cur) = <<>>
         \/ \E cmd \in Commands :
              /\ Build(route, cur) = <<cmd>>
              /\ cmd.reg = "AG" => MayWriteAF(route)
              /\ SpanOf(cmd.reg) \in Ranged =>
                    /\ SpanOf(cmd.reg) = SpanOf(route.reg)
                    /\ Close(cur, cmd.to, Moves(route, SpanOf(cmd.reg)))
<1>1. CASE route.kind = "get"
  BY <1>1 DEF Build
<1>2. CASE route.kind = "cycle"
  <2>1. route.reg \in Plain /\ route.modulo \in Nat \ {0}
    BY <1>2, RouteKinds
  <2>2. (cur + 1) % route.modulo \in Int
    BY <2>1
  <2> DEFINE cmd == Write(route.reg, (cur + 1) % route.modulo)
  <2>3. cmd \in Commands /\ cmd.reg = route.reg
    BY <2>1, <2>2, CommandShape DEF Plain, Ranged
  <2>4. Build(route, cur) = <<cmd>>
    BY <1>2 DEF Build
  <2> HIDE DEF cmd
  <2>5. cmd.reg # "AG" /\ SpanOf(cmd.reg) \notin Ranged
    BY <2>1, <2>3, Spans DEF Plain, Ranged
  <2>6. QED
    BY <2>3, <2>4, <2>5
<1>3. CASE route.kind = "toggle"
  <2>1. route.reg \in Plain /\ route.off \in Int /\ route.on \in Int
    BY <1>3, RouteKinds
  <2> DEFINE cmd == Write(route.reg, IF cur = 0 THEN route.on ELSE route.off)
  <2>2. cmd \in Commands /\ cmd.reg = route.reg
    BY <2>1, CommandShape DEF Plain, Ranged
  <2>3. Build(route, cur) = <<cmd>>
    BY <1>3 DEF Build
  <2> HIDE DEF cmd
  <2>4. cmd.reg # "AG" /\ SpanOf(cmd.reg) \notin Ranged
    BY <2>1, <2>2, Spans DEF Plain, Ranged
  <2>5. QED
    BY <2>2, <2>3, <2>4
<1>4. CASE route.kind = "nudge"
  <2>1. route.reg = "AG" /\ route.delta \in Int /\ route.lo = 0 /\ route.hi = 255
    BY <1>4, RouteKinds
  <2> DEFINE to == ClampInt(cur + route.delta, 0, 255)
             cmd == Write("AG", to)
  <2>a. cur \in 0..255 /\ route.delta \in Int
    BY <2>1
  <2>2. to \in 0..255 /\ Close(cur, to, route.delta)
    BY <2>a, Clamped, Zenon
  <2>3. Build(route, cur) = <<cmd>>
    BY <1>4, <2>1 DEF Build, Nudged
  <2> HIDE DEF to
  <2>4. cmd \in Commands /\ cmd.reg = "AG" /\ cmd.to = to
    BY <2>2, CommandShape
  <2>5. MayWriteAF(route) /\ Moves(route, "AG") = route.delta
    BY <1>4, <2>1 DEF MayWriteAF, Moves
  <2> HIDE DEF cmd
  <2>6. QED
    BY <2>1, <2>2, <2>3, <2>4, <2>5, Spans
<1>5. CASE route.kind = "rit"
  <2>1. route.reg = "RT" /\ route.delta \in Int
    BY <1>5, RouteKinds
  <2> DEFINE to == cur + route.delta
             cmd == Write("RT", to)
  <2>2. to \in Int /\ Close(cur, to, route.delta)
    BY <2>1 DEF Close
  <2>3. Build(route, cur) = <<cmd>>
    BY <1>5, <2>1 DEF Build
  <2> HIDE DEF to
  <2>4. cmd \in Commands /\ cmd.reg = "RT" /\ cmd.to = to
    BY <2>2, CommandShape DEF Registers
  <2>5. Moves(route, "RT") = route.delta
    BY <1>5, <2>1 DEF Moves
  <2> HIDE DEF cmd
  <2>6. QED
    BY <2>1, <2>2, <2>3, <2>4, <2>5, Spans
<1>6. CASE route.kind = "step"
  <2>1. route.reg = "FA" /\ route.delta \in Int
    BY <1>6, RouteKinds
  <2> DEFINE to == cur + route.delta
             cmd == Write("FA", to)
  <2>2. to \in Int /\ Close(cur, to, route.delta)
    BY <2>1 DEF Close
  <2>3. Build(route, cur) = <<>> \/ Build(route, cur) = <<cmd>>
    BY <1>6 DEF Build
  <2> HIDE DEF to
  <2>4. cmd \in Commands /\ cmd.reg = "FA" /\ cmd.to = to
    BY <2>2, CommandShape DEF Registers
  <2>5. Moves(route, "FA") = route.delta
    BY <1>6, <2>1 DEF Moves
  <2> HIDE DEF cmd
  <2>6. QED
    BY <2>1, <2>2, <2>3, <2>4, <2>5, Spans
<1>7. CASE route.kind = "copy"
  <2>1. route.reg \in DialRegisters /\ route.to \in DialRegisters
    BY <1>7, RouteKinds
  <2> DEFINE cmd == Write(route.to, cur)
  <2>2. Build(route, cur) = <<cmd>>
    BY <1>7 DEF Build
  <2>3. cmd \in Commands /\ cmd.reg = route.to /\ cmd.to = cur
    BY <2>1, CommandShape DEF Registers, DialRegisters
  <2> HIDE DEF cmd
  <2>4. SpanOf(cmd.reg) = "FA" /\ SpanOf(route.reg) = "FA" /\ cmd.reg # "AG"
    BY <2>1, <2>3, Spans DEF DialRegisters
  <2>5. Close(cur, cmd.to, Moves(route, "FA"))
    BY <1>7, <2>3 DEF Close, Moves
  <2>6. QED
    BY <2>2, <2>3, <2>4, <2>5
<1>8. QED
  BY <1>1, <1>2, <1>3, <1>4, <1>5, <1>6, <1>7, RouteKinds

-----------------------------------------------------------------------------
(* Types.  A handler asks only for what its route reads, notes only a mute, *)
(* and sends commands the radio has.                                       *)

Resolved == {r \in Routes : r.kind = "mute" => r.how \in {"on", "off"}}
Reading == {r \in Resolved : r.kind # "fixed" /\ (r.kind = "mute" => r.how = "on")}
JobRecords ==
    {Idle}
    \cup [step : {"ask"}, route : Reading, cmds : {<<>>}]
    \cup [step : {"note"}, route : {r \in Resolved : r.kind = "mute"},
          cmds : {<<>>} \cup {<<v>> : v \in 0..255}]
    \cup [step : {"send"}, route : Resolved, cmds : Seq(Commands) \ {<<>>}]

Spanned == [named : SUBSET Int, down : Nat, up : Nat]

RadioTyped == radio \in [Registers -> Int] /\ radio["AG"] \in 0..255
ReceiverTyped == muted \in BOOLEAN /\ preMuteAF \in 0..255
Counted == menu \in DOMAIN Menus /\ asked \in 0..Menus[menu].max /\ faults \in 0..MaxFaults
HistoryTyped == span \in [Ranged -> Spanned] /\ own \in {Unsure} \cup 0..255
JobsTyped == job \in [Clients -> JobRecords]
Typed == RadioTyped /\ ReceiverTyped /\ HistoryTyped /\ JobsTyped

LEMMA JobShape ==
  ASSUME NEW j \in JobRecords
  PROVE  \/ j = Idle
         \/ /\ j.step = "ask" /\ j.route \in Resolved /\ j.route.kind # "fixed"
            /\ j.route.kind = "mute" => j.route.how = "on"
            /\ j.cmds = <<>>
         \/ /\ j.step = "note" /\ j.route \in Resolved /\ j.route.kind = "mute"
            /\ j.cmds = <<>> \/ \E v \in 0..255 : j.cmds = <<v>>
         \/ /\ j.step = "send" /\ j.route \in Resolved
            /\ j.cmds \in Seq(Commands) /\ j.cmds # <<>>
<1>1. CASE j \in [step : {"ask"}, route : Reading, cmds : {<<>>}]
  BY <1>1 DEF Reading
<1>2. CASE j \in [step : {"note"}, route : {r \in Resolved : r.kind = "mute"},
                 cmds : {<<>>} \cup {<<v>> : v \in 0..255}]
  <2>1. j.step = "note" /\ j.route \in Resolved /\ j.route.kind = "mute"
    BY <1>2
  <2>2. j.cmds \in {<<>>} \cup {<<v>> : v \in 0..255}
    BY <1>2
  <2>3. QED
    BY <2>1, <2>2
<1>3. CASE j \in [step : {"send"}, route : Resolved, cmds : Seq(Commands) \ {<<>>}]
  BY <1>3
<1>4. QED
  BY <1>1, <1>2, <1>3 DEF JobRecords

LEMMA IdleShape == Idle \in JobRecords /\ Idle.step = "idle"
BY DEF JobRecords, Idle

LEMMA TypedIsTypeOK == Typed /\ Counted => TypeOK
<1> SUFFICES ASSUME Typed, Counted PROVE TypeOK
  OBVIOUS
<1>1. ASSUME NEW c \in Clients
      PROVE  /\ job[c].step \in {"idle", "ask", "note", "send"}
             /\ job[c].step = "note" => job[c].route.kind = "mute"
             /\ job[c].step = "send" => job[c].cmds # <<>>
  <2>1. job[c] \in JobRecords
    BY DEF Typed, JobsTyped
  <2>2. QED
    BY <2>1, JobShape DEF Idle
<1>2. QED
  BY <1>1 DEF Typed, RadioTyped, ReceiverTyped, HistoryTyped, Counted, TypeOK, Spanned

\* Entering a step changes one handler's record.
LEMMA Entering ==
  ASSUME JobsTyped, NEW c \in Clients, NEW step, NEW route, NEW cmds,
         [step |-> step, route |-> route, cmds |-> cmds] \in JobRecords,
         Enter(c, step, route, cmds)
  PROVE  /\ JobsTyped'
         /\ job'[c].step = step /\ job'[c].route = route /\ job'[c].cmds = cmds
         /\ \A d \in Clients \ {c} : job'[d] = job[d]
<1>1. job' = [job EXCEPT ![c] = [step |-> step, route |-> route, cmds |-> cmds]]
  BY DEF Enter
<1>2. job \in [Clients -> JobRecords]
  BY DEF JobsTyped
<1>3. job'[c] = [step |-> step, route |-> route, cmds |-> cmds]
  BY <1>1, <1>2
<1>4. job' \in [Clients -> JobRecords] /\ \A d \in Clients \ {c} : job'[d] = job[d]
  BY <1>1, <1>2
<1>5. QED
  BY <1>3, <1>4 DEF JobsTyped

LEMMA Idling ==
  ASSUME JobsTyped, NEW c \in Clients, job' = [job EXCEPT ![c] = Idle]
  PROVE  /\ JobsTyped'
         /\ job'[c].step = "idle" /\ job'[c] = Idle
         /\ \A d \in Clients \ {c} : job'[d] = job[d]
<1>1. job \in [Clients -> JobRecords]
  BY DEF JobsTyped
<1>2. job'[c] = Idle /\ \A d \in Clients \ {c} : job'[d] = job[d]
  BY <1>1
<1>3. job' \in [Clients -> JobRecords]
  BY <1>1, IdleShape
<1>4. QED
  BY <1>2, <1>3, IdleShape DEF JobsTyped

\* Proceeding: the handler is done, or it sends these commands.
LEMMA Proceeding ==
  ASSUME JobsTyped, NEW c \in Clients, NEW cmds \in Seq(Commands),
         job[c].route \in Resolved, Proceed(c, cmds)
  PROVE  /\ JobsTyped'
         /\ \A d \in Clients \ {c} : job'[d] = job[d]
         /\ \/ job'[c].step = "idle" /\ cmds = <<>>
            \/ /\ cmds # <<>> /\ job'[c].step = "send"
               /\ job'[c].route = job[c].route /\ job'[c].cmds = cmds
<1>1. CASE cmds = <<>>
  BY <1>1, Idling DEF Proceed
<1>2. CASE cmds # <<>>
  <2>1. [step |-> "send", route |-> job[c].route, cmds |-> cmds] \in JobRecords
    BY <1>2 DEF JobRecords
  <2>2. Enter(c, "send", job[c].route, cmds)
    BY <1>2 DEF Proceed
  <2>3. QED
    BY <1>2, <2>1, <2>2, Entering
<1>3. QED
  BY <1>1, <1>2

\* Taking a command: a register has what it had, what the command writes, or,
\* of the dials, what the other had.
LEMMA Taken ==
  ASSUME NEW regs \in [Registers -> Int], NEW cmd \in Commands
  PROVE  /\ Take(regs, cmd) \in [Registers -> Int]
         /\ Take(regs, cmd)["AG"] = IF cmd.reg = "AG" THEN cmd.to ELSE regs["AG"]
         /\ \A r \in Registers :
               \/ Take(regs, cmd)[r] = regs[r]
               \/ cmd.reg = r /\ Take(regs, cmd)[r] = cmd.to
               \/ r = "FA" /\ Take(regs, cmd)[r] = regs["FB"]
               \/ r = "FB" /\ Take(regs, cmd)[r] = regs["FA"]
<1>1. cmd.reg \in Registers \cup {"SV", "none"} /\ cmd.to \in Int
  BY CommandParts
<1>2. {"FA", "FB", "AG"} \subseteq Registers /\ {"SV", "none"} \cap Registers = {}
  BY DEF Registers
<1>3. CASE cmd.reg = "SV"
  <2> DEFINE swapped == [regs EXCEPT !["FA"] = regs["FB"], !["FB"] = regs["FA"]]
  <2>1. Take(regs, cmd) = swapped
    BY <1>2, <1>3 DEF Take
  <2>2. swapped \in [Registers -> Int]
    BY <1>2
  <2>3. /\ swapped["FA"] = regs["FB"] /\ swapped["FB"] = regs["FA"]
        /\ \A r \in Registers \ {"FA", "FB"} : swapped[r] = regs[r]
    BY <1>2
  <2> HIDE DEF swapped
  <2>4. swapped["AG"] = regs["AG"]
    BY <2>3, <1>2
  <2>5. QED
    BY <1>3, <2>1, <2>2, <2>3, <2>4
<1>4. CASE cmd.reg \in Registers
  <2>1. Take(regs, cmd) = [regs EXCEPT ![cmd.reg] = cmd.to]
    BY <1>2, <1>4 DEF Take
  <2>2. QED
    BY <1>1, <1>2, <1>4, <2>1
<1>5. CASE cmd.reg = "none"
  <2>1. Take(regs, cmd) = regs
    BY <1>2, <1>5 DEF Take
  <2>2. QED
    BY <1>2, <1>5, <2>1
<1>6. QED
  BY <1>1, <1>3, <1>4, <1>5

-----------------------------------------------------------------------------
(* What was asked for only grows.                                          *)

LEMMA NamedAndMoved ==
  ASSUME NEW route \in Routes, NEW g \in Ranged
  PROVE  Named(route, g) \subseteq Int /\ Moves(route, g) \in Int
<1>1. Moves(route, g) \in Int
  <2>1. route.kind \in {"nudge", "rit", "step"} => route.delta \in Int
    BY RouteKinds
  <2>2. QED
    BY <2>1 DEF Moves
<1>2. CASE route.kind = "fixed"
  <2>1. route.cmds \in Seq(Commands)
    BY <1>2, RouteKinds
  <2>2. \A i \in DOMAIN route.cmds : route.cmds[i] \in Commands
    BY <2>1, ElementOfSeq, LenProperties
  <2>3. \A i \in DOMAIN route.cmds : route.cmds[i].to \in Int
    BY <2>2, CommandParts
  <2>4. QED
    BY <1>1, <1>2, <2>3 DEF Named
<1>3. CASE route.kind # "fixed"
  BY <1>1, <1>3 DEF Named
<1>4. QED
  BY <1>2, <1>3

LEMMA WidenParts ==
  ASSUME HistoryTyped, NEW route \in Routes, Widen(route), NEW g \in Ranged
  PROVE  /\ span' \in [Ranged -> Spanned]
         /\ span[g].named \in SUBSET Int /\ span[g].down \in Nat /\ span[g].up \in Nat
         /\ span'[g].named = span[g].named \cup Named(route, g)
         /\ span'[g].down =
               span[g].down + (IF Moves(route, g) < 0 THEN -Moves(route, g) ELSE 0)
         /\ span'[g].up = span[g].up + (IF Moves(route, g) > 0 THEN Moves(route, g) ELSE 0)
<1> DEFINE After(h) ==
        [named |-> span[h].named \cup Named(route, h),
         down |-> span[h].down + (IF Moves(route, h) < 0 THEN -Moves(route, h) ELSE 0),
         up |-> span[h].up + (IF Moves(route, h) > 0 THEN Moves(route, h) ELSE 0)]
<1>1. span' = [h \in Ranged |-> After(h)]
  BY DEF Widen
<1>2. ASSUME NEW h \in Ranged
      PROVE  /\ span[h].named \in SUBSET Int /\ span[h].down \in Nat /\ span[h].up \in Nat
             /\ After(h) \in Spanned
  <2>1. span[h] \in Spanned
    BY DEF HistoryTyped
  <2>2. span[h].named \in SUBSET Int /\ span[h].down \in Nat /\ span[h].up \in Nat
    BY <2>1 DEF Spanned
  <2>3. Named(route, h) \subseteq Int /\ Moves(route, h) \in Int
    BY NamedAndMoved
  <2> DEFINE m == Moves(route, h)
             d == span[h].down + (IF m < 0 THEN -m ELSE 0)
             u == span[h].up + (IF m > 0 THEN m ELSE 0)
  <2>4. d \in Nat /\ u \in Nat
    <3>1. PICK k \in Int : k = m
      BY <2>3
    <3>2. (IF k < 0 THEN -k ELSE 0) \in Nat /\ (IF k > 0 THEN k ELSE 0) \in Nat
      BY <3>1
    <3>3. QED
      BY <2>2, <3>1, <3>2
  <2>5. span[h].named \cup Named(route, h) \in SUBSET Int
    BY <2>2, <2>3
  <2>6. After(h) \in Spanned
    BY <2>4, <2>5 DEF Spanned
  <2>7. QED
    BY <2>2, <2>6
<1>3. span' \in [Ranged -> Spanned]
  BY <1>1, <1>2
<1>4. span'[g] = After(g)
  BY <1>1
<1>5. QED
  BY <1>2, <1>3, <1>4

\* What is within what was asked for stays so; a request brings in the values it
\* names, and what lies no further than it moves.
LEMMA WidenReaches ==
  ASSUME HistoryTyped, NEW route \in Routes, Widen(route), NEW g \in Ranged, NEW w \in Int
  PROVE  /\ \A v \in Named(route, g) : Close(v, w, Moves(route, g)) => Within(g, w)'
         /\ \A v \in Int : Within(g, v) /\ Close(v, w, Moves(route, g)) => Within(g, w)'
<1>1. PICK m \in Int : m = Moves(route, g)
  BY NamedAndMoved
<1>2. PICK d \in Nat : d = span[g].down
  BY WidenParts
<1>3. PICK u \in Nat : u = span[g].up
  BY WidenParts
<1>4. PICK d2 : d2 = span'[g].down
  OBVIOUS
<1>5. PICK u2 : u2 = span'[g].up
  OBVIOUS
<1>6. d2 = d + (IF m < 0 THEN -m ELSE 0) /\ u2 = u + (IF m > 0 THEN m ELSE 0)
  BY <1>1, <1>2, <1>3, <1>4, <1>5, WidenParts
<1>7. ASSUME NEW a \in span'[g].named, a - d2 <= w, w <= a + u2
      PROVE  Within(g, w)'
  BY <1>4, <1>5, <1>7 DEF Within
<1>8. span'[g].named = span[g].named \cup Named(route, g) /\ span[g].named \subseteq Int
  BY WidenParts
<1>9. ASSUME NEW v \in Named(route, g), Close(v, w, m) PROVE Within(g, w)'
  <2>1. v \in Int
    BY NamedAndMoved
  <2>2. v - d2 <= w /\ w <= v + u2
    BY <1>6, <1>9, <2>1 DEF Close
  <2>3. QED
    BY <1>7, <1>8, <2>2
<1>10. ASSUME NEW v \in Int, Within(g, v), Close(v, w, m) PROVE Within(g, w)'
  <2>1. PICK a \in span[g].named : a - d <= v /\ v <= a + u
    BY <1>2, <1>3, <1>10 DEF Within
  <2>2. a \in Int /\ a \in span'[g].named
    BY <1>8, <2>1
  <2>3. a - d2 <= w /\ w <= a + u2
    BY <1>6, <1>10, <2>1, <2>2 DEF Close
  <2>4. QED
    BY <1>7, <2>2, <2>3
<1>11. QED
  BY <1>1, <1>9, <1>10

LEMMA WidenKeeps ==
  ASSUME HistoryTyped, NEW route \in Routes, Widen(route), NEW g \in Ranged, NEW v \in Int,
         Within(g, v) \/ v \in Named(route, g)
  PROVE  Within(g, v)'
<1>1. PICK m \in Int : m = Moves(route, g)
  BY NamedAndMoved
<1>2. Close(v, v, m)
  BY DEF Close
<1>3. QED
  BY <1>1, <1>2, WidenReaches

-----------------------------------------------------------------------------
(* What each step of a handler does to its record                          *)

LEMMA OwnAfterParts ==
  ASSUME NEW route
  PROVE  OwnAfter(route) = Unsure \/ OwnAfter(route) = own
BY DEF OwnAfter

LEMMA AcceptShape ==
  ASSUME Typed, NEW c \in Clients, NEW asks \in Routes, NEW meant \in Routes,
         Accept(c, asks, meant)
  PROVE  /\ Typed' /\ job[c].step = "idle"
         /\ radio' = radio /\ muted' = muted /\ preMuteAF' = preMuteAF
         /\ \A d \in Clients \ {c} : job'[d] = job[d]
         /\ IF asks.kind = "fixed" THEN Widen(meant) ELSE span' = span
         /\ \E route \in Resolved :
               /\ own' = OwnAfter(route)
               /\ \/ route = asks /\ route.kind = "fixed" /\ job' = job
                  \/ /\ route = asks /\ route.kind = "fixed" /\ job'[c].step = "send"
                     /\ job'[c].route = route /\ job'[c].cmds = route.cmds
                  \/ /\ route.kind # "fixed" /\ asks.kind # "fixed" /\ job'[c].route = route
                     /\ \/ job'[c].step = "ask" /\ (route.kind = "mute" => route.how = "on")
                        \/ /\ job'[c].step = "note" /\ job'[c].cmds = <<>>
                           /\ route.kind = "mute" /\ route.how = "off"
<1> DEFINE route == IF asks.kind = "mute" /\ asks.how = "toggle"
                    THEN Mute(IF muted THEN "off" ELSE "on") ELSE asks
<1>1. /\ route \in Resolved
      /\ (route.kind = "fixed") = (asks.kind = "fixed")
      /\ route.kind = "fixed" => route = asks
  <2>1. CASE asks.kind = "mute" /\ asks.how = "toggle"
    <3>1. route = Mute("off") \/ route = Mute("on")
      BY <2>1
    <3>2. Mute("off") \in Resolved /\ Mute("on") \in Resolved
      BY DEF Mute, Resolved, Routes
    <3>3. Mute("off").kind = "mute" /\ Mute("on").kind = "mute"
      BY DEF Mute
    <3>4. QED
      BY <2>1, <3>1, <3>2, <3>3
  <2>2. CASE asks.kind = "mute" /\ asks.how # "toggle"
    <3>1. asks.how \in {"on", "off"}
      BY <2>2, RouteKinds
    <3>2. QED
      BY <2>2, <3>1 DEF Resolved
  <2>3. CASE asks.kind # "mute"
    BY <2>3 DEF Resolved
  <2>4. QED
    BY <2>1, <2>2, <2>3
<1>2. /\ job[c].step = "idle"
      /\ IF route.kind # "fixed"
         THEN Enter(c, IF route.kind = "mute" /\ route.how = "off" THEN "note" ELSE "ask",
                    route, <<>>)
         ELSE IF route.cmds = <<>> THEN UNCHANGED job
         ELSE Enter(c, "send", route, route.cmds)
      /\ IF route.kind = "fixed" THEN Widen(meant) ELSE UNCHANGED span
      /\ own' = OwnAfter(route)
      /\ UNCHANGED <<radio, receiverVars, menu, faults>>
  BY DEF Accept
<1> HIDE DEF route
<1>3. radio' = radio /\ muted' = muted /\ preMuteAF' = preMuteAF
  BY <1>2 DEF receiverVars
<1>4. JobsTyped
  BY DEF Typed
<1>5. /\ JobsTyped' /\ \A d \in Clients \ {c} : job'[d] = job[d]
      /\ \/ route = asks /\ route.kind = "fixed" /\ job' = job
         \/ /\ route = asks /\ route.kind = "fixed" /\ job'[c].step = "send"
            /\ job'[c].route = route /\ job'[c].cmds = route.cmds
         \/ /\ route.kind # "fixed" /\ asks.kind # "fixed" /\ job'[c].route = route
            /\ \/ job'[c].step = "ask" /\ (route.kind = "mute" => route.how = "on")
               \/ /\ job'[c].step = "note" /\ job'[c].cmds = <<>>
                  /\ route.kind = "mute" /\ route.how = "off"
  <2>1. CASE route.kind # "fixed" /\ route.kind = "mute" /\ route.how = "off"
    <3>1. [step |-> "note", route |-> route, cmds |-> <<>>] \in JobRecords
      BY <1>1, <2>1 DEF JobRecords
    <3>2. Enter(c, "note", route, <<>>)
      BY <1>2, <2>1
    <3>3. QED
      BY <1>1, <1>4, <2>1, <3>1, <3>2, Entering
  <2>2. CASE route.kind # "fixed" /\ ~(route.kind = "mute" /\ route.how = "off")
    <3>1. route.kind = "mute" => route.how = "on"
      BY <1>1, <2>2 DEF Resolved
    <3>2. [step |-> "ask", route |-> route, cmds |-> <<>>] \in JobRecords
      BY <1>1, <2>2, <3>1 DEF JobRecords, Reading
    <3>3. Enter(c, "ask", route, <<>>)
      BY <1>2, <2>2
    <3>4. QED
      BY <1>1, <1>4, <2>2, <3>1, <3>2, <3>3, Entering
  <2>3. CASE route.kind = "fixed" /\ route.cmds = <<>>
    <3>1. job' = job
      BY <1>2, <2>3
    <3>2. QED
      BY <1>1, <1>4, <2>3, <3>1 DEF JobsTyped
  <2>4. CASE route.kind = "fixed" /\ route.cmds # <<>>
    <3>1. route.cmds \in Seq(Commands)
      BY <1>1, <2>4, RouteKinds
    <3>2. [step |-> "send", route |-> route, cmds |-> route.cmds] \in JobRecords
      BY <1>1, <2>4, <3>1 DEF JobRecords
    <3>3. Enter(c, "send", route, route.cmds)
      BY <1>2, <2>4
    <3>4. QED
      BY <1>1, <1>4, <2>4, <3>2, <3>3, Entering
  <2>5. QED
    BY <2>1, <2>2, <2>3, <2>4
<1>6. span' \in [Ranged -> Spanned]
  <2>1. HistoryTyped
    BY DEF Typed
  <2>2. CASE route.kind = "fixed"
    <3>1. Widen(meant) /\ "AG" \in Ranged
      BY <1>2, <2>2 DEF Ranged
    <3>2. QED
      BY <2>1, <3>1, WidenParts
  <2>3. CASE route.kind # "fixed"
    <3>1. span' = span
      BY <1>2, <2>3
    <3>2. QED
      BY <2>1, <3>1 DEF HistoryTyped
  <2>4. QED
    BY <2>2, <2>3
<1>7. own' \in {Unsure} \cup 0..255
  <2>1. own \in {Unsure} \cup 0..255
    BY DEF Typed, HistoryTyped
  <2>2. own' = Unsure \/ own' = own
    BY <1>2, OwnAfterParts
  <2>3. QED
    BY <2>1, <2>2
<1>8. Typed'
  BY <1>3, <1>5, <1>6, <1>7 DEF Typed, RadioTyped, ReceiverTyped, HistoryTyped
<1>9. IF asks.kind = "fixed" THEN Widen(meant) ELSE span' = span
  BY <1>1, <1>2
<1>10. QED
  BY <1>1, <1>2, <1>3, <1>5, <1>8, <1>9

\* The commands a step may have made of a reading.
Made(route, cur, cmds) ==
    \E cmd \in Commands :
        /\ cmds = <<cmd>>
        /\ cmd.reg = "AG" => MayWriteAF(route)
        /\ SpanOf(cmd.reg) \in Ranged =>
              /\ SpanOf(cmd.reg) = SpanOf(route.reg)
              /\ Close(cur, cmd.to, Moves(route, SpanOf(cmd.reg)))

LEMMA MadeIsSeq ==
  ASSUME NEW route, NEW cur, NEW cmds, Made(route, cur, cmds)
  PROVE  cmds \in Seq(Commands) /\ cmds # <<>>
<1>1. PICK cmd \in Commands : cmds = <<cmd>>
  BY DEF Made
<1>2. QED
  BY <1>1

LEMMA ReadingShape ==
  ASSUME Typed, NEW c \in Clients, job[c].step = "ask"
  PROVE  /\ job[c].route \in Resolved /\ job[c].route \in Routes
         /\ job[c].route.kind # "fixed" /\ job[c].cmds = <<>>
         /\ job[c].route.kind = "mute" => job[c].route.how = "on"
         /\ job[c].route.kind = "mute" => job[c].route.reg = "AG"
         /\ job[c].route.reg \in Registers
<1>1. job[c] \in JobRecords
  BY DEF Typed, JobsTyped
<1>2. /\ job[c].route \in Resolved /\ job[c].route.kind # "fixed" /\ job[c].cmds = <<>>
      /\ job[c].route.kind = "mute" => job[c].route.how = "on"
  BY <1>1, JobShape DEF Idle
<1>3. job[c].route \in Routes
  BY <1>2 DEF Resolved
<1>4. /\ job[c].route.kind = "mute" => job[c].route.reg = "AG"
      /\ job[c].route.reg \in Registers
  BY <1>2, <1>3, RouteKinds DEF Plain, DialRegisters, Registers
<1>5. QED
  BY <1>2, <1>3, <1>4

\* The types after a step that enters or leaves one record and moves nothing but
\* the history.
LEMMA TypedAfter ==
  ASSUME Typed, JobsTyped', radio' = radio, muted' = muted, preMuteAF' = preMuteAF,
         own' = own \/ own' = Unsure, NEW route \in Routes, Widen(route) \/ span' = span
  PROVE  Typed'
<1>1. HistoryTyped
  BY DEF Typed
<1>2. "AG" \in Ranged
  BY DEF Ranged
<1>3. span' \in [Ranged -> Spanned]
  <2>1. CASE Widen(route)
    BY <1>1, <1>2, <2>1, WidenParts
  <2>2. CASE span' = span
    BY <1>1, <2>2 DEF HistoryTyped
  <2>3. QED
    BY <2>1, <2>2
<1>4. own' \in {Unsure} \cup 0..255
  BY <1>1 DEF HistoryTyped
<1>5. QED
  BY <1>3, <1>4 DEF Typed, RadioTyped, ReceiverTyped, HistoryTyped

LEMMA AskShape ==
  ASSUME Typed, NEW c \in Clients, Ask(c)
  PROVE  /\ Typed' /\ job[c].step = "ask"
         /\ radio' = radio /\ muted' = muted /\ preMuteAF' = preMuteAF /\ own' = own
         /\ \A d \in Clients \ {c} : job'[d] = job[d]
         /\ Widen(job[c].route)
         /\ \/ /\ job[c].route.kind = "mute" /\ job'[c].step = "note"
               /\ job'[c].route = job[c].route /\ job'[c].cmds = <<radio["AG"]>>
            \/ job'[c].step = "idle"
            \/ /\ job[c].route.kind # "mute" /\ job'[c].step = "send"
               /\ job'[c].route = job[c].route
               /\ Made(job[c].route, radio[job[c].route.reg], job'[c].cmds)
<1> DEFINE route == job[c].route
           cur == radio[route.reg]
<1>1. /\ job[c].step = "ask"
      /\ IF route.kind = "mute" THEN Enter(c, "note", route, <<cur>>)
         ELSE Proceed(c, Build(route, cur))
      /\ Widen(route)
      /\ UNCHANGED <<radio, receiverVars, boundVars, own>>
  BY DEF Ask
<1>2. radio' = radio /\ muted' = muted /\ preMuteAF' = preMuteAF /\ own' = own
  BY <1>1 DEF receiverVars
<1>3. /\ route \in Resolved /\ route \in Routes /\ route.kind # "fixed"
      /\ route.kind = "mute" => route.reg = "AG"
      /\ route.reg \in Registers
  BY <1>1, ReadingShape
<1>4. cur \in Int /\ (route.reg = "AG" => cur \in 0..255)
  BY <1>3 DEF Typed, RadioTyped
<1>5. JobsTyped
  BY DEF Typed
<1> HIDE DEF route
<1>6. /\ JobsTyped' /\ \A d \in Clients \ {c} : job'[d] = job[d]
      /\ \/ /\ route.kind = "mute" /\ job'[c].step = "note"
            /\ job'[c].route = route /\ job'[c].cmds = <<radio["AG"]>>
         \/ job'[c].step = "idle"
         \/ /\ route.kind # "mute" /\ job'[c].step = "send"
            /\ job'[c].route = route /\ Made(route, cur, job'[c].cmds)
  <2>1. CASE route.kind = "mute"
    <3>1. cur = radio["AG"] /\ cur \in 0..255
      BY <1>3, <1>4, <2>1
    <3> HIDE DEF cur
    <3>2. [step |-> "note", route |-> route, cmds |-> <<cur>>] \in JobRecords
      BY <1>3, <2>1, <3>1 DEF JobRecords
    <3>3. Enter(c, "note", route, <<cur>>)
      BY <1>1, <2>1
    <3>4. QED
      BY <1>5, <2>1, <3>1, <3>2, <3>3, Entering
  <2>2. CASE route.kind # "mute"
    <3> HIDE DEF cur
    <3>1. Build(route, cur) = <<>> \/ Made(route, cur, Build(route, cur))
      BY <1>3, <1>4, <2>2, Built DEF Made
    <3>2. Build(route, cur) \in Seq(Commands)
      BY <3>1, MadeIsSeq, EmptySeq
    <3>3. Proceed(c, Build(route, cur))
      BY <1>1, <2>2
    <3>4. job[c].route \in Resolved /\ job[c].route = route
      BY <1>3 DEF route
    <3>5. /\ JobsTyped'
          /\ \A d \in Clients \ {c} : job'[d] = job[d]
          /\ \/ job'[c].step = "idle"
             \/ /\ Build(route, cur) # <<>> /\ job'[c].step = "send"
                /\ job'[c].route = job[c].route /\ job'[c].cmds = Build(route, cur)
      BY <1>5, <3>2, <3>3, <3>4, Proceeding
    <3>6. QED
      BY <2>2, <3>1, <3>4, <3>5
  <2>3. QED
    BY <2>1, <2>2
<1>7. Typed'
  BY <1>1, <1>2, <1>3, <1>6, TypedAfter
<1>8. QED
  BY <1>1, <1>2, <1>6, <1>7 DEF route

\* What counts as asked for without a reading is a route, and names what is sent.
LEMMA UnreadRoute ==
  ASSUME NEW route \in Routes
  PROVE  /\ Unread(route) \in Routes
         /\ route.kind # "rit" => Unread(route) = route
         /\ route.kind = "rit" =>
               /\ Build(route, 0) = <<Write("RT", route.delta)>>
               /\ route.delta \in Named(Unread(route), "RT")
<1>1. CASE route.kind # "rit"
  BY <1>1 DEF Unread
<1>2. CASE route.kind = "rit"
  <2>1. route.delta \in Int
    BY <1>2, RouteKinds
  <2>2. Write("RT", route.delta) \in Commands /\ Write("RT", route.delta).reg = "RT"
        /\ Write("RT", route.delta).to = route.delta
    BY <2>1, CommandShape DEF Registers
  <2>3. PICK cmds : cmds = <<Write("RT", route.delta)>>
    OBVIOUS
  <2>4. cmds \in Seq(Commands) /\ 1 \in DOMAIN cmds /\ cmds[1] = Write("RT", route.delta)
    BY <2>2, <2>3
  <2>5. Unread(route) = [kind |-> "fixed", cmds |-> cmds]
    BY <1>2, <2>3 DEF Unread, Switch, Fixed
  <2>6. Unread(route) \in Routes
    BY <2>4, <2>5 DEF Routes
  <2>7. Unread(route).kind = "fixed" /\ Unread(route).cmds = cmds
    BY <2>5
  <2>8. SpanOf(Unread(route).cmds[1].reg) = "RT" /\ Unread(route).cmds[1].to = route.delta
    BY <2>2, <2>4, <2>7, Spans
  <2>9. route.delta \in Named(Unread(route), "RT")
    BY <2>4, <2>7, <2>8 DEF Named
  <2>10. Build(route, 0) = <<Write("RT", route.delta)>>
    BY <1>2, <2>1 DEF Build
  <2>11. QED
    BY <1>2, <2>6, <2>9, <2>10
<1>3. QED
  BY <1>1, <1>2

LEMMA AskFailsShape ==
  ASSUME Typed, NEW c \in Clients, AskFails(c)
  PROVE  /\ Typed' /\ job[c].step = "ask"
         /\ radio' = radio /\ muted' = muted /\ preMuteAF' = preMuteAF /\ own' = Unsure
         /\ \A d \in Clients \ {c} : job'[d] = job[d]
         /\ Widen(Unread(job[c].route))
         /\ \/ /\ job[c].route.kind = "mute" /\ job'[c].step = "note"
               /\ job'[c].route = job[c].route /\ job'[c].cmds = <<>>
            \/ job'[c].step = "idle"
            \/ /\ job[c].route.kind = "rit" /\ job'[c].step = "send"
               /\ job'[c].route = job[c].route /\ Made(job[c].route, 0, job'[c].cmds)
               /\ job'[c].cmds = Build(job[c].route, 0)
<1> DEFINE route == job[c].route
<1>1. /\ job[c].step = "ask"
      /\ IF route.kind = "mute" THEN Enter(c, "note", route, <<>>)
         ELSE Proceed(c, BuildUnread(route))
      /\ Widen(Unread(route))
      /\ own' = Unsure
      /\ UNCHANGED <<radio, receiverVars, menu, asked>>
  BY DEF AskFails
<1>2. radio' = radio /\ muted' = muted /\ preMuteAF' = preMuteAF
  BY <1>1 DEF receiverVars
<1>3. route \in Resolved /\ route \in Routes /\ route.kind # "fixed"
  BY <1>1, ReadingShape
<1>4. JobsTyped
  BY DEF Typed
<1> HIDE DEF route
<1>5. /\ JobsTyped' /\ \A d \in Clients \ {c} : job'[d] = job[d]
      /\ \/ /\ route.kind = "mute" /\ job'[c].step = "note"
            /\ job'[c].route = route /\ job'[c].cmds = <<>>
         \/ job'[c].step = "idle"
         \/ /\ route.kind = "rit" /\ job'[c].step = "send"
            /\ job'[c].route = route /\ Made(route, 0, job'[c].cmds)
            /\ job'[c].cmds = Build(route, 0)
  <2>1. CASE route.kind = "mute"
    <3>1. [step |-> "note", route |-> route, cmds |-> <<>>] \in JobRecords
      BY <1>3, <2>1 DEF JobRecords
    <3>2. Enter(c, "note", route, <<>>)
      BY <1>1, <2>1
    <3>3. QED
      BY <1>4, <2>1, <3>1, <3>2, Entering
  <2>2. CASE route.kind # "mute"
    <3>1. \/ BuildUnread(route) = <<>>
          \/ /\ route.kind = "rit" /\ Made(route, 0, BuildUnread(route))
             /\ BuildUnread(route) = Build(route, 0)
      <4>1. CASE route.kind = "rit"
        <5>1. route.reg = "RT" /\ 0 \in Int
          BY <1>3, <4>1, RouteKinds
        <5>2. Build(route, 0) = <<>> \/ Made(route, 0, Build(route, 0))
          BY <1>3, <2>2, <5>1, Built DEF Made
        <5>3. QED
          BY <4>1, <5>2 DEF BuildUnread
      <4>2. CASE route.kind # "rit"
        BY <4>2 DEF BuildUnread
      <4>3. QED
        BY <4>1, <4>2
    <3>2. BuildUnread(route) \in Seq(Commands)
      BY <3>1, MadeIsSeq, EmptySeq
    <3>3. Proceed(c, BuildUnread(route))
      BY <1>1, <2>2
    <3>4. job[c].route \in Resolved /\ job[c].route = route
      BY <1>3 DEF route
    <3>5. /\ JobsTyped'
          /\ \A d \in Clients \ {c} : job'[d] = job[d]
          /\ \/ job'[c].step = "idle"
             \/ /\ BuildUnread(route) # <<>> /\ job'[c].step = "send"
                /\ job'[c].route = job[c].route /\ job'[c].cmds = BuildUnread(route)
      BY <1>4, <3>2, <3>3, <3>4, Proceeding
    <3>6. QED
      BY <2>2, <3>1, <3>4, <3>5
  <2>3. QED
    BY <2>1, <2>2
<1>6. Typed'
  BY <1>1, <1>2, <1>3, <1>5, UnreadRoute, TypedAfter
<1>7. QED
  BY <1>1, <1>2, <1>5, <1>6 DEF route

LEMMA NoteShape ==
  ASSUME Typed, NEW c \in Clients, job[c].step = "note"
  PROVE  /\ job[c].route \in Resolved /\ job[c].route.kind = "mute"
         /\ job[c].cmds = <<>> \/ \E v \in 0..255 : job[c].cmds = <<v>>
<1>1. PICK j \in JobRecords : j = job[c]
  BY DEF Typed, JobsTyped
<1>2. j.step = "note"
  BY <1>1
<1>3. /\ j.route \in Resolved /\ j.route.kind = "mute"
      /\ j.cmds = <<>> \/ \E v \in 0..255 : j.cmds = <<v>>
  BY <1>2, JobShape, IdleShape
<1>4. QED
  BY <1>1, <1>3

LEMMA NoteMuteShape ==
  ASSUME Typed, NEW c \in Clients, NoteMute(c)
  PROVE  /\ Typed' /\ job[c].step = "note" /\ job[c].route.kind = "mute"
         /\ job[c].route.how = "on"
         /\ radio' = radio /\ span' = span /\ own' = own /\ muted' = TRUE
         /\ \/ job[c].cmds \in {<<>>, <<0>>} /\ preMuteAF' = preMuteAF
            \/ preMuteAF' \in 1..255 /\ job[c].cmds = <<preMuteAF'>>
         /\ \A d \in Clients \ {c} : job'[d] = job[d]
         /\ job'[c].step = "send" /\ job'[c].route = job[c].route
         /\ job'[c].cmds = <<Write("AG", 0)>>
<1>1. /\ job[c].step = "note" /\ job[c].route.how = "on" /\ muted' = TRUE
      /\ preMuteAF' = IF job[c].cmds = <<>> \/ job[c].cmds = <<0>> THEN preMuteAF
                      ELSE Head(job[c].cmds)
      /\ Proceed(c, <<Write("AG", 0)>>)
      /\ UNCHANGED <<radio, boundVars, histVars>>
  BY DEF NoteMute, Remember
<1>2. radio' = radio /\ span' = span /\ own' = own
  BY <1>1 DEF histVars
<1>3. /\ job[c].route \in Resolved /\ job[c].route.kind = "mute"
      /\ job[c].cmds = <<>> \/ \E v \in 0..255 : job[c].cmds = <<v>>
  BY <1>1, NoteShape
<1>4. \/ job[c].cmds \in {<<>>, <<0>>} /\ preMuteAF' = preMuteAF
      \/ preMuteAF' \in 1..255 /\ job[c].cmds = <<preMuteAF'>>
  <2>1. CASE job[c].cmds = <<>> \/ job[c].cmds = <<0>>
    BY <1>1, <2>1
  <2>2. CASE ~(job[c].cmds = <<>> \/ job[c].cmds = <<0>>)
    <3>1. PICK v \in 0..255 : job[c].cmds = <<v>>
      BY <1>3, <2>2
    <3>2. preMuteAF' = v
      BY <1>1, <2>2, <3>1
    <3>3. v # 0
      BY <2>2, <3>1
    <3>4. v \in 1..255
      BY <3>3
    <3>5. QED
      BY <3>1, <3>2, <3>4
  <2>3. QED
    BY <2>1, <2>2
<1>5. <<Write("AG", 0)>> \in Seq(Commands) /\ <<Write("AG", 0)>> # <<>>
  <2>1. Write("AG", 0) \in Commands
    BY DEF Write, Commands
  <2>2. QED
    BY <2>1
<1>6. JobsTyped
  BY DEF Typed
<1>7. /\ JobsTyped' /\ \A d \in Clients \ {c} : job'[d] = job[d]
      /\ job'[c].step = "send" /\ job'[c].route = job[c].route
      /\ job'[c].cmds = <<Write("AG", 0)>>
  BY <1>1, <1>3, <1>5, <1>6, Proceeding
<1>8. preMuteAF \in 0..255 /\ RadioTyped /\ HistoryTyped
  BY DEF Typed, ReceiverTyped
<1>9. ReceiverTyped'
  <2>1. \A p \in 1..255 : p \in 0..255
    OBVIOUS
  <2>2. preMuteAF' \in 0..255
    BY <1>4, <1>8, <2>1, Zenon
  <2>3. QED
    BY <1>1, <2>2 DEF ReceiverTyped
<1>10. RadioTyped' /\ HistoryTyped'
  BY <1>2, <1>8 DEF RadioTyped, HistoryTyped
<1>11. Typed'
  BY <1>7, <1>9, <1>10 DEF Typed
<1>12. QED
  BY <1>1, <1>2, <1>3, <1>4, <1>7, <1>11

LEMMA NoteUnmuteShape ==
  ASSUME Typed, NEW c \in Clients, NoteUnmute(c)
  PROVE  /\ Typed' /\ job[c].step = "note" /\ job[c].route.kind = "mute"
         /\ job[c].route.how = "off"
         /\ radio' = radio /\ span' = span /\ own' = own /\ muted' = FALSE
         /\ preMuteAF' = preMuteAF
         /\ \A d \in Clients \ {c} : job'[d] = job[d]
         /\ \/ job'[c].step = "idle" /\ preMuteAF = 0
            \/ /\ preMuteAF # 0 /\ job'[c].step = "send" /\ job'[c].route = job[c].route
               /\ job'[c].cmds = <<Write("AG", preMuteAF)>>
<1>1. /\ job[c].step = "note" /\ job[c].route.how = "off" /\ muted' = FALSE
      /\ Proceed(c, IF preMuteAF = 0 THEN <<>> ELSE <<Write("AG", preMuteAF)>>)
      /\ UNCHANGED <<radio, preMuteAF, boundVars, histVars>>
  BY DEF NoteUnmute
<1>2. radio' = radio /\ span' = span /\ own' = own /\ preMuteAF' = preMuteAF
  BY <1>1 DEF histVars
<1>3. job[c].route \in Resolved /\ job[c].route.kind = "mute"
  BY <1>1, NoteShape
<1>4. preMuteAF \in 0..255 /\ RadioTyped /\ HistoryTyped /\ JobsTyped
  BY DEF Typed, ReceiverTyped
<1>5. <<Write("AG", preMuteAF)>> \in Seq(Commands) /\ <<Write("AG", preMuteAF)>> # <<>>
  <2>1. Write("AG", preMuteAF) \in Commands
    BY <1>4 DEF Write, Commands
  <2>2. QED
    BY <2>1
<1>6. /\ JobsTyped' /\ \A d \in Clients \ {c} : job'[d] = job[d]
      /\ \/ job'[c].step = "idle" /\ preMuteAF = 0
         \/ /\ preMuteAF # 0 /\ job'[c].step = "send" /\ job'[c].route = job[c].route
            /\ job'[c].cmds = <<Write("AG", preMuteAF)>>
  <2>1. CASE preMuteAF = 0
    <3>1. Proceed(c, <<>>) /\ <<>> \in Seq(Commands)
      BY <1>1, <2>1, EmptySeq
    <3>2. QED
      BY <1>3, <1>4, <2>1, <3>1, Proceeding
  <2>2. CASE preMuteAF # 0
    <3>1. Proceed(c, <<Write("AG", preMuteAF)>>)
      BY <1>1, <2>2
    <3>2. QED
      BY <1>3, <1>4, <1>5, <2>2, <3>1, Proceeding
  <2>3. QED
    BY <2>1, <2>2
<1>7. RadioTyped' /\ HistoryTyped' /\ ReceiverTyped'
  BY <1>1, <1>2, <1>4 DEF RadioTyped, HistoryTyped, ReceiverTyped
<1>8. Typed'
  BY <1>6, <1>7 DEF Typed
<1>9. QED
  BY <1>1, <1>2, <1>3, <1>6, <1>8

\* The commands left are commands the handler had.
LEMMA SendShape ==
  ASSUME Typed, NEW c \in Clients, Send(c)
  PROVE  /\ Typed' /\ job[c].step = "send" /\ job[c].route \in Resolved
         /\ 1 \in DOMAIN job[c].cmds /\ job[c].cmds[1] \in Commands
         /\ radio' = Take(radio, job[c].cmds[1])
         /\ own' = IF WritesAF(c) /\ own # Unsure THEN radio'["AG"] ELSE own
         /\ span' = span /\ muted' = muted /\ preMuteAF' = preMuteAF
         /\ \A d \in Clients \ {c} : job'[d] = job[d]
         /\ \/ job'[c].step = "idle"
            \/ /\ job'[c].step = "send" /\ job'[c].route = job[c].route
               /\ Len(job[c].cmds) # 1
               /\ \A i \in DOMAIN job'[c].cmds :
                     i + 1 \in DOMAIN job[c].cmds /\ job'[c].cmds[i] = job[c].cmds[i + 1]
<1> DEFINE cmds == job[c].cmds
<1>1. /\ job[c].step = "send"
      /\ radio' = Take(radio, Head(cmds))
      /\ own' = IF WritesAF(c) /\ own # Unsure THEN radio'["AG"] ELSE own
      /\ Proceed(c, Tail(cmds))
      /\ UNCHANGED <<receiverVars, boundVars, span>>
  BY DEF Send
<1>2. span' = span /\ muted' = muted /\ preMuteAF' = preMuteAF
  BY <1>1 DEF receiverVars
<1>3. job[c] \in JobRecords
  BY DEF Typed, JobsTyped
<1>4. job[c].route \in Resolved /\ cmds \in Seq(Commands) /\ cmds # <<>>
  BY <1>1, <1>3, JobShape DEF Idle
<1>5. JobsTyped /\ RadioTyped /\ HistoryTyped /\ ReceiverTyped
  BY DEF Typed
<1> HIDE DEF cmds
<1>6. /\ 1 \in DOMAIN cmds /\ Head(cmds) = cmds[1] /\ cmds[1] \in Commands
      /\ Tail(cmds) \in Seq(Commands) /\ Len(Tail(cmds)) = Len(cmds) - 1
      /\ Len(cmds) \in Nat /\ DOMAIN cmds = 1..Len(cmds)
      /\ \A i \in 1..Len(Tail(cmds)) : Tail(cmds)[i] = cmds[i + 1]
  BY <1>4, HeadTailProperties, LenProperties, ElementOfSeq, EmptySeq
<1>7. /\ JobsTyped'
      /\ \A d \in Clients \ {c} : job'[d] = job[d]
      /\ \/ job'[c].step = "idle"
         \/ /\ Tail(cmds) # <<>> /\ job'[c].step = "send"
            /\ job'[c].route = job[c].route /\ job'[c].cmds = Tail(cmds)
  BY <1>1, <1>4, <1>5, <1>6, Proceeding
<1>8. Tail(cmds) # <<>> => Len(cmds) # 1
  BY <1>6, EmptySeq
<1>9. ASSUME NEW i \in DOMAIN Tail(cmds)
      PROVE  i + 1 \in DOMAIN cmds /\ Tail(cmds)[i] = cmds[i + 1]
  <2>1. i \in 1..Len(Tail(cmds))
    BY <1>6, <1>9, LenProperties
  <2>2. QED
    BY <1>6, <2>1
<1>10. radio' \in [Registers -> Int] /\ radio'["AG"] \in 0..255
  <2>1. radio \in [Registers -> Int] /\ radio["AG"] \in 0..255
    BY <1>5 DEF RadioTyped
  <2>2. PICK cmd \in Commands : cmd = cmds[1]
    BY <1>6
  <2>3. cmd.reg = "AG" => cmd.to \in 0..255
    BY CommandParts
  <2>4. radio' = Take(radio, cmd)
    BY <1>1, <1>6, <2>2
  <2>5. QED
    BY <2>1, <2>3, <2>4, Taken
<1>11. own' \in {Unsure} \cup 0..255
  <2>1. own \in {Unsure} \cup 0..255
    BY <1>5 DEF HistoryTyped
  <2>2. QED
    BY <1>1, <1>10, <2>1
<1>12. Typed'
  BY <1>2, <1>5, <1>7, <1>10, <1>11 DEF Typed, RadioTyped, HistoryTyped, ReceiverTyped
<1>13. QED
  BY <1>1, <1>2, <1>4, <1>6, <1>7, <1>8, <1>9, <1>12 DEF cmds

LEMMA SendFailsShape ==
  ASSUME Typed, NEW c \in Clients, SendFails(c)
  PROVE  /\ Typed' /\ own' = Unsure
         /\ radio' = radio /\ span' = span /\ muted' = muted /\ preMuteAF' = preMuteAF
         /\ \A d \in Clients \ {c} : job'[d] = job[d]
         /\ job'[c].step = "idle"
<1>1. /\ job' = [job EXCEPT ![c] = Idle] /\ own' = Unsure
      /\ UNCHANGED <<radio, receiverVars, menu, asked, span>>
  BY DEF SendFails
<1>2. radio' = radio /\ span' = span /\ muted' = muted /\ preMuteAF' = preMuteAF
  BY <1>1 DEF receiverVars
<1>3. JobsTyped /\ RadioTyped /\ HistoryTyped /\ ReceiverTyped
  BY DEF Typed
<1>4. JobsTyped' /\ job'[c].step = "idle" /\ \A d \in Clients \ {c} : job'[d] = job[d]
  BY <1>1, <1>3, Idling
<1>5. Typed'
  BY <1>1, <1>2, <1>3, <1>4 DEF Typed, RadioTyped, HistoryTyped, ReceiverTyped
<1>6. QED
  BY <1>1, <1>2, <1>4, <1>5

LEMMA FrontPanelShape ==
  ASSUME Typed, Counted, FrontPanel
  PROVE  /\ Typed' /\ job' = job /\ muted' = muted /\ preMuteAF' = preMuteAF
         /\ \E cmd \in Commands :
               /\ Fixed(<<cmd>>) \in Routes /\ Widen(Fixed(<<cmd>>))
               /\ radio' = Take(radio, cmd)
               /\ own' = IF OwnAfter(Fixed(<<cmd>>)) = Unsure THEN Unsure
                         ELSE IF cmd.reg = "AG" THEN cmd.to ELSE own
<1>1. PICK cmd \in Menus[menu].knobs :
          /\ radio' = Take(radio, cmd)
          /\ Widen(Fixed(<<cmd>>))
          /\ own' = IF OwnAfter(Fixed(<<cmd>>)) = Unsure THEN Unsure
                    ELSE IF cmd.reg = "AG" THEN cmd.to ELSE own
  BY DEF FrontPanel
<1>2. job' = job /\ muted' = muted /\ preMuteAF' = preMuteAF
  BY DEF FrontPanel, receiverVars
<1>3. cmd \in Commands
  BY <1>1, Assumed DEF Counted
<1>4. Fixed(<<cmd>>) \in Routes
  <2>1. <<cmd>> \in Seq(Commands)
    BY <1>3
  <2>2. QED
    BY <2>1 DEF Fixed, Routes
<1>5. JobsTyped /\ RadioTyped /\ HistoryTyped /\ ReceiverTyped
  BY DEF Typed
<1>6. cmd.reg = "AG" => cmd.to \in 0..255
  BY <1>3, CommandParts
<1>7. radio' \in [Registers -> Int] /\ radio'["AG"] \in 0..255
  <2>1. radio \in [Registers -> Int] /\ radio["AG"] \in 0..255
    BY <1>5 DEF RadioTyped
  <2>2. QED
    BY <1>1, <1>3, <1>6, <2>1, Taken
<1>8. own' \in {Unsure} \cup 0..255
  <2>1. own \in {Unsure} \cup 0..255
    BY <1>5 DEF HistoryTyped
  <2>2. QED
    BY <1>1, <1>6, <2>1
<1>9. span' \in [Ranged -> Spanned]
  <2>1. "AG" \in Ranged
    BY DEF Ranged
  <2>2. QED
    BY <1>1, <1>4, <1>5, <2>1, WidenParts
<1>10. Typed'
  BY <1>2, <1>5, <1>7, <1>8, <1>9 DEF Typed, RadioTyped, HistoryTyped, ReceiverTyped, JobsTyped
<1>11. QED
  BY <1>1, <1>2, <1>3, <1>4, <1>10

-----------------------------------------------------------------------------
(* The settings stay within what was asked for.  So must everything that    *)
(* will still be written: the commands left, the level a mute read, the     *)
(* level remembered.                                                       *)

CmdWithin(cmd) == SpanOf(cmd.reg) \in Ranged => Within(SpanOf(cmd.reg), cmd.to)
JobWithin(j) ==
    /\ j.step = "send" => \A i \in DOMAIN j.cmds : CmdWithin(j.cmds[i])
    /\ j.step = "note" =>
          /\ j.route.how = "on" => Within("AG", 0)
          /\ \A v \in 0..255 : j.cmds = <<v>> => Within("AG", v)
RegistersWithin == \A r \in Registers : SpanOf(r) \in Ranged => Within(SpanOf(r), radio[r])
RememberedWithin == preMuteAF = 0 \/ Within("AG", preMuteAF)
ValuesWithin ==
    /\ RegistersWithin /\ RememberedWithin
    /\ \A c \in Clients : JobWithin(job[c])

LEMMA RegistersWithinAsked == RegistersWithin => WithinAsked
<1>1. /\ SpanOf("FA") = "FA" /\ SpanOf("FB") = "FA" /\ SpanOf("AG") = "AG"
      /\ SpanOf("RT") = "RT"
  BY Spans
<1>2. {"FA", "FB", "AG", "RT"} \subseteq Registers /\ Ranged = {"FA", "AG", "RT"}
  BY DEF Registers, Ranged
<1>3. QED
  BY <1>1, <1>2 DEF RegistersWithin, WithinAsked

Grows == \A g \in Ranged, v \in Int : Within(g, v) => Within(g, v)'

LEMMA Growing ==
  ASSUME HistoryTyped, NEW route \in Routes, Widen(route) \/ span' = span
  PROVE  Grows
<1>1. CASE Widen(route)
  BY <1>1, WidenKeeps DEF Grows
<1>2. CASE span' = span
  BY <1>2 DEF Grows, Within
<1>3. QED
  BY <1>1, <1>2

LEMMA CmdCarriedOn ==
  ASSUME NEW cmd \in Commands, CmdWithin(cmd), Grows
  PROVE  CmdWithin(cmd)'
<1>1. cmd.to \in Int
  BY CommandParts
<1>2. QED
  BY <1>1 DEF CmdWithin, Grows

LEMMA CarriedOn ==
  ASSUME NEW j \in JobRecords, JobWithin(j), Grows
  PROVE  JobWithin(j)'
<1>1. ASSUME j.step = "send", NEW i \in DOMAIN j.cmds
      PROVE  CmdWithin(j.cmds[i])'
  <2>1. j.cmds \in Seq(Commands)
    BY <1>1, JobShape, IdleShape
  <2>2. PICK cmd \in Commands : cmd = j.cmds[i]
    BY <1>1, <2>1, ElementOfSeq, LenProperties
  <2>3. CmdWithin(cmd)
    BY <1>1, <2>2 DEF JobWithin
  <2>4. CmdWithin(cmd)'
    BY <2>3, CmdCarriedOn
  <2>5. QED
    BY <2>2, <2>4
<1>2. "AG" \in Ranged /\ 0 \in Int /\ \A v \in 0..255 : v \in Int
  BY DEF Ranged
<1>3. ASSUME j.step = "note"
      PROVE  /\ j.route.how = "on" => Within("AG", 0)'
             /\ \A v \in 0..255 : j.cmds = <<v>> => Within("AG", v)'
  BY <1>2, <1>3 DEF JobWithin, Grows
<1>4. QED
  BY <1>1, <1>3 DEF JobWithin

\* The handlers a step leaves alone, and the registers it does.
LEMMA OthersCarriedOn ==
  ASSUME Typed, ValuesWithin, Grows, NEW c \in Clients, NEW d \in Clients, job'[d] = job[d]
  PROVE  JobWithin(job[d])'
<1>1. PICK j \in JobRecords : j = job[d]
  BY DEF Typed, JobsTyped
<1>2. JobWithin(j)
  BY <1>1 DEF ValuesWithin
<1>3. JobWithin(j)'
  BY <1>2, CarriedOn
<1>4. j = job'[d]
  BY <1>1
<1>5. QED
  BY <1>3, <1>4 DEF JobWithin, CmdWithin, Within

LEMMA RegistersCarriedOn ==
  ASSUME Typed, RegistersWithin, Grows, radio' = radio
  PROVE  RegistersWithin'
<1> SUFFICES ASSUME NEW r \in Registers, SpanOf(r) \in Ranged
             PROVE  Within(SpanOf(r), radio[r])'
  BY DEF RegistersWithin
<1>1. PICK v \in Int : v = radio[r]
  BY DEF Typed, RadioTyped
<1>2. Within(SpanOf(r), v)
  BY <1>1 DEF RegistersWithin
<1>3. Within(SpanOf(r), v)'
  BY <1>2 DEF Grows
<1>4. v = radio'[r]
  BY <1>1
<1>5. QED
  BY <1>3, <1>4 DEF Within

LEMMA RememberedCarriedOn ==
  ASSUME Typed, RememberedWithin, Grows, preMuteAF' = preMuteAF
  PROVE  RememberedWithin'
<1>1. PICK v \in Int : v = preMuteAF
  BY DEF Typed, ReceiverTyped
<1>2. CASE v = 0
  BY <1>1, <1>2 DEF RememberedWithin
<1>3. CASE v # 0
  <2>1. Within("AG", v) /\ "AG" \in Ranged
    BY <1>1, <1>3 DEF RememberedWithin, Ranged
  <2>2. Within("AG", v)'
    BY <2>1 DEF Grows
  <2>3. v = preMuteAF'
    BY <1>1
  <2>4. QED
    BY <2>2, <2>3 DEF RememberedWithin, Within
<1>4. QED
  BY <1>2, <1>3

\* A command within what was asked for, taken, leaves the registers within.
LEMMA RegistersTaken ==
  ASSUME Typed, RegistersWithin, Grows, NEW cmd \in Commands, CmdWithin(cmd)',
         radio' = Take(radio, cmd)
  PROVE  RegistersWithin'
<1> SUFFICES ASSUME NEW r \in Registers, SpanOf(r) \in Ranged
             PROVE  Within(SpanOf(r), radio[r])'
  BY DEF RegistersWithin
<1>1. radio \in [Registers -> Int] /\ {"FA", "FB"} \subseteq Registers
  BY DEF Typed, RadioTyped, Registers
<1>2. ASSUME NEW q \in Registers, SpanOf(q) = SpanOf(r), radio'[r] = radio[q]
      PROVE  Within(SpanOf(r), radio[r])'
  <2>1. PICK v \in Int : v = radio[q]
    BY <1>1
  <2>2. Within(SpanOf(r), v)
    BY <1>2, <2>1 DEF RegistersWithin
  <2>3. Within(SpanOf(r), v)'
    BY <2>2 DEF Grows
  <2>4. v = radio'[r]
    BY <1>2, <2>1
  <2>5. QED
    BY <2>3, <2>4 DEF Within
<1>3. CASE cmd.reg = r /\ radio'[r] = cmd.to
  <2>1. Within(SpanOf(r), cmd.to)'
    BY <1>3 DEF CmdWithin
  <2>2. QED
    BY <1>3, <2>1 DEF Within
<1>4. \/ radio'[r] = radio[r]
      \/ cmd.reg = r /\ radio'[r] = cmd.to
      \/ r = "FA" /\ radio'[r] = radio["FB"]
      \/ r = "FB" /\ radio'[r] = radio["FA"]
  BY <1>1, Taken
<1>5. QED
  BY <1>1, <1>2, <1>3, <1>4, Spans

\* A request made as it is meant names the values it writes.
LEMMA BeginWithin ==
  ASSUME HistoryTyped, NEW route \in Routes, route.kind = "fixed", Widen(route)
  PROVE  \A i \in DOMAIN route.cmds : CmdWithin(route.cmds[i])'
<1> SUFFICES ASSUME NEW i \in DOMAIN route.cmds, SpanOf(route.cmds[i].reg) \in Ranged
             PROVE  Within(SpanOf(route.cmds[i].reg), route.cmds[i].to)'
  BY DEF CmdWithin
<1>1. route.cmds \in Seq(Commands)
  BY RouteKinds
<1>2. route.cmds[i] \in Commands
  BY <1>1, ElementOfSeq, LenProperties
<1>3. route.cmds[i].to \in Int
  BY <1>2, CommandParts
<1>4. route.cmds[i].to \in Named(route, SpanOf(route.cmds[i].reg))
  BY DEF Named
<1>5. QED
  BY <1>3, <1>4, WidenKeeps

LEMMA AcceptWithin ==
  ASSUME Typed, ValuesWithin, NEW c \in Clients, NEW asks \in Routes, NEW meant \in Routes,
         Accept(c, asks, meant),
         asks.kind = "fixed" => \A i \in DOMAIN asks.cmds : CmdWithin(asks.cmds[i])'
  PROVE  ValuesWithin' /\ Grows
<1>1. /\ radio' = radio /\ preMuteAF' = preMuteAF
      /\ \A d \in Clients \ {c} : job'[d] = job[d]
      /\ IF asks.kind = "fixed" THEN Widen(meant) ELSE span' = span
  BY AcceptShape
<1>2. Grows
  BY <1>1, Growing DEF Typed
<1>3. RegistersWithin' /\ RememberedWithin'
  BY <1>1, <1>2, RegistersCarriedOn, RememberedCarriedOn DEF ValuesWithin
<1>4. ASSUME NEW d \in Clients, job'[d] = job[d] PROVE JobWithin(job[d])'
  BY <1>2, <1>4, OthersCarriedOn
<1>5. JobWithin(job[c])'
  <2>1. PICK route \in Resolved :
           \/ route = asks /\ route.kind = "fixed" /\ job' = job
           \/ /\ route = asks /\ route.kind = "fixed" /\ job'[c].step = "send"
              /\ job'[c].route = route /\ job'[c].cmds = route.cmds
           \/ /\ route.kind # "fixed" /\ asks.kind # "fixed" /\ job'[c].route = route
              /\ \/ job'[c].step = "ask" /\ (route.kind = "mute" => route.how = "on")
                 \/ /\ job'[c].step = "note" /\ job'[c].cmds = <<>>
                    /\ route.kind = "mute" /\ route.how = "off"
    BY AcceptShape
  <2>2. CASE job' = job
    BY <1>4, <2>2
  <2>3. CASE /\ route = asks /\ route.kind = "fixed" /\ job'[c].step = "send"
             /\ job'[c].cmds = route.cmds
    <3>1. \A i \in DOMAIN job'[c].cmds : CmdWithin(job[c].cmds[i])'
      BY <2>3 DEF CmdWithin, Within
    <3>2. QED
      BY <2>3, <3>1 DEF JobWithin
  <2>4. CASE job'[c].step = "ask"
    BY <2>4 DEF JobWithin
  <2>5. CASE /\ job'[c].step = "note" /\ job'[c].cmds = <<>> /\ job'[c].route = route
             /\ route.how = "off"
    <3>1. \A v : <<>> # <<v>>
      OBVIOUS
    <3>2. QED
      BY <2>5, <3>1 DEF JobWithin
  <2>6. QED
    BY <2>1, <2>2, <2>3, <2>4, <2>5
<1>6. QED
  BY <1>1, <1>2, <1>3, <1>4, <1>5 DEF ValuesWithin

\* One command made of a reading is within what was asked for if the reading,
\* moved as the request asks, is.
LEMMA MadeWithin ==
  ASSUME NEW c \in Clients, NEW route, NEW cur,
         Made(route, cur, job'[c].cmds), job'[c].step = "send",
         \A w \in Int :
            /\ SpanOf(route.reg) \in Ranged
            /\ Close(cur, w, Moves(route, SpanOf(route.reg)))
            => Within(SpanOf(route.reg), w)'
  PROVE  JobWithin(job[c])'
<1>1. PICK cmd \in Commands :
         /\ job'[c].cmds = <<cmd>>
         /\ SpanOf(cmd.reg) \in Ranged =>
               /\ SpanOf(cmd.reg) = SpanOf(route.reg)
               /\ Close(cur, cmd.to, Moves(route, SpanOf(cmd.reg)))
  BY DEF Made
<1>2. cmd.to \in Int
  BY CommandParts
<1>3. SpanOf(cmd.reg) \in Ranged => Within(SpanOf(cmd.reg), cmd.to)'
  BY <1>1, <1>2
<1>4. CmdWithin(cmd)'
  BY <1>3 DEF CmdWithin
<1>5. \A i \in DOMAIN job'[c].cmds : job'[c].cmds[i] = cmd
  BY <1>1
<1>6. \A i \in DOMAIN job'[c].cmds : CmdWithin(job[c].cmds[i])'
  BY <1>4, <1>5 DEF CmdWithin, Within
<1>7. QED
  BY <1>6 DEF JobWithin

LEMMA AskWithin ==
  ASSUME Typed, ValuesWithin, NEW c \in Clients, Ask(c)
  PROVE  ValuesWithin' /\ Grows
<1>1. /\ job[c].step = "ask" /\ radio' = radio /\ preMuteAF' = preMuteAF
      /\ \A d \in Clients \ {c} : job'[d] = job[d]
      /\ Widen(job[c].route)
  BY AskShape
<1>2. PICK route \in Routes : route = job[c].route /\ route.reg \in Registers
  BY <1>1, ReadingShape
<1>3. HistoryTyped /\ Widen(route)
  BY <1>1, <1>2 DEF Typed
<1>4. Grows
  BY <1>3, Growing
<1>5. RegistersWithin' /\ RememberedWithin'
  BY <1>1, <1>4, RegistersCarriedOn, RememberedCarriedOn DEF ValuesWithin
<1>6. ASSUME NEW d \in Clients \ {c} PROVE JobWithin(job[d])'
  BY <1>1, <1>4, OthersCarriedOn
<1>7. PICK cur \in Int : cur = radio[route.reg]
  BY <1>2 DEF Typed, RadioTyped
<1>8. SpanOf(route.reg) \in Ranged => Within(SpanOf(route.reg), cur)
  BY <1>2, <1>7 DEF ValuesWithin, RegistersWithin
<1>9. JobWithin(job[c])'
  <2>1. \/ /\ route.kind = "mute" /\ job'[c].step = "note" /\ job'[c].cmds = <<radio["AG"]>>
        \/ job'[c].step = "idle"
        \/ job'[c].step = "send" /\ Made(route, cur, job'[c].cmds)
    BY <1>2, <1>7, AskShape
  <2>2. CASE route.kind = "mute" /\ job'[c].step = "note" /\ job'[c].cmds = <<radio["AG"]>>
    <3>1. route.reg = "AG" /\ "AG" \in Ranged
      BY <2>2, RouteKinds DEF Ranged
    <3>2. job'[c].cmds = <<cur>> /\ SpanOf("AG") = "AG"
      BY <1>7, <2>2, <3>1, Spans
    <3>3. Within("AG", cur)'
      BY <1>4, <1>8, <3>1, <3>2 DEF Grows
    <3>4. 0 \in Named(route, "AG")
      BY <2>2 DEF Named
    <3>5. Within("AG", 0)'
      BY <1>3, <3>1, <3>4, WidenKeeps
    <3>6. \A v \in 0..255 : job'[c].cmds = <<v>> => v = cur
      BY <3>2
    <3>7. QED
      BY <2>2, <3>3, <3>5, <3>6 DEF JobWithin, Within
  <2>3. CASE job'[c].step = "idle"
    BY <2>3 DEF JobWithin
  <2>4. CASE job'[c].step = "send" /\ Made(route, cur, job'[c].cmds)
    <3>1. ASSUME NEW w \in Int, SpanOf(route.reg) \in Ranged,
                 Close(cur, w, Moves(route, SpanOf(route.reg)))
          PROVE  Within(SpanOf(route.reg), w)'
      BY <1>3, <1>8, <3>1, WidenReaches
    <3>2. QED
      BY <2>4, <3>1, MadeWithin
  <2>5. QED
    BY <2>1, <2>2, <2>3, <2>4
<1>10. QED
  BY <1>4, <1>5, <1>6, <1>9 DEF ValuesWithin

\* Of a reading that failed only the RIT makes a command, to an offset that counts
\* as named.
LEMMA AskFailsWithin ==
  ASSUME Typed, ValuesWithin, NEW c \in Clients, AskFails(c)
  PROVE  ValuesWithin' /\ Grows
<1>1. /\ job[c].step = "ask" /\ radio' = radio /\ preMuteAF' = preMuteAF
      /\ \A d \in Clients \ {c} : job'[d] = job[d]
      /\ Widen(Unread(job[c].route))
  BY AskFailsShape
<1>2. PICK route \in Routes : route = job[c].route /\ route.reg \in Registers
  BY <1>1, ReadingShape
<1>3. HistoryTyped /\ Unread(route) \in Routes /\ Widen(Unread(route))
  BY <1>1, <1>2, UnreadRoute DEF Typed
<1>4. Grows
  BY <1>3, Growing
<1>5. RegistersWithin' /\ RememberedWithin'
  BY <1>1, <1>4, RegistersCarriedOn, RememberedCarriedOn DEF ValuesWithin
<1>6. ASSUME NEW d \in Clients \ {c} PROVE JobWithin(job[d])'
  BY <1>1, <1>4, OthersCarriedOn
<1>7. JobWithin(job[c])'
  <2>1. \/ route.kind = "mute" /\ job'[c].step = "note" /\ job'[c].cmds = <<>>
        \/ job'[c].step = "idle"
        \/ /\ route.kind = "rit" /\ job'[c].step = "send"
           /\ Made(route, 0, job'[c].cmds)
    BY <1>2, AskFailsShape
  <2>2. CASE route.kind = "mute" /\ job'[c].step = "note" /\ job'[c].cmds = <<>>
    <3>1. "AG" \in Ranged /\ 0 \in Int /\ \A v : <<>> # <<v>>
      BY DEF Ranged
    <3>2. 0 \in Named(Unread(route), "AG")
      BY <1>2, <2>2, UnreadRoute DEF Named
    <3>3. Within("AG", 0)'
      BY <1>3, <3>1, <3>2, WidenKeeps
    <3>4. QED
      BY <2>2, <3>1, <3>3 DEF JobWithin, Within
  <2>3. CASE job'[c].step = "idle"
    BY <2>3 DEF JobWithin
  <2>4. CASE route.kind = "rit" /\ job'[c].step = "send" /\ Made(route, 0, job'[c].cmds)
    <3>1. SpanOf("RT") = "RT" /\ "RT" \in Ranged /\ route.delta \in Int
      BY <2>4, RouteKinds, Spans DEF Ranged
    <3>2. route.delta \in Named(Unread(route), "RT")
      BY <2>4, UnreadRoute
    <3>3. Within("RT", route.delta)'
      BY <1>3, <3>1, <3>2, WidenKeeps
    <3>4. job'[c].cmds = <<Write("RT", route.delta)>>
      BY <1>2, <2>4, AskFailsShape, UnreadRoute
    <3>5. \A i \in DOMAIN job'[c].cmds : job'[c].cmds[i] = Write("RT", route.delta)
      BY <3>4
    <3>6. CmdWithin(Write("RT", route.delta))'
      BY <3>1, <3>3 DEF CmdWithin, Write
    <3>7. \A i \in DOMAIN job'[c].cmds : CmdWithin(job[c].cmds[i])'
      BY <3>5, <3>6 DEF CmdWithin, Within
    <3>8. QED
      BY <2>4, <3>7 DEF JobWithin
  <2>5. QED
    BY <2>1, <2>2, <2>3, <2>4
<1>8. QED
  BY <1>4, <1>5, <1>6, <1>7 DEF ValuesWithin

LEMMA NoteMuteWithin ==
  ASSUME Typed, ValuesWithin, NEW c \in Clients, NoteMute(c)
  PROVE  ValuesWithin' /\ Grows
<1>1. /\ job[c].step = "note" /\ job[c].route.how = "on" /\ radio' = radio /\ span' = span
      /\ \/ preMuteAF' = preMuteAF
         \/ preMuteAF' \in 1..255 /\ job[c].cmds = <<preMuteAF'>>
      /\ \A d \in Clients \ {c} : job'[d] = job[d]
      /\ job'[c].step = "send" /\ job'[c].cmds = <<Write("AG", 0)>>
  BY NoteMuteShape
<1>2. Grows
  BY <1>1 DEF Grows, Within
<1>3. RegistersWithin'
  BY <1>1, <1>2, RegistersCarriedOn DEF ValuesWithin
<1>4. ASSUME NEW d \in Clients \ {c} PROVE JobWithin(job[d])'
  BY <1>1, <1>2, OthersCarriedOn
<1>5. /\ Within("AG", 0)
      /\ \A v \in 0..255 : job[c].cmds = <<v>> => Within("AG", v)
  BY <1>1 DEF ValuesWithin, JobWithin
<1>6. RememberedWithin'
  <2>1. CASE preMuteAF' = preMuteAF
    BY <1>2, <2>1, RememberedCarriedOn DEF ValuesWithin
  <2>2. CASE preMuteAF' \in 1..255 /\ job[c].cmds = <<preMuteAF'>>
    <3>1. PICK v \in 0..255 : v = preMuteAF'
      BY <2>2
    <3>2. Within("AG", v)
      BY <1>5, <2>2, <3>1
    <3>3. QED
      BY <1>1, <3>1, <3>2 DEF RememberedWithin, Within
  <2>3. QED
    BY <1>1, <2>1, <2>2
<1>7. JobWithin(job[c])'
  <2>1. Write("AG", 0).reg = "AG" /\ Write("AG", 0).to = 0 /\ SpanOf("AG") = "AG"
    BY Spans DEF Write
  <2>2. \A i \in DOMAIN job'[c].cmds : job'[c].cmds[i] = Write("AG", 0)
    BY <1>1
  <2>3. \A i \in DOMAIN job'[c].cmds : CmdWithin(job[c].cmds[i])'
    BY <1>1, <1>5, <2>1, <2>2 DEF CmdWithin, Within
  <2>4. QED
    BY <1>1, <2>3 DEF JobWithin
<1>8. QED
  BY <1>2, <1>3, <1>4, <1>6, <1>7 DEF ValuesWithin

LEMMA NoteUnmuteWithin ==
  ASSUME Typed, ValuesWithin, NEW c \in Clients, NoteUnmute(c)
  PROVE  ValuesWithin' /\ Grows
<1>1. /\ radio' = radio /\ span' = span /\ preMuteAF' = preMuteAF
      /\ \A d \in Clients \ {c} : job'[d] = job[d]
      /\ \/ job'[c].step = "idle"
         \/ /\ preMuteAF # 0 /\ job'[c].step = "send"
            /\ job'[c].cmds = <<Write("AG", preMuteAF)>>
  BY NoteUnmuteShape
<1>2. Grows
  BY <1>1 DEF Grows, Within
<1>3. RegistersWithin' /\ RememberedWithin'
  BY <1>1, <1>2, RegistersCarriedOn, RememberedCarriedOn DEF ValuesWithin
<1>4. ASSUME NEW d \in Clients \ {c} PROVE JobWithin(job[d])'
  BY <1>1, <1>2, OthersCarriedOn
<1>5. JobWithin(job[c])'
  <2>1. CASE job'[c].step = "idle"
    BY <2>1 DEF JobWithin
  <2>2. CASE /\ preMuteAF # 0 /\ job'[c].step = "send"
             /\ job'[c].cmds = <<Write("AG", preMuteAF)>>
    <3>1. /\ Write("AG", preMuteAF).reg = "AG" /\ Write("AG", preMuteAF).to = preMuteAF
          /\ SpanOf("AG") = "AG"
      BY Spans DEF Write
    <3>2. \A i \in DOMAIN job'[c].cmds : job'[c].cmds[i] = Write("AG", preMuteAF)
      BY <2>2
    <3>3. Within("AG", preMuteAF)
      BY <2>2 DEF ValuesWithin, RememberedWithin
    <3>4. \A i \in DOMAIN job'[c].cmds : CmdWithin(job[c].cmds[i])'
      BY <1>1, <3>1, <3>2, <3>3 DEF CmdWithin, Within
    <3>5. QED
      BY <2>2, <3>4 DEF JobWithin
  <2>3. QED
    BY <1>1, <2>1, <2>2
<1>6. QED
  BY <1>2, <1>3, <1>4, <1>5 DEF ValuesWithin

LEMMA SendWithin ==
  ASSUME Typed, ValuesWithin, NEW c \in Clients, Send(c)
  PROVE  ValuesWithin' /\ Grows
<1>1. /\ job[c].step = "send" /\ 1 \in DOMAIN job[c].cmds /\ job[c].cmds[1] \in Commands
      /\ radio' = Take(radio, job[c].cmds[1]) /\ span' = span /\ preMuteAF' = preMuteAF
      /\ \A d \in Clients \ {c} : job'[d] = job[d]
      /\ \/ job'[c].step = "idle"
         \/ /\ job'[c].step = "send"
            /\ \A i \in DOMAIN job'[c].cmds :
                  i + 1 \in DOMAIN job[c].cmds /\ job'[c].cmds[i] = job[c].cmds[i + 1]
  BY SendShape
<1>2. Grows
  BY <1>1 DEF Grows, Within
<1>3. \A i \in DOMAIN job[c].cmds : CmdWithin(job[c].cmds[i])
  BY <1>1 DEF ValuesWithin, JobWithin
<1>4. PICK cmd \in Commands : cmd = job[c].cmds[1]
  BY <1>1
<1>5. CmdWithin(cmd)
  BY <1>1, <1>3, <1>4
<1>6. CmdWithin(cmd)'
  BY <1>2, <1>5, CmdCarriedOn
<1>7. RegistersWithin' /\ RememberedWithin'
  BY <1>1, <1>2, <1>4, <1>6, RegistersTaken, RememberedCarriedOn DEF ValuesWithin
<1>8. ASSUME NEW d \in Clients \ {c} PROVE JobWithin(job[d])'
  BY <1>1, <1>2, OthersCarriedOn
<1>9. JobWithin(job[c])'
  <2>1. CASE job'[c].step = "idle"
    BY <2>1 DEF JobWithin
  <2>2. CASE /\ job'[c].step = "send"
             /\ \A i \in DOMAIN job'[c].cmds :
                   i + 1 \in DOMAIN job[c].cmds /\ job'[c].cmds[i] = job[c].cmds[i + 1]
    <3>1. \A i \in DOMAIN job'[c].cmds : CmdWithin(job'[c].cmds[i])
      BY <1>3, <2>2
    <3>2. \A i \in DOMAIN job'[c].cmds : CmdWithin(job[c].cmds[i])'
      BY <1>1, <3>1 DEF CmdWithin, Within
    <3>3. QED
      BY <2>2, <3>2 DEF JobWithin
  <2>3. QED
    BY <1>1, <2>1, <2>2
<1>10. QED
  BY <1>2, <1>7, <1>8, <1>9 DEF ValuesWithin

LEMMA SendFailsWithin ==
  ASSUME Typed, ValuesWithin, NEW c \in Clients, SendFails(c)
  PROVE  ValuesWithin' /\ Grows
<1>1. /\ radio' = radio /\ span' = span /\ preMuteAF' = preMuteAF
      /\ \A d \in Clients \ {c} : job'[d] = job[d]
      /\ job'[c].step = "idle"
  BY SendFailsShape
<1>2. Grows
  BY <1>1 DEF Grows, Within
<1>3. RegistersWithin' /\ RememberedWithin'
  BY <1>1, <1>2, RegistersCarriedOn, RememberedCarriedOn DEF ValuesWithin
<1>4. ASSUME NEW d \in Clients \ {c} PROVE JobWithin(job[d])'
  BY <1>1, <1>2, OthersCarriedOn
<1>5. JobWithin(job[c])'
  BY <1>1 DEF JobWithin
<1>6. QED
  BY <1>2, <1>3, <1>4, <1>5 DEF ValuesWithin

LEMMA FrontPanelWithin ==
  ASSUME Typed, Counted, ValuesWithin, FrontPanel
  PROVE  ValuesWithin' /\ Grows
<1>1. PICK cmd \in Commands :
         Fixed(<<cmd>>) \in Routes /\ Widen(Fixed(<<cmd>>)) /\ radio' = Take(radio, cmd)
  BY FrontPanelShape
<1>2. job' = job /\ preMuteAF' = preMuteAF
  BY FrontPanelShape
<1>3. HistoryTyped
  BY DEF Typed
<1>4. Grows
  BY <1>1, <1>3, Growing
<1>5. CmdWithin(cmd)'
  <2>1. Fixed(<<cmd>>).kind = "fixed" /\ Fixed(<<cmd>>).cmds = <<cmd>>
    BY DEF Fixed
  <2>2. \A i \in DOMAIN <<cmd>> : CmdWithin(Fixed(<<cmd>>).cmds[i])'
    BY <1>1, <1>3, <2>1, BeginWithin
  <2>3. 1 \in DOMAIN <<cmd>> /\ Fixed(<<cmd>>).cmds[1] = cmd
    BY <2>1
  <2>4. QED
    BY <2>2, <2>3
<1>6. RegistersWithin' /\ RememberedWithin'
  BY <1>1, <1>2, <1>4, <1>5, RegistersTaken, RememberedCarriedOn DEF ValuesWithin
<1>7. ASSUME NEW d \in Clients PROVE JobWithin(job[d])'
  <2>1. job'[d] = job[d]
    BY <1>2
  <2>2. QED
    BY <1>4, <2>1, OthersCarriedOn
<1>8. QED
  BY <1>4, <1>6, <1>7 DEF ValuesWithin

-----------------------------------------------------------------------------
(* The mute.  While it is known whose AF level it is: no level is asked for *)
(* while muted or muting; a silent receiver's level is remembered; a level  *)
(* remembered that is no longer the operator's belongs to an unmuted        *)
(* receiver, and only mutes that have not yet noted what they read are      *)
(* under way; and a mute under way writes silence or the operator's level,  *)
(* with that level remembered.                                              *)

AFWriters ==
    \A c \in Clients :
        job[c].step = "send" /\ job[c].route.kind # "mute" =>
            \A i \in DOMAIN job[c].cmds :
                job[c].cmds[i].reg = "AG" => MayWriteAF(job[c].route)
LevelsApart ==
    \A c \in Clients : WritesAF(c) => ~muted /\ \A d \in Clients : ~Muting(d)
Silenced == radio["AG"] \in {0, own} /\ (radio["AG"] # own => preMuteAF = own)
StaleHarmless ==
    preMuteAF \notin {0, own} =>
        /\ radio["AG"] = own /\ ~muted
        /\ \A c \in Clients : Muting(c) =>
              own # 0 /\ job[c].route.how = "on" /\ job[c].step \in {"ask", "note"}
NoteKnown(j) ==
    j.step = "note" /\ j.route.how = "on" =>
        j.cmds \in {<<0>>, <<own>>} /\ (j.cmds = <<own>> \/ preMuteAF = own)
SendKnown(j) ==
    j.step = "send" =>
        /\ j.cmds \in {<<Write("AG", 0)>>, <<Write("AG", own)>>}
        /\ preMuteAF = own \/ own = 0
MutesKnown == \A c \in Clients : Muting(c) => NoteKnown(job[c]) /\ SendKnown(job[c])
OwnKnown == LevelsApart /\ Silenced /\ StaleHarmless /\ MutesKnown
MuteHolds == AFWriters /\ (own # Unsure => OwnKnown)

LEMMA MuteHoldsRoundTrip == MuteHolds => MuteRoundTrip
BY DEF MuteHolds, OwnKnown, Silenced, MuteRoundTrip

LEMMA HandlersSame ==
  ASSUME NEW d, job'[d] = job[d]
  PROVE  /\ Muting(d)' <=> Muting(d)
         /\ WritesAF(d)' <=> WritesAF(d)
BY DEF Muting, WritesAF, MayWriteAF

LEMMA WritersDontMute ==
  ASSUME NEW route, MayWriteAF(route)
  PROVE  route.kind # "mute"
BY DEF MayWriteAF

\* Handlers a step leaves alone write as they did.
LEMMA AFWritersAfter ==
  ASSUME AFWriters, NEW c \in Clients, \A d \in Clients \ {c} : job'[d] = job[d],
         job'[c].step = "send" /\ job'[c].route.kind # "mute" =>
            \A i \in DOMAIN job'[c].cmds :
                job'[c].cmds[i].reg = "AG" => MayWriteAF(job'[c].route)
  PROVE  AFWriters'
<1>1. ASSUME NEW d \in Clients, NEW j, j = job'[d], j.step = "send", j.route.kind # "mute",
             NEW i \in DOMAIN j.cmds, j.cmds[i].reg = "AG"
      PROVE  MayWriteAF(j.route)
  <2>1. CASE d = c
    BY <1>1, <2>1
  <2>2. CASE d # c
    <3>1. j = job[d]
      BY <1>1, <2>2
    <3>2. QED
      BY <1>1, <3>1 DEF AFWriters
  <2>3. QED
    BY <2>1, <2>2
<1>2. QED
  BY <1>1 DEF AFWriters, MayWriteAF

\* A request: OwnAfter gives up what it can no longer tell.
LEMMA OwnAfterKnown ==
  ASSUME NEW route, OwnAfter(route) # Unsure
  PROVE  /\ OwnAfter(route) = own /\ own # Unsure
         /\ MayWriteAF(route) => ~muted /\ \A c \in Clients : ~Muting(c)
         /\ route.kind = "mute" =>
               /\ \A c \in Clients : ~WritesAF(c)
               /\ preMuteAF \notin {0, own} => own # 0 /\ (route.how = "off" => muted)
BY DEF OwnAfter

LEMMA AcceptMute ==
  ASSUME Typed, MuteHolds, NEW c \in Clients, NEW asks \in Routes, NEW meant \in Routes,
         Accept(c, asks, meant)
  PROVE  MuteHolds'
<1>1. PICK route \in Resolved :
         /\ own' = OwnAfter(route)
         /\ \/ route = asks /\ route.kind = "fixed" /\ job' = job
            \/ /\ route = asks /\ route.kind = "fixed" /\ job'[c].step = "send"
               /\ job'[c].route = route /\ job'[c].cmds = route.cmds
            \/ /\ route.kind # "fixed" /\ asks.kind # "fixed" /\ job'[c].route = route
               /\ \/ job'[c].step = "ask" /\ (route.kind = "mute" => route.how = "on")
                  \/ /\ job'[c].step = "note" /\ job'[c].cmds = <<>>
                     /\ route.kind = "mute" /\ route.how = "off"
  BY AcceptShape
<1>2. /\ radio' = radio /\ muted' = muted /\ preMuteAF' = preMuteAF
      /\ job[c].step = "idle"
      /\ \A d \in Clients \ {c} : job'[d] = job[d]
  BY AcceptShape
<1>3. AFWriters'
  <2>1. job'[c].step = "send" /\ job'[c].route.kind # "mute" =>
            \A i \in DOMAIN job'[c].cmds :
                job'[c].cmds[i].reg = "AG" => MayWriteAF(job'[c].route)
    BY <1>1, <1>2 DEF MayWriteAF
  <2>2. QED
    BY <1>2, <2>1, AFWritersAfter DEF MuteHolds
<1>4. ASSUME own' # Unsure PROVE OwnKnown'
  <2>1. own' = own /\ own # Unsure
    BY <1>1, <1>4, OwnAfterKnown
  <2>2. /\ MayWriteAF(route) => ~muted /\ \A d \in Clients : ~Muting(d)
        /\ route.kind = "mute" =>
              /\ \A d \in Clients : ~WritesAF(d)
              /\ preMuteAF \notin {0, own} => own # 0 /\ (route.how = "off" => muted)
    BY <1>1, <1>4, OwnAfterKnown
  <2>3. OwnKnown
    BY <2>1 DEF MuteHolds
  <2>4. \A d \in Clients \ {c} : (Muting(d)' <=> Muting(d)) /\ (WritesAF(d)' <=> WritesAF(d))
    BY <1>2, HandlersSame
  <2>5. /\ Muting(c)' => route.kind = "mute" /\ job'[c].route = route
        /\ WritesAF(c)' => MayWriteAF(route)
        /\ Muting(c)' => \/ job'[c].step = "ask" /\ route.how = "on"
                         \/ job'[c].step = "note" /\ route.how = "off"
    BY <1>1, <1>2 DEF Muting, WritesAF, MayWriteAF
  <2>6. LevelsApart'
    <3>1. ASSUME NEW a \in Clients, WritesAF(a)'
          PROVE  ~muted /\ \A d \in Clients : ~Muting(d)'
      <4>1. MayWriteAF(route) \/ WritesAF(a)
        BY <2>4, <2>5, <3>1
      <4>2. ~muted /\ \A d \in Clients : ~Muting(d)
        BY <2>2, <2>3, <4>1 DEF OwnKnown, LevelsApart
      <4>3. ~Muting(c)'
        BY <2>2, <2>5, <2>4, <3>1, WritersDontMute
      <4>4. QED
        BY <2>4, <4>2, <4>3
    <3>2. QED
      BY <1>2, <3>1 DEF LevelsApart
  <2>7. Silenced'
    BY <1>2, <2>1, <2>3 DEF OwnKnown, Silenced
  <2>8. StaleHarmless'
    <3>1. SUFFICES ASSUME preMuteAF \notin {0, own}
                   PROVE  /\ radio["AG"] = own /\ ~muted
                          /\ \A d \in Clients : Muting(d)' =>
                                /\ own # 0 /\ job'[d].route.how = "on"
                                /\ job'[d].step \in {"ask", "note"}
      BY <1>2, <2>1 DEF StaleHarmless
    <3>2. /\ radio["AG"] = own /\ ~muted
          /\ \A d \in Clients : Muting(d) =>
                own # 0 /\ job[d].route.how = "on" /\ job[d].step \in {"ask", "note"}
      BY <2>3, <3>1 DEF OwnKnown, StaleHarmless
    <3>3. Muting(c)' => /\ own # 0 /\ job'[c].route.how = "on"
                        /\ job'[c].step \in {"ask", "note"}
      BY <2>2, <2>5, <3>1, <3>2
    <3>4. QED
      BY <1>2, <2>4, <3>2, <3>3
  <2>9. MutesKnown'
    <3>1. ASSUME NEW d \in Clients, Muting(d)'
          PROVE  NoteKnown(job[d])' /\ SendKnown(job[d])'
      <4>1. CASE d = c
        BY <2>5, <3>1, <4>1 DEF NoteKnown, SendKnown
      <4>2. CASE d # c
        <5>1. Muting(d) /\ job'[d] = job[d]
          BY <1>2, <2>4, <3>1, <4>2
        <5>2. NoteKnown(job[d]) /\ SendKnown(job[d])
          BY <2>3, <5>1 DEF OwnKnown, MutesKnown
        <5>3. QED
          BY <1>2, <2>1, <5>1, <5>2 DEF NoteKnown, SendKnown
      <4>3. QED
        BY <4>1, <4>2
    <3>2. QED
      BY <3>1 DEF MutesKnown
  <2>10. QED
    BY <2>6, <2>7, <2>8, <2>9 DEF OwnKnown
<1>5. QED
  BY <1>3, <1>4 DEF MuteHolds

LEMMA MadeWriter ==
  ASSUME NEW c \in Clients, NEW route, NEW cur, Made(route, cur, job'[c].cmds),
         job'[c].route = route
  PROVE  \A i \in DOMAIN job'[c].cmds :
            job'[c].cmds[i].reg = "AG" => MayWriteAF(job'[c].route)
<1>1. PICK cmd \in Commands :
         job'[c].cmds = <<cmd>> /\ (cmd.reg = "AG" => MayWriteAF(route))
  BY DEF Made
<1>2. \A i \in DOMAIN job'[c].cmds : job'[c].cmds[i] = cmd
  BY <1>1
<1>3. QED
  BY <1>1, <1>2 DEF MayWriteAF

\* A mute reads: what it reads is silence, its level remembered, or the level.
LEMMA AskMute ==
  ASSUME Typed, MuteHolds, NEW c \in Clients, Ask(c)
  PROVE  MuteHolds'
<1>1. /\ job[c].step = "ask"
      /\ radio' = radio /\ muted' = muted /\ preMuteAF' = preMuteAF /\ own' = own
      /\ \A d \in Clients \ {c} : job'[d] = job[d]
  BY AskShape
<1>2. \/ /\ job[c].route.kind = "mute" /\ job'[c].step = "note"
         /\ job'[c].route = job[c].route /\ job'[c].cmds = <<radio["AG"]>>
      \/ job'[c].step = "idle"
      \/ /\ job[c].route.kind # "mute" /\ job'[c].step = "send"
         /\ job'[c].route = job[c].route
         /\ Made(job[c].route, radio[job[c].route.reg], job'[c].cmds)
  BY AskShape
<1>3. AFWriters'
  <2>1. job'[c].step = "send" /\ job'[c].route.kind # "mute" =>
            \A i \in DOMAIN job'[c].cmds :
                job'[c].cmds[i].reg = "AG" => MayWriteAF(job'[c].route)
    BY <1>2, MadeWriter
  <2>2. QED
    BY <1>1, <2>1, AFWritersAfter DEF MuteHolds
<1>4. ASSUME own' # Unsure PROVE OwnKnown'
  <2>1. OwnKnown
    BY <1>1, <1>4 DEF MuteHolds
  <2>2. \A d \in Clients \ {c} : (Muting(d)' <=> Muting(d)) /\ (WritesAF(d)' <=> WritesAF(d))
    BY <1>1, HandlersSame
  <2>3. /\ Muting(c)' => Muting(c) /\ job'[c].step = "note" /\ job'[c].route = job[c].route
                        /\ job'[c].cmds = <<radio["AG"]>>
        /\ WritesAF(c)' => WritesAF(c)
    BY <1>1, <1>2 DEF Muting, WritesAF, MayWriteAF
  <2>4. \A d \in Clients : (Muting(d)' => Muting(d)) /\ (WritesAF(d)' => WritesAF(d))
    BY <2>2, <2>3
  <2>5. LevelsApart'
    BY <1>1, <2>1, <2>4 DEF OwnKnown, LevelsApart
  <2>6. Silenced'
    BY <1>1, <2>1 DEF OwnKnown, Silenced
  <2>7. StaleHarmless'
    <3>1. SUFFICES ASSUME preMuteAF \notin {0, own}
                   PROVE  /\ radio["AG"] = own /\ ~muted
                          /\ \A d \in Clients : Muting(d)' =>
                                /\ own # 0 /\ job'[d].route.how = "on"
                                /\ job'[d].step \in {"ask", "note"}
      BY <1>1 DEF StaleHarmless
    <3>2. /\ radio["AG"] = own /\ ~muted
          /\ \A d \in Clients : Muting(d) =>
                own # 0 /\ job[d].route.how = "on" /\ job[d].step \in {"ask", "note"}
      BY <2>1, <3>1 DEF OwnKnown, StaleHarmless
    <3>3. QED
      BY <1>1, <2>3, <2>4, <3>2
  <2>8. MutesKnown'
    <3>1. ASSUME NEW d \in Clients, Muting(d)'
          PROVE  NoteKnown(job[d])' /\ SendKnown(job[d])'
      <4>1. CASE d = c
        <5>1. PICK ag : ag = radio["AG"]
          OBVIOUS
        <5>2. ag \in {0, own} /\ (ag # own => preMuteAF = own)
          BY <2>1, <5>1 DEF OwnKnown, Silenced
        <5>3. job'[c].step = "note" /\ job'[c].cmds = <<ag>>
          BY <2>3, <3>1, <4>1, <5>1
        <5>4. QED
          BY <1>1, <4>1, <5>2, <5>3 DEF NoteKnown, SendKnown
      <4>2. CASE d # c
        <5>1. Muting(d) /\ job'[d] = job[d]
          BY <1>1, <2>4, <3>1, <4>2
        <5>2. NoteKnown(job[d]) /\ SendKnown(job[d])
          BY <2>1, <5>1 DEF OwnKnown, MutesKnown
        <5>3. QED
          BY <1>1, <5>1, <5>2 DEF NoteKnown, SendKnown
      <4>3. QED
        BY <4>1, <4>2
    <3>2. QED
      BY <3>1 DEF MutesKnown
  <2>9. QED
    BY <2>5, <2>6, <2>7, <2>8 DEF OwnKnown
<1>5. QED
  BY <1>3, <1>4 DEF MuteHolds

LEMMA AskFailsMute ==
  ASSUME Typed, MuteHolds, NEW c \in Clients, AskFails(c)
  PROVE  MuteHolds'
<1>1. own' = Unsure /\ \A d \in Clients \ {c} : job'[d] = job[d]
  BY AskFailsShape
<1>2. \/ job[c].route.kind = "mute" /\ job'[c].step = "note"
      \/ job'[c].step = "idle"
      \/ /\ job[c].route.kind = "rit" /\ job'[c].step = "send"
         /\ job'[c].route = job[c].route /\ Made(job[c].route, 0, job'[c].cmds)
  BY AskFailsShape
<1>3. job'[c].step = "send" =>
          \A i \in DOMAIN job'[c].cmds :
              job'[c].cmds[i].reg = "AG" => MayWriteAF(job'[c].route)
  BY <1>2, MadeWriter
<1>4. AFWriters'
  BY <1>1, <1>3, AFWritersAfter DEF MuteHolds
<1>5. QED
  BY <1>1, <1>4 DEF MuteHolds

LEMMA SendFailsMute ==
  ASSUME Typed, MuteHolds, NEW c \in Clients, SendFails(c)
  PROVE  MuteHolds'
<1>1. /\ own' = Unsure /\ job'[c].step = "idle"
      /\ \A d \in Clients \ {c} : job'[d] = job[d]
  BY SendFailsShape
<1>2. AFWriters'
  BY <1>1, AFWritersAfter DEF MuteHolds
<1>3. QED
  BY <1>1, <1>2 DEF MuteHolds

\* A mute notes what it read: the operator's level is remembered, or it is zero.
LEMMA NoteMuteMute ==
  ASSUME Typed, MuteHolds, NEW c \in Clients, NoteMute(c)
  PROVE  MuteHolds'
<1>1. /\ job[c].step = "note" /\ job[c].route.kind = "mute" /\ job[c].route.how = "on"
      /\ radio' = radio /\ own' = own /\ muted' = TRUE
      /\ \/ job[c].cmds \in {<<>>, <<0>>} /\ preMuteAF' = preMuteAF
         \/ preMuteAF' \in 1..255 /\ job[c].cmds = <<preMuteAF'>>
      /\ \A d \in Clients \ {c} : job'[d] = job[d]
      /\ job'[c].step = "send" /\ job'[c].route = job[c].route
      /\ job'[c].cmds = <<Write("AG", 0)>>
  BY NoteMuteShape
<1>2. AFWriters'
  BY <1>1, AFWritersAfter DEF MuteHolds
<1>3. ASSUME own' # Unsure PROVE OwnKnown'
  <2>1. OwnKnown
    BY <1>1, <1>3 DEF MuteHolds
  <2>2. Muting(c)
    BY <1>1 DEF Muting
  <2>3. \A d \in Clients : ~WritesAF(d)
    BY <2>1, <2>2 DEF OwnKnown, LevelsApart
  <2>4. job[c].cmds \in {<<0>>, <<own>>} /\ (job[c].cmds = <<own>> \/ preMuteAF = own)
    BY <1>1, <2>1, <2>2 DEF OwnKnown, MutesKnown, NoteKnown
  <2>5. preMuteAF' = own \/ (own = 0 /\ preMuteAF' = preMuteAF)
    <3>1. PICK p : p = preMuteAF'
      OBVIOUS
    <3>2. \/ job[c].cmds \in {<<>>, <<0>>} /\ p = preMuteAF
          \/ p # 0 /\ job[c].cmds = <<p>>
      <4>1. \A n \in 1..255 : n # 0
        OBVIOUS
      <4>2. \/ job[c].cmds \in {<<>>, <<0>>} /\ p = preMuteAF
            \/ p \in 1..255 /\ job[c].cmds = <<p>>
        BY <1>1, <3>1, Zenon
      <4>3. QED
        BY <4>1, <4>2, Zenon
    <3>3. ASSUME NEW q, job[c].cmds = <<q>>, q = own \/ (q = 0 /\ preMuteAF = own)
          PROVE  p = own \/ (own = 0 /\ p = preMuteAF)
      <4>1. (q = 0 /\ p = preMuteAF) \/ (p # 0 /\ q = p)
        BY <3>2, <3>3
      <4>2. QED
        BY <3>3, <4>1
    <3>4. job[c].cmds = <<own>> \/ (job[c].cmds = <<0>> /\ preMuteAF = own)
      BY <2>4
    <3>5. p = own \/ (own = 0 /\ p = preMuteAF)
      BY <3>3, <3>4
    <3>6. QED
      BY <3>1, <3>5
  <2>6. preMuteAF = own => preMuteAF' = own
    BY <2>5
  <2>7. \A d \in Clients \ {c} : (Muting(d)' <=> Muting(d)) /\ (WritesAF(d)' <=> WritesAF(d))
    BY <1>1, HandlersSame
  <2>8. ~WritesAF(c)'
    BY <1>1, WritersDontMute DEF WritesAF, MayWriteAF
  <2>9. LevelsApart'
    BY <2>3, <2>7, <2>8 DEF LevelsApart
  <2>10. Silenced'
    <3>1. radio["AG"] \in {0, own} /\ (radio["AG"] # own => preMuteAF = own)
      BY <2>1 DEF OwnKnown, Silenced
    <3>2. QED
      BY <1>1, <2>6, <3>1 DEF Silenced
  <2>11. StaleHarmless'
    <3>1. preMuteAF' \in {0, own}
      <4>1. CASE preMuteAF' = own
        BY <4>1
      <4>2. CASE own = 0 /\ preMuteAF' = preMuteAF
        BY <2>1, <2>2, <4>2 DEF OwnKnown, StaleHarmless
      <4>3. QED
        BY <2>5, <4>1, <4>2
    <3>2. QED
      BY <1>1, <3>1 DEF StaleHarmless
  <2>12. MutesKnown'
    <3>1. ASSUME NEW d \in Clients, Muting(d)'
          PROVE  NoteKnown(job[d])' /\ SendKnown(job[d])'
      <4>1. CASE d = c
        BY <1>1, <2>5, <4>1 DEF NoteKnown, SendKnown
      <4>2. CASE d # c
        <5>1. Muting(d) /\ job'[d] = job[d]
          BY <1>1, <2>7, <3>1, <4>2
        <5>2. NoteKnown(job[d]) /\ SendKnown(job[d])
          BY <2>1, <5>1 DEF OwnKnown, MutesKnown
        <5>3. QED
          BY <1>1, <2>6, <5>1, <5>2 DEF NoteKnown, SendKnown
      <4>3. QED
        BY <4>1, <4>2
    <3>2. QED
      BY <3>1 DEF MutesKnown
  <2>13. QED
    BY <2>9, <2>10, <2>11, <2>12 DEF OwnKnown
<1>4. QED
  BY <1>2, <1>3 DEF MuteHolds

\* An unmute under way means that what is remembered is the operator's level.
LEMMA NoteUnmuteMute ==
  ASSUME Typed, MuteHolds, NEW c \in Clients, NoteUnmute(c)
  PROVE  MuteHolds'
<1>1. /\ job[c].step = "note" /\ job[c].route.kind = "mute" /\ job[c].route.how = "off"
      /\ radio' = radio /\ own' = own /\ muted' = FALSE /\ preMuteAF' = preMuteAF
      /\ \A d \in Clients \ {c} : job'[d] = job[d]
      /\ \/ job'[c].step = "idle"
         \/ /\ preMuteAF # 0 /\ job'[c].step = "send" /\ job'[c].route = job[c].route
            /\ job'[c].cmds = <<Write("AG", preMuteAF)>>
  BY NoteUnmuteShape
<1>2. AFWriters'
  BY <1>1, AFWritersAfter DEF MuteHolds
<1>3. ASSUME own' # Unsure PROVE OwnKnown'
  <2>1. OwnKnown
    BY <1>1, <1>3 DEF MuteHolds
  <2>2. Muting(c)
    BY <1>1 DEF Muting
  <2>3. \A d \in Clients : ~WritesAF(d)
    BY <2>1, <2>2 DEF OwnKnown, LevelsApart
  <2>4. preMuteAF \in {0, own}
    BY <1>1, <2>1, <2>2 DEF OwnKnown, StaleHarmless
  <2>5. \A d \in Clients \ {c} : (Muting(d)' <=> Muting(d)) /\ (WritesAF(d)' <=> WritesAF(d))
    BY <1>1, HandlersSame
  <2>6. ~WritesAF(c)'
    BY <1>1, WritersDontMute DEF WritesAF, MayWriteAF
  <2>7. LevelsApart'
    BY <2>3, <2>5, <2>6 DEF LevelsApart
  <2>8. Silenced'
    BY <1>1, <2>1 DEF OwnKnown, Silenced
  <2>9. StaleHarmless'
    BY <1>1, <2>4 DEF StaleHarmless
  <2>10. MutesKnown'
    <3>1. ASSUME NEW d \in Clients, Muting(d)'
          PROVE  NoteKnown(job[d])' /\ SendKnown(job[d])'
      <4>1. CASE d = c
        <5>1. job'[c].step # "idle"
          BY <3>1, <4>1 DEF Muting
        <5>2. preMuteAF = own /\ job'[c].step = "send" /\ job'[c].cmds = <<Write("AG", own)>>
          BY <1>1, <2>4, <5>1
        <5>3. QED
          BY <1>1, <4>1, <5>2 DEF NoteKnown, SendKnown
      <4>2. CASE d # c
        <5>1. Muting(d) /\ job'[d] = job[d]
          BY <1>1, <2>5, <3>1, <4>2
        <5>2. NoteKnown(job[d]) /\ SendKnown(job[d])
          BY <2>1, <5>1 DEF OwnKnown, MutesKnown
        <5>3. QED
          BY <1>1, <5>1, <5>2 DEF NoteKnown, SendKnown
      <4>3. QED
        BY <4>1, <4>2
    <3>2. QED
      BY <3>1 DEF MutesKnown
  <2>11. QED
    BY <2>7, <2>8, <2>9, <2>10 DEF OwnKnown
<1>4. QED
  BY <1>2, <1>3 DEF MuteHolds

\* A level of the operator's own: nothing of the mute is left.
LEMMA LevelTaken ==
  ASSUME ~muted', radio'["AG"] = own', \A d \in Clients : ~Muting(d)'
  PROVE  OwnKnown'
<1>1. LevelsApart'
  BY DEF LevelsApart
<1>2. Silenced'
  BY DEF Silenced
<1>3. StaleHarmless'
  BY DEF StaleHarmless
<1>4. MutesKnown'
  BY DEF MutesKnown
<1>5. QED
  BY <1>1, <1>2, <1>3, <1>4 DEF OwnKnown

LEMMA SendMute ==
  ASSUME Typed, MuteHolds, NEW c \in Clients, Send(c)
  PROVE  MuteHolds'
<1>1. /\ job[c].step = "send" /\ 1 \in DOMAIN job[c].cmds /\ job[c].cmds[1] \in Commands
      /\ radio' = Take(radio, job[c].cmds[1])
      /\ own' = IF WritesAF(c) /\ own # Unsure THEN radio'["AG"] ELSE own
      /\ muted' = muted /\ preMuteAF' = preMuteAF
      /\ \A d \in Clients \ {c} : job'[d] = job[d]
      /\ \/ job'[c].step = "idle"
         \/ /\ job'[c].step = "send" /\ job'[c].route = job[c].route
            /\ Len(job[c].cmds) # 1
            /\ \A i \in DOMAIN job'[c].cmds :
                  i + 1 \in DOMAIN job[c].cmds /\ job'[c].cmds[i] = job[c].cmds[i + 1]
  BY SendShape
<1>2. PICK cmd \in Commands : cmd = job[c].cmds[1]
  BY <1>1
<1>3. radio'["AG"] = IF cmd.reg = "AG" THEN cmd.to ELSE radio["AG"]
  <2>1. radio \in [Registers -> Int]
    BY DEF Typed, RadioTyped
  <2>2. QED
    BY <1>1, <1>2, <2>1, Taken
<1>4. AFWriters'
  <2>1. job[c].route.kind # "mute" =>
            \A i \in DOMAIN job[c].cmds :
                job[c].cmds[i].reg = "AG" => MayWriteAF(job[c].route)
    BY <1>1 DEF MuteHolds, AFWriters
  <2>2. job'[c].step = "send" /\ job'[c].route.kind # "mute" =>
            \A i \in DOMAIN job'[c].cmds :
                job'[c].cmds[i].reg = "AG" => MayWriteAF(job'[c].route)
    BY <1>1, <2>1 DEF MayWriteAF
  <2>3. QED
    BY <1>1, <2>2, AFWritersAfter DEF MuteHolds
<1>5. /\ \A d \in Clients \ {c} : (Muting(d)' <=> Muting(d)) /\ (WritesAF(d)' <=> WritesAF(d))
      /\ (Muting(c)' => Muting(c)) /\ (WritesAF(c)' => WritesAF(c))
  <2>1. \A d \in Clients \ {c} : (Muting(d)' <=> Muting(d)) /\ (WritesAF(d)' <=> WritesAF(d))
    BY <1>1, HandlersSame
  <2>2. (Muting(c)' => Muting(c)) /\ (WritesAF(c)' => WritesAF(c))
    BY <1>1 DEF Muting, WritesAF, MayWriteAF
  <2>3. QED
    BY <2>1, <2>2
<1>6. \A d \in Clients : (Muting(d)' => Muting(d)) /\ (WritesAF(d)' => WritesAF(d))
  BY <1>5
<1>7. ASSUME own' # Unsure PROVE OwnKnown'
  <2>1. own # Unsure /\ OwnKnown
    BY <1>1, <1>7 DEF MuteHolds
  <2>2. CASE WritesAF(c)
    <3>1. ~muted /\ \A d \in Clients : ~Muting(d)
      BY <2>1, <2>2 DEF OwnKnown, LevelsApart
    <3>2. own' = radio'["AG"]
      BY <1>1, <2>1, <2>2
    <3>3. QED
      BY <1>1, <1>6, <3>1, <3>2, LevelTaken
  <2>3. CASE ~WritesAF(c) /\ Muting(c)
    <3>1. own' = own
      BY <1>1, <2>3
    <3>2. /\ job[c].cmds \in {<<Write("AG", 0)>>, <<Write("AG", own)>>}
          /\ preMuteAF = own \/ own = 0
      BY <1>1, <2>1, <2>3 DEF OwnKnown, MutesKnown, SendKnown
    <3>3. Len(job[c].cmds) = 1 /\ cmd \in {Write("AG", 0), Write("AG", own)}
      BY <1>2, <3>2
    <3>4. cmd.reg = "AG" /\ cmd.to \in {0, own}
      BY <3>3 DEF Write
    <3>5. PICK ag : ag = radio'["AG"] /\ ag \in {0, own}
      BY <1>3, <3>4
    <3>6. job'[c].step = "idle"
      BY <1>1, <3>3
    <3>7. ~Muting(c)' /\ ~WritesAF(c)'
      BY <3>6 DEF Muting, WritesAF
    <3>8. LevelsApart'
      BY <1>1, <1>6, <2>1 DEF OwnKnown, LevelsApart
    <3>9. Silenced'
      <4>1. ag \in {0, own} /\ (ag # own => preMuteAF = own)
        BY <3>2, <3>5
      <4>2. QED
        BY <1>1, <3>1, <3>5, <4>1 DEF Silenced
    <3>10. StaleHarmless'
      <4>1. preMuteAF \in {0, own}
        BY <1>1, <2>1, <2>3 DEF OwnKnown, StaleHarmless
      <4>2. QED
        BY <1>1, <3>1, <4>1 DEF StaleHarmless
    <3>11. MutesKnown'
      <4>1. ASSUME NEW d \in Clients, Muting(d)'
            PROVE  NoteKnown(job[d])' /\ SendKnown(job[d])'
        <5>1. d # c
          BY <3>7, <4>1
        <5>2. Muting(d) /\ job'[d] = job[d]
          BY <1>1, <1>6, <4>1, <5>1
        <5>3. NoteKnown(job[d]) /\ SendKnown(job[d])
          BY <2>1, <5>2 DEF OwnKnown, MutesKnown
        <5>4. QED
          BY <1>1, <3>1, <5>2, <5>3 DEF NoteKnown, SendKnown
      <4>2. QED
        BY <4>1 DEF MutesKnown
    <3>12. QED
      BY <3>8, <3>9, <3>10, <3>11 DEF OwnKnown
  <2>4. CASE ~WritesAF(c) /\ ~Muting(c)
    <3>1. own' = own
      BY <1>1, <2>4
    <3>2. job[c].route.kind # "mute" /\ ~MayWriteAF(job[c].route)
      BY <1>1, <2>4 DEF Muting, WritesAF
    <3>3. cmd.reg # "AG"
      BY <1>1, <1>2, <3>2 DEF MuteHolds, AFWriters
    <3>4. radio'["AG"] = radio["AG"]
      BY <1>3, <3>3
    <3>5. LevelsApart'
      BY <1>1, <1>6, <2>1 DEF OwnKnown, LevelsApart
    <3>6. Silenced'
      BY <1>1, <2>1, <3>1, <3>4 DEF OwnKnown, Silenced
    <3>7. ASSUME NEW d \in Clients, Muting(d)' PROVE Muting(d) /\ job'[d] = job[d]
      BY <1>1, <1>6, <2>4, <3>7
    <3>8. StaleHarmless'
      <4>1. SUFFICES ASSUME preMuteAF \notin {0, own}
                     PROVE  /\ radio["AG"] = own /\ ~muted
                            /\ \A d \in Clients : Muting(d)' =>
                                  /\ own # 0 /\ job'[d].route.how = "on"
                                  /\ job'[d].step \in {"ask", "note"}
        BY <1>1, <3>1, <3>4 DEF StaleHarmless
      <4>2. /\ radio["AG"] = own /\ ~muted
            /\ \A d \in Clients : Muting(d) =>
                  own # 0 /\ job[d].route.how = "on" /\ job[d].step \in {"ask", "note"}
        BY <2>1, <4>1 DEF OwnKnown, StaleHarmless
      <4>3. QED
        BY <3>7, <4>2
    <3>9. MutesKnown'
      <4>1. ASSUME NEW d \in Clients, Muting(d)'
            PROVE  NoteKnown(job[d])' /\ SendKnown(job[d])'
        <5>1. Muting(d) /\ job'[d] = job[d]
          BY <3>7, <4>1
        <5>2. NoteKnown(job[d]) /\ SendKnown(job[d])
          BY <2>1, <5>1 DEF OwnKnown, MutesKnown
        <5>3. QED
          BY <1>1, <3>1, <5>1, <5>2 DEF NoteKnown, SendKnown
      <4>2. QED
        BY <4>1 DEF MutesKnown
    <3>10. QED
      BY <3>5, <3>6, <3>8, <3>9 DEF OwnKnown
  <2>5. QED
    BY <2>2, <2>3, <2>4
<1>8. QED
  BY <1>4, <1>7 DEF MuteHolds

\* What the mute knows depends on these alone.
LEMMA MuteSame ==
  ASSUME MuteHolds, job' = job, muted' = muted, preMuteAF' = preMuteAF, own' = own,
         radio'["AG"] = radio["AG"]
  PROVE  MuteHolds'
<1>1. AFWriters'
  BY DEF MuteHolds, AFWriters, MayWriteAF
<1>2. \A d \in Clients : (Muting(d)' <=> Muting(d)) /\ (WritesAF(d)' <=> WritesAF(d))
  <2>1. \A d \in Clients : job'[d] = job[d]
    OBVIOUS
  <2>2. QED
    BY <2>1, HandlersSame
<1>3. ASSUME OwnKnown PROVE OwnKnown'
  <2>1. LevelsApart' /\ Silenced' /\ StaleHarmless'
    BY <1>2, <1>3 DEF OwnKnown, LevelsApart, Silenced, StaleHarmless
  <2>2. MutesKnown'
    BY <1>2, <1>3 DEF OwnKnown, MutesKnown, NoteKnown, SendKnown
  <2>3. QED
    BY <2>1, <2>2 DEF OwnKnown
<1>4. QED
  BY <1>1, <1>3 DEF MuteHolds

LEMMA FrontPanelMute ==
  ASSUME Typed, Counted, MuteHolds, FrontPanel
  PROVE  MuteHolds'
<1>1. PICK cmd \in Commands :
         /\ radio' = Take(radio, cmd)
         /\ own' = IF OwnAfter(Fixed(<<cmd>>)) = Unsure THEN Unsure
                   ELSE IF cmd.reg = "AG" THEN cmd.to ELSE own
  BY FrontPanelShape
<1>2. job' = job /\ muted' = muted /\ preMuteAF' = preMuteAF
  BY FrontPanelShape
<1>3. radio'["AG"] = IF cmd.reg = "AG" THEN cmd.to ELSE radio["AG"]
  <2>1. radio \in [Registers -> Int]
    BY DEF Typed, RadioTyped
  <2>2. QED
    BY <1>1, <2>1, Taken
<1>4. AFWriters'
  BY <1>2 DEF MuteHolds, AFWriters, MayWriteAF
<1>5. \A d \in Clients : Muting(d)' <=> Muting(d)
  <2>1. \A d \in Clients : job'[d] = job[d]
    BY <1>2
  <2>2. QED
    BY <2>1, HandlersSame
<1>6. ASSUME own' # Unsure PROVE OwnKnown'
  <2>1. OwnAfter(Fixed(<<cmd>>)) # Unsure
    BY <1>1, <1>6
  <2>2. own # Unsure /\ (MayWriteAF(Fixed(<<cmd>>)) => ~muted /\ \A d \in Clients : ~Muting(d))
    BY <2>1, OwnAfterKnown
  <2>3. CASE cmd.reg = "AG"
    <3>1. MayWriteAF(Fixed(<<cmd>>))
      <4>1. Fixed(<<cmd>>).kind = "fixed" /\ Fixed(<<cmd>>).cmds = <<cmd>>
        BY DEF Fixed
      <4>2. 1 \in DOMAIN <<cmd>> /\ <<cmd>>[1] = cmd
        OBVIOUS
      <4>3. QED
        BY <2>3, <4>1, <4>2 DEF MayWriteAF
    <3>2. own' = radio'["AG"]
      BY <1>1, <1>3, <2>1, <2>3
    <3>3. QED
      BY <1>2, <1>5, <2>2, <3>1, <3>2, LevelTaken
  <2>4. CASE cmd.reg # "AG"
    <3>1. own' = own /\ radio'["AG"] = radio["AG"]
      BY <1>1, <1>3, <2>1, <2>4
    <3>2. MuteHolds'
      BY <1>2, <3>1, MuteSame
    <3>3. QED
      BY <1>6, <3>2 DEF MuteHolds
  <2>5. QED
    BY <2>3, <2>4
<1>7. QED
  BY <1>4, <1>6 DEF MuteHolds

-----------------------------------------------------------------------------
(* RigRoutes together                                                      *)

RigHolds == Typed /\ Counted /\ ValuesWithin /\ MuteHolds

LEMMA RigSafe == RigHolds => TypeOK /\ WithinAsked /\ MuteRoundTrip
BY TypedIsTypeOK, RegistersWithinAsked, MuteHoldsRoundTrip DEF RigHolds, ValuesWithin

LEMMA RigHoldsAtFirst == RigInit => RigHolds
<1> SUFFICES ASSUME RigInit PROVE RigHolds
  OBVIOUS
<1>1. /\ radio = InitialRadio /\ job = [c \in Clients |-> Idle]
      /\ muted = FALSE /\ preMuteAF = 0
      /\ menu \in DOMAIN Menus /\ asked = 0 /\ faults = 0
      /\ span = [g \in Ranged |->
            [named |-> {radio[r] : r \in {q \in Registers : SpanOf(q) = g}},
             down |-> 0, up |-> 0]]
      /\ own = radio["AG"]
  BY DEF RigInit
<1>2. radio \in [Registers -> Int] /\ radio["AG"] = 50 /\ 50 \in 0..255
  <2>1. "AG" \in Registers
    BY DEF Registers
  <2>2. QED
    BY <1>1, <2>1 DEF InitialRadio, LSB
<1>3. \A c \in Clients : job[c] = Idle
  BY <1>1
<1>4. Typed
  <2>1. RadioTyped
    BY <1>2 DEF RadioTyped
  <2>2. ReceiverTyped
    <3>1. 0 \in 0..255
      OBVIOUS
    <3>2. QED
      BY <1>1, <3>1 DEF ReceiverTyped
  <2>3. JobsTyped
    BY <1>1, IdleShape DEF JobsTyped
  <2>4. span \in [Ranged -> Spanned]
    <3>1. ASSUME NEW g \in Ranged
          PROVE  {radio[r] : r \in {q \in Registers : SpanOf(q) = g}} \in SUBSET Int
      BY <1>2
    <3>2. 0 \in Nat
      OBVIOUS
    <3>3. QED
      BY <1>1, <3>1, <3>2 DEF Spanned
  <2>5. own \in {Unsure} \cup 0..255
    BY <1>1, <1>2
  <2>6. QED
    BY <2>1, <2>2, <2>3, <2>4, <2>5 DEF Typed, HistoryTyped
<1>5. Counted
  <2>1. Menus[menu].max \in Nat /\ MaxFaults \in Nat
    BY <1>1, Assumed
  <2>2. 0 \in 0..Menus[menu].max /\ 0 \in 0..MaxFaults
    BY <2>1
  <2>3. QED
    BY <1>1, <2>2 DEF Counted
<1>6. RegistersWithin
  <2>1. SUFFICES ASSUME NEW r \in Registers, SpanOf(r) \in Ranged
                 PROVE  Within(SpanOf(r), radio[r])
    BY DEF RegistersWithin
  <2>2. PICK v \in Int : v = radio[r]
    BY <1>2
  <2>3. /\ span[SpanOf(r)].down = 0 /\ span[SpanOf(r)].up = 0
        /\ v \in span[SpanOf(r)].named
    BY <1>1, <2>1, <2>2
  <2>4. v - 0 <= v /\ v <= v + 0
    BY <2>2
  <2>5. QED
    BY <2>2, <2>3, <2>4 DEF Within
<1>7. ValuesWithin
  BY <1>1, <1>3, <1>6, IdleShape DEF ValuesWithin, RememberedWithin, JobWithin
<1>8. MuteHolds
  <2>1. \A c \in Clients : ~Muting(c) /\ ~WritesAF(c)
    BY <1>3, IdleShape DEF Muting, WritesAF
  <2>2. AFWriters
    BY <1>3, IdleShape DEF AFWriters
  <2>3. QED
    BY <1>1, <2>1, <2>2
       DEF MuteHolds, OwnKnown, LevelsApart, Silenced, StaleHarmless, MutesKnown
<1>9. QED
  BY <1>4, <1>5, <1>7, <1>8 DEF RigHolds

LEMMA CountedAfter ==
  ASSUME Counted, menu' = menu,
         asked' = asked \/ (asked < Menus[menu].max /\ asked' = asked + 1),
         faults' = faults \/ (faults < MaxFaults /\ faults' = faults + 1)
  PROVE  Counted'
<1>1. PICK m \in Nat : m = Menus[menu].max
  BY Assumed DEF Counted
<1>2. PICK f \in Nat : f = MaxFaults
  BY Assumed
<1>3. ASSUME NEW k \in Nat, NEW n \in 0..k, NEW p, p = n \/ (n < k /\ p = n + 1)
      PROVE  p \in 0..k
  BY <1>3
<1>4. asked \in 0..m /\ faults \in 0..f
  BY <1>1, <1>2 DEF Counted
<1>5. asked' \in 0..m
  BY <1>1, <1>3, <1>4
<1>6. faults' \in 0..f
  BY <1>2, <1>3, <1>4
<1>7. QED
  BY <1>1, <1>2, <1>5, <1>6 DEF Counted

\* A handler's step.
LEMMA ServeHolds ==
  ASSUME RigHolds, NEW c \in Clients, Serve(c)
  PROVE  RigHolds' /\ Grows
<1>1. Typed /\ Counted /\ ValuesWithin /\ MuteHolds
  BY DEF RigHolds
<1>2. Counted'
  <2>1. /\ menu' = menu /\ asked' = asked
        /\ faults' = faults \/ (faults < MaxFaults /\ faults' = faults + 1)
    BY DEF Serve, Ask, AskFails, NoteMute, NoteUnmute, Send, SendFails, boundVars
  <2>2. QED
    BY <1>1, <2>1, CountedAfter
<1>3. Typed' /\ ValuesWithin' /\ MuteHolds' /\ Grows
  <2>1. CASE Ask(c)
    BY <1>1, <2>1, AskShape, AskWithin, AskMute
  <2>2. CASE AskFails(c)
    BY <1>1, <2>2, AskFailsShape, AskFailsWithin, AskFailsMute
  <2>3. CASE NoteMute(c)
    BY <1>1, <2>3, NoteMuteShape, NoteMuteWithin, NoteMuteMute
  <2>4. CASE NoteUnmute(c)
    BY <1>1, <2>4, NoteUnmuteShape, NoteUnmuteWithin, NoteUnmuteMute
  <2>5. CASE Send(c)
    BY <1>1, <2>5, SendShape, SendWithin, SendMute
  <2>6. CASE SendFails(c)
    BY <1>1, <2>6, SendFailsShape, SendFailsWithin, SendFailsMute
  <2>7. QED
    BY <2>1, <2>2, <2>3, <2>4, <2>5, <2>6 DEF Serve
<1>4. QED
  BY <1>2, <1>3 DEF RigHolds

\* A request, or a program behind the proxy, comes in.
LEMMA RequestHolds ==
  ASSUME RigHolds, NEW c \in Clients, Request(c)
  PROVE  RigHolds' /\ Grows
<1>1. Typed /\ Counted /\ ValuesWithin /\ MuteHolds
  BY DEF RigHolds
<1>2. PICK route \in Menus[menu].routes : Accept(c, route, route)
  BY DEF Request, Begin
<1>3. route \in Routes
  BY <1>1, Assumed DEF Counted
<1>4. route.kind = "fixed" => \A i \in DOMAIN route.cmds : CmdWithin(route.cmds[i])'
  <2>1. ASSUME route.kind = "fixed" PROVE Widen(route)
    BY <1>1, <1>2, <1>3, <2>1, AcceptShape
  <2>2. QED
    BY <1>1, <1>3, <2>1, BeginWithin DEF Typed
<1>5. Typed' /\ ValuesWithin' /\ MuteHolds' /\ Grows
  BY <1>1, <1>2, <1>3, <1>4, AcceptShape, AcceptWithin, AcceptMute
<1>6. menu' = menu /\ faults' = faults
  BY <1>2 DEF Accept
<1>7. asked < Menus[menu].max /\ asked' = asked + 1
  BY DEF Request
<1>8. Counted'
  BY <1>1, <1>6, <1>7, CountedAfter
<1>9. QED
  BY <1>5, <1>8 DEF RigHolds

LEMMA FrontPanelHolds ==
  ASSUME RigHolds, FrontPanel
  PROVE  RigHolds' /\ Grows
<1>1. Typed /\ Counted /\ ValuesWithin /\ MuteHolds
  BY DEF RigHolds
<1>2. Typed' /\ ValuesWithin' /\ MuteHolds' /\ Grows
  BY <1>1, FrontPanelShape, FrontPanelWithin, FrontPanelMute
<1>3. menu' = menu /\ faults' = faults /\ asked < Menus[menu].max /\ asked' = asked + 1
  BY DEF FrontPanel
<1>4. Counted'
  BY <1>1, <1>3, CountedAfter
<1>5. QED
  BY <1>2, <1>4 DEF RigHolds

\* A step that leaves the radio and the handlers alone, but for the faults.
LEMMA RigAlone ==
  ASSUME RigHolds, UNCHANGED <<radio, job, receiverVars, menu, asked, histVars>>,
         faults' = faults \/ (faults < MaxFaults /\ faults' = faults + 1)
  PROVE  RigHolds' /\ Grows
<1>1. /\ radio' = radio /\ job' = job /\ muted' = muted /\ preMuteAF' = preMuteAF
      /\ menu' = menu /\ asked' = asked /\ span' = span /\ own' = own
  BY DEF receiverVars, histVars
<1>2. Typed' /\ Counted'
  <2>1. Typed'
    BY <1>1 DEF RigHolds, Typed, RadioTyped, ReceiverTyped, HistoryTyped, JobsTyped
  <2>2. Counted'
    BY <1>1, CountedAfter DEF RigHolds
  <2>3. QED
    BY <2>1, <2>2
<1>3. Grows
  BY <1>1 DEF Grows, Within
<1>4. ValuesWithin'
  <2>1. ASSUME NEW d \in Clients PROVE JobWithin(job[d])'
    <3>1. job'[d] = job[d]
      BY <1>1
    <3>2. QED
      BY <1>3, <3>1, OthersCarriedOn DEF RigHolds
  <2>2. RegistersWithin' /\ RememberedWithin'
    BY <1>1, <1>3, RegistersCarriedOn, RememberedCarriedOn DEF RigHolds, ValuesWithin
  <2>3. QED
    BY <2>1, <2>2 DEF ValuesWithin
<1>5. MuteHolds'
  BY <1>1, MuteSame DEF RigHolds
<1>6. QED
  BY <1>2, <1>3, <1>4, <1>5 DEF RigHolds

LEMMA RigUnchanged ==
  ASSUME RigHolds, UNCHANGED rigVars
  PROVE  RigHolds' /\ Grows
BY RigAlone DEF rigVars, boundVars

-----------------------------------------------------------------------------
(* The panel.  Every dial reading on its way to it, and the one it shows,   *)
(* is within what was asked for, so that a click of the tuning, a step from *)
(* the frequency shown, is too.                                            *)

Answers == {None} \cup {<<x>> : x \in Seen}
TaskRecords ==
    {t \in [kind : {"none", "poll", "button", "key", "tune"},
            step : {"done", "acting", "status", "back"}, got : Answers] :
        t.step = "acting" => t.kind # "poll"}
PanelTyped ==
    /\ snap \in Seen /\ reading \in {None} \cup {<<v>> : v \in Int}
    /\ task \in [Clients -> TaskRecords]
    /\ view \in Answers /\ wasTx \in BOOLEAN /\ keyed \in BOOLEAN
    /\ net \in {"up", "down"}
AnswerWithin(got) == got # None => Within("FA", got[1].freq)
PanelWithin ==
    /\ Within("FA", snap.freq)
    /\ reading # None => Within("FA", reading[1])
    /\ AnswerWithin(view)
    /\ \A c \in Clients : AnswerWithin(task[c].got)
PanelInv == RigHolds /\ PanelTyped /\ PanelWithin

LEMMA AnswerShape ==
  ASSUME NEW got \in Answers
  PROVE  Known(got) /\ (got = None \/ \E x \in Seen : got = <<x>>)
<1>1. CASE got = None
  BY <1>1 DEF Known
<1>2. CASE got # None
  <2>1. PICK x \in Seen : got = <<x>>
    BY <1>2 DEF Answers
  <2>2. Len(got) = 1 /\ got[1] = x
    BY <2>1
  <2>3. QED
    BY <2>1, <2>2 DEF Known
<1>3. QED
  BY <1>1, <1>2

LEMMA PanelTypedIsTypeOK == TypeOK /\ PanelTyped => PanelTypeOK
<1> SUFFICES ASSUME TypeOK, PanelTyped PROVE PanelTypeOK
  OBVIOUS
<1>1. ASSUME NEW c \in Clients
      PROVE  /\ task[c].kind \in {"none", "poll", "button", "key", "tune"}
             /\ task[c].step \in {"done", "acting", "status", "back"}
             /\ Known(task[c].got)
             /\ task[c].step = "acting" => task[c].kind # "poll"
  <2>1. task[c] \in TaskRecords
    BY DEF PanelTyped
  <2>2. /\ task[c].kind \in {"none", "poll", "button", "key", "tune"}
        /\ task[c].step \in {"done", "acting", "status", "back"}
        /\ task[c].got \in Answers
        /\ task[c].step = "acting" => task[c].kind # "poll"
    BY <2>1 DEF TaskRecords
  <2>3. QED
    BY <2>2, AnswerShape
<1>2. QED
  BY <1>1, AnswerShape DEF PanelTyped, PanelTypeOK

LEMMA AnswerCarriedOn ==
  ASSUME NEW got \in Answers, AnswerWithin(got), Grows
  PROVE  AnswerWithin(got)'
<1>1. CASE got = None
  BY <1>1 DEF AnswerWithin
<1>2. CASE got # None
  <2>1. got[1].freq \in Int /\ "FA" \in Ranged
    BY <1>2, AnswerShape DEF Seen, Ranged
  <2>2. Within("FA", got[1].freq)'
    BY <1>2, <2>1 DEF AnswerWithin, Grows
  <2>3. QED
    BY <2>2 DEF AnswerWithin
<1>3. QED
  BY <1>1, <1>2

\* A step that changes the radio's side and one task.
LEMMA PanelWithinShown ==
  ASSUME PanelTyped, PanelWithin, Grows, snap' = snap, reading' = reading,
         AnswerWithin(view)',
         NEW c \in Clients, \A d \in Clients \ {c} : task'[d] = task[d],
         AnswerWithin(task[c].got)'
  PROVE  PanelWithin'
<1>1. Within("FA", snap.freq)'
  <2>1. PICK f \in Int : f = snap.freq
    BY DEF PanelTyped, Seen
  <2>2. "FA" \in Ranged /\ Within("FA", f)
    BY <2>1 DEF Ranged, PanelWithin
  <2>3. Within("FA", f)'
    BY <2>2 DEF Grows
  <2>4. f = snap'.freq
    BY <2>1
  <2>5. QED
    BY <2>3, <2>4 DEF Within
<1>2. ASSUME reading' # None PROVE Within("FA", reading[1])'
  <2>1. PICK f \in Int : reading = <<f>>
    BY <1>2 DEF PanelTyped
  <2>2. "FA" \in Ranged /\ Within("FA", f)
    BY <1>2, <2>1 DEF Ranged, PanelWithin
  <2>3. Within("FA", f)'
    BY <2>2 DEF Grows
  <2>4. f = reading'[1]
    BY <2>1
  <2>5. QED
    BY <2>3, <2>4 DEF Within
<1>3. ASSUME NEW d \in Clients \ {c} PROVE AnswerWithin(task[d].got)'
  <2>1. PICK got \in Answers : got = task[d].got
    BY DEF PanelTyped, TaskRecords
  <2>2. AnswerWithin(got)'
    BY <2>1, AnswerCarriedOn DEF PanelWithin
  <2>3. got = task'[d].got
    BY <2>1
  <2>4. QED
    BY <2>2, <2>3 DEF AnswerWithin, Within
<1>4. QED
  BY <1>1, <1>2, <1>3 DEF PanelWithin

LEMMA PanelWithinAfter ==
  ASSUME PanelTyped, PanelWithin, Grows, snap' = snap, reading' = reading, view' = view,
         NEW c \in Clients, \A d \in Clients \ {c} : task'[d] = task[d],
         AnswerWithin(task[c].got)'
  PROVE  PanelWithin'
<1>1. PICK got \in Answers : got = view
  BY DEF PanelTyped
<1>2. AnswerWithin(got)'
  BY <1>1, AnswerCarriedOn DEF PanelWithin
<1>3. got = view'
  BY <1>1
<1>4. AnswerWithin(view)'
  BY <1>2, <1>3 DEF AnswerWithin, Within
<1>5. QED
  BY <1>4, PanelWithinShown

LEMMA Going ==
  ASSUME PanelTyped, NEW c \in Clients, NEW kind, NEW step, NEW got,
         [kind |-> kind, step |-> step, got |-> got] \in TaskRecords,
         Goto(c, kind, step, got)
  PROVE  /\ task' \in [Clients -> TaskRecords] /\ task'[c].got = got
         /\ \A d \in Clients \ {c} : task'[d] = task[d]
<1>1. task' = [task EXCEPT ![c] = [kind |-> kind, step |-> step, got |-> got]]
  BY DEF Goto
<1>2. task \in [Clients -> TaskRecords]
  BY DEF PanelTyped
<1>3. task'[c] = [kind |-> kind, step |-> step, got |-> got]
  BY <1>1, <1>2
<1>4. QED
  BY <1>1, <1>2, <1>3

\* A step of the radio's side alone.
LEMMA OthersPanel ==
  ASSUME PanelTyped, PanelWithin, Grows, UNCHANGED panelVars
  PROVE  PanelTyped' /\ PanelWithin'
<1>1. /\ snap' = snap /\ reading' = reading /\ task' = task /\ view' = view
      /\ wasTx' = wasTx /\ keyed' = keyed /\ net' = net
  BY DEF panelVars, hostVars, showVars
<1>2. PanelTyped'
  BY <1>1 DEF PanelTyped
<1>3. PICK c : c \in Clients
  BY RigRoutesAssumption DEF RigRoutesAssumption
<1>4. AnswerWithin(task[c].got)'
  <2>1. PICK got \in Answers : got = task[c].got
    BY <1>3 DEF PanelTyped, TaskRecords
  <2>2. AnswerWithin(got)'
    BY <1>3, <2>1, AnswerCarriedOn DEF PanelWithin
  <2>3. got = task'[c].got
    BY <1>1, <2>1
  <2>4. QED
    BY <2>2, <2>3 DEF AnswerWithin, Within
<1>5. PanelWithin'
  BY <1>1, <1>3, <1>4, PanelWithinAfter
<1>6. QED
  BY <1>2, <1>5

\* A step of one async function on the panel's side, the radio's left alone.
LEMMA TaskHolds ==
  ASSUME PanelInv, UNCHANGED <<rigVars, hostVars, showVars, net>>,
         NEW c \in Clients, NEW kind, NEW step, NEW got \in Answers,
         [kind |-> kind, step |-> step, got |-> got] \in TaskRecords,
         Goto(c, kind, step, got), AnswerWithin(got)
  PROVE  PanelInv'
<1>1. /\ snap' = snap /\ reading' = reading /\ view' = view
      /\ wasTx' = wasTx /\ keyed' = keyed /\ net' = net
  BY DEF hostVars, showVars
<1>2. RigHolds' /\ Grows
  BY RigUnchanged DEF PanelInv
<1>3. PanelTyped /\ PanelWithin
  BY DEF PanelInv
<1>4. /\ task' \in [Clients -> TaskRecords] /\ task'[c].got = got
      /\ \A d \in Clients \ {c} : task'[d] = task[d]
  BY <1>3, Going
<1>5. PanelTyped'
  BY <1>1, <1>3, <1>4 DEF PanelTyped
<1>6. AnswerWithin(task[c].got)'
  <2>1. AnswerWithin(got)'
    BY <1>2, AnswerCarriedOn
  <2>2. QED
    BY <1>4, <2>1 DEF AnswerWithin, Within
<1>7. PanelWithin'
  BY <1>1, <1>2, <1>3, <1>4, <1>6, PanelWithinAfter
<1>8. QED
  BY <1>2, <1>5, <1>7 DEF PanelInv

\* A command of the panel: what it writes has to be within what it is meant as.
LEMMA CommandHolds ==
  ASSUME PanelInv, NEW c \in Clients, NEW kind \in {"button", "key", "tune"},
         NEW route \in Routes, NEW meant \in Routes, route.kind = "fixed",
         Widen(meant) => \A i \in DOMAIN route.cmds : CmdWithin(route.cmds[i])',
         Command(c, kind, route, meant)
  PROVE  PanelInv'
<1>1. /\ asked < Menus[menu].max /\ asked' = asked + 1
      /\ \/ Accept(c, route, meant)
         \/ UNCHANGED <<radio, job, receiverVars, menu, faults, histVars>>
      /\ Goto(c, kind, "acting", None)
      /\ UNCHANGED <<hostVars, showVars, net>>
  BY DEF Command
<1>2. RigHolds /\ PanelTyped /\ PanelWithin
  BY DEF PanelInv
<1>3. Typed /\ Counted /\ ValuesWithin /\ MuteHolds
  BY <1>2 DEF RigHolds
<1>4. menu' = menu /\ faults' = faults
  BY <1>1 DEF Accept
<1>5. Counted'
  BY <1>1, <1>3, <1>4, CountedAfter
<1>6. Typed' /\ ValuesWithin' /\ MuteHolds' /\ Grows
  <2>1. CASE Accept(c, route, meant)
    <3>1. Widen(meant)
      BY <1>3, <2>1, AcceptShape
    <3>2. QED
      BY <1>3, <2>1, <3>1, AcceptShape, AcceptWithin, AcceptMute
  <2>2. CASE UNCHANGED <<radio, job, receiverVars, menu, faults, histVars>>
    <3>1. /\ radio' = radio /\ job' = job /\ muted' = muted /\ preMuteAF' = preMuteAF
          /\ span' = span /\ own' = own
      BY <2>2 DEF receiverVars, histVars
    <3>2. Typed'
      BY <1>3, <3>1 DEF Typed, RadioTyped, ReceiverTyped, HistoryTyped, JobsTyped
    <3>3. Grows
      BY <3>1 DEF Grows, Within
    <3>4. ASSUME NEW d \in Clients PROVE JobWithin(job[d])'
      <4>1. job'[d] = job[d]
        BY <3>1
      <4>2. QED
        BY <1>3, <3>3, <4>1, OthersCarriedOn
    <3>5. RegistersWithin' /\ RememberedWithin'
      BY <1>3, <3>1, <3>3, RegistersCarriedOn, RememberedCarriedOn DEF ValuesWithin
    <3>6. ValuesWithin'
      BY <3>4, <3>5 DEF ValuesWithin
    <3>7. MuteHolds'
      BY <1>3, <3>1, MuteSame
    <3>8. QED
      BY <3>2, <3>3, <3>6, <3>7
  <2>3. QED
    BY <1>1, <2>1, <2>2
<1>7. None \in Answers /\ [kind |-> kind, step |-> "acting", got |-> None] \in TaskRecords
  BY DEF Answers, TaskRecords
<1>8. /\ task' \in [Clients -> TaskRecords] /\ task'[c].got = None
      /\ \A d \in Clients \ {c} : task'[d] = task[d]
  BY <1>1, <1>2, <1>7, Going
<1>9. /\ snap' = snap /\ reading' = reading /\ view' = view
      /\ wasTx' = wasTx /\ keyed' = keyed /\ net' = net
  BY <1>1 DEF hostVars, showVars
<1>10. PanelTyped'
  BY <1>2, <1>8, <1>9 DEF PanelTyped
<1>11. AnswerWithin(task[c].got)'
  BY <1>8 DEF AnswerWithin
<1>12. PanelWithin'
  BY <1>2, <1>6, <1>8, <1>9, <1>11, PanelWithinAfter
<1>13. QED
  BY <1>5, <1>6, <1>10, <1>12 DEF PanelInv, RigHolds

\* The panel's PTT writes no setting with a range.
LEMMA PttRoute ==
  ASSUME NEW on \in BOOLEAN
  PROVE  /\ Ptt(on) \in Routes /\ Ptt(on).kind = "fixed"
         /\ \A i \in DOMAIN Ptt(on).cmds : SpanOf(Ptt(on).cmds[i].reg) \notin Ranged
<1>1. PICK to \in Int : Ptt(on) = Fixed(<<Write("TX", to)>>)
  BY DEF Ptt, Switch
<1>2. Write("TX", to) \in Commands /\ Write("TX", to).reg = "TX"
  BY CommandShape DEF Registers
<1>3. <<Write("TX", to)>> \in Seq(Commands)
  BY <1>2
<1>4. Ptt(on) \in Routes /\ Ptt(on).kind = "fixed" /\ Ptt(on).cmds = <<Write("TX", to)>>
  BY <1>1, <1>3 DEF Fixed, Routes
<1>5. SpanOf("TX") \notin Ranged
  BY DEF SpanOf, Ranged
<1>6. QED
  BY <1>2, <1>4, <1>5

LEMMA PttHolds ==
  ASSUME PanelInv, NEW c \in Clients, NEW kind \in {"button", "key"}, NEW on \in BOOLEAN,
         Command(c, kind, Ptt(on), Ptt(on))
  PROVE  PanelInv'
<1>1. PICK route \in Routes :
         /\ route = Ptt(on) /\ route.kind = "fixed"
         /\ \A i \in DOMAIN route.cmds : SpanOf(route.cmds[i].reg) \notin Ranged
  BY PttRoute
<1>2. \A i \in DOMAIN route.cmds : CmdWithin(route.cmds[i])'
  BY <1>1 DEF CmdWithin
<1>3. Command(c, kind, route, route)
  BY <1>1
<1>4. QED
  BY <1>1, <1>2, <1>3, CommandHolds

LEMMA Multiplied ==
  ASSUME NEW multiple \in Multiples
  PROVE  multiple * TuneStep \in Int /\ multiple * TuneStep <= 100000
<1>1. TuneStep \in 10..10000 /\ multiple \in {-10, -1, 1, 10}
  BY Assumed
<1>2. PICK t \in 10..10000 : t = TuneStep
  BY <1>1
<1>3. CASE multiple = -10
  BY <1>2, <1>3
<1>4. CASE multiple = -1
  BY <1>2, <1>4
<1>5. CASE multiple = 1
  BY <1>2, <1>5
<1>6. CASE multiple = 10
  BY <1>2, <1>6
<1>7. QED
  BY <1>1, <1>3, <1>4, <1>5, <1>6

\* A click of the tuning is a step from the frequency shown, which is within what
\* was asked for; before there is one, no click is in range.
LEMMA TuneHolds ==
  ASSUME PanelInv, NEW c \in Clients, NEW multiple \in Multiples, TuneBy(c, multiple)
  PROVE  PanelInv'
<1>1. PICK m \in Int : m = multiple * TuneStep /\ m <= 100000
  BY Multiplied
<1>2. InRange(ShownFreq + m) /\ Command(c, "tune", FreqSet(ShownFreq + m), Step(m))
  BY <1>1 DEF TuneBy
<1>3. PICK f : f = ShownFreq
  OBVIOUS
<1>4. f \in Int /\ Within("FA", f)
  <2>1. CASE view = None
    <3>1. ShownFreq = 0
      BY <2>1 DEF ShownFreq
    <3>2. ~InRange(0 + m)
      BY <1>1 DEF InRange
    <3>3. QED
      BY <1>2, <3>1, <3>2
  <2>2. CASE view # None
    <3>1. view \in Answers /\ AnswerWithin(view)
      BY DEF PanelInv, PanelTyped, PanelWithin
    <3>2. f = view[1].freq
      BY <1>3, <2>2 DEF ShownFreq
    <3>3. view[1] \in Seen
      BY <2>2, <3>1, AnswerShape
    <3>4. QED
      BY <2>2, <3>1, <3>2, <3>3 DEF Seen, AnswerWithin
  <2>3. QED
    BY <2>1, <2>2
<1>5. PICK hz \in Int : hz = f + m
  BY <1>4
<1>6. InRange(hz) /\ Command(c, "tune", FreqSet(hz), Step(m))
  BY <1>2, <1>3, <1>5
<1> DEFINE cmds == <<Write("FA", hz), Write("MD", ModeForFreq(hz))>>
<1>7. FreqSet(hz) = Fixed(cmds)
  BY <1>6 DEF FreqSet
<1>8. /\ Write("FA", hz) \in Commands /\ Write("MD", ModeForFreq(hz)) \in Commands
      /\ Write("FA", hz).reg = "FA" /\ Write("FA", hz).to = hz
      /\ Write("MD", ModeForFreq(hz)).reg = "MD"
  <2>1. ModeForFreq(hz) \in Int
    BY DEF ModeForFreq, LSB, USB, CW
  <2>2. QED
    BY <2>1, CommandShape DEF Registers
<1>9. cmds \in Seq(Commands)
  BY <1>8
<1>10. \A i \in DOMAIN cmds :
           cmds[i] = Write("FA", hz) \/ cmds[i] = Write("MD", ModeForFreq(hz))
  OBVIOUS
<1> HIDE DEF cmds
<1>11. PICK route \in Routes : route = FreqSet(hz) /\ route.kind = "fixed" /\ route.cmds = cmds
  BY <1>7, <1>9 DEF Fixed, Routes
<1>12. PICK meant \in Routes :
          meant = Step(m) /\ Moves(meant, "FA") = m
  <2>1. /\ Step(m) \in [kind : {"step"}, reg : {"FA"}, delta : Int]
        /\ Step(m).kind = "step" /\ Step(m).reg = "FA" /\ Step(m).delta = m
    BY DEF Step
  <2>2. Step(m) \in Routes
    BY <2>1 DEF Routes
  <2>3. QED
    BY <2>1, <2>2 DEF Moves
<1>13. ASSUME Widen(meant) PROVE \A i \in DOMAIN route.cmds : CmdWithin(route.cmds[i])'
  <2>1. HistoryTyped /\ "FA" \in Ranged
    BY DEF PanelInv, RigHolds, Typed, Ranged
  <2>2. Close(f, hz, m)
    BY <1>4, <1>5 DEF Close
  <2>3. Within("FA", hz)'
    BY <1>4, <1>12, <1>13, <2>1, <2>2, WidenReaches
  <2>4. SpanOf("FA") = "FA" /\ SpanOf("MD") \notin Ranged
    BY DEF SpanOf, Ranged
  <2>5. CmdWithin(Write("FA", hz))' /\ CmdWithin(Write("MD", ModeForFreq(hz)))'
    BY <1>8, <2>3, <2>4 DEF CmdWithin
  <2>6. QED
    BY <1>10, <1>11, <2>5
<1>14. Command(c, "tune", route, meant)
  BY <1>6, <1>11, <1>12
<1>15. QED
  BY <1>11, <1>13, <1>14, CommandHolds

\* What comes back: the panel shows what was answered.
LEMMA AppliesHolds ==
  ASSUME PanelInv, NEW c \in Clients, Applies(c)
  PROVE  PanelInv'
<1>1. /\ task' = [task EXCEPT ![c] = NoTask]
      /\ UNCHANGED <<rigVars, hostVars, net>>
  BY DEF Applies
<1>2. snap' = snap /\ reading' = reading /\ net' = net
  BY <1>1 DEF hostVars
<1>3. RigHolds' /\ Grows
  BY <1>1, RigUnchanged DEF PanelInv
<1>4. PanelTyped /\ PanelWithin
  BY DEF PanelInv
<1>5. PICK got \in Answers : got = task[c].got
  BY <1>4 DEF PanelTyped, TaskRecords
<1>6. /\ view' = view \/ (got # None /\ view' = got)
      /\ wasTx' = wasTx \/ wasTx' = (got # None /\ got[1].tx)
      /\ \/ keyed' = keyed \/ keyed' = (got # None /\ got[1].tx)
         \/ got # None /\ keyed' = got[1].tx
  <2>1. CASE task[c].kind = "poll"
    <3>1. PollApplies(got)
      BY <1>5, <2>1 DEF Applies
    <3>2. QED
      BY <3>1 DEF PollApplies, SyncKeyed
  <2>2. CASE task[c].kind = "key"
    <3>1. RefreshApplies(got)
      BY <1>5, <2>2 DEF Applies
    <3>2. QED
      BY <3>1 DEF RefreshApplies, SyncKeyed, showVars
  <2>3. CASE task[c].kind \notin {"poll", "key"}
    <3>1. RepaintApplies(got)
      BY <1>5, <2>3 DEF Applies
    <3>2. QED
      BY <3>1 DEF RepaintApplies
  <2>4. QED
    BY <2>1, <2>2, <2>3
<1>7. view' \in Answers
  BY <1>4, <1>5, <1>6 DEF PanelTyped
<1>8. got # None => got[1].tx \in BOOLEAN
  BY <1>5, AnswerShape DEF Seen
<1>9. wasTx' \in BOOLEAN /\ keyed' \in BOOLEAN
  <2>1. wasTx \in BOOLEAN /\ keyed \in BOOLEAN
    BY <1>4 DEF PanelTyped
  <2>2. QED
    BY <1>6, <1>8, <2>1, Zenon
<1>10. NoTask \in TaskRecords /\ NoTask.got = None
  BY DEF NoTask, TaskRecords, Answers
<1>11. /\ task' \in [Clients -> TaskRecords] /\ task'[c] = NoTask
       /\ \A d \in Clients \ {c} : task'[d] = task[d]
  BY <1>1, <1>4, <1>10 DEF PanelTyped
<1>12. PanelTyped'
  BY <1>2, <1>4, <1>7, <1>9, <1>11 DEF PanelTyped
<1>13. AnswerWithin(view)'
  <2>1. PICK shown \in Answers : shown = view' /\ AnswerWithin(shown)
    BY <1>4, <1>5, <1>6 DEF PanelTyped, PanelWithin
  <2>2. AnswerWithin(shown)'
    BY <1>3, <2>1, AnswerCarriedOn
  <2>3. QED
    BY <2>1, <2>2 DEF AnswerWithin, Within
<1>14. PanelWithin'
  <2>1. AnswerWithin(task[c].got)'
    BY <1>10, <1>11 DEF AnswerWithin
  <2>2. QED
    BY <1>2, <1>3, <1>4, <1>11, <1>13, <2>1, PanelWithinShown
<1>15. QED
  BY <1>3, <1>12, <1>14 DEF PanelInv

\* The host's poll reads the dial, and publishes what it read or loses it.
LEMMA HostHolds ==
  ASSUME PanelInv, HostReadsDial \/ HostPublishes \/ HostYields
  PROVE  PanelInv'
<1>1. /\ task' = task /\ view' = view /\ wasTx' = wasTx /\ keyed' = keyed /\ net' = net
      /\ UNCHANGED <<radio, job, receiverVars, menu, asked, histVars>>
      /\ faults' = faults \/ (faults < MaxFaults /\ faults' = faults + 1)
  BY DEF HostReadsDial, HostPublishes, HostYields, PollOnly, Reads, ReadFails, showVars,
         rigVars, boundVars
<1>2. radio' = radio /\ span' = span
  BY <1>1 DEF histVars
<1>3. RigHolds' /\ RigHolds /\ PanelTyped /\ PanelWithin
  BY <1>1, RigAlone DEF PanelInv
<1>4. PICK dial \in Int : dial = radio["FA"] /\ Within("FA", dial)
  <2>1. "FA" \in Registers /\ "FA" \in Ranged /\ SpanOf("FA") = "FA"
    BY Spans DEF Registers, Ranged
  <2>2. radio["FA"] \in Int
    BY <1>3, <2>1 DEF RigHolds, Typed, RadioTyped
  <2>3. QED
    BY <1>3, <2>1, <2>2 DEF RigHolds, ValuesWithin, RegistersWithin
<1>5. /\ snap' \in Seen /\ Within("FA", snap'.freq)
      /\ reading' \in {None} \cup {<<v>> : v \in Int}
      /\ reading' # None => Within("FA", reading'[1])
  <2>1. CASE HostReadsDial
    <3>1. PICK got : snap' = snap /\ reading' = <<got>> /\ got \in {dial, snap.freq}
      BY <1>4, <2>1 DEF HostReadsDial
    <3>2. snap.freq \in Int /\ Within("FA", snap.freq)
      BY <1>3 DEF PanelTyped, PanelWithin, Seen
    <3>3. got \in Int /\ Within("FA", got) /\ <<got>>[1] = got
      BY <1>4, <3>1, <3>2
    <3>4. <<got>> \in {<<v>> : v \in Int}
      BY <3>3
    <3>5. QED
      BY <1>3, <3>1, <3>3, <3>4 DEF PanelTyped, PanelWithin
  <2>2. CASE HostPublishes
    <3>1. /\ reading # None /\ reading' = None
          /\ \E tx \in {radio["TX"] # 0, snap.tx} : snap' = [freq |-> reading[1], tx |-> tx]
      BY <2>2 DEF HostPublishes
    <3>2. PICK v \in Int : reading = <<v>>
      BY <1>3, <3>1 DEF PanelTyped
    <3>3. Within("FA", v) /\ reading[1] = v
      BY <1>3, <3>1, <3>2 DEF PanelWithin
    <3>4. (radio["TX"] # 0) \in BOOLEAN /\ snap.tx \in BOOLEAN
      BY <1>3 DEF PanelTyped, Seen
    <3>7. PICK tx \in BOOLEAN : snap' = [freq |-> v, tx |-> tx]
      BY <3>1, <3>3, <3>4
    <3>5. snap' \in Seen /\ snap'.freq = v
      BY <3>2, <3>7 DEF Seen
    <3>6. QED
      BY <3>1, <3>3, <3>5
  <2>3. CASE HostYields
    <3>1. snap' = snap /\ reading' = None
      BY <2>3 DEF HostYields
    <3>2. QED
      BY <1>3, <3>1 DEF PanelTyped, PanelWithin
  <2>4. QED
    BY <2>1, <2>2, <2>3
<1>6. PanelTyped'
  BY <1>1, <1>3, <1>5 DEF PanelTyped
<1>7. PanelWithin'
  BY <1>1, <1>2, <1>3, <1>5 DEF PanelWithin, AnswerWithin, Within
<1>8. QED
  BY <1>3, <1>6, <1>7 DEF PanelInv

LEMMA PanelHolds ==
  ASSUME PanelInv, NEW c \in Clients, Panel(c)
  PROVE  PanelInv'
<1>1. /\ snap \in Seen /\ Within("FA", snap.freq) /\ task[c] \in TaskRecords
      /\ AnswerWithin(task[c].got)
  BY DEF PanelInv, PanelTyped, PanelWithin
<1>2. None \in Answers /\ AnswerWithin(None)
  BY DEF Answers, AnswerWithin
<1>3. task[c].kind \in {"none", "poll", "button", "key", "tune"}
  BY <1>1 DEF TaskRecords
<1>4. CASE PttButton(c)
  <2>1. (~ShownTx) \in BOOLEAN
    OBVIOUS
  <2>2. QED
    BY <1>4, <2>1, PttHolds DEF PttButton
<1>5. CASE \E on \in BOOLEAN : PttKey(c, on)
  BY <1>5, PttHolds DEF PttKey
<1>6. CASE \E multiple \in Multiples : TuneBy(c, multiple)
  BY <1>6, TuneHolds
<1>7. CASE AsksStatus(c)
  <2>1. [kind |-> task[c].kind, step |-> "status", got |-> None] \in TaskRecords
    BY <1>2, <1>3 DEF TaskRecords
  <2>2. QED
    BY <1>2, <1>7, <2>1, TaskHolds DEF AsksStatus
<1>8. CASE StartPoll(c)
  <2>1. [kind |-> "poll", step |-> "status", got |-> None] \in TaskRecords
    BY <1>2 DEF TaskRecords
  <2>2. QED
    BY <1>2, <1>8, <2>1, TaskHolds DEF StartPoll
<1>9. CASE StatusAnswered(c)
  <2>1. <<snap>> \in Answers /\ <<snap>> # None /\ <<snap>>[1] = snap
    BY <1>1 DEF Answers, None
  <2>2. AnswerWithin(<<snap>>)
    BY <1>1, <2>1 DEF AnswerWithin
  <2>3. [kind |-> task[c].kind, step |-> "back", got |-> <<snap>>] \in TaskRecords
    BY <1>3, <2>1 DEF TaskRecords
  <2>4. QED
    BY <1>9, <2>1, <2>2, <2>3, TaskHolds DEF StatusAnswered
<1>10. CASE StatusLost(c)
  <2>1. [kind |-> task[c].kind, step |-> "back", got |-> None] \in TaskRecords
    BY <1>2, <1>3 DEF TaskRecords
  <2>2. QED
    BY <1>2, <1>10, <2>1, TaskHolds DEF StatusLost
<1>11. CASE Applies(c)
  BY <1>11, AppliesHolds
<1>12. QED
  BY <1>4, <1>5, <1>6, <1>7, <1>8, <1>9, <1>10, <1>11 DEF Panel

LEMMA OthersHolds ==
  ASSUME PanelInv, Others
  PROVE  PanelInv'
<1>1. RigHolds /\ PanelTyped /\ PanelWithin
  BY DEF PanelInv
<1>2. UNCHANGED panelVars
  BY DEF Others
<1>3. RigHolds' /\ Grows
  <2>1. ASSUME NEW c \in Clients, Request(c) PROVE RigHolds' /\ Grows
    BY <1>1, <2>1, RequestHolds
  <2>2. ASSUME NEW c \in Clients, Serve(c) PROVE RigHolds' /\ Grows
    BY <1>1, <2>2, ServeHolds
  <2>3. CASE FrontPanel
    BY <1>1, <2>3, FrontPanelHolds
  <2>4. QED
    BY <2>1, <2>2, <2>3 DEF Others
<1>4. PanelTyped' /\ PanelWithin'
  BY <1>1, <1>2, <1>3, OthersPanel
<1>5. QED
  BY <1>3, <1>4 DEF PanelInv

\* The network, and steps that leave everything alone.
LEMMA StillHolds ==
  ASSUME PanelInv, UNCHANGED <<rigVars, hostVars, task, showVars>>, net' \in {"up", "down"}
  PROVE  PanelInv'
<1>1. /\ snap' = snap /\ reading' = reading /\ task' = task /\ view' = view
      /\ wasTx' = wasTx /\ keyed' = keyed
  BY DEF hostVars, showVars
<1>2. span' = span
  BY DEF rigVars, histVars
<1>3. RigHolds'
  BY RigUnchanged DEF PanelInv
<1>4. PanelTyped'
  BY <1>1 DEF PanelInv, PanelTyped
<1>5. PanelWithin'
  BY <1>1, <1>2 DEF PanelInv, PanelWithin, AnswerWithin, Within
<1>6. QED
  BY <1>3, <1>4, <1>5 DEF PanelInv

LEMMA PanelInvAtFirst == Init => PanelInv
<1> SUFFICES ASSUME Init PROVE PanelInv
  OBVIOUS
<1>1. /\ RigInit /\ snap = Now /\ reading = None
      /\ task = [c \in Clients |-> NoTask]
      /\ view = None /\ wasTx = FALSE /\ keyed = FALSE /\ net = "up"
  BY DEF Init
<1>2. RigHolds
  BY <1>1, RigHoldsAtFirst
<1>3. radio["FA"] \in Int /\ Within("FA", radio["FA"])
  <2>1. "FA" \in Registers /\ "FA" \in Ranged /\ SpanOf("FA") = "FA"
    BY Spans DEF Registers, Ranged
  <2>2. QED
    BY <1>2, <2>1 DEF RigHolds, Typed, RadioTyped, ValuesWithin, RegistersWithin
<1>4. snap \in Seen /\ snap.freq = radio["FA"]
  <2>1. (radio["TX"] # 0) \in BOOLEAN
    OBVIOUS
  <2>2. QED
    BY <1>1, <1>3, <2>1 DEF Now, Seen
<1>5. NoTask \in TaskRecords /\ NoTask.got = None /\ None \in Answers
  BY DEF NoTask, TaskRecords, Answers
<1>6. PanelTyped
  BY <1>1, <1>4, <1>5 DEF PanelTyped
<1>7. PanelWithin
  BY <1>1, <1>3, <1>4, <1>5 DEF PanelWithin, AnswerWithin
<1>8. QED
  BY <1>2, <1>6, <1>7 DEF PanelInv

LEMMA PanelInvStep == PanelInv /\ [Next]_vars => PanelInv'
<1> SUFFICES ASSUME PanelInv, [Next]_vars PROVE PanelInv'
  OBVIOUS
<1>1. ASSUME NEW c \in Clients, Panel(c) PROVE PanelInv'
  BY <1>1, PanelHolds
<1>2. CASE Others
  BY <1>2, OthersHolds
<1>3. CASE Host \/ HostYields
  BY <1>3, HostHolds DEF Host
<1>4. CASE NetChanges
  <2>1. net' \in {"up", "down"}
    BY <1>4 DEF NetChanges
  <2>2. QED
    BY <1>4, <2>1, StillHolds DEF NetChanges
<1>5. CASE UNCHANGED vars
  <2>1. UNCHANGED <<rigVars, hostVars, task, showVars>> /\ net' = net
    BY <1>5 DEF vars, panelVars
  <2>2. net' \in {"up", "down"}
    BY <2>1 DEF PanelInv, PanelTyped
  <2>3. QED
    BY <2>1, <2>2, StillHolds
<1>6. QED
  BY <1>1, <1>2, <1>3, <1>4, <1>5 DEF Next

LEMMA PanelAlways == Spec => []PanelInv
<1>1. QED
  BY PanelInvAtFirst, PanelInvStep, PTL DEF Spec

-----------------------------------------------------------------------------
(* The theorems                                                            *)

\* Every handler and every async function of the panel keeps to the records its
\* code can build, whatever the radio answers and whichever calls are lost.
THEOREM PanelTypeCorrect == Spec => []PanelTypeOK
<1>1. PanelInv => PanelTypeOK
  BY RigSafe, PanelTypedIsTypeOK DEF PanelInv
<1>2. QED
  BY <1>1, PanelAlways, PTL

\* The dials, the AF level and the RIT are always values somebody asked for, moved
\* by no more than the steps asked for: with any number of requests, programs and
\* hands at the radio between a reading and the command made of it, any commands
\* that fail, and a panel tuning from a frequency that is no longer the radio's.
\* A step of the RIT whose offset could not be read counts as an offset asked for.
THEOREM SettingsAlwaysAsked == Spec => []WithinAsked
<1>1. PanelInv => WithinAsked
  BY RigSafe DEF PanelInv
<1>2. QED
  BY <1>1, PanelAlways, PTL

\* As long as it is known whose AF level it is, the receiver is silent or at the
\* operator's level, which a mute has then remembered, however many mutes and
\* unmutes overlap.
THEOREM MuteAlwaysGivesBack == Spec => []MuteRoundTrip
<1>1. PanelInv => MuteRoundTrip
  BY RigSafe DEF PanelInv
<1>2. QED
  BY <1>1, PanelAlways, PTL

=============================================================================
