----------------------------- MODULE RigRoutes -----------------------------
(***************************************************************************)
(* What operates the radio through the host: the CAT table of              *)
(* internal/api/rigroutes.go, the receiver's mute, and programs behind the *)
(* CAT proxy.  A request reads a register of the radio or none, makes its  *)
(* commands of what it read and sends them one by one; nothing is held     *)
(* between, so requests, programs and a hand at the front panel come       *)
(* between the reading and the writing.                                    *)
(*                                                                         *)
(* The radio is a register for every setting a route reads back, with the  *)
(* dials FA and FB in Hz.  How a command travels is CatExchange's matter:  *)
(* here it is taken or it fails.                                           *)
(***************************************************************************)
EXTENDS Integers, Sequences

CONSTANTS
    Clients,     \* requests and CAT connections that can be under way at once
    Menus,       \* bound: by name, what they may ask for together: routes and
                 \* turns of a knob at the radio, how many of both at most, and
                 \* for PanelView what the panel does and whether the network fails
    MaxFaults    \* bound: questions and commands the radio does not take

VARIABLES
    radio,       \* its registers
    job,         \* where each client's handler is
    muted,       \* snap.Muted
    preMuteAF,   \* the AF level to go back to, 0 for none
    menu,        \* the name of the menu of this behaviour
    asked, faults,
    span,        \* how far what was asked for reaches (history)
    own          \* the operator's AF level, Unsure once others interfered (history)

histVars == <<span, own>>
receiverVars == <<muted, preMuteAF>>
boundVars == <<menu, asked, faults>>
rigVars == <<radio, job, receiverVars, boundVars, histVars>>

Registers == {"FA", "FB", "MD", "AG", "PA", "ST", "PR", "RT", "VS", "TX"}
Ranged == {"FA", "AG", "RT"}
Unsure == -1
Idle == [step |-> "idle"]

-----------------------------------------------------------------------------
(* The radio                                                               *)

\* The AF level is a byte.
Commands ==
    [reg : (Registers \ {"AG"}) \cup {"SV", "none"}, to : Int] \cup [reg : {"AG"}, to : 0..255]
Write(reg, to) == [reg |-> reg, to |-> to]
SwapDials == Write("SV", 0)
\* A question sent as a command: the radio changes nothing.
Question == Write("none", 0)

\* What a command does to the registers.
Take(regs, cmd) ==
    CASE cmd.reg = "SV" -> [regs EXCEPT !["FA"] = regs["FB"], !["FB"] = regs["FA"]]
      [] cmd.reg \in Registers -> [regs EXCEPT ![cmd.reg] = cmd.to]
      [] OTHER -> regs

-----------------------------------------------------------------------------
(* The band plan and the clamp                                             *)

LSB == 1
USB == 2
CW == 3

ModeForFreq(hz) ==
    CASE 5300000 <= hz /\ hz <= 5500000 -> USB
      [] 10100000 <= hz /\ hz <= 10150000 -> CW
      [] hz < 10000000 -> LSB
      [] OTHER -> USB

InRange(hz) == 1800000 <= hz /\ hz <= 54000000

ClampInt(v, lo, hi) == IF v < lo THEN lo ELSE IF v > hi THEN hi ELSE v

-----------------------------------------------------------------------------
(* The routes                                                              *)

\* Commands that need no reading, none of them if the request is refused.
Fixed(cmds) == [kind |-> "fixed", cmds |-> cmds]
Switch(reg, to) == Fixed(<<Write(reg, to)>>)
Level(reg, v, lo, hi) == Switch(reg, ClampInt(v, lo, hi))
Mode(code) == Switch("MD", code)
Band(hz) == Fixed(<<Write("MD", ModeForFreq(hz)), Write("FA", hz)>>)
FreqSet(hz) ==
    Fixed(IF InRange(hz) THEN <<Write("FA", hz), Write("MD", ModeForFreq(hz))>> ELSE <<>>)
SetFreq(hz) == Fixed(IF InRange(hz) THEN <<Write("FA", hz)>> ELSE <<>>)
QuickSplit == Fixed(<<Question, Write("VS", 1), Write("VS", 0), Write("ST", 1)>>)
VfoSwap == Fixed(<<SwapDials>>)

\* Read, then write.
Get(reg) == [kind |-> "get", reg |-> reg]
Cycle(reg, modulo) == [kind |-> "cycle", reg |-> reg, modulo |-> modulo]
Toggle(reg, off, on) == [kind |-> "toggle", reg |-> reg, off |-> off, on |-> on]
Nudge(reg, delta, lo, hi) ==
    [kind |-> "nudge", reg |-> reg, delta |-> delta, lo |-> lo, hi |-> hi]
Rit(delta) == [kind |-> "rit", reg |-> "RT", delta |-> delta]
Step(delta) == [kind |-> "step", reg |-> "FA", delta |-> delta]
VfoCopy(from, to) == [kind |-> "copy", reg |-> from, to |-> to]
Mute(how) == [kind |-> "mute", reg |-> "AG", how |-> how]

\* Which register a kind of route is about.  Of the two levels stepped, the AF and
\* the CW speed, the AF is here.
DialRegisters == {"FA", "FB"}
Plain == Registers \ (Ranged \cup DialRegisters)
Routes ==
    [kind : {"fixed"}, cmds : Seq(Commands)]
    \cup [kind : {"get"}, reg : Registers]
    \cup [kind : {"cycle"}, reg : Plain, modulo : Nat \ {0}]
    \cup [kind : {"toggle"}, reg : Plain, off : Int, on : Int]
    \cup [kind : {"nudge"}, reg : {"AG"}, delta : Int, lo : {0}, hi : {255}]
    \cup [kind : {"rit"}, reg : {"RT"}, delta : Int]
    \cup [kind : {"step"}, reg : {"FA"}, delta : Int]
    \cup [kind : {"copy"}, reg : DialRegisters, to : DialRegisters]
    \cup [kind : {"mute"}, reg : {"AG"}, how : {"on", "off", "toggle"}]

ASSUME RigRoutesAssumption ==
    /\ Clients # {} /\ MaxFaults \in Nat
    /\ \A m \in DOMAIN Menus :
          /\ Menus[m].max \in Nat
          /\ Menus[m].routes \subseteq Routes /\ Menus[m].knobs \subseteq Commands

\* A program behind the CAT proxy: a bare verb asks, anything else is sent.
ProxyHandle(cmd, isQuery) == IF isQuery THEN Get(cmd.reg) ELSE Fixed(<<cmd>>)

\* Mutant: a level stepped up has no end.
NudgedOut(route, cur) == cur + route.delta

Nudged(route, cur) == ClampInt(cur + route.delta, route.lo, route.hi)

\* The commands made of a reading.
Build(route, cur) ==
    CASE route.kind = "get" -> <<>>
      [] route.kind = "cycle" -> <<Write(route.reg, (cur + 1) % route.modulo)>>
      [] route.kind = "toggle" ->
            <<Write(route.reg, IF cur = 0 THEN route.on ELSE route.off)>>
      [] route.kind = "nudge" -> <<Write(route.reg, Nudged(route, cur))>>
      [] route.kind = "rit" -> <<Write("RT", cur + route.delta)>>
      [] route.kind = "step" ->
            IF InRange(cur + route.delta) THEN <<Write("FA", cur + route.delta)>> ELSE <<>>
      [] route.kind = "copy" -> <<Write(route.to, cur)>>

\* Mutant: a reading that failed is a reading of zero.
BuildGuessing(route) == Build(route, 0)

\* Without a reading a relative request is refused; the RIT alone takes it for
\* zero.
BuildUnread(route) == IF route.kind = "rit" THEN Build(route, 0) ELSE <<>>

\* So a step of the RIT that could not read counts as an offset named outright.
Unread(route) == IF route.kind = "rit" THEN Switch("RT", route.delta) ELSE route

-----------------------------------------------------------------------------
(* What was asked for, for the history                                     *)

SpanOf(reg) == IF reg = "FB" THEN "FA" ELSE reg

\* The values a request names for a register and how far it may move it.
Named(route, g) ==
    CASE route.kind = "fixed" ->
            {route.cmds[i].to : i \in {j \in DOMAIN route.cmds : SpanOf(route.cmds[j].reg) = g}}
      [] route.kind = "mute" /\ g = "AG" -> {0}
      [] OTHER -> {}
Moves(route, g) ==
    IF route.kind \in {"nudge", "rit", "step"} /\ route.reg = g THEN route.delta ELSE 0

\* The values named so far, and what the steps asked for add up to each way.
Widen(route) ==
    span' = [g \in Ranged |->
        [named |-> span[g].named \cup Named(route, g),
         down |-> span[g].down + (IF Moves(route, g) < 0 THEN -Moves(route, g) ELSE 0),
         up |-> span[g].up + (IF Moves(route, g) > 0 THEN Moves(route, g) ELSE 0)]]
Within(g, v) ==
    \E a \in span[g].named : a - span[g].down <= v /\ v <= a + span[g].up

MayWriteAF(route) ==
    \/ route.kind = "nudge" /\ route.reg = "AG"
    \/ route.kind = "fixed" /\ \E i \in DOMAIN route.cmds : route.cmds[i].reg = "AG"
Muting(c) == job[c].step # "idle" /\ job[c].route.kind = "mute"
WritesAF(c) == job[c].step # "idle" /\ MayWriteAF(job[c].route)

\* Whose AF level it is stays known while a level and a mute are not asked for at
\* once, no level is asked for while muted, and nobody unmutes what is not muted.
OwnAfter(route) ==
    IF \/ MayWriteAF(route) /\ (muted \/ \E c \in Clients : Muting(c))
       \/ /\ route.kind = "mute"
          /\ \/ \E c \in Clients : WritesAF(c)
             \/ /\ preMuteAF \notin {0, own}
                /\ own = 0 \/ (route.how = "off" /\ ~muted)
    THEN Unsure ELSE own

-----------------------------------------------------------------------------
TypeOK ==
    /\ radio \in [Registers -> Int]
    /\ \A c \in Clients :
          /\ job[c].step \in {"idle", "ask", "note", "send"}
          /\ job[c].step = "note" => job[c].route.kind = "mute"
          /\ job[c].step = "send" => job[c].cmds # <<>>
    /\ muted \in BOOLEAN /\ preMuteAF \in 0..255 /\ radio["AG"] \in 0..255
    /\ menu \in DOMAIN Menus /\ asked \in 0..Menus[menu].max /\ faults \in 0..MaxFaults
    /\ span \in [Ranged -> [named : SUBSET Int, down : Nat, up : Nat]]
    /\ own \in {Unsure} \cup 0..255

InitialRadio ==
    [r \in Registers |->
        CASE r = "FA" -> 7200000 [] r = "FB" -> 14200000 [] r = "MD" -> LSB
          [] r = "AG" -> 50 [] r = "RT" -> 200 [] r = "PR" -> 1 [] OTHER -> 0]

RigInit ==
    /\ radio = InitialRadio
    /\ job = [c \in Clients |-> Idle]
    /\ muted = FALSE /\ preMuteAF = 0
    /\ menu \in DOMAIN Menus /\ asked = 0 /\ faults = 0
    /\ span = [g \in Ranged |->
          [named |-> {radio[r] : r \in {q \in Registers : SpanOf(q) = g}}, down |-> 0, up |-> 0]]
    /\ own = radio["AG"]

-----------------------------------------------------------------------------
(* The handlers                                                            *)

Enter(c, step, route, cmds) ==
    job' = [job EXCEPT ![c] = [step |-> step, route |-> route, cmds |-> cmds]]

\* On to the commands, or done if there are none: a refusal, or nothing to do.
Proceed(c, cmds) ==
    IF cmds = <<>> THEN job' = [job EXCEPT ![c] = Idle]
    ELSE Enter(c, "send", job[c].route, cmds)

\* A request comes in, meant as another it may have been made of.  One that reads
\* asks for something only once it has read.
\* /api/mute/toggle looks at the flag first.
Accept(c, asks, meant) ==
    LET route == IF asks.kind = "mute" /\ asks.how = "toggle"
                 THEN Mute(IF muted THEN "off" ELSE "on") ELSE asks
    IN
    /\ job[c].step = "idle"
    /\ IF route.kind # "fixed"
       THEN Enter(c, IF route.kind = "mute" /\ route.how = "off" THEN "note" ELSE "ask",
                  route, <<>>)
       ELSE IF route.cmds = <<>> THEN UNCHANGED job
       ELSE Enter(c, "send", route, route.cmds)
    /\ IF route.kind = "fixed" THEN Widen(meant) ELSE UNCHANGED span
    /\ own' = OwnAfter(route)
    /\ UNCHANGED <<radio, receiverVars, menu, faults>>

Begin(c, asks) == Accept(c, asks, asks)

\* The radio answers: what was read decides what will be sent.
Ask(c) ==
    /\ job[c].step = "ask"
    /\ LET route == job[c].route
           cur == radio[route.reg]
       IN  IF route.kind = "mute" THEN Enter(c, "note", route, <<cur>>)
           ELSE Proceed(c, Build(route, cur))
    /\ Widen(job[c].route)
    /\ UNCHANGED <<radio, receiverVars, boundVars, own>>

\* It does not, or not with a reading of the register.
AskFails(c) ==
    /\ job[c].step = "ask"
    /\ faults < MaxFaults
    /\ faults' = faults + 1
    /\ IF job[c].route.kind = "mute" THEN Enter(c, "note", job[c].route, <<>>)
       ELSE Proceed(c, BuildUnread(job[c].route))
    /\ Widen(Unread(job[c].route))
    /\ own' = Unsure
    /\ UNCHANGED <<radio, receiverVars, menu, asked>>

\* Mutant: the level of a receiver that is already silent is remembered too.
RememberAny(c) ==
    /\ preMuteAF' = IF job[c].cmds = <<>> THEN preMuteAF ELSE Head(job[c].cmds)

\* A silent receiver was muted already: what is remembered stays.
Remember(c) ==
    /\ preMuteAF' = IF job[c].cmds = <<>> \/ job[c].cmds = <<0>> THEN preMuteAF
                    ELSE Head(job[c].cmds)

\* SetMuted(true), after its question: the flag is up whatever was read.
NoteMute(c) ==
    /\ job[c].step = "note"
    /\ job[c].route.how = "on"
    /\ muted' = TRUE
    /\ Remember(c)
    /\ Proceed(c, <<Write("AG", 0)>>)
    /\ UNCHANGED <<radio, boundVars, histVars>>

\* SetMuted(false): with nothing remembered it refuses, the flag down.
NoteUnmute(c) ==
    /\ job[c].step = "note"
    /\ job[c].route.how = "off"
    /\ muted' = FALSE
    /\ Proceed(c, IF preMuteAF = 0 THEN <<>> ELSE <<Write("AG", preMuteAF)>>)
    /\ UNCHANGED <<radio, preMuteAF, boundVars, histVars>>

\* One command of the sequence.  A level somebody set is the operator's own.
Send(c) ==
    /\ job[c].step = "send"
    /\ radio' = Take(radio, Head(job[c].cmds))
    /\ own' = IF WritesAF(c) /\ own # Unsure THEN radio'["AG"] ELSE own
    /\ Proceed(c, Tail(job[c].cmds))
    /\ UNCHANGED <<receiverVars, boundVars, span>>

\* The first that fails ends the sequence; what was sent stays.
SendFails(c) ==
    /\ job[c].step = "send"
    /\ faults < MaxFaults
    /\ faults' = faults + 1
    /\ job' = [job EXCEPT ![c] = Idle]
    /\ own' = Unsure
    /\ UNCHANGED <<radio, receiverVars, menu, asked, span>>

Serve(c) == Ask(c) \/ AskFails(c) \/ NoteMute(c) \/ NoteUnmute(c) \/ Send(c) \/ SendFails(c)

-----------------------------------------------------------------------------
(* Who asks                                                                *)

Request(c) ==
    /\ asked < Menus[menu].max
    /\ asked' = asked + 1
    /\ \E route \in Menus[menu].routes : Begin(c, route)

\* A hand at the front panel.
FrontPanel ==
    /\ asked < Menus[menu].max
    /\ asked' = asked + 1
    /\ \E cmd \in Menus[menu].knobs :
          /\ radio' = Take(radio, cmd)
          /\ Widen(Fixed(<<cmd>>))
          /\ own' = IF OwnAfter(Fixed(<<cmd>>)) = Unsure THEN Unsure
                    ELSE IF cmd.reg = "AG" THEN cmd.to ELSE own
    /\ UNCHANGED <<job, receiverVars, menu, faults>>

RigNext ==
    \/ \E c \in Clients : Request(c) \/ Serve(c)
    \/ FrontPanel

RigSpec == RigInit /\ [][RigNext]_rigVars
-----------------------------------------------------------------------------
(* Properties                                                              *)

Quiet == \A c \in Clients : job[c].step = "idle"

\* The AF level, the dials and the RIT stay within what was asked for: each is a
\* value somebody named, moved by no more than the steps of the relative requests
\* that have read.  Of the AF level and the dials nothing is made of a reading that
\* failed or was somebody else's (rigroutes.go:366-371, 568-573).  The RIT is
\* excepted: its step, with no reading, is made from 0 (506-513), and that offset
\* counts as named here.
WithinAsked == (\A g \in Ranged : Within(g, radio[g])) /\ Within("FA", radio["FB"])

\* Unmuting gives back the operator's own AF level however mutes overlap: the
\* receiver is silent or at that level, and when it has been silenced the level
\* is remembered (serial.go:627-631).
MuteRoundTrip ==
    own # Unsure =>
        /\ radio["AG"] \in {0, own}
        /\ radio["AG"] # own => preMuteAF = own
=============================================================================
