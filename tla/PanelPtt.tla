------------------------------- MODULE PanelPtt -------------------------------
(***************************************************************************)
(* The panel's system-wide push-to-talk key (client/lib/ptt.dart) with     *)
(* what main.dart makes of its edges: a key-down is a request to           *)
(* /api/ptt/on, a key-up one to /api/ptt/off.  macOS and Linux deliver key *)
(* events through the hotkey plugin, macOS alone a key-up; on Windows the  *)
(* key is polled.  Changing the key, its mode or quitting takes the key    *)
(* back and gives it out again, with an await in between.                  *)
(*                                                                         *)
(* Each request has a connection of its own (api.dart:68-80): they arrive  *)
(* in any order or not at all, and a request given up after its timeout    *)
(* may still arrive.  The host is what TransmitWatchdog says of it, reduced *)
(* to a carrier, the timer of its last key press, and what it does not do: *)
(* a request whose session is gone is refused, and the radio may not take  *)
(* the command of one that is not, or of the timer.                        *)
(***************************************************************************)
EXTENDS Integers, Sequences, FiniteSets

CONSTANTS
    HoldLimit,   \* the panel's 150 s
    HostLimit,   \* the host's 180 s
    MaxSent,     \* bound: requests sent
    MaxEdges,    \* bound: times the key moves
    MaxJobs,     \* bound: changes of key or mode
    MaxLost,     \* bound: requests that never arrive
    MaxRefused   \* bound: key-ups that arrive and are not carried out

ASSUME PanelPttAssumption ==
    /\ {HoldLimit, HostLimit, MaxSent, MaxEdges, MaxJobs, MaxLost, MaxRefused} \subseteq Nat
    /\ 0 < HoldLimit /\ HoldLimit < HostLimit

VARIABLES
    platform,
    finger,      \* the key itself
    edges,       \* times it moved
    events,      \* key events the plugin has not delivered yet
    watch,       \* who tells of the key: nobody, the plugin or the poll
    ups,         \* the plugin was given a key-up handler
    was,         \* the key when the poll last looked
    hold, down,  \* _hold and _down
    limit,       \* what is left of _limit, or Off
    job,         \* the change of key under way
    jobs,
    tx,          \* _tx.running: the station is armed
    gone,        \* the panel has quit
    net,         \* requests on their way, numbered in the order they were sent
    sent,
    carrier, airtime,
    watchdog,    \* the host's timer for this carrier
    newest, overtaken, lost,  \* history: what the network did
    refused      \* history: key-ups the host did not carry out

keyVars == <<finger, edges, events>>
watchVars == <<platform, watch, ups, was>>
pttVars == <<hold, down, limit>>
jobVars == <<job, jobs, gone>>
netVars == <<net, sent>>
hostVars == <<carrier, airtime, watchdog>>
histVars == <<newest, overtaken, lost, refused>>
vars == <<keyVars, watchVars, pttVars, jobVars, tx, netVars, hostVars, histVars>>

Off == -1
Idle == [step |-> "idle"]
Targets == {"key", "off", "quit"}
Jobs == {Idle} \cup [step : {"awaits", "release"}, to : Targets]

TypeOK ==
    /\ platform \in {"macos", "windows", "linux"}
    /\ finger \in {"up", "down"} /\ edges \in 0..MaxEdges
    /\ events \in Seq({"up", "down"})
    /\ watch \in {"nobody", "plugin", "poll"}
    /\ ups \in BOOLEAN /\ was \in {"up", "down"}
    /\ hold \in BOOLEAN /\ down \in BOOLEAN
    /\ limit \in {Off} \cup 0..HoldLimit
    /\ job \in Jobs /\ jobs \in 0..MaxJobs
    /\ tx \in BOOLEAN /\ gone \in BOOLEAN
    /\ net \subseteq [cmd : {"on", "off"}, n : 1..MaxSent] /\ sent \in 0..MaxSent
    /\ carrier \in BOOLEAN /\ airtime \in 0..HostLimit /\ watchdog \in {"off", "running"}
    /\ newest \in 0..MaxSent /\ overtaken \in BOOLEAN
    /\ lost \in 0..MaxLost /\ refused \in 0..MaxRefused
    /\ watch = "poll" => platform = "windows"
    /\ hold => platform # "linux"

Init ==
    /\ platform \in {"macos", "windows", "linux"}
    /\ finger = "up" /\ edges = 0 /\ events = <<>>
    /\ watch = "nobody" /\ ups = FALSE /\ was = "up"
    /\ hold = (platform # "linux") /\ down = FALSE /\ limit = Off
    /\ job = Idle /\ jobs = 0 /\ gone = FALSE
    /\ tx \in BOOLEAN
    /\ net = {} /\ sent = 0
    /\ carrier = FALSE /\ airtime = 0 /\ watchdog = "off"
    /\ newest = 0 /\ overtaken = FALSE /\ lost = 0 /\ refused = 0

CanHold == platform # "linux"

Send(cmd) ==
    /\ sent < MaxSent
    /\ sent' = sent + 1
    /\ net' = net \cup {[cmd |-> cmd, n |-> sent + 1]}

-----------------------------------------------------------------------------
(* The two edges                                                           *)

\* _down, the limit and onDown, which does not key a station that is not armed.
KeyOn ==
    /\ down' = TRUE /\ limit' = HoldLimit
    /\ IF tx THEN Send("on") ELSE UNCHANGED netVars

\* onUp sends whatever the state of the station.
KeyOff == down' = FALSE /\ limit' = Off /\ Send("off")

\* Mutant: a press does not arm the limit.
PressedNoLimit ==
    /\ UNCHANGED hold
    /\ CASE ~down -> down' = TRUE /\ UNCHANGED limit
                   /\ (IF tx THEN Send("on") ELSE UNCHANGED netVars)
         [] down /\ ~hold -> KeyOff
         [] OTHER -> UNCHANGED <<down, limit, netVars>>

\* In toggle mode a press is whichever edge the last was not; in hold mode a
\* repeat is suppressed.
Pressed ==
    /\ UNCHANGED hold
    /\ CASE ~down -> KeyOn
         [] down /\ ~hold -> KeyOff
         [] OTHER -> UNCHANGED <<down, limit, netVars>>

Released ==
    /\ UNCHANGED hold
    /\ IF down THEN KeyOff ELSE limit' = Off /\ UNCHANGED <<down, netVars>>

-----------------------------------------------------------------------------
(* How the edges reach the panel                                           *)

\* The plugin reports presses, and releases where it can.
KeyMoves ==
    /\ edges < MaxEdges
    /\ edges' = edges + 1
    /\ finger' = IF finger = "up" THEN "down" ELSE "up"
    /\ events' = IF watch = "plugin" /\ (finger' = "down" \/ platform = "macos")
                 THEN Append(events, finger') ELSE events
    /\ UNCHANGED <<watchVars, pttVars, jobVars, tx, netVars, hostVars, histVars>>

\* A key-up without a handler goes nowhere.
Event ==
    /\ events # <<>> /\ ~gone
    /\ events' = Tail(events)
    /\ CASE Head(events) = "down" -> Pressed
         [] Head(events) = "up" /\ ups -> Released
         [] OTHER -> UNCHANGED <<pttVars, netVars>>
    /\ UNCHANGED <<finger, edges, watchVars, jobVars, tx, hostVars, histVars>>

\* Every 15 ms: the key is compared with what it was; only hold cares about
\* the up edge.
EdgePoll ==
    /\ watch = "poll" /\ ~gone
    /\ finger # was
    /\ was' = finger
    /\ CASE finger = "down" -> Pressed
         [] finger = "up" /\ hold -> Released
         [] OTHER -> UNCHANGED <<pttVars, netVars>>
    /\ UNCHANGED <<keyVars, platform, watch, ups, jobVars, tx, hostVars, histVars>>

\* The 150 s on one over.
LimitFires ==
    /\ limit = 0 /\ ~gone
    /\ Released
    /\ UNCHANGED <<keyVars, watchVars, jobVars, tx, hostVars, histVars>>

-----------------------------------------------------------------------------
(* use() and unregister(), one after the other on _work                    *)

\* Mutant: hold is offered where no release can arrive.
BeginAnyMode(to, wanted) ==
    /\ job = Idle /\ jobs < MaxJobs /\ ~gone
    /\ jobs' = jobs + 1
    /\ hold' = wanted
    /\ limit' = Off
    /\ watch' = IF watch = "poll" THEN "nobody" ELSE watch
    /\ job' = [step |-> IF watch = "plugin" THEN "awaits" ELSE "release", to |-> to]
    /\ UNCHANGED <<keyVars, platform, ups, was, down, gone, tx, netVars, hostVars, histVars>>

\* The mode is set at once; the timers go; then the plugin is asked to give the
\* key back.  The poll has nothing to wait for.
Begin(to, wanted) ==
    /\ job = Idle /\ jobs < MaxJobs /\ ~gone
    /\ jobs' = jobs + 1
    /\ hold' = (wanted /\ CanHold)
    /\ limit' = Off
    /\ watch' = IF watch = "poll" THEN "nobody" ELSE watch
    /\ job' = [step |-> IF watch = "plugin" THEN "awaits" ELSE "release", to |-> to]
    /\ UNCHANGED <<keyVars, platform, ups, was, down, gone, tx, netVars, hostVars, histVars>>

Use == \E to \in {"key", "off"}, wanted \in BOOLEAN : Begin(to, wanted)
Quit == Begin("quit", hold)

\* The plugin's answer comes after the events it had already sent.
KeyGivenBack ==
    /\ job.step = "awaits"
    /\ events = <<>>
    /\ watch' = "nobody"
    /\ job' = [job EXCEPT !.step = "release"]
    /\ UNCHANGED <<keyVars, platform, ups, was, pttVars, jobs, gone, tx, netVars, hostVars,
                   histVars>>

\* What the job was for: another key, none, or the end of the panel.
Settle(to) ==
    /\ job' = Idle
    /\ CASE to = "key" /\ platform = "windows" ->
              watch' = "poll" /\ was' = finger /\ UNCHANGED <<ups, gone>>
         [] to = "key" /\ platform # "windows" ->
              \* the registration may be refused
              /\ watch' \in {"plugin", "nobody"}
              /\ ups' = (hold /\ platform = "macos")
              /\ UNCHANGED <<was, gone>>
         [] to = "off" -> UNCHANGED <<watch, ups, was, gone>>
         [] to = "quit" -> gone' = TRUE /\ UNCHANGED <<watch, ups, was>>

\* Mutant: a key taken back while it is down is forgotten.
JobEndsDown ==
    /\ job.step = "release"
    /\ down' = FALSE
    /\ IF job.to = "quit"
       THEN Send("off") /\ tx' = FALSE
       ELSE UNCHANGED <<tx, netVars>>
    /\ Settle(job.to)
    /\ UNCHANGED <<keyVars, platform, hold, limit, jobs, hostVars, histVars>>

\* A key that was down is released; quitting unkeys and disarms whatever it was.
\* The await of the answer, which may be its timeout, changes nothing.
JobEnds ==
    /\ job.step = "release"
    /\ down' = FALSE
    /\ tx' = (tx /\ job.to # "quit")
    /\ IF down \/ job.to = "quit" THEN Send("off") ELSE UNCHANGED netVars
    /\ Settle(job.to)
    /\ UNCHANGED <<keyVars, platform, hold, limit, jobs, hostVars, histVars>>

\* Escape unkeys and disarms, whatever the key says.  (Disarming closes the
\* transmit socket, which unkeys once more: TxRouting.)
Escape ==
    /\ ~gone
    /\ Send("off")
    /\ tx' = FALSE
    /\ UNCHANGED <<keyVars, watchVars, pttVars, jobVars, hostVars, histVars>>

Arm ==
    /\ ~gone /\ ~tx
    /\ tx' = TRUE
    /\ UNCHANGED <<keyVars, watchVars, pttVars, jobVars, netVars, hostVars, histVars>>

-----------------------------------------------------------------------------
(* The network, the host and time                                          *)

Reaches(r) ==
    /\ net' = net \ {r}
    /\ overtaken' = (overtaken \/ r.n < newest)
    /\ newest' = IF r.n > newest THEN r.n ELSE newest
    /\ UNCHANGED <<keyVars, watchVars, pttVars, jobVars, tx, sent, lost>>

\* The radio does as it is told; a key press arms the timer anew, and a key-up
\* has stopped it.
Arrives(r) ==
    /\ Reaches(r)
    /\ carrier' = (r.cmd = "on")
    /\ airtime' = 0
    /\ watchdog' = IF r.cmd = "on" THEN "running" ELSE "off"
    /\ UNCHANGED refused

\* No session (401), or for a key press no right to transmit (403), and nothing
\* happens; or SetPTT has stopped the timer and its write fails.
Refused(r) ==
    /\ Reaches(r)
    /\ watchdog' \in {watchdog, "off"}
    /\ r.cmd = "off" => refused < MaxRefused
    /\ refused' = IF r.cmd = "off" THEN refused + 1 ELSE refused
    /\ UNCHANGED <<carrier, airtime>>

Lost(r) ==
    /\ lost < MaxLost
    /\ lost' = lost + 1
    /\ net' = net \ {r}
    /\ UNCHANGED <<keyVars, watchVars, pttVars, jobVars, tx, sent, hostVars, newest, overtaken,
                   refused>>

\* The host's own timer (TransmitWatchdog), which fires once, and whose write
\* may fail: nobody looks at the error.
HostLimitReached == watchdog = "running" /\ airtime = HostLimit

HostUnkeys ==
    /\ HostLimitReached
    /\ carrier' = FALSE /\ airtime' = 0 /\ watchdog' = "off"
    /\ UNCHANGED <<keyVars, watchVars, pttVars, jobVars, tx, netVars, histVars>>

HostUnkeyFails ==
    /\ HostLimitReached
    /\ watchdog' = "off"
    /\ UNCHANGED <<keyVars, watchVars, pttVars, jobVars, tx, netVars, carrier, airtime, histVars>>

\* Timers fire on time, and the plugin answers in less than a tick.  A carrier
\* without a timer is counted no further than the host's limit.
Tick ==
    /\ ~HostLimitReached
    /\ gone \/ (limit # 0 /\ job = Idle)
    /\ limit' = IF limit > 0 THEN limit - 1 ELSE limit
    /\ airtime' = CASE ~carrier -> 0
                    [] carrier /\ airtime < HostLimit -> airtime + 1
                    [] OTHER -> airtime
    /\ UNCHANGED <<keyVars, watchVars, hold, down, jobVars, tx, netVars, carrier, watchdog,
                   histVars>>

-----------------------------------------------------------------------------
Panel == Event \/ EdgePoll \/ LimitFires \/ Use \/ Quit \/ KeyGivenBack \/ JobEnds \/ Escape \/ Arm

Next ==
    \/ Panel \/ KeyMoves \/ HostUnkeys \/ HostUnkeyFails \/ Tick
    \/ \E r \in net : Arrives(r) \/ Refused(r) \/ Lost(r)

Spec == Init /\ [][Next]_vars
-----------------------------------------------------------------------------
(* Properties                                                              *)

\* Everything the panel was told or has sent has got where it was going.
Settled ==
    /\ net = {} /\ events = <<>> /\ job = Idle
    /\ watch = "poll" => was = finger

\* The operator holds the key, or has toggled the transmitter on.
Talking == ~gone /\ (IF hold THEN finger = "down" ELSE down)

\* Nothing stood between the panel and the radio: the network kept what it was
\* given and its order, and the host carried out every key-up.
HeardInOrder == lost = 0 /\ ~overtaken /\ refused = 0

\* "It must never leave a carrier up" (ptt.dart:17): once all is settled an
\* operator who is not talking is not transmitting, whatever was done to the
\* key, its mode and the panel meanwhile and whichever of its key presses were
\* refused, as long as the network lost and reordered nothing and no key-up was
\* refused or failed at the radio.
NoCarrierLeftUp ==
    Settled /\ ~Talking /\ HeardInOrder => ~carrier

\* The same as the comment has it, of a network that loses nothing and a host
\* that does all it is asked.
NeverLeavesCarrierUp == Settled /\ ~Talking /\ lost = 0 /\ refused = 0 => ~carrier

\* The panel's limit comes before the host's (ptt.dart:24-31): when the host's
\* timer runs out, whether or not its own write is taken, a key-up of the panel
\* is late, was lost, overtaken or refused, or failed at the radio.
PanelFirst ==
    [][HostLimitReached /\ watchdog' = "off"
        => ~HeardInOrder \/ \E r \in net : r.cmd = "off"]_vars
=============================================================================
