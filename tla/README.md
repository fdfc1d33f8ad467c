# HamDeck: models and proofs

HamDeck is a host program (Go) next to an amateur radio, and a panel (Dart) an
operator uses over the network. The host owns the serial line of the radio, a
sound card, an antenna tuner on TCP, an accounts file and two HTTP listeners.
The panel is a client of that HTTP API. What can go wrong is mostly a matter of
order: a transmitter that stays keyed, an answer that belongs to another
question, a setting put back that is not the one taken away.

This directory holds TLA+ models of those parts, TLC configurations that check
them on small instances, and TLAPS proofs of some of the results for instances
of every size. `PROJECT.json` ties every definition to the lines it models.

## The system

| Component | State | Operations | Talks to |
|---|---|---|---|
| transmit watchdog (`internal/rig/serial.go`) | `pttTimer` | `SetPTT`, the timer's function | everybody who keys; the CAT line |
| CAT exchange (`serial.go`) | `cat` lock, `waiting`, what is on the line | `ask`, `Ask`, `send`, `pollOnce` | the radio |
| port health (`serial.go`) | `port`, `lastOK`, `snap.Connected` | `pollLoop`, `reopenIfDead`, `Snapshot` | the radio, every reader of a Snapshot |
| tuner sequence (`internal/tuner`) | `active`, `stop`, what is to be put back | `Tune`, `Stop` | the radio through `tunerRig`, the tuner on TCP |
| lockdown (`internal/api/admin.go`, `api.go`) | `Lock.on` per server | lockdown on and off, the keying routes | `SetPTT`, `Tune` |
| transmit routing (`serial.go`, `api.go`) | the radio's MOD SOURCE and REAR SELECT | `SetRemoteTX`, `/ws/tx`, `/api/remote-tx` | the radio, the playback sink |
| accounts (`internal/auth`, `users.go`) | users, sessions, the file, its modification time | login, passwords, permissions, `Save`, `ReloadIfChanged` | every request; the users command, a second process |
| mute (`serial.go`) | `snap.Muted`, `preMuteAF` | `SetMuted`, `/api/mute` | the radio's AF level |
| CAT table (`rigroutes.go`) | none: it is in the radio | some sixty routes through `catHandler` | `Send`, `Ask` |
| CAT proxy (`internal/catproxy`) | TCP clients | `serve`, `handle` | `Ask`, `Send` |
| meter scales (`internal/rig/cal.go`) | none | raw readings to percent, ratio and S-units | what the panel draws |
| host flags (`hostflags.go`) | a map of flags | set, toggle, get | nothing |
| receive audio (`internal/audio/stream.go`) | the capture device, `running`, listeners and their queues | `StartSized`, `supervise`, `publish`, `Serve`, `Stop` | the codec, `/ws`, the recorder |
| recorder (`internal/audio/recorder.go`) | the replay ring, the open file | `Feed`, `Start`, `Stop`, toggle, `Replay` | fed by `publish`; `/api/record` |
| client push-to-talk (`client/lib/ptt.dart`) | `_hold`, `_down`, the limit, who watches the key | press and release, `use`, `unregister`, quit, Escape | `/api/ptt`, one connection per request |
| client panel and audio (`client/lib/main.dart`, `audio`) | `_rig`, `_wasTx`, `_wasKeyed`, play and capture queues | status poll, refresh after a command, PTT button, tuning clicks | the HTTP API |

Goroutines meet at the radio: HTTP handlers of two servers, the poll loop, the
tuner's goroutine, the watchdog's timer, the CAT proxy's connections and the
cleanup of a transmit socket all call the same `Serial`. Two locks protect it:
`mu` its fields and `cat` the line, and no operation that takes several steps
holds either over all of them. Every write may fail, the radio may answer late or
never, the port may die and be reopened, two processes may write the accounts.
These are the behaviours the models keep; `PROJECT.json` lists each as a hazard
at its line, with the property that would catch it.

## Modules

### TransmitWatchdog and Carrier

`SetPTT` is three steps (stop the timer under `mu`, write under `cat`, arm under
`mu`); each caller goes through them in `pc`. Timers run, fire in a goroutine of
their own and write `TX0;` once. `port` takes writes or does not; `RawTX1` and
`RawTX0` are keying that goes round `SetPTT` (the CAT proxy, raw CAT). `carrier`
says whether the over still has its watchdog (`guarded`) or has lost it
(`lapsed`): a failed write and a raw key press lose it, the next `Arm` gives it
back. `Carrier` is what an operator may rely on, with no timers in it at all: an
over ends `Limit` ticks after its last key press unless the promise lapsed.
`CarrierPromise` says that the watchdog implements it; the panel's own limit
does as well (PanelPtt_proofs).

### CatLock and CatExchange

`CatLock` is the lock of the serial line, `holder`, and who may hold it: the
operators and the poll goroutine. CatExchange and SerialHealth each extend it,
and the proofs about both are in one module, CatLine_proofs.

The line is two queues, questions the radio has yet to answer (`asked`) and
answers unread (`buffer`). An entry is *late* once its asker has left, or if none
ever waited. `Write`,
`ReadMatching`, `Discard`, `GiveUp`, `TimeOut` and `ReadFails` (a read error, a
reply that never ends or stops half way, of which a `Scrap` may stay on the
line) are `askOnce` and the loop around it under one lock. `Sends` is `send`,
which takes questions too (the `FA;` of quick-split, a logger's verb off the
proxy's list) and leaves their answers to the next asker. The poll cycle is a constant `Plan`: groups
of questions with one yield check each, which is the way `pollOnce` is written (five
questions checked one by one, four slow ones behind one check, three meters
behind another). The instance uses two groups, of one and of two questions.
`waiting` is the counter the yield checks look at,
as a set: `Ask` and `Send` raise it, while `RemoteTXState` and `SetMuted` call
`ask` itself and are not in it, so an operator begins in either way.
`overtaken` counts the poll questions begun while each of those waited.

What the exchange does not promise: an answer that comes after its asker gave
up is accepted by the next one that asks for the same verb (`OwnAnswerOrLate`
says at most that); nothing bounds how many answers without a reader the line
collects, and an asker who finds four of other verbs in front of its own gets an
error. What `ask` does about them is `BacklogWorkedOff`, an action property over
`found`, the length of the line when the lock was taken: no exchange leaves more
than it found and its own question, less every reply it read. The bound
`MaxLate` stops the asking, not the giving up. The slow settings and the meters have one yield check per
group, so the poller goes before a waiting operator as often as a group is long.

### SerialHealth

The same lock, seen from the port: `OperatorComes`, `ExchangeBegins` and
`ExchangeEnds` are an operator's exchange, whatever it asks. `age` is the age of `lastOK` and `unheard` the age of the last frequency really
read; the code has the first only and uses it for both. The poll goroutine goes
through question, yield check, results, `reopenIfDead` (check, lock, second
check, close, open). The device is answering, off or gone, and a port opened
before it went stays dead. `UnpluggedIsShown` is the property that `lastOK`
stamped by a reopening ("a fresh chance") would break if the stamp came with a
failed one. The stamp of a successful one is the code's: for two seconds after
it old readings are not stale, and a cycle that yields stamps nothing, so an
operator who is busy for four seconds has a working port closed and reopened
(`serial.go:228-229` speaks of completely silent polls). Times are 1, 2 and 3 seconds for the code's 2, 3 and
4: only their order matters to the code.

### TunerSequence

One action per statement of `Tune` that touches the radio or the tuner; its deferred
function is `Unkey`, `RestoreMode`, `RestorePower`, each of which may fail alone.
The poll cache it saves from is filled by `Poll`, one reading at a time. `basis` is a
history: whether the cache it saved from was `fresh`, and whether an operator
`disturbed` the radio since. With a stale cache the tune hands back an older
setting, and `HandsBackWhenFresh` excepts it. After a deferred unkey that failed
mode and power are restored under the carrier, and the carrier is an `orphan`:
`KeyedOnlyAtTunePower` speaks of every step, the restore and what comes after it
included, and excepts that carrier alone. The
radio's mode is a code and the host's a name: a poll goes by `NameOf`
(`modeByCode`; a code it does not have leaves the old name), a restore by `CodeOf`
(`codeByMode`). Two codes are called DATA and one of them is written back, so what
a tune hands back is a mode of the same name. The instance has both, CW, and a
code without a name. The
tuner sends its burst 0, 1, 0 on connecting, answers a status request or does
not, and tunes for at least `IgnoreEarly` seconds. Seconds are scaled: 1, 2, 3
(or 2, 3, 5) for the code's 2, 5 and 45.

### Lockdown

A keying request is admitted by `mayTransmit` and keys later; a tune is admitted,
begins in a goroutine of its own, and keys after power, mode and a connection.
`LockOn` and `LockUnkeys` are the two halves of the handler. `straddling`
remembers which requests were under way when their server was locked, and `carrier`
whose key press put it up. `watchdog` is `pttTimer`: a key press the radio has
taken arms it, and every other call of `SetPTT` stops it first, so that one whose
write is lost (`PTTLost`) leaves the carrier as it was and no timer. Each `SetPTT`
of the host may be lost: a key press, a lockdown's unkey, the tune's deferred one,
anybody else's. The routes that have the radio key itself (CW text and
memories, its own ATU) ask the lock (`AdmitRadio`) and send a command
(`SendToRadio`) that leaves PTT alone: `NoneLetIn` covers them, `carrier` and
what is said of it do not, since what the radio then sends, and whether an unkey
stops it, is the radio's. Raw CAT is not here. Its properties are checked in Station, with everybody else at the
transmitter; `LockdownOvertaken` runs it alone.

### TxRouting

The three menu writes of `SetRemoteTX(true)` and the one of `SetRemoteTX(false)`,
each of which waits out the 50 ms after the last one (`settling`), by a socket that
stays open or a request that does not. `Press` and `Release` are everybody else
at PTT. `held`, `alone` and `pressed` are histories. The rig is one that can be
routed (the simulator refuses). Two sockets at once are one too many: the first
to close takes the radio from the other, so `SoleSocketHasRadio` speaks of one
that opened alone; and a press between a socket's unkey and its MIC is given to
the shack's microphone, which `MicBackUnkeyed` counts as that press's doing.

### Station

Lockdown and TxRouting meet at one carrier. `Station` extends the first and
takes the second as `Routing`, whose `keyed` is `carrier # "none"`: a step that
keys or unkeys is a step of both (`KeyUp`, `TuneEnds`, `LockdownUnkeys`,
`OperatorUnkeys`, `WatchdogUnkeys`, `HandlerUnkeys`), any other is a step of one
(`LockdownOnly`, `RoutingOnly`). `AdmitRoute` adds what neither has alone: a
socket or a routing request passes `mayTransmit` (`api.go:464`, `764`), and one
that opened before the lockdown stays. `WatchdogUnkeys` stands for what
TransmitWatchdog promises of a carrier that has its watchdog, and with
`WatchdogFails` (its own write is lost) is all that is assumed fair:
`LockedGoesQuiet` says that a lockdown that stays on silences the station in the
end, though a request it overtook keyed after its unkey. It does not say so of a
carrier under which a write of `SetPTT` was lost, the lockdown's own
(`admin.go:204` drops the error) included: the timer was stopped before the write
(`serial.go:552-560`), and nobody is left to end it. `crowd` chooses who is there in a behaviour; the next-state relation is the
same for all.

### RigRoutes

The radio is a register for every setting a route reads back. A route is a
record made by the constructor of its kind (`Fixed`, `Level`, `Cycle`, `Toggle`,
`Nudge`, `Rit`, `Step`, `VfoCopy`, `Mute`, ...) with the codes and limits of the
table. `Routes` says which registers each kind may be about, and the assumption
on `Menus` holds every menu to it, as the table does: a cycle or a toggle is
never about a dial, a level or the RIT. `Build` is what the handler makes of its reading, `BuildUnread` of none.
A client goes through `Begin`, `Ask`, `Send`, one step per exchange with the
radio, as `catHandler` does, and a failing command ends the sequence where it
is. `SetMuted` has its two critical sections (`NoteMute`, `NoteUnmute`) between
question and write. A program behind the CAT proxy is a client too: its verbs
are asked or sent. The exchange is CatExchange's matter: here a command is taken
or fails, and a late answer to an older question is left out.

`span` is a history of what was asked for: the values named for a register and
the sum of the steps, both ways; a relative request asks for something once it has
read. `WithinAsked` holds a register to it, which a
reading taken for zero (the 5 that `rigroutes.go:366-371` speaks of) breaks, and
so would any value made of a reading that was not one. The RIT does take a failed
reading for zero (`506-513`): such a step counts as one that names its offset
outright (`Unread`), so of the RIT the property says nothing against it. `own` is the
operator's own AF level while it is certain whose it is: not after a fault, not
when a level is set while the receiver is muted or being muted, and not after
an unmute that met nothing to unmute; there `SetMuted` does restore an older
level (see below).

### PanelView and Meters

PanelView extends RigRoutes with the host's poll (`HostReadsDial`,
`HostPublishes`, `HostYields`; a question that fails leaves the old value of dial or
transmit flag) and the panel: each of its asynchronous functions
is a `task`, commands are RigRoutes' requests, and each command is followed by a
question for the status. Polls overlap, answers overtake one another and are
lost while the `net` is down. `view` is `_rig`, `wasTx` what was announced,
`keyed` whether receive is silenced. The button and the space bar do the
opposite of the view, and a click of the tuning is one step or ten (`Multiples`)
from the view; it is recorded in `span` as that step from where the dial is, so
that `WithinAsked` covers it. `AudioFollowsKey` says that, once the key and the network are steady,
receive and announcement agree with the radio for good.

Meters has the four tables of `cal.go` with exact fractions. Three facts about
them are assumptions of MCPanelView, which TLC evaluates for every raw reading.

### Accounts

Memory (`users`, `sessions`), the file and its modification time, the temporary
file, and each writer's copy on its way through `Store.Save`. A web request
passes the session check (`Admitted`) before it acts; a `users` command loads a
copy of its own (`TerminalLoads`), and its process ends with its write. `Truncate`, `Fill`
and `Rename` are separate, since the temporary path is one for all;
`FillRenamed` is a writer whose file was renamed under it. `TickChecks`,
`TickLoads`, `TickReplaces` are the three parts of `ReloadIfChanged`. A
password is a number never used before. The change of mode (`Chmod`) that ends
`Save`, and the change of owner, are taken to succeed; the permission
`station`, which behaves as the other two flags, is left out; so are hashing and
records without a usable hash.

`overlapped` is set when two saves overlap: a torn file can then be renamed into
place, and `AckedIsDurable` excepts that. `raced` is set when a reload, a start
or another request's change meets a change under way: memory and disk may then
differ until the next change, and `QuietAgrees` excepts that too. The third of
these is two requests whose saves come to the disk in the other order (the copy
is made under the lock and saved outside it); see the disagreements below. The last administrator can be removed at a terminal, so none says there
always is one.

### Recorder and CaptureStream

`CaptureStream` extends `Recorder`, which `publish` feeds outside the stream's
lock. What is received is counted in units, a size of the ladder is the units
of its chunk, and the ring holds three: chunks of two straddle its end. `Feed`
is ring, ceiling, write and header under one mutex; the toggle is `ToggleLooks`
and `ToggleActs`. `file` stays as it was closed until the next one opens. The disk
may cut a write of samples, which ends the recording, and refuse one of the header,
whose error is discarded (`recorder.go:225`): the old header then stays, and
`whole` is a history of whether the last samples and the last header were taken.
`RecordingIsWhatWasHeard` has a header claim no more than is there, and all of it
when they were.

The supervisor's `phase` follows `supervise`: read, feed, fan out; after an error
close, mark, wait, walk the ladder. A failed walk goes back to reading the
device that is closed already, which fails and closes it again. `works` is the
set of sizes the codec can be read at; `CodecFails` changes it and breaks what is
open. A read that neither returns nor fails is outside the model: the code has
no defence against it but the level that decays. The waits never exceed four
seconds, though `stream.go:304-305` speaks of five. A listener and the recorder
are told rate and channels once, so a codec reopened at another rate is played
at the wrong speed; rates are left out. So is a listener's count of dropped chunks
(`stream.go:448`), which nothing reads: `EveryChunkAccounted` accounts for them in
a history, `settled`. The instance has two listeners together, or one of them and
somebody who records (`crowd`): the recorder is fed before the listeners are, and
nothing of theirs reaches it. `Stop`, which only tests call, may be
undone by a reopening under way. Recordings are named by the second: one started
in the second another was is written over it.

### PanelPtt

`finger` is the key. On macOS and Linux the plugin queues `events`, macOS alone
with key-ups; on Windows `EdgePoll` compares it with `was`. `Begin`,
`KeyGivenBack` and `JobEnds` are `use`, `unregister` and quit, one after another as
`_work` has them, with the plugin's await in between. Events sent before the
plugin gives the key back are delivered before it says so (they share a
channel), and its answer takes less than a tick. Each request goes into `net`
with a number; `Reaches` takes any of them. It `Arrives`, and the radio does as it
is told, or is `Refused`: a session that is gone (401), a right to transmit that is
not there (403), or a write of `SetPTT` that fails with the timer stopped already.
`refused` counts the key-ups among these. The host is a carrier and its
`watchdog`, which after `HostLimit` ticks unkeys, or tries to (`HostUnkeyFails`), a
summary of `TransmitWatchdog`. What is promised of the panel (`NoCarrierLeftUp`,
`PanelFirst`) is promised while the network loses and reorders nothing and the
host carries out every key-up: the panel takes no notice of an answer, and has
nothing to set against a refused one but Escape. The ON AIR button and the space bar
key by the last status polled and are not here; nor is a Windows without
`user32.dll`.

## Runs

Run any of them with `tlc -config <run>.cfg <module>`. A run that finds a violation has
one property, which a comment of the repository states; the disagreement is
described under "findings" in `PROJECT.json`.

| Run | Module, instance | Properties |
|---|---|---|
| Watchdog | MCTransmitWatchdog: 2 callers, 4 timers, timeout 2, 1 port failure, raw keying, fair | types; `CarrierBounded`: an over that has its watchdog is never longer than the timeout; `CarrierComesDown`; `CarrierPromise`: it implements `Carrier` |
| WatchdogOrphanTimer | 2 callers, 3 timers, no failure | **violated** `NoOrphanTimer`: two key presses leave a timer nobody can stop |
| CatLine | MCCatExchange: 2 operators and the poller, 2 answers left over, 2 attempts | types; `NoCrossedAnswers`: of the line only the last answer has anybody waiting, and what is read is the asker's own or late; `BacklogWorkedOff`: an exchange leaves what it found and its question, less each reply read; `OvertakenByOneGroup` |
| Health | MCSerialHealth: 2 operators, 2 changes of the device, fair | types (`HealthTypeOK`); `NoSwapMidExchange`; `HeardAgain`; `UnpluggedIsShown` |
| Tuner | MCTunerSequence: 2 powers, 4 modes under 2 names, 1 failed write, fair | types; `KeyedOnlyAtTunePower`; `UnkeyedAtTheEnd`; `HandsBackWhenFresh`; `TunedMeansTuned`; `TuneEnds` |
| Station | MCStation: 2 servers, 2 keying requests, 2 lockdowns, 2 sockets, 2 routing requests in five crowds, 1 lost write, a fair watchdog | types; `LockdownHolds`: once locked everywhere only an overtaken request is on the air; `LockedGoesQuiet`, unless a lost write left no watchdog; `QuietMeansMic`; `SoleSocketHasRadio`; `MicBackUnkeyed` |
| LockdownOvertaken | 1 server, 2 requests, 1 handler | **violated** `TransmitterTakenAway`: such a request is on the air |
| Panel | MCPanelView: 2 clients, five menus of 2 to 5 requests, tuning one step up and ten down, 1 failure, fair polls | types; `WithinAsked`; `MuteRoundTrip`; `AudioFollowsKey` |
| Accounts | MCAccounts: 2 web requests, 1 terminal, 2 names, 2 passwords, 2 replacements, 1 failure, 1 restart | types; `SessionStands`; `AckedIsDurable`; `QuietAgrees` |
| Capture | MCCaptureStream: sizes 1 and 2, a ring of 3, queues of 3, 5 units, 2 codec events, 2 listeners, or 1 and a caller, fair | types; `EveryChunkAccounted`: what one listener loses is its own newest and costs the other nothing; `RecordingIsWhatWasHeard`; `ReplayIsTheTail`; `ReceiverComesBack` |
| PanelKey | MCPanelPtt: 3 platforms, 4 requests, 3 moves of the key, 2 changes, 1 lost request, 1 key-up refused or failed | types; `NoCarrierLeftUp`; `PanelFirst`: the panel's limit comes before the host's |
| PttOvertaken | the same, with longer limits and nothing lost or refused | **violated** `NeverLeavesCarrierUp`: off arrives before on, and the key that was released transmits |

Bounds. Each is a constant named in its module: failures, events, passwords,
replacements, requests and restarts are counted and stop at a maximum; airtime
and ages stop one past the largest value anything compares them with. Two of a
kind are enough for an interleaving of a pair of calls, and the runs with two
callers, operators, sockets or servers have a third party beside them (timers,
the poller, buttons, requests). The proofs below take the bounds away where they
exist.

| Bound | Why it is enough |
|---|---|
| timeout 2, limits 1 and 2 | one tick passes before the last, and timers armed a tick apart differ |
| 4 timers | two running, one firing and one to arm |
| questions while 2 answers at most are left over | one is accepted for its verb while another is behind it |
| `MaxOvertaken` 3 | one more than the longest group of the plan |
| 1, 2, 3 seconds in Health, Tuner | the code compares, and only the order of its limits matters |
| 2 passwords, 2 replacements | one to be undone and one to undo it with |
| 5 units, ring of 3, ceiling 2 | the ring wraps once, inside a chunk; a recording reaches its ceiling and another starts |
| 2 listeners, queues of 3 | five chunks fill a queue, with an order in it, and overflow it while the other's is read; the code's 8 differ in length only |
| 2 codec events | down, and back at another size |
| five crowds | an interleaving of three kinds of party at once is an interleaving of the pairs that share state: requests with lockdowns, routing with routing under somebody at PTT, one of each |
| five menus | routes on registers of their own do not meet; a menu holds those that share a register, and one route of each kind |
| 2 to 5 requests | mute, mute, level, unmute, mute is the longest story of a register; read-write pairs need two and one to come between |
| 4 requests, 3 moves, 2 changes of key | press, release, press; a key taken, and taken back while down |

Deadlock is checked but where the bounds, or the program, stop it: in Panel a
menu without the panel has been served; Accounts has
a last replacement of the file; in Capture a host whose codec reads at no size
has refused to start; in PanelKey and PttOvertaken a panel has quit or has sent
its last request.

Fairness. Only where a property needs it: a goroutine that has begun goes on
(the code never parks one but at a lock, a read with a deadline, or a sleep),
time passes, a timer due fires. In Capture a read of the codec returns, with
data or an error. The radio, its port, the codec and the tuner need not recover
or answer, and nothing is fair about operators and failures. `HeardAgain` and
`UnpluggedIsShown` are conditional on operators leaving the line: the yield
checks let a busy operator starve the poller, which the code intends.
In Station nobody but the watchdog is fair, so
`LockedGoesQuiet` leans on nothing else. In Panel the host's poll, the handlers
and calls under way and the panel's timer are fair; `AudioFollowsKey` asks
for a network that stays up and a key that stays, no more.
`ReceiverComesBack` excepts a codec that can be read at no size, a host that
refused to start and a stream that was stopped.

## Proofs

`TransmitWatchdog_proofs` proves, for any sets of callers and timers, any
timeout and any number of failures:

- `TypeCorrect`;
- `Bounded` and `AlwaysGuarded`, from the invariant `WatchdogInv`.
  `CarrierBounded` is not inductive: nothing in it says why time must stop
  before the timeout. `Guarded` does (a running timer whose time left and the
  airtime add up to the timeout at most, a firing one, or a call under way),
  and `WatchdogInv` adds that a call past its write has its airtime at zero,
  since no time passes inside a call, so the timer it arms has time enough;
- `BoundedWithoutFaults`: with no failure and no raw keying, `lapsed` is never
  reached and the bound holds of every carrier;
- `NoOrphanWhenSerial`: one caller at a time never leaves an orphan timer;
- `ImplementsCarrier`: initial states map to initial states, and each step is a
  step of `Carrier` or leaves it alone (`StepRefines`). `Tick` is where
  `WatchdogInv` is needed.

`Station_proofs` proves of Lockdown, for any number of servers, requests and
handlers:

- `LockdownTypeCorrect`, in which one tune at a time is a part;
- `LockdownAlwaysHolds` and `NoneEverLetIn`, from `LockdownInv`, their
  conjunction with the types: neither is inductive without the other, since a
  request keys after the lock and only `NoneLetIn` says it was overtaken.

Then, of Station, for any sockets and routing requests as well: every step
of Station is a step of Lockdown or a lost write that changes nothing of it
(`LockdownSteps`), and a step of TxRouting or a lost unkey (`RoutingSteps`), so
both invariants carry over and `StationTypeCorrect`, `StationLockdownHolds`,
`StationQuietMeansMic`, `StationSoleSocketHasRadio` and `StationMicBackUnkeyed`
follow. `RoutingInv` is what makes the last three inductive: a radio on REAR is
answered for by a handler under way, a socket, a request or a fault
(`RearAnswered`); who opened alone has nobody else routing (`AloneIsAlone`); what a sole
socket has written is in the radio (`SoleOnItsWay`); and who is about to write
MIC has unkeyed, or somebody pressed since (`UnkeyedFirst`).

`TunerSequence_proofs`, for any powers, modes and limits: `TunerTypeCorrect`;
`TunerUnkeyedAtTheEnd` from `CarrierKnown` (in which steps the carrier is up, and
that the deferred unkey knows); `TunerKeyedAtTunePower` from `SetForTune`
(power and mode once set stay while nobody disturbs them) and `CarrierOrKnown` (a
carrier outside these steps is one whose unkey failed);
`TunerTunedMeansTuned` from `RepliesInOrder` (a queue holds no zero behind a one
while the tuner tunes, and a one was seen only after it began) with `WatchIdle` and
`BurstFirst`; `TunerHandsBackWhenFresh` from `Handover` (what was saved is the
radio's own, and the mode is back, by name, before the power is). That it is
needs `NameOf[CodeOf[name]] = name`, an assumption on the two tables which the
code's satisfy.

`CatLine_proofs`, of CatExchange, for any clients, questions, verbs and any plan
of groups: `ExchangeTypeCorrect`; `ExchangeNoCrossedAnswers` and
`ExchangeWorksBacklogOff` from `HolderReads` (who reads holds the lock), `OneAsker`
(only the last entry of the line has an asker, the holder) and `Backlog` (each
reply the holder dropped has made the line shorter than what it found); `ExchangeOvertakenByOneGroup` from `OvertakenInv`:
behind a yield check nobody was overtaken, and in a group as often as the group
has asked. Of SerialHealth, for any operators: `HealthTypeCorrect` and
`NeverSwapsMidExchange`. `HolderKnown` says whose exchange is under way by who
holds the lock, and the port is only replaced by the poll goroutine while it
does.

`Accounts_proofs`, for any names, sessions, requests and terminals:
`AccountsSessionStands` from `SessionsInv` (a session has an account, with the
password it was opened with); `AccountsAckedIsDurable` from `SaveInv` (without
an overlap one writer at most is past the temporary file, which holds what it
writes, as the file does between rename and answer); `AccountsQuietAgrees` from
`AgreeInv`: undisturbed, one request's change at most is unsaved and it is the
host's accounts, and otherwise those are the file, or the file is newer than the
time the host remembers, and so for the copy a reload is about to take;
`AccountsTypeCorrect`, whose bound on the file's time is not inductive: a writer
that has begun will spend one, so `Room` says that time and writers under way
together stay in bounds, by counting the writers (hence the assumption that web
requests and terminals are finite sets).

`Panel_proofs`, for any menus of routes, any clients and any number of failures,
proves of RigRoutes under the panel:

- `PanelTypeCorrect`. `Typed` also says what each handler has in hand: a question
  only from a route that reads, a note only from a mute, commands the radio has;
- `SettingsAlwaysAsked` (`WithinAsked`), from `ValuesWithin`. That the registers
  are in their spans is not inductive: what will be written is on its way before.
  So every command a handler has left is within the span (`JobWithin`), and so is
  the remembered AF level. The lemma `Built` says of each kind of route that what
  it makes of a reading is no further from it than the route moves, and spans
  only grow (`Grows`), so what is within stays within. A click of
  the tuning is built from an old dial: `PanelWithin` holds the host's reading,
  its snapshot, the view and every answer under way to the span too;
- `MuteAlwaysGivesBack` (`MuteRoundTrip`), from `MuteHolds`. While the operator's level
  is known, no level is asked for by one handler and a mute by another
  (`LevelsApart`); what a mute has read is 0 or that level, and it writes 0 or
  what is remembered (`MutesKnown`); and what is remembered from before does no
  harm (`StaleHarmless`). The invariant holds at every step, with mutes half
  done, not only when all is quiet.

`Capture_proofs`, for any ladder, listeners, queue, ring and ceiling, of CaptureStream
and the Recorder it feeds: `CaptureTypeCorrect`;
`ReplayIsAlwaysTheTail` from `RingHolds`, which says of every place of the ring
which unit is in it (the remainders of `Turns` are what a chunk straddling
the end comes down to); `RecordingAlwaysWhatWasHeard` from `FileHolds` (a stretch of what was heard, a
header no longer than it, and as long if the disk took all of it); and
`EveryChunkAlwaysAccounted` from `ListenersHold` and `StreamHolds`, by which a chunk
is fanned out once, after it was fed, and has a unit at least.

`PanelPtt_proofs`, for any limits of which the panel's is the shorter and any number of
requests: `PanelKeyTypeCorrect`; `PanelLeavesNoCarrierUp` (`NoCarrierLeftUp`) from
`Numbered` and `InOrder`: the last request sent is under way or has arrived, and
is a key-down only while the panel takes the key to be down. Why it may take it
so is `Tracked` (what the poll saw or the plugin's last event says) and
`Watched` (who watches the key while it is moved or given up, and that
a key taken for down has its limit running).
`PanelLimitComesFirst` (`PanelFirst`, an action property) adds `Timed`: airtime
and what is left of the limit are together no more than the limit unless a
key-up is on its way. From the same invariant `PanelImplementsCarrier` shows that
the panel implements `Carrier` too, with its own limit in place of the host's:
an over of the operator (`Over`) is guarded until a key-up is under way, and
none is any more once `HeardInOrder` is gone: the network has lost a request or its
order, or the host has not carried out a key-up.

The assumptions are the modules' `ASSUME`s about their constants, which TLC
evaluates in the passing runs: disjoint sets of processes, limits that are
numbers, in Accounts that a torn file is none of the books, and in RigRoutes that
menus hold routes of the table. The modules' bounds are constants, and any value
of them is allowed.

Every safety invariant and action property of a passing run is proved. What stays
with TLC: liveness and everything with `ENABLED` or fairness, which
the temporal backend does not reach (`CarrierComesDown`, `HeardAgain`,
`UnpluggedIsShown`, `TuneEnds`, `LockedGoesQuiet`, `ReceiverComesBack`,
`AudioFollowsKey`); and what `Interp` of Meters computes, three assumptions of
MCPanelView that are evaluated for every reading.

## Plan

The models follow the code from the radio outwards. What is left, in the order
of its worth:

1. Model: the panel's capture, which says it runs before the radio is routed.
2. State and prove: abstract promises for the accounts (what a client was told is
   what a restarted host knows) and for the line (a question and its answer as
   one step), as `Carrier` is one for the transmitter.

## Disagreements met

Three are runs that find a violation (`WatchdogOrphanTimer`, `LockdownOvertaken`,
`PttOvertaken`). These were met on the way; the models allow or except them, and
no run of its own shows them:

- Accounts: the saves of two requests may reach the disk in the other order
  (`auth.go:329-330`, `355-357`). An account whose removal was acknowledged is
  then back in the file, and at the next start, though `auth.go:337` says "BOTH
  HALVES, ALWAYS". `raced` excepts it.
- `comp/toggle` (`rigroutes.go:193`, `205`) takes a reading of 0 for off and any
  other for on, but what it writes for off, `PR01`, reads back as 1: the toggle
  never turns the compressor on.
- `quick-split` (`rigroutes.go:216-222`): the comment says that it reads A and
  puts it on B; its commands do not, and the `FA;` it sends rather than asks
  leaves an answer on the line.
- `rigroutes.go:46` says the mode rides along with every change of frequency;
  `/api/step`, `/api/freq/` and the VFO copy do not carry it, and two
  overlapping band requests can leave band and mode apart.
- Mute (`serial.go:632-656`): unmuting a receiver that is not muted, or whose
  level was set while muted, restores an older level; so does muting at level
  0. `MuteRoundTrip` excepts them.
- RIT (`rigroutes.go:506-520`): an offset that cannot be read counts as 0, and the
  sum is not clamped to the radio's range.
- The panel: a status poll that fails is announced as receiving and
  gives receive back (`main.dart:386-408`); clicks of the tuning that come
  faster than polls are lost, since each starts from the frequency polled
  (`main.dart:681`), the reason `rigroutes.go:522-525` gives for reading on the host.
- The tuner (`tgxl.go:122-133`): "then hand the radio back the way it was", but the
  mode goes through a name, and the radio's `C` and `8` have one, DATA: a radio
  found in `C` is handed back in `8` (`serial.go:200-202`, `518-527`). In a mode
  that has no name, another than it was in is written, the one polled before it.
  And an unkey that fails is not looked at: mode and power are restored under the
  carrier.
- The recorder (`recorder.go:225`): a header that cannot be written is not noticed;
  the file then claims less than it holds.
- Reopening (`serial.go:228-237`): a cycle that yields stamps nothing, so a busy
  operator has a working port reopened.

## Not modelled

Listed in `PROJECT.json` with a reason each: the host's flags, a map under one
mutex that nothing reads back; process flags, listeners, shutdown and logging;
layout and wording of the panel, its audio queues and codecs; levels, test tone
and probes of the sound card; the playback sink (`stream.go:500-671`: opened once
at the start, one write per packet, a failure only counted) and the transmit
recorder;
probes, tools, installers and generated runners, which keep no state of the
system. Of the simulated rig only the registers the CAT table reads back are
there.

Some things the models have and no property promises against, because the code
does not:

- a failed write of any `SetPTT` leaves a carrier whose timer was already stopped,
  an unkey of a lockdown (`admin.go:204`) and of a tune (`tgxl.go:127`) included:
  `CarrierBounded`, `LockedGoesQuiet` and `UnkeyedAtTheEnd` except it;
- raw keying over CAT has no watchdog and looks at no lock;
- each of the host's two servers has a lock of its own (`api.go:716`), and a
  lockdown at one leaves the other open: the properties speak of all locked;
- a press between a handler's unkey and its MIC is given to the microphone
  (`api.go:811`): `MicBackUnkeyed` excepts it;
- a port reopened to a radio that says nothing counts as heard for as long as its
  stamp is young (`serial.go:276`);
- two saves that overlap in the one temporary file (`store.go:111`), and a reload
  that meets a change (`auth.go:102`): `overlapped` and `raced` except them;
- of two requests that change one account's permissions the first may be undone
  (`admin.go:184`), and of two clicks of the tuning the first may be lost
  (`main.dart:682`): both are in the models, and nothing says they should not be;
- a key-up the host refuses or fails leaves the carrier to the host's watchdog, and
  a failed one to nobody.
