---------------------------- MODULE CaptureStream ----------------------------
(***************************************************************************)
(* The receive audio (internal/audio/stream.go): the device is opened at   *)
(* the first size of a ladder that survives a read; a supervisor publishes *)
(* what it reads, to the recorder and to a bounded queue per listener, and *)
(* when a read fails closes, waits and walks the ladder again, for ever.   *)
(*                                                                         *)
(* A size is the units one chunk of it holds.  The waits of 1, 2 and 4     *)
(* seconds are one step, whenever it comes.  The count of failures, which  *)
(* is only reported, is left out, and so is a listener's count of chunks   *)
(* dropped, which nothing reads.                                           *)
(***************************************************************************)
EXTENDS Recorder

CONSTANTS
    Listeners,   \* connections to /ws
    Sizes,       \* the ladder, small first
    Forced,      \* --audio-buffer, 0 if not given
    QueueMax,    \* chunks a listener's queue holds
    MaxEvents,   \* bound: times the codec changes or fails
    Away         \* a connection that is not there

ASSUME CaptureAssumption ==
    /\ Sizes \in Seq(Nat \ {0}) /\ Sizes # <<>>
    /\ {Forced, QueueMax, MaxEvents} \subseteq Nat

VARIABLES
    phase,       \* where the supervisor (or Start) is
    rung,        \* the size it tries next
    handle,      \* the device it holds: open, broken or closed
    size,        \* its chunk
    running, stopped,
    published,   \* chunks fanned out (history)
    listener,    \* each listener's queue and account
    works,       \* the sizes the codec can be read at
    events

streamVars == <<phase, rung, handle, size, running>>
worldVars == <<works, events>>
vars == <<recVars, streamVars, stopped, published, listener, worldVars>>

Ladder == IF Forced > 0 THEN <<Forced>> \o Sizes ELSE Sizes
AnySize == {Ladder[i] : i \in DOMAIN Ladder}

\* A listener's queue, the chunks that came before it or were since written to
\* it or dropped for it, and the last one written (history).
Accounts == [queue : Seq(Units), settled : Units, last : Units]

TypeOK ==
    /\ RecorderTypeOK
    /\ phase \in {"start", "read", "feed", "fan", "close", "mark", "wait", "open", "ended",
                  "refused"}
    /\ rung \in DOMAIN Ladder
    /\ handle \in {"open", "broken", "closed"}
    /\ size \in AnySize \cup {0}
    /\ running \in BOOLEAN /\ stopped \in BOOLEAN
    /\ published \in Units
    /\ listener \in [Listeners -> Accounts \cup {Away}]
    /\ \A l \in Listeners : listener[l] # Away => Len(listener[l].queue) <= QueueMax
    /\ works \subseteq AnySize /\ events \in 0..MaxEvents

Init ==
    /\ RecorderInit
    /\ phase = "start" /\ rung = 1 /\ handle = "closed" /\ size = 0
    /\ running = FALSE /\ stopped = FALSE
    /\ published = 0
    /\ listener = [l \in Listeners |-> Away]
    /\ works \in SUBSET AnySize /\ events = 0

-----------------------------------------------------------------------------
(* StartSized, reopen and adopt                                            *)

Adopt ==
    /\ handle' = "open" /\ size' = Ladder[rung]
    /\ running' = TRUE
    /\ phase' = "read" /\ rung' = 1

\* Each size is proven by a read; the next is tried until one is.
TrySize ==
    /\ phase \in {"start", "open"}
    /\ IF Ladder[rung] \in works
       THEN Adopt
       ELSE /\ rung < Len(Ladder)
            /\ rung' = rung + 1
            /\ UNCHANGED <<phase, handle, size, running>>
    /\ UNCHANGED <<recVars, stopped, published, listener, worldVars>>

\* Mutant: the read loop that gave up.
NoSizeGivesUp ==
    /\ phase \in {"start", "open"}
    /\ Ladder[rung] \notin works /\ rung = Len(Ladder)
    /\ rung' = 1
    /\ phase' = IF phase = "start" THEN "refused" ELSE "ended"
    /\ UNCHANGED <<recVars, handle, size, running, stopped, published, listener, worldVars>>

\* The host does not start without its receiver; the supervisor goes back to
\* reading the device it has already closed, which fails at once.
NoSizeLeft ==
    /\ phase \in {"start", "open"}
    /\ Ladder[rung] \notin works /\ rung = Len(Ladder)
    /\ rung' = 1
    /\ phase' = IF phase = "start" THEN "refused" ELSE "read"
    /\ UNCHANGED <<recVars, handle, size, running, stopped, published, listener, worldVars>>

-----------------------------------------------------------------------------
(* supervise                                                               *)

ReadChunk ==
    /\ phase = "read"
    /\ handle = "open" /\ heard + size <= MaxHeard
    /\ phase' = "feed"
    /\ UNCHANGED <<recVars, rung, handle, size, running, stopped, published,
                   listener, worldVars>>

ReadFails ==
    /\ phase = "read"
    /\ handle # "open"
    /\ phase' = "close"
    /\ UNCHANGED <<recVars, rung, handle, size, running, stopped, published,
                   listener, worldVars>>

\* publish, outside the stream's lock: the recorder writes to disk.
FeedRecorder ==
    /\ phase = "feed"
    /\ \E kept \in 0..size : Feed(size, kept)
    /\ phase' = "fan"
    /\ UNCHANGED <<saw, rung, handle, size, running, stopped, published,
                   listener, worldVars>>

\* Mutant: a queue that grows.
OfferedAlways(account) == [account EXCEPT !.queue = Append(@, published + 1)]

\* Mutant: room is made by throwing out the oldest, which nobody counts.
OfferedOldestOut(account) ==
    IF Len(account.queue) < QueueMax
    THEN [account EXCEPT !.queue = Append(@, published + 1)]
    ELSE [account EXCEPT !.queue = Append(Tail(@), published + 1)]

\* A listener whose queue is full loses this chunk, and nobody else does.
Offered(account) ==
    IF Len(account.queue) < QueueMax
    THEN [account EXCEPT !.queue = Append(@, published + 1)]
    ELSE [account EXCEPT !.settled = @ + 1]

FanOut ==
    /\ phase = "fan"
    /\ listener' = [l \in Listeners |->
                       IF listener[l] = Away THEN Away ELSE Offered(listener[l])]
    /\ published' = published + 1
    /\ phase' = "read"
    /\ UNCHANGED <<recVars, rung, handle, size, running, stopped, worldVars>>

\* d.Close, then the look at the stop channel.
CloseDevice ==
    /\ phase = "close"
    /\ handle' = "closed"
    /\ phase' = IF stopped THEN "ended" ELSE "mark"
    /\ UNCHANGED <<recVars, rung, size, running, stopped, published, listener, worldVars>>

MarkDown ==
    /\ phase = "mark"
    /\ running' = FALSE
    /\ phase' = "wait"
    /\ UNCHANGED <<recVars, rung, handle, size, stopped, published, listener, worldVars>>

\* The select: stopped, the wait is over, or both and either is taken.
WaitEnds ==
    /\ phase = "wait"
    /\ phase' \in IF stopped THEN {"open", "ended"} ELSE {"open"}
    /\ UNCHANGED <<recVars, rung, handle, size, running, stopped, published,
                   listener, worldVars>>

\* Stop, from any goroutine; adopt does not look at it.
Stop ==
    /\ ~stopped /\ phase # "start" /\ phase # "refused"
    /\ stopped' = TRUE
    /\ running' = FALSE
    /\ UNCHANGED <<recVars, phase, rung, handle, size, published, listener, worldVars>>

-----------------------------------------------------------------------------
(* Serve, the recorder's requests and the codec                            *)

Joined == [queue |-> <<>>, settled |-> published, last |-> 0]

Join(l) ==
    /\ listener[l] = Away /\ phase # "start" /\ phase # "refused"
    /\ listener' = [listener EXCEPT ![l] = Joined]
    /\ UNCHANGED <<recVars, streamVars, stopped, published, worldVars>>

\* One chunk off the queue and onto the socket.
Delivered(account) ==
    [account EXCEPT !.queue = Tail(@), !.settled = @ + 1, !.last = Head(account.queue)]

Deliver(l) ==
    /\ listener[l] # Away /\ listener[l].queue # <<>>
    /\ listener' = [listener EXCEPT ![l] = Delivered(@)]
    /\ UNCHANGED <<recVars, streamVars, stopped, published, worldVars>>

\* The write fails or the request ends.
Leave(l) ==
    /\ listener[l] # Away
    /\ listener' = [listener EXCEPT ![l] = Away]
    /\ UNCHANGED <<recVars, streamVars, stopped, published, worldVars>>

RecordRequest(c) ==
    /\ phase # "start" /\ phase # "refused"
    /\ Request(c)
    /\ UNCHANGED <<streamVars, stopped, published, listener, worldVars>>

\* An I/O error out of the codec, its plug pulled or put back: what is open
\* cannot be read any more, and other sizes may work from now on.
CodecFails ==
    /\ events < MaxEvents
    /\ events' = events + 1
    /\ works' \in SUBSET AnySize
    /\ handle' = IF handle = "open" THEN "broken" ELSE handle
    /\ UNCHANGED <<recVars, phase, rung, size, running, stopped, published, listener>>

-----------------------------------------------------------------------------
Supervisor ==
    \/ TrySize \/ NoSizeLeft \/ ReadChunk \/ ReadFails \/ FeedRecorder \/ FanOut
    \/ CloseDevice \/ MarkDown \/ WaitEnds

Connection(l) == Join(l) \/ Deliver(l) \/ Leave(l)

Next ==
    \/ Supervisor \/ Stop \/ CodecFails
    \/ \E l \in Listeners : Connection(l)
    \/ \E c \in Callers : RecordRequest(c)

Spec == Init /\ [][Next]_vars

\* The supervisor's goroutine runs, and a read of the codec returns.
FairSpec == Spec /\ WF_vars(Supervisor)

-----------------------------------------------------------------------------
(* Properties                                                              *)

\* Every chunk published while a listener is there was written to it, waits in
\* its queue or was dropped for it, and what it hears is in order: a slow listener
\* and one that comes or leaves cost the others nothing (stream.go:442-450).
EveryChunkAccounted ==
    \A l \in Listeners : listener[l] # Away =>
        LET a == listener[l]
            hears == <<a.last>> \o a.queue
        IN /\ a.settled + Len(a.queue) = published
           /\ \A i \in 1..(Len(hears) - 1) : hears[i] < hears[i + 1]

\* The receiver is never given up on (stream.go:302-305): once the codec stays
\* readable at some size of the ladder, the capture runs again and stays so,
\* unless the host would not start without it or the stream was stopped.
ReceiverComesBack ==
    <>[]((running /\ handle = "open") \/ stopped \/ phase = "refused" \/ works = {})

=============================================================================
