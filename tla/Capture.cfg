SPECIFICATION MCSpec
CONSTANTS
    l1 = l1
    l2 = l2
    c1 = c1
    Callers = {c1}
    Listeners = {l1, l2}
    RingMax = 3
    MaxBytes = 2
    MaxHeard = 5
    Sizes <- MCSizes
    Forced = 0
    QueueMax = 3
    MaxEvents = 2
    Away = Away
CHECK_DEADLOCK FALSE
INVARIANT TypeOK
INVARIANT EveryChunkAccounted
INVARIANT RecordingIsWhatWasHeard
INVARIANT ReplayIsTheTail
PROPERTY ReceiverComesBack
