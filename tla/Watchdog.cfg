SPECIFICATION FairSpec
CONSTANTS
    Callers = {p1, p2}
    Timers = {t1, t2, t3, t4}
    NoTimer = NoTimer
    Timeout = 2
    MaxFaults = 1
    RawKeying = TRUE
INVARIANT TypeOK
INVARIANT CarrierBounded
PROPERTY CarrierPromise
PROPERTY CarrierComesDown
