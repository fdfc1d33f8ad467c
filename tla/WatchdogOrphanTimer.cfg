SPECIFICATION Spec
CONSTANTS
    Callers = {p1, p2}
    Timers = {t1, t2, t3}
    NoTimer = NoTimer
    Timeout = 2
    MaxFaults = 0
    RawKeying = FALSE
INVARIANT NoOrphanTimer
