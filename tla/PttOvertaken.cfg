SPECIFICATION Spec
CONSTANTS
    HoldLimit = 3
    HostLimit = 4
    MaxSent = 4
    MaxEdges = 3
    MaxJobs = 2
    MaxLost = 0
    MaxRefused = 0
CHECK_DEADLOCK FALSE
INVARIANT NeverLeavesCarrierUp
