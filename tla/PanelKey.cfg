SPECIFICATION Spec
CONSTANTS
    HoldLimit = 1
    HostLimit = 2
    MaxSent = 4
    MaxEdges = 3
    MaxJobs = 2
    MaxLost = 1
    MaxRefused = 1
CHECK_DEADLOCK FALSE
INVARIANT TypeOK
INVARIANT NoCarrierLeftUp
PROPERTY PanelFirst
