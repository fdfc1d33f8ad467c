SPECIFICATION Spec
CONSTANTS
    Names = {n1, n2}
    Tokens = {t1}
    Web = {w1, w2}
    Terminals = {c1}
    MaxHashes = 2
    MaxTime = 2
    MaxFaults = 1
    MaxCrashes = 1
    Torn = Torn
    None = None
CHECK_DEADLOCK FALSE
SYMMETRY Symmetric
INVARIANT TypeOK
INVARIANT SessionStands
INVARIANT AckedIsDurable
INVARIANT QuietAgrees
