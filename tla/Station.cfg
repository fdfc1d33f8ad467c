SPECIFICATION StationSpec
CONSTANTS
    r1 = r1
    r2 = r2
    a1 = a1
    a2 = a2
    s1 = s1
    s2 = s2
    b1 = b1
    b2 = b2
    Servers = {h1, h2}
    Requests = {r1, r2}
    Admins = {a1, a2}
    Sockets = {s1, s2}
    Buttons = {b1, b2}
    MaxFaults = 1
    Crowds <- Mixes
INVARIANT StationTypeOK
INVARIANT LockdownHolds
INVARIANT QuietMeansMic
INVARIANT SoleSocketHasRadio
PROPERTY MicBackUnkeyed
PROPERTY LockedGoesQuiet
