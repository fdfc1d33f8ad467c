SPECIFICATION Spec
CONSTANTS
    Servers = {s1}
    Requests = {r1, r2}
    Admins = {a1}
    MaxFaults = 0
SYMMETRY Symmetric
INVARIANT TransmitterTakenAway
