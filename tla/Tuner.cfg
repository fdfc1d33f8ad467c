SPECIFICATION FairSpec
CONSTANTS
    Powers <- TwoPowers
    TunePower = 15
    Codes <- FewCodes
    Names <- TwoNames
    NameOf <- Naming
    CodeOf <- Coding
    CW = "CW"
    IgnoreEarly = 1
    NoStartGiveUp = 2
    OverallLimit = 3
    MaxFaults = 1
    MaxBacklog = 1
INVARIANT TypeOK
INVARIANT KeyedOnlyAtTunePower
INVARIANT UnkeyedAtTheEnd
INVARIANT TunedMeansTuned
PROPERTY HandsBackWhenFresh
PROPERTY TuneEnds
