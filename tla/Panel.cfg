SPECIFICATION Spec
CONSTANTS
    Clients = {c1, c2}
    Menus <- MCMenus
    MaxFaults = 1
    TuneStep = 1000
    Multiples <- MCMultiples
INVARIANT PanelTypeOK
INVARIANT WithinAsked
INVARIANT MuteRoundTrip
PROPERTY AudioFollowsKey
CHECK_DEADLOCK FALSE
