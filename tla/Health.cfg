SPECIFICATION FairHealthSpec
CONSTANTS
    Operators = {o1, o2}
    StaleAfter = 1
    ConnectedWithin = 2
    DeadAfter = 3
    MaxEvents = 2
    Nobody = Nobody
    Poller = Poller
INVARIANT HealthTypeOK
INVARIANT NoSwapMidExchange
PROPERTY HeardAgain
PROPERTY UnpluggedIsShown
