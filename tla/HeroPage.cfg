CONSTANTS
    Inputs = {i1, i2}
    MaxTasks = 2
    PageSize = 1
    MaxUpdates = 3
    MaxLag = 2
    MaxMessages = 1
    MaxPresses = 2
    MaxActions = 1
    MaxFaults = 1
    None = None
    MaxTime = 5
    RefundWindow = 2
    HeroCountries = {c1, c2}
    HeroHours = {4, 24}
SPECIFICATION FairSpec
INVARIANTS
    RetryBuysOnce
    RulesAgree
PROPERTIES
    ShownNeverOlder
    ListIsComplete
    ListCatchesUp
CHECK_DEADLOCK FALSE
