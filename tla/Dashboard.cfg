CONSTANTS
    MaxBatches = 2
    Numbers = {n1}
    MaxFaults = 1
    MaxClicks = 1
    MaxLogins = 1
    Unknown = Unknown
    MaxQuantity = 100
    MaxPurchased = 1
    Digits = {d1, d2}
    OtpCodes = {o1, o2, o3}
    MaxCodes = 3
SPECIFICATION FairSpec
INVARIANTS
    RowsBelong
    RunningIsShown
    RulesAgree
PROPERTIES
    NeverGoesBack
    DashboardSettles
CHECK_DEADLOCK FALSE
