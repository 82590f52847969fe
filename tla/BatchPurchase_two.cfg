CONSTANTS
    b1 = b1
    b2 = b2
    Batches <- OneBatch
    Tokens = {t1, t2, t3}
    Numbers = {n1, n2}
    Instances = {i1, i2}
    Quantity <- QuantityTwo
    ProxyTotal <- Pooled
    MaxTries = 3
    MaxFaults = 1
    MaxCrashes = 1
    HardErrors = TRUE
    Repeats = TRUE
    NoBatch = NoBatch
    NoToken = NoToken
    NoNumber = NoNumber
SPECIFICATION Spec
SYMMETRY Symmetry
CHECK_DEADLOCK FALSE
INVARIANTS
    SlotsAccounted
    NeverOverbuys
    CleanupSparesActivations
PROPERTIES
    ImplementsSlotQuota
