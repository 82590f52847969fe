CONSTANTS
    b1 = b1
    b2 = b2
    Batches <- TwoBatches
    Tokens = {t1, t2}
    Numbers = {n1, n2}
    Instances = {i1}
    Quantity <- QuantityMixed
    ProxyTotal <- PooledFirst
    MaxTries = 2
    MaxFaults = 2
    MaxCrashes = 1
    HardErrors = TRUE
    Repeats = TRUE
    NoBatch = NoBatch
    NoToken = NoToken
    NoNumber = NoNumber
SPECIFICATION FairSpec
CHECK_DEADLOCK FALSE
INVARIANTS
    OrderTracked
    StoppedBatchDrains
PROPERTIES
    NoRequestAfterStop
    PurchaseResolves
