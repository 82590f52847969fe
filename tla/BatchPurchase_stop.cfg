CONSTANTS
    b1 = b1
    b2 = b2
    Batches <- OneBatch
    Tokens = {t1}
    Numbers = {n1, n2}
    Instances = {i1, i2}
    Quantity <- QuantityTwo
    ProxyTotal <- Direct
    MaxTries = 3
    MaxFaults = 0
    MaxCrashes = 1
    HardErrors = FALSE
    Repeats = FALSE
    NoBatch = NoBatch
    NoToken = NoToken
    NoNumber = NoNumber
SPECIFICATION Spec
CHECK_DEADLOCK FALSE
PROPERTIES
    NoRequestAfterStop
