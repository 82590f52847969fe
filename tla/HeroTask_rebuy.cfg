CONSTANTS
    Workers = {w1, w2}
    Tokens = {t1, t2}
    MaxMessages = 1
    Kind = "rent"
    Supports = FALSE
    MaxCrashes = 1
    MaxLapses = 1
    MaxFaults = 1
    MaxStops = 2
    MaxLost = 1
    NoWorker = NoWorker
    NoToken = NoToken
SPECIFICATION Spec
SYMMETRY Symmetry
CHECK_DEADLOCK FALSE
INVARIANTS
    OneAllocation
PROPERTIES
    NumberIsKept
