CONSTANTS
    Workers = {w1, w2}
    Tokens = {t1}
    MaxMessages = 1
    Kind = "activation"
    Supports = TRUE
    MaxCrashes = 1
    MaxLapses = 1
    MaxFaults = 0
    MaxStops = 1
    MaxLost = 0
    NoWorker = NoWorker
    NoToken = NoToken
SPECIFICATION FairSpec
CHECK_DEADLOCK FALSE
PROPERTIES
    StopEnds
