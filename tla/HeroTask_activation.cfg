CONSTANTS
    Workers = {w1, w2}
    Tokens = {t1}
    MaxMessages = 2
    Kind = "activation"
    Supports = TRUE
    MaxCrashes = 0
    MaxLapses = 1
    MaxFaults = 1
    MaxStops = 2
    MaxLost = 0
    NoWorker = NoWorker
    NoToken = NoToken
SPECIFICATION Spec
SYMMETRY Symmetry
CHECK_DEADLOCK FALSE
INVARIANTS
    EndIsSound
    ContinuationSound
PROPERTIES
    RefundIsUnread
