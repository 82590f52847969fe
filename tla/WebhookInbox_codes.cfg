CONSTANTS
    w1 = w1
    w2 = w2
    Workers = {w1, w2}
    MaxEvents = 2
    Blank = {1}
    Starts = {"subsequent"}
    DrainLimit = 1
    MaxCrashes = 1
    MaxLapses = 1
    MaxFaults = 1
    MaxClicks = 0
    MaxStops = 0
    NoWorker = NoWorker
    OldLease = OldLease
    NoEvent = NoEvent
    PinCode = PinCode
SPECIFICATION Spec
SYMMETRY Symmetry
INVARIANTS
    CallbacksAreKept
PROPERTIES
    ShowsAsLog
    StaleWritesNothing
    AskIsRecorded
