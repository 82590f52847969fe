CONSTANTS
    w1 = w1
    w2 = w2
    Workers = {w1, w2}
    MaxEvents = 1
    Blank = {}
    Starts = {"pin_changed"}
    DrainLimit = 1
    MaxCrashes = 1
    MaxLapses = 0
    MaxFaults = 0
    MaxClicks = 1
    MaxStops = 1
    NoWorker = NoWorker
    OldLease = OldLease
    NoEvent = NoEvent
    PinCode = PinCode
SPECIFICATION FairSpec
INVARIANTS
    InboxCloses
    StopIsDue
PROPERTIES
    ClaimEnds
    StopEnds
