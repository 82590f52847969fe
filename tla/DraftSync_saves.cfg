CONSTANTS
    Forms = {d0, d1, d2, cut}
    Drafts = {d0, d1, d2}
    d2 = d2
    Default = d0
    NoDraft = NoDraft
    Asked = Asked
    d0 = d0
    d1 = d1
    cut = cut
    MaxEdits = 2
    MaxFaults = 2
    MaxOnlines = 1
    MaxPages = 2
    MaxReloads = 2
    Normal <- MCNormal
SPECIFICATION FairSpec
INVARIANTS
    NothingForgotten
    OnlyLoadedFormsStored
PROPERTIES
    LeavesSaved
    DraftSettles
CHECK_DEADLOCK FALSE
