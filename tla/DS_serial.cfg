CONSTANTS
    c1 = c1
    c2 = c2
    c3 = c3
    w1 = w1
    w2 = w2
    h1 = h1
    None = none
    Discarded = discarded
    Apps <- OneApp
    Calls <- ThreeCalls
    Workers <- OneWorker
    IDs <- ThreeIDs
    Events <- FileEvents
    Handlers <- OneHandler
    QueueCap = 1
    MaxKeep = 1
    MaxInFlight = 1
    MaxBoots = 2
SPECIFICATION Spec
SYMMETRY CallSymmetry
INVARIANTS
    OneActivePerApp
    CancelHitsItsJob
PROPERTIES
    DeletesOnlyFinished
    HistoryKept
    KeepsHistory
CHECK_DEADLOCK FALSE
