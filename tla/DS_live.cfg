CONSTANTS
    c1 = c1
    c2 = c2
    c3 = c3
    w1 = w1
    w2 = w2
    h1 = h1
    None = none
    Discarded = discarded
    Apps <- OneApp
    Calls <- ThreeCalls
    Workers <- OneWorker
    IDs <- ThreeIDs
    Events <- TornReadOnly
    Handlers <- NoHandler
    QueueCap = 1
    MaxKeep = 1
    MaxInFlight = 2
    MaxBoots = 1
SPECIFICATION FairSpec
PROPERTIES
    CallsFinish
CHECK_DEADLOCK FALSE
