CONSTANTS
    c1 = c1
    c2 = c2
    c3 = c3
    w1 = w1
    w2 = w2
    h1 = h1
    None = none
    Discarded = discarded
    Apps <- TwoApps
    Calls <- TwoCalls
    Workers <- OneWorker
    IDs <- TwoIDs
    Events <- NoEvents
    Handlers <- NoHandler
    QueueCap = 1
    MaxKeep = 1
    MaxInFlight = 1
    MaxBoots = 1
SPECIFICATION Spec
PROPERTY
    HistoryKept
CHECK_DEADLOCK FALSE
