CONSTANTS
    c1 = c1
    c2 = c2
    c3 = c3
    w1 = w1
    w2 = w2
    h1 = h1
    None = none
    Discarded = discarded
    Apps <- OneApp
    Calls <- TwoCalls
    Workers <- OneWorker
    IDs <- TwoIDs
    Events <- NoEvents
    Handlers <- OneHandler
    QueueCap = 1
    MaxKeep = 1
    MaxInFlight = 2
    MaxBoots = 2
SPECIFICATION Spec
INVARIANT
    InterruptedAreFailed
CHECK_DEADLOCK FALSE
