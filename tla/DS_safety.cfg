CONSTANTS
    c1 = c1
    c2 = c2
    c3 = c3
    w1 = w1
    w2 = w2
    h1 = h1
    None = none
    Discarded = discarded
    Apps <- TwoApps
    Calls <- TwoCalls
    Workers <- TwoWorkers
    IDs <- TwoIDs
    Events <- CallEvents
    Handlers <- NoHandler
    QueueCap = 1
    MaxKeep = 1
    MaxInFlight = 2
    MaxBoots = 2
SPECIFICATION Spec
SYMMETRY CallSymmetry
INVARIANTS
    TypeOK
    OneRunPerApp
    JobConservation
    CancelHitsItsJob
    SettledIsSaved
PROPERTIES
    ImplementsEngine
    StatusFollowsGraph
CHECK_DEADLOCK FALSE
