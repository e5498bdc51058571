CONSTANTS
    d1 = d1
    d2 = d2
    r1 = r1
    r2 = r2
    None = none
    Deployments <- TwoDeployments
    Requests <- TwoRequests
    Archives <- OldRecords
    Faults <- AllFaults
    MaxBoots = 1
SPECIFICATION Spec
INVARIANTS
    TypeOK
    NoDowntime
    OneVersion
    StatusIsTrue
    MemoryIsSaved
    WorkersNotExposed
SYMMETRY Symmetry
CHECK_DEADLOCK FALSE
