CONSTANTS
    d1 = d1
    d2 = d2
    r1 = r1
    r2 = r2
    None = none
    Deployments <- TwoDeployments
    Requests <- OneRequest
    Archives <- OldRecords
    Faults <- NoFaults
    MaxBoots = 1
SPECIFICATION Spec
PROPERTIES
    RoutedAfterBoot
CHECK_DEADLOCK FALSE
