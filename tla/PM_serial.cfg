CONSTANTS
    k1 = k1
    k2 = k2
    u1 = u1
    u2 = u2
    None = none
    Unknown = unknown
    Dashboard = dashboard
    Apps <- TwoApps
    Hosts <- TwoHosts
    Paths <- NestedPaths
    Upstreams <- TwoUpstreams
    Segments <- TwoSegments
    PathBytes <- NestedBytes
    Callers <- OneCaller
    Requested <- Overlapping
    MaxCalls = 4
    MaxInbox = 2
SPECIFICATION Spec
INVARIANTS
    TypeOK
    RequestsGoRight
    TableStaysValid
    AcceptedIsCurrent
    ConfirmedIsServed
CHECK_DEADLOCK FALSE
