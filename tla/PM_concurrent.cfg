CONSTANTS
    k1 = k1
    k2 = k2
    u1 = u1
    u2 = u2
    None = none
    Unknown = unknown
    Dashboard = dashboard
    Apps <- TwoApps
    Hosts <- OneHost
    Paths <- NestedPaths
    Upstreams <- TwoUpstreams
    Segments <- TwoSegments
    PathBytes <- NestedBytes
    Callers <- TwoCallers
    Requested <- Disjoint
    MaxCalls = 2
    MaxInbox = 2
SPECIFICATION Spec
INVARIANT
    ConfirmedIsServed
CHECK_DEADLOCK FALSE
