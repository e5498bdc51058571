CONSTANTS
    r1 = r1
    r2 = r2
    alice = alice
    bob = bob
    old = old
    new = new
    d1 = d1
    d2 = d2
    CLI = cli
    None = none
    Torn = torn
    Gone = gone
    Requests <- TwoRequests
    Writers <- AllWriters
    Names <- TwoNames
    Passwords <- TwoPasswords
    Domains <- TwoDomains
    Archive <- OtherServer
    MaxCalls = 3
SPECIFICATION Spec
INVARIANTS
    TypeOK
    FilesAreWhole
    MemoryIsOnDisk
    FlagsNeedDomain
    OneAdmin
    SetupStaysLocked
    DashboardFollowsDomain
CHECK_DEADLOCK FALSE
