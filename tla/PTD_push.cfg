CONSTANTS
    main = main
    dev = dev
    p1 = p1
    p2 = p2
    browser = browser
    TheApp = app
    None = none
    Nothing = nothing
    Branches <- TwoBranches
    Main = main
    Default = dev
    Logs <- SomeDeliveries
    Choices <- MainOrEmpty
    Followed <- FirstDelivery
    Streams <- OneStream
    Chunk = 1
    MaxPushes = 2
SPECIFICATION Spec
INVARIANTS
    TypeOK
    PushIsCovered
    CopyStaysUsable
    StreamIsPrefix
PROPERTIES
    NeverBackwards
    StreamsFollow
CHECK_DEADLOCK FALSE
