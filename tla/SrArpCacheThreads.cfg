SPECIFICATION AskFairSpec
CONSTANTS
    A = A
    B = B
    N = N
    R1 = R1
    R2 = R2
    e1 = e1
    e2 = e2
    Addresses <- MCAddresses
    Gateways <- MCGateways
    IfAddress <- MCIfAddress
    Table <- HostRoutes
    PacketIds = {1, 2}
    Main = main
    Sweeper = sweeper
    Slots = {1}
    CacheTimeout = 0
    ArpTries = 1
    ReqIds = {1, 2, 3}
    Reuse = FALSE
    Null = null
    InPackets <- Crossed
    Answering <- MCAnswering
    StackLimit = 4
    MaxArps = 1
    StaleUse = {"ignored", "crash"}
INVARIANTS
    QueueSound
    NothingLost
    NotSentAndRefused
    MoreAsksNeedRace
    ReentryNeedsCrossing
PROPERTIES
    WaitingEnds
    SweepEnds
CHECK_DEADLOCK FALSE
