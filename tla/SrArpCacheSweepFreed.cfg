SPECIFICATION AskSpec
CONSTANTS
    A = A
    B = B
    N = N
    R1 = R1
    R2 = R2
    e1 = e1
    e2 = e2
    Addresses <- MCAddresses
    Gateways <- MCGateways
    IfAddress <- MCIfAddress
    Table <- HostRoutes
    PacketIds = {1, 2}
    Main = main
    Sweeper = sweeper
    Slots = {1, 2}
    CacheTimeout = 1
    ArpTries = 5
    ReqIds = {1, 2, 3}
    Reuse = FALSE
    Null = null
    InPackets <- OnePacket
    Answering <- MCAnswering
    StackLimit = 4
    MaxArps = 0
    StaleUse = {"ignored"}
INVARIANTS
    SweepUsesLiveRequest
CHECK_DEADLOCK FALSE
