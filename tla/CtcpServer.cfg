SPECIFICATION FairSpec
CONSTANTS
    Clients = {1, 2, 3}
    ClientInput <- Silent
    ServerInput = 0
    RecvWindow = 1
    ClosesLast = TRUE
    MaxNumClients = 2
    MaxDrops = 0
    Undefined = {"ignored", "crash"}
    MaxSegDataSize = 1
    MaxBufSpace = 1
    RetransmitLimit = 1
    PiggybackAck = TRUE
INVARIANTS
    ServedHaveState
    LogIsOpenToRead
    OnlyHandshakeIsSwallowed
PROPERTIES
    NewestIsServed
CHECK_DEADLOCK FALSE
