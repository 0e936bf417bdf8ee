SPECIFICATION LinkSpec
CONSTANTS
    Client = client
    Server = server
    MaxSegDataSize = 2
    MaxBufSpace = 2
    RetransmitLimit = 5
    PiggybackAck = FALSE
    InputLen <- BothWays1
    RecvWindow <- Window2
    SlowStdout = {}
    CanCorrupt = FALSE
    StaleLog = {"ignored"}
    ClosesLast = {}
    MaxDrops = 1
INVARIANTS
    FinishedIsAcknowledged
CHECK_DEADLOCK FALSE
