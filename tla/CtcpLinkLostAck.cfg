SPECIFICATION LinkSpec
CONSTANTS
    Client = client
    Server = server
    MaxSegDataSize = 2
    MaxBufSpace = 2
    RetransmitLimit = 5
    PiggybackAck = FALSE
    InputLen <- OneWay1
    RecvWindow <- Window2
    SlowStdout = {}
    CanCorrupt = FALSE
    StaleLog = {"ignored"}
    ClosesLast = {server}
    MaxDrops = 1
INVARIANTS
    LossIsRecovered
CHECK_DEADLOCK FALSE
