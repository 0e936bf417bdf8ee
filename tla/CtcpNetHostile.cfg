SPECIFICATION Spec
CONSTANTS
    Client = client
    Server = server
    MaxSegDataSize = 2
    MaxBufSpace = 2
    RetransmitLimit = 1
    PiggybackAck = TRUE
    InputLen <- OneWay3
    RecvWindow <- Window2
    SlowStdout = {server}
    CanCorrupt = TRUE
    StaleLog = {"ignored", "crash"}
INVARIANTS
    TypeOK
    OutputIsInPlace
    QueueTilesWindow
    FinIsLast
    BufferNeverOverrun
CHECK_DEADLOCK FALSE
