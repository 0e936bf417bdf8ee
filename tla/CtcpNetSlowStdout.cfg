SPECIFICATION Spec
CONSTANTS
    Client = client
    Server = server
    MaxSegDataSize = 2
    MaxBufSpace = 4
    RetransmitLimit = 2
    PiggybackAck = FALSE
    InputLen <- OneWay2
    RecvWindow <- Window2
    SlowStdout = {server}
    CanCorrupt = FALSE
    StaleLog = {"ignored"}
INVARIANTS
    AckedIsOutput
CHECK_DEADLOCK FALSE
