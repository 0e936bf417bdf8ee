SPECIFICATION Spec
CONSTANTS
    Client = client
    Server = server
    MaxSegDataSize = 2
    MaxBufSpace = 4
    RetransmitLimit = 2
    PiggybackAck = FALSE
    InputLen <- TwoAndOne
    RecvWindow <- Window2
    SlowStdout = {}
    CanCorrupt = FALSE
    StaleLog = {"ignored"}
INVARIANTS
    ReleasedWasAccepted
    AckedWasSent
    AckedIsOutput
    FinishedIsComplete
PROPERTIES
    ImplementsStream
CHECK_DEADLOCK FALSE
