SPECIFICATION FairSpec
CONSTANTS
    Client = client
    Server = server
    MaxSegDataSize = 2
    MaxBufSpace = 2
    RetransmitLimit = 2
    PiggybackAck = FALSE
    InputLen <- OneWay4
    RecvWindow <- Window2
    SlowStdout = {}
    CanCorrupt = FALSE
    StaleLog = {"ignored"}
    ClosesLast = {server}
    MaxDrops = 2
INVARIANTS
    CrashNeedsRepeatedAck
    WindowOverrunBounded
PROPERTIES
    LosslessFinishes
    ReadIsOutputOrGivenUp
CHECK_DEADLOCK FALSE
