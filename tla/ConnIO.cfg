SPECIFICATION FairSpec
CONSTANTS
    Conns = {1, 2}
    MaxSegDataSize = 2
    MaxBufSpace = 3
    Modes = {"terminal", "pipe", "program"}
    MaxBytes <- MCMaxBytes
    MaxUnprompted <- MCMaxUnprompted
    StdoutSize = 2
    InSize = 2
    OutSize = 3
INVARIANTS
    TypeOK
    LostEventNeedsDrain
    EarlyEndNeedsDrain
    DeadlockNeedsRefusalOrTalk
    PipesCloseByGivingUp
PROPERTIES
    ImplementsFifo
    RestIsWritten
CHECK_DEADLOCK FALSE
