SPECIFICATION Spec
CONSTANTS
    MaxSegDataSize = 1
    MaxBufSpace = 2
    RetransmitLimit = 1
    PiggybackAck = FALSE
    FilterSize = 2
    NoRtt = 99
    LongMin <- MCLongMin
    InputLen = 7
    Window = 2
    HeaderSize = 1
    RtTimeout = 1
    MinDelay = 0
    MaxDelay = 1
    MaxDrops = 2
    MaxTime = 8
INVARIANTS InflightIsAccounted MinRttIsOfTheWindow
PROPERTIES BandwidthNeverFalls InfiniteBandwidthHoldsAll
CHECK_DEADLOCK FALSE
