CONSTANTS
    eth1 = eth1
    eth2 = eth2
    eth3 = eth3
    ip1 = ip1
    ip2 = ip2
    mac1 = mac1
    mac2 = mac2
    Interfaces = {eth1, eth2}
    Foreign = {eth3}
    Port <- MCPort
    Ip <- MCIp
    Mac <- MCMac
    OtherPort = 3
    Unset = Unset
    Bad = Bad
    Frames <- MCFrames
    Setups <- MCSetups
    HeaderUnits = 2
    BodyUnits <- MCBody
    MaxLength = 4
    MaxStarts = 2
    MaxConnects = 2
    MaxFrames = 2
    MayStop = TRUE
SPECIFICATION FairSpec
INVARIANTS WholeCommands ReadyIsConfigured EndsForAReason
PROPERTIES InformedStartBecomesReady
CHECK_DEADLOCK FALSE
