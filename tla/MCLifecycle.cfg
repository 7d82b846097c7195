SPECIFICATION FairSpec
CONSTANTS
    u1 = u1
    u2 = u2
    NoUpstream = NoUpstream
    configs <- MCConfigs
    Requests = {r1}
CHECK_DEADLOCK FALSE
INVARIANTS
    TypeOK
    RoundsAreSafe
    ReadyMeansServed
    GracefulExit
PROPERTIES
    ShutdownEnds
    ChecksKeepRunning
