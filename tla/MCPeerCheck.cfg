SPECIFICATION FairSpec
CONSTANTS
    NoErr = NoErr
    Failed = Failed
    Unsupported = Unsupported
    SkipPeerCountCheck = {TRUE, FALSE}
    MinimumPeerCount = 2
    MaxPeers = 3
    Requests = {r1, r2}
INVARIANTS
    TypeOK
    PassesOnEvidence
PROPERTY
    HealthyPasses
