SPECIFICATION Spec
CONSTANTS
    u1 = u1
    u2 = u2
    u3 = u3
    g1 = g1
    g2 = g2
    NoGroup = NoGroup
    NoUpstream = NoUpstream
    Panic = Panic
    Requests = {r1, r2}
    Upstreams = {u1, u2, u3}
    GroupIDs = {g1, g2, NoGroup}
    ChainConfigs <- MCChainConfigs
    WordValues = 8
    MaxRequests = 8
CHECK_DEADLOCK FALSE
SYMMETRY Symmetry
INVARIANTS
    TypeOK
    SerialRequestsTakeTurns
    NoPanicBeforeOverflow
    FallbackOnlyWhenNeeded
