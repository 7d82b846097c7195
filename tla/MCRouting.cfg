CONSTANTS
    u1 = u1
    u2 = u2
    u3 = u3
    g1 = g1
    g2 = g2
    r1 = r1
    Upstreams = {u1, u2, u3}
    Groups = {g1, g2}
    GroupOf <- MCGroupOf
    Errors = {failed}
    NoError = NoError
    Requests = {r1}
    Methods <- MCMethods
    MethodsOf <- MCMethodsOf
    ArchiveMethods = {"eth_call"}
    DisabledMethods <- MCNone
    EnabledMethods <- MCNone
    FullNodes = {u2}
    MinimumPeerCount = 3
    MaxBlocksBehind = 1
    Priorities = {0, 1}
    UpstreamsAt <- MCUpstreamsAt
    AlwaysRoute = {TRUE, FALSE}
    NoUpstream = NoUpstream
    ReportedHeights = {1, 2}
    MaxReports = 2
SPECIFICATION FairSpec
INVARIANTS
    TypeOK
    GroupNeverServesBack
    SteadyNotOverlooked
    AlwaysRouted
PROPERTIES
    RoutingEnds
CHECK_DEADLOCK TRUE
