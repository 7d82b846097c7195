SPECIFICATION FairSpec
CONSTANTS
    r1 = r1
    r2 = r2
    u1 = u1
    m1 = m1
    m2 = m2
    Batch = Batch
    E = E
    NoMessage = NoMessage
    NoBody = NoBody
    NoBreaker = NoBreaker
    NoRequest = NoRequest
    NoResponse = NoResponse
    Requests <- MCRequests
    Upstreams = {u1}
    Methods = {m1, m2, Batch}
    RequestBodies <- MCRequestBodies
    ErrorStrings = {E}
    HTTPCodes <- MCHTTPCodes
    JSONRPCCodes <- MCJSONRPCCodes
    Responses <- MCResponses
    ErrorRate = 50
    LatencyTooHighRate = 50
    MinNumRequestsForRate = 1
    WindowSize = 1
    BanWindow = 1
INVARIANTS
    TypeOK
PROPERTIES
    BansLast
    BansEnd
