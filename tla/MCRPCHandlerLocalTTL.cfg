SPECIFICATION Spec
CONSTANTS
    m1 = m1
    m2 = m2
    m3 = m3
    Methods = {m1, m2, m3}
    Answers = {"result", "noResult", "null", "rpcError", "batch", "empty", "unreachable", "httpError", "undecodable"}
    TTL = 0
    MethodTTLs <- MCLongerMethodTTLs
    LocalJitter = 0
    NoEntry = NoEntry
    Queries <- MCQueries
    NoAnswer = NoAnswer
    Requests = {r1}
    MaxDelay = 0
    Defects = {"undecodable"}
INVARIANT
    LocalWithinRedis
