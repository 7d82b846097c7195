SPECIFICATION FairSpec
CONSTANTS
    m1 = m1
    m2 = m2
    m3 = m3
    Methods = {m1, m2, m3}
    Answers = {"result", "noResult", "null", "rpcError", "batch", "empty", "unreachable", "httpError", "undecodable"}
    TTL = 0
    MethodTTLs <- MCMethodTTLs
    LocalJitter = 1
    NoEntry = NoEntry
    Queries <- MCQueries
    NoAnswer = NoAnswer
    Requests = {r1, r2}
    MaxDelay = 1
    Defects = {"undecodable"}
INVARIANTS
    TypeOK
    AnswersAreFresh
    OnlyResultsAreCached
    FailsWithOrigin
PROPERTY
    RequestsEnd
