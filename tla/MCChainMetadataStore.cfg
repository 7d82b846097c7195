CONSTANTS
    u1 = u1
    u2 = u2
    g1 = g1
    c1 = c1
    c2 = c2
    Upstreams = {u1, u2}
    Groups = {g1}
    GroupOf <- MCGroupOf
    Errors = {failed}
    NoError = NoError
    Callers = {c1, c2}
    Heights = {1, 2}
    CallsOf <- MCCallsOf
    NoStatus = NoStatus
SPECIFICATION FairSpec
INVARIANTS
    TypeOK
    StatusConsistent
PROPERTIES
    CallersSeeMaximaGrow
    ImplementsAtomic
    CallsReturn
CHECK_DEADLOCK TRUE
