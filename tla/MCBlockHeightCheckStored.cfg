CONSTANTS
    u1 = u1
    g1 = g1
    Upstreams = {u1}
    Groups = {g1}
    GroupOf <- MCGroupOf
    Errors = {"wsError", "httpError"}
    NoError = NoError
    Configs <- MCConfigs
    MaxHead = 3
    MaxBuffered = 2
SPECIFICATION Spec
INVARIANTS
    FailedCheckIsStored
CHECK_DEADLOCK TRUE
