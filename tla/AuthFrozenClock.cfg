SPECIFICATION Spec
CONSTANTS
    Workers = {w1}
    Procs = {p1}
    ProcOf <- OneProcess
    Users = {u1}
    CacheStorages = {"db"}
    Threaded = TRUE
    QueryTTL = 1
    VerifyTTL = 2
    UnreachTTL = 3
    MaxTime = 3
    MaxPassword = 2
    Expiries = {0, 2}
    Unhashable = {}
    NULL = NULL
    NoRow = NoRow
INVARIANT VerificationTTLRespected
