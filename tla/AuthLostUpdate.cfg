SPECIFICATION Spec
CONSTANTS
    Workers = {w1, w2}
    Procs = {p1}
    ProcOf <- OneProcess
    Users = {u1}
    CacheStorages = {"memory"}
    Threaded = TRUE
    QueryTTL = 1
    VerifyTTL = 1
    UnreachTTL = 2
    MaxTime = 1
    MaxPassword = 1
    Expiries = {}
    Unhashable = {}
    NULL = NULL
    NoRow = NoRow
INVARIANT OldPasswordInvalidated
