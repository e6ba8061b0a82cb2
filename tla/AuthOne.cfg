SPECIFICATION Spec
CONSTANTS
    Workers = {w1}
    Procs = {p1}
    ProcOf <- OneProcess
    Users = {u1}
    CacheStorages = {"none", "memory", "db"}
    Threaded = TRUE
    QueryTTL = 2
    VerifyTTL = 2
    UnreachTTL = 3
    MaxTime = 3
    MaxPassword = 2
    Expiries = {0, 2}
    Unhashable = {2}
    NULL = NULL
    NoRow = NoRow
INVARIANTS
    OldPasswordInvalidated
    TimestampsOrdered
    CacheDecisionSound
    BackToAutocommit
PROPERTIES
    FirstauthStable
    LostOnlyByItsInput
