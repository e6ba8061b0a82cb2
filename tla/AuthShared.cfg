SPECIFICATION FairSpec
CONSTANTS
    Workers = {w1, w2, w3}
    Procs = {p1, p2}
    ProcOf <- EachProcess
    Users = {u1}
    CacheStorages = {"db"}
    Threaded = TRUE
    QueryTTL = 1
    VerifyTTL = 1
    UnreachTTL = 2
    MaxTime = 0
    MaxPassword = 1
    Expiries = {}
    Unhashable = {}
    NULL = NULL
    NoRow = NoRow
CONSTRAINT
    OneUnused
INVARIANTS
    TypeOK
    UpsertExclusive
    DurableRowsComplete
PROPERTIES
    EveryRequestEnds
    ImplementsService
