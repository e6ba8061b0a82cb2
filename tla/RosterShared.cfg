SPECIFICATION FairSpec
CONSTANTS
    Procs = {p1, p2}
    Threads = {t1, t2, t3}
    ProcOf <- EachProcess
    Users = {a}
    Groups = {g1}
    Keys = {k1}
    Sanitize <- SameName
    Named = {}
    MaxName = 0
    BadNames = {}
    Untellable = Untellable
    Unstorable = Unstorable
    MaxChanges = 0
    MaxFaults = 1
    Tools = FALSE
    NULL = NULL
    NoRow = NoRow
    NoGroup = NoGroup
CONSTRAINT
    TwoAtATime
INVARIANTS
    OneTransaction
    GroupRowsComplete
PROPERTIES
    JobsEnd
