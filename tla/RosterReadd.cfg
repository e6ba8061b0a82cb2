SPECIFICATION Spec
CONSTANTS
    Procs = {p1}
    Threads = {t1}
    ProcOf <- OneProcess
    Users = {a, b}
    Groups = {g1}
    Keys = {k1}
    Sanitize <- SameName
    Named = {}
    MaxName = 0
    BadNames = {}
    Untellable = Untellable
    Unstorable = Unstorable
    MaxChanges = 2
    MaxFaults = 0
    Tools = FALSE
    NULL = NULL
    NoRow = NoRow
    NoGroup = NoGroup
INVARIANT AddedOnUpdate
