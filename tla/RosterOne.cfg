SPECIFICATION Spec
CONSTANTS
    Procs = {p1}
    Threads = {t1}
    ProcOf <- OneProcess
    Users = {a, b}
    Groups = {g1, g2}
    Keys = {k1}
    Sanitize <- SameName
    Named = {b}
    MaxName = 1
    BadNames = {Untellable, Unstorable}
    Untellable = Untellable
    Unstorable = Unstorable
    MaxChanges = 2
    MaxFaults = 0
    Tools = TRUE
    NULL = NULL
    NoRow = NoRow
    NoGroup = NoGroup
INVARIANTS
    TypeOK
    GroupRowsComplete
    MembersKnown
    ThrownOutAtCommit
    NameMeansVcard
    HashMeansProcessed

    
