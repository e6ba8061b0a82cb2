SPECIFICATION FairSpec
CONSTANTS
    Procs = {p1, p2, p3}
    Keys = {k1}
    Legacy <- AllKeys
INVARIANTS
    TypeOK
    CompleteUnlessFailed
    OneImporter
PROPERTIES
    ImportSparesLogins
    FirstStartCompletes
