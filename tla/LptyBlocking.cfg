SPECIFICATION Spec
CONSTANTS
    Queries = 4
    MaxFaults = 4
    None = None
INVARIANTS
    TypeOK
    ResponseMatches
    OneQueryInConnection
