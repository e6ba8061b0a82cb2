SPECIFICATION FairSpec
CONSTANTS
    Queries = 2
    MaxFaults = 1
    None = None
PROPERTY Recovers
