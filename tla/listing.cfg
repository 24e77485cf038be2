SPECIFICATION ListCalmSpec
CONSTANTS
    N = 4
    Versions = 2
    GroupOf <- Groups
    Wanted = {1, 2, 3, 4}
    Shown = {1, 3, 4}
    MaxKeys = 2
    ListBatch = 3
    VersionBatch = 8
    MaxWrites = 2
INVARIANTS TypeOK InOrder NothingSkipped
PROPERTIES Ends
CHECK_DEADLOCK FALSE
