SPECIFICATION RaceSpec
CONSTANTS
    Keys = {1, 2}
    Ids = {1, 2}
    Clients = {c1, c2}
    PageSize = 1
    BatchLimit = 2
    Rules <- AllOrNothing
    None = None
SYMMETRY Interchangeable
INVARIANTS TypeOK RowsAreOfTheBucket FolderEmptied
PROPERTIES OnlyBlindSavesUnversion OnlyBlindSavesLoseRules PassExpires
CHECK_DEADLOCK FALSE
