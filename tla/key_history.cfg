SPECIFICATION CalmSpec
CONSTANTS
    Writers = {w1, w2}
    Blobs = {bA, bB}
    Modes = {"enabled", "suspended"}
    Operations = {"put", "delete", "deleteVersion", "putVersioning", "restore", "purge"}
    MaxTime = 4
    NullId = NullId
    Marker = Marker
    NoObject = NoObject
SYMMETRY MCSymmetry
INVARIANTS TypeOK RefcountMatches OneHome
PROPERTIES OnlyRestoreRewrites HistoryKept
CHECK_DEADLOCK FALSE
