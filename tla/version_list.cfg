SPECIFICATION OrderedSpec
CONSTANTS
    Writers = {w1}
    Blobs = {bA, bB}
    Modes = {"enabled"}
    Operations = {"put", "delete", "deleteVersion", "putVersioning"}
    MaxTime = 5
    NullId = NullId
    Marker = Marker
    NoObject = NoObject
    Nothing = Nothing
PROPERTY ImplementsVersionList
CHECK_DEADLOCK FALSE
