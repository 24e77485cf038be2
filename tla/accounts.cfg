SPECIFICATION RaceSpec
CONSTANTS
    Users = {root, user}
    Root = root
    Slots = {s1, s2}
    Clients = {c1, c2}
    Limit = 1
    MaxPassword = 2
    None = None
SYMMETRY Interchangeable
INVARIANTS TypeOK OldSessionsEnd LiveSessionsHaveUsers BoundedGuesses
PROPERTY OnlyOverlapsLeaveNoAdmin
CHECK_DEADLOCK FALSE
