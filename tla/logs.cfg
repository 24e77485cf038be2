SPECIFICATION RaceSpec
CONSTANTS
    Nodes = {n1, n2}
    Requests = {r1, r2}
    MaxBuffer = 1
    TailLimit = 1
    MaxFaults = 1
INVARIANTS HolesAreCounted OnlyRacesHideEntries
PROPERTIES EntriesArrive
CHECK_DEADLOCK FALSE
