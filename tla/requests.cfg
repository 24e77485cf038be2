SPECIFICATION RaceSpec
CONSTANTS
    Clients = {c1}
    Buckets = {bA, bB}
    Keys = {kA, kB}
    Prefixes = {whole, underA}
    Whole = whole
    bA = bA
    bB = bB
    kA = kA
    kB = kB
    whole = whole
    underA = underA
    Covered <- MCCovered
    Scopes <- MCScopes
    Unrestricted = Unrestricted
    Revoked = Revoked
    Anonymous = Anonymous
    NoObject = NoObject
    Length = 2
    MaxIds = 2
    MaxChanges = 1
INVARIANTS OneGrantDecides AnonymousReadsPublic StoredIsSent
CHECK_DEADLOCK FALSE
