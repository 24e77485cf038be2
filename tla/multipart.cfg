SPECIFICATION MCCalmSpec
CONSTANTS
    Uploads = {u1, u2}
    Numbers = {1, 2}
    Digests = {dA, dW}
    Whole = dW
    Clients = {c1, c2}
    u1 = u1
    c1 = c1
    Reapers = {r1}
    None = None
INVARIANTS RefcountExact NoOrphanParts
PROPERTY AbandonedGo
CHECK_DEADLOCK FALSE
