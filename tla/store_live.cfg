SPECIFICATION MCLiveSpec
CONSTANTS
    Digests = {dA, dB}
    Keys = {key1, key2}
    Versions = {}
    Writers = {w1, w2}
    Sweepers = {sw1}
    s3 = s3
    w1 = w1
    key1 = key1
    key2 = key2
    Procs <- MCProcs
    ProcOf <- MCProcOf
    SweepLimit = 2
    NoBlob = NoBlob
    NoRow = NoRow
    Nobody = Nobody

PROPERTIES RequestsEnd GarbageReclaimed
