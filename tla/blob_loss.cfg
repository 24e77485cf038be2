SPECIFICATION QuickSpec
CONSTANTS
    Digests = {dA}
    Keys = {key1}
    Versions = {}
    Writers = {w1, w2}
    Sweepers = {sw1}
    s3 = s3
    worker = worker
    Procs <- MCProcs
    ProcOf <- MCProcOf
    SweepLimit = 1
    NoBlob = NoBlob
    NoRow = NoRow
    Nobody = Nobody
INVARIANT ReferencedHasFile
