SPECIFICATION RaceSpec
CONSTANTS
    Digests = {dA, dB}
    Keys = {key1, key2}
    Versions = {ver1}
    Writers = {w1, w2}
    Sweepers = {sw1}
    s3 = s3
    worker = worker
    Procs <- MCProcs
    ProcOf <- MCProcOf
    SweepLimit = 1
    NoBlob = NoBlob
    NoRow = NoRow
    Nobody = Nobody
SYMMETRY MCSymmetry
INVARIANTS TypeOK RefcountExact OnlyRacesLoseBytes
PROPERTY UnlinkSparesReferenced
