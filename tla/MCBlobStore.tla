---------------------------- MODULE MCBlobStore ----------------------------
(* BlobStoreRaces with the requests in an S3 process and the sweepers in  *)
(* a worker process.                                                       *)
EXTENDS BlobStoreRaces, TLC

CONSTANTS s3, worker

MCProcs == {s3, worker}
MCProcOf == [a \in Writers \cup Sweepers |-> IF a \in Writers THEN s3 ELSE worker]
MCSymmetry == Permutations(Digests) \cup Permutations(Keys) \cup Permutations(Writers)

\* Requests that last less than blobGrace, an hour: no row grows old while a
\* request that names its digest is under way.
QuickNext == RaceNext /\ \A d \in aged' \ aged, w \in Writers : new[w] # d
QuickSpec == RaceInit /\ [][QuickNext]_raceVars
=============================================================================
