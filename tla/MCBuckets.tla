----------------------------- MODULE MCBuckets -----------------------------
(* An instance of BucketsRaces.  Clients are interchangeable.              *)
EXTENDS BucketsRaces, TLC

AllOrNothing == {{}, Keys}
Interchangeable == Permutations(Clients)
=============================================================================
