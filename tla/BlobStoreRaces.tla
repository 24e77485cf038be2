-------------------------- MODULE BlobStoreRaces ---------------------------
(***************************************************************************)
(* BlobStore with a history of the one race that its locks leave open.  A  *)
(* request looks at the disk, or at the row that it copies, before it has  *)
(* a transaction; only RetainBlob takes the lock that keeps the sweeper    *)
(* away.                                                                   *)
(***************************************************************************)
EXTENDS BlobStore

VARIABLE raced      \* the digests that were unlinked while InHand, and are gone

raceVars == <<vars, raced>>

\* A request has seen the file of d, or a row that points at it, and does not hold
\* the advisory lock of d yet.
InHand(d) == \E w \in Writers : new[w] = d /\ pc[w] \in {"begin", "retain"}

RaceInit == Init /\ raced = {}

RaceNext ==
    /\ Next
    /\ raced' = {d \in Digests : ~file'[d] /\ (d \in raced \/ (file[d] /\ InHand(d)))}

RaceSpec == RaceInit /\ [][RaceNext]_raceVars

-----------------------------------------------------------------------------

\* "Retention and collection take the same lock, so the two can never interleave
\* inside that window" (blobLockID in db/blobs.go): a committed object, part or
\* version is without its bytes only if they were unlinked after a request had seen
\* them (Put's os.Stat or os.Rename, the source row of a copy) and before it had the
\* lock.
OnlyRacesLoseBytes == \A s \in Slots : ref[s] # NoBlob /\ ~file[ref[s]] => ref[s] \in raced
=============================================================================
