--------------------------- MODULE BlobStoreLive ---------------------------
(***************************************************************************)
(* What BlobStore must eventually do, and the scheduling it may count on:  *)
(* a goroutine that can run does run; a lock queue is first come, first    *)
(* served; Postgres fails one transaction of every deadlock; and the       *)
(* sweeper's ticker fires for ever.  Failures, restarts and new requests   *)
(* are free to happen or not.                                              *)
(***************************************************************************)
EXTENDS BlobStore

\* The actor whose lock the next statement of a has to wait for.
Blocker(a) ==
    IF a \in Sweepers
    THEN IF spc[a] = "claim" /\ Claimable(a) THEN rowLock[target[a]] ELSE Nobody
    ELSE CASE pc[a] = "begin" -> slotLock[row[a]]
           [] pc[a] = "retain" -> advisory[new[a]]
           [] pc[a] = "upsert" -> rowLock[new[a]]
           [] pc[a] = "keep" -> advisory[old[a]]
           [] pc[a] \in {"keepUpsert", "release"} -> rowLock[old[a]]
           [] OTHER -> Nobody

\* A transaction waits for one other at most: those that a waits for, and so on.
WaitsFor(a) ==
    LET chain[n \in Nat] == IF n = 0 THEN a
                            ELSE IF chain[n - 1] = Nobody THEN Nobody ELSE Blocker(chain[n - 1])
    IN  {chain[n] : n \in 1..Cardinality(Actors)}

\* Postgres' deadlock detector has found w in a cycle of waiting transactions.
DeadlockVictim(w) == w \in WaitsFor(w) /\ Rollback(w)

\* The next step of a request on its own account.  At most one disjunct is
\* enabled, so fairness of the whole is fairness of each.
Advance(w) ==
    \/ Dedupe(w) \/ FindAbsent(w) \/ Rename(w) \/ RenameFails(w) \/ LockKey(w)
    \/ RetainLock(w) \/ RetainUpsert(w) \/ KeepLock(w) \/ KeepUpsert(w)
    \/ ReleaseBlob(w) \/ Commit(w)

WriterFairness(w) == SF_vars(Advance(w)) /\ WF_vars(DeadlockVictim(w))

\* The next step of a sweeper's loop; at most one disjunct is enabled.
SweepAdvance(k) ==
    \/ SweepList(k) \/ SweepLock(k) \/ SweepClaim(k) \/ SweepSkip(k)
    \/ SweepUnlink(k) \/ SweepCommit(k)

\* Restarts stop, and so do failing disks and connections: a sweep that fails
\* "will be retried on the next pass", which is of use only if one succeeds.
CalmInTheEnd ==
    <>[][/\ \A p \in Procs : ~Restart(p)
         /\ \A k \in Sweepers : ~SweepFails(k)]_vars

Scheduling ==
    /\ \A w \in Writers : WriterFairness(w)
    /\ \A k \in Sweepers : SF_vars(SweepAdvance(k))
    /\ CalmInTheEnd

LiveSpec == Spec /\ Scheduling

-----------------------------------------------------------------------------

\* Every request ends: the locks of digests are taken in no global order, so
\* two requests can wait for each other, and one of them is then failed.
RequestsEnd == \A w \in Writers : pc[w] # "idle" ~> pc[w] = "idle"

\* "Overwritten and deleted objects leave blobs nothing references"
\* (cmd/s3d/maintenance.go): the sweeper takes each one in the end, unless it
\* comes back into use.
GarbageReclaimed == \A d \in Digests : d \in Eligible ~> d \notin Eligible
=============================================================================
