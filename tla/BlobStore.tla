----------------------------- MODULE BlobStore -----------------------------
(***************************************************************************)
(* Blob files on the shared volume, the reference counts that stand for    *)
(* them in Postgres, and the three parties that touch both: requests that  *)
(* store or drop an object, the worker's sweeper, and processes that       *)
(* restart.  storage/blobstore.go, db/blobs.go, db/objects.go,             *)
(* db/current.go, db/versions.go and cmd/s3d/maintenance.go.               *)
(*                                                                         *)
(* A blob is its digest: equal contents are equal digests, so a file is    *)
(* there or not there.  A transaction works on `pending', the counts it    *)
(* has written and nobody else can see, and Commit installs them.  The     *)
(* row lock of a blobs row is the one Postgres takes for an UPDATE, an     *)
(* upsert or a DELETE; the advisory locks are the ones the code asks for.  *)
(***************************************************************************)
EXTENDS Integers, FiniteSets

CONSTANTS
    Digests,      \* contents that can be uploaded
    Keys,         \* rows written under an advisory lock: objects, upload parts
    Versions,     \* rows of object_versions, each written once and purged
    Writers,      \* requests in flight, of any process
    Sweepers,     \* maintenance loops, one in every worker process
    Procs,        \* processes sharing the volume
    ProcOf,       \* the process a writer or a sweeper runs in
    SweepLimit,   \* batchLimit
    NoBlob, NoRow, Nobody

ASSUME RowsAssumption ==
    /\ IsFiniteSet(Keys) /\ IsFiniteSet(Versions)
    /\ Keys \cap Versions = {}
    /\ NoRow \notin Keys \cup Versions
    /\ NoBlob \notin Digests

ASSUME ActorsAssumption ==
    /\ Writers \cap Sweepers = {}
    /\ Nobody \notin Writers \cup Sweepers
    /\ ProcOf \in [Writers \cup Sweepers -> Procs]

ASSUME LimitAssumption == SweepLimit \in Nat \ {0}

Slots  == Keys \cup Versions
Actors == Writers \cup Sweepers

VARIABLES
    file,       \* file[d]: blobs/<d> is on disk
    temp,       \* the writers whose tmp/upload-* file is on disk
    rows,       \* the digests with a committed blobs row
    count,      \* its committed refcount, 0 without a row
    aged,       \* the rows created longer than blobGrace ago
    ref,        \* ref[s]: the digest the committed row s points at
    pending,    \* the uncommitted refcount, written by rowLock[d]'s owner
    advisory,   \* who holds the advisory lock of a digest
    rowLock,    \* who holds the row lock of a digest's blobs row
    slotLock,   \* who holds a key's advisory lock, or a version's row lock
    pc, row, new, old, keep,    \* a writer's progress and its locals
    spc, todo, target           \* a sweeper's progress and its locals

fileVars  == <<file, temp>>
tableVars == <<rows, count, aged, ref>>
lockVars  == <<advisory, rowLock, slotLock>>
writerVars == <<pc, row, new, old, keep>>
sweepVars == <<spc, todo, target>>
vars == <<fileVars, tableVars, pending, lockVars, writerVars, sweepVars>>

InTx == {"retain", "upsert", "keep", "keepUpsert", "release", "commit"}
WriterPc == {"idle", "staged", "rename", "begin"} \cup InTx
SweepPc == {"idle", "pick", "claim", "unlink", "reclaim"}

TypeOK ==
    /\ file \in [Digests -> BOOLEAN]
    /\ temp \subseteq Writers
    /\ rows \subseteq Digests
    /\ count \in [Digests -> Nat]
    /\ aged \subseteq rows
    /\ ref \in [Slots -> Digests \cup {NoBlob}]
    /\ pending \in [Digests -> Nat]
    /\ advisory \in [Digests -> Actors \cup {Nobody}]
    /\ rowLock \in [Digests -> Actors \cup {Nobody}]
    /\ slotLock \in [Slots -> Writers \cup {Nobody}]
    /\ pc \in [Writers -> WriterPc]
    /\ row \in [Writers -> Slots \cup {NoRow}]
    /\ new \in [Writers -> Digests \cup {NoBlob}]
    /\ old \in [Writers -> Digests \cup {NoBlob}]
    /\ keep \in [Writers -> Versions \cup {NoRow}]
    /\ spc \in [Sweepers -> SweepPc]
    /\ todo \in [Sweepers -> SUBSET Digests]
    /\ target \in [Sweepers -> Digests \cup {NoBlob}]

Init ==
    /\ file = [d \in Digests |-> FALSE]
    /\ temp = {}
    /\ rows = {}
    /\ count = [d \in Digests |-> 0]
    /\ aged = {}
    /\ ref = [s \in Slots |-> NoBlob]
    /\ pending = [d \in Digests |-> 0]
    /\ advisory = [d \in Digests |-> Nobody]
    /\ rowLock = [d \in Digests |-> Nobody]
    /\ slotLock = [s \in Slots |-> Nobody]
    /\ pc = [w \in Writers |-> "idle"]
    /\ row = [w \in Writers |-> NoRow]
    /\ new = [w \in Writers |-> NoBlob]
    /\ old = [w \in Writers |-> NoBlob]
    /\ keep = [w \in Writers |-> NoRow]
    /\ spc = [k \in Sweepers |-> "idle"]
    /\ todo = [k \in Sweepers |-> {}]
    /\ target = [k \in Sweepers |-> NoBlob]

-----------------------------------------------------------------------------
(* Locks and the counts a transaction sees.                                *)

Free(lock, owners) == [x \in DOMAIN lock |-> IF lock[x] \in owners THEN Nobody ELSE lock[x]]

\* Mistake: session locks instead of transaction locks outlive the commit.
EndTxSessionLocks(owners) ==
    /\ advisory' = advisory
    /\ rowLock' = Free(rowLock, owners)
    /\ slotLock' = Free(slotLock, owners)
    /\ pending' = [d \in Digests |-> IF rowLock[d] \in owners THEN 0 ELSE pending[d]]

\* The transactions of `owners' end: Postgres drops their locks, and what
\* they had written and not committed is nobody's any more.
EndTx(owners) ==
    /\ advisory' = Free(advisory, owners)
    /\ rowLock' = Free(rowLock, owners)
    /\ slotLock' = Free(slotLock, owners)
    /\ pending' = [d \in Digests |-> IF rowLock[d] \in owners THEN 0 ELSE pending[d]]

\* The refcount actor a reads back: its own uncommitted write, or the
\* committed one.
Seen(a, d) == IF rowLock[d] = a THEN pending[d] ELSE count[d]

\* pg_advisory_xact_lock(blobLockID(d)), the first half of RetainBlob.
LockBlob(w, d) ==
    /\ advisory[d] \in {Nobody, w}
    /\ advisory' = [advisory EXCEPT ![d] = w]
    /\ UNCHANGED <<fileVars, tableVars, pending, rowLock, slotLock, sweepVars>>

\* INSERT ... ON CONFLICT DO UPDATE refcount + 1, the second half.
UpsertBlob(w, d) ==
    /\ rowLock[d] \in {Nobody, w}
    /\ rowLock' = [rowLock EXCEPT ![d] = w]
    /\ pending' = [pending EXCEPT ![d] = Seen(w, d) + 1]
    /\ UNCHANGED <<fileVars, tableVars, advisory, slotLock, sweepVars>>

Goto(w, next) ==
    /\ pc' = [pc EXCEPT ![w] = next]
    /\ UNCHANGED <<row, new, old, keep>>

Forget(ws) ==
    /\ pc' = [w \in Writers |-> IF w \in ws THEN "idle" ELSE pc[w]]
    /\ row' = [w \in Writers |-> IF w \in ws THEN NoRow ELSE row[w]]
    /\ new' = [w \in Writers |-> IF w \in ws THEN NoBlob ELSE new[w]]
    /\ old' = [w \in Writers |-> IF w \in ws THEN NoBlob ELSE old[w]]
    /\ keep' = [w \in Writers |-> IF w \in ws THEN NoRow ELSE keep[w]]

AfterKeep(o) == IF o # NoBlob THEN "release" ELSE "commit"
\* Mistake: the preserved version is recorded without a reference of its own.
AfterRetainUncounted(o, v) == AfterKeep(o)
AfterRetain(o, v) == IF v # NoRow THEN "keep" ELSE AfterKeep(o)
AfterRead(n, o, v) == IF n # NoBlob THEN "retain" ELSE AfterRetain(o, v)

-----------------------------------------------------------------------------
(* Requests: the bytes first, then one transaction.                        *)

\* PUT of an object or of an upload part: Store.Put has copied, hashed and
\* synced the body into tmp/.
Upload(w) ==
    /\ pc[w] = "idle"
    /\ \E k \in Keys, d \in Digests :
          /\ row' = [row EXCEPT ![w] = k]
          /\ new' = [new EXCEPT ![w] = d]
    /\ pc' = [pc EXCEPT ![w] = "staged"]
    /\ temp' = temp \cup {w}
    /\ UNCHANGED <<file, tableVars, pending, lockVars, old, keep, sweepVars>>

\* CopyObject takes its digest from the row of the source, read outside the
\* transaction that will retain it.
Copy(w) ==
    /\ pc[w] = "idle"
    /\ \E k \in Keys, s \in Slots :
          /\ ref[s] # NoBlob
          /\ row' = [row EXCEPT ![w] = k]
          /\ new' = [new EXCEPT ![w] = ref[s]]
    /\ pc' = [pc EXCEPT ![w] = "begin"]
    /\ UNCHANGED <<fileVars, tableVars, pending, lockVars, old, keep, sweepVars>>

Delete(w) ==
    /\ pc[w] = "idle"
    /\ \E k \in Keys : row' = [row EXCEPT ![w] = k]
    /\ pc' = [pc EXCEPT ![w] = "begin"]
    /\ UNCHANGED <<fileVars, tableVars, pending, lockVars, new, old, keep, sweepVars>>

\* PurgeVersion opens its transaction with DELETE ... RETURNING blob_digest,
\* which locks the row and asks for no advisory lock.
Purge(w) ==
    /\ pc[w] = "idle"
    /\ \E v \in Versions :
          /\ ref[v] # NoBlob
          /\ slotLock[v] = Nobody
          /\ slotLock' = [slotLock EXCEPT ![v] = w]
          /\ row' = [row EXCEPT ![w] = v]
          /\ old' = [old EXCEPT ![w] = ref[v]]
    /\ pc' = [pc EXCEPT ![w] = "release"]
    /\ UNCHANGED <<fileVars, tableVars, pending, advisory, rowLock, new, keep, sweepVars>>

\* Store.Put finds the contents on disk: its own copy is discarded.
Dedupe(w) ==
    /\ pc[w] = "staged"
    /\ file[new[w]]
    /\ temp' = temp \ {w}
    /\ Goto(w, "begin")
    /\ UNCHANGED <<file, tableVars, pending, lockVars, sweepVars>>

\* os.Stat found nothing; the rename is a separate call.
FindAbsent(w) ==
    /\ pc[w] = "staged"
    /\ ~file[new[w]]
    /\ Goto(w, "rename")
    /\ UNCHANGED <<fileVars, tableVars, pending, lockVars, sweepVars>>

Rename(w) ==
    /\ pc[w] = "rename"
    /\ w \in temp
    /\ file' = [file EXCEPT ![new[w]] = TRUE]
    /\ temp' = temp \ {w}
    /\ Goto(w, "begin")
    /\ UNCHANGED <<tableVars, pending, lockVars, sweepVars>>

\* The temporary file is gone.  That is a success when somebody else stored
\* the same contents meanwhile, and a failed upload otherwise.
RenameFails(w) ==
    /\ pc[w] = "rename"
    /\ w \notin temp
    /\ IF file[new[w]] THEN Goto(w, "begin") ELSE Forget({w})
    /\ UNCHANGED <<fileVars, tableVars, pending, lockVars, sweepVars>>

\* The body or the disk fails before the rename: the deferred os.Remove.
UploadFails(w) ==
    /\ pc[w] \in {"staged", "rename"}
    /\ temp' = temp \ {w}
    /\ Forget({w})
    /\ UNCHANGED <<file, tableVars, pending, lockVars, sweepVars>>

\* Begin, the advisory lock of the key and readCurrent.  Where the bucket's
\* versioning says so supersede will preserve the previous state in a fresh
\* row of object_versions, invisible to others until the commit.
LockKey(w) ==
    /\ pc[w] = "begin"
    /\ slotLock[row[w]] = Nobody
    /\ old' = [old EXCEPT ![w] = ref[row[w]]]
    /\ \E v \in Versions \cup {NoRow} :
          /\ v # NoRow => /\ ref[row[w]] # NoBlob
                          /\ ref[v] = NoBlob
                          /\ slotLock[v] = Nobody
          /\ keep' = [keep EXCEPT ![w] = v]
          /\ slotLock' = [s \in Slots |-> IF s \in {row[w], v} THEN w ELSE slotLock[s]]
          /\ pc' = [pc EXCEPT ![w] = AfterRead(new[w], ref[row[w]], v)]
    /\ UNCHANGED <<fileVars, tableVars, pending, advisory, rowLock, row, new, sweepVars>>

\* Mistake: RetainBlob relies on the row lock of its upsert.
RetainUnlocked(w) ==
    /\ pc[w] = "retain"
    /\ Goto(w, "upsert")
    /\ UNCHANGED <<fileVars, tableVars, pending, lockVars, sweepVars>>

RetainLock(w) ==
    /\ pc[w] = "retain"
    /\ LockBlob(w, new[w])
    /\ Goto(w, "upsert")

RetainUpsert(w) ==
    /\ pc[w] = "upsert"
    /\ UpsertBlob(w, new[w])
    /\ Goto(w, AfterRetain(old[w], keep[w]))

\* RecordVersion retains the superseded blob for the version row.
KeepLock(w) ==
    /\ pc[w] = "keep"
    /\ LockBlob(w, old[w])
    /\ Goto(w, "keepUpsert")

KeepUpsert(w) ==
    /\ pc[w] = "keepUpsert"
    /\ UpsertBlob(w, old[w])
    /\ Goto(w, AfterKeep(old[w]))

\* UPDATE blobs SET refcount = GREATEST(refcount - 1, 0); without a row to
\* update nothing happens and nothing is locked.
ReleaseBlob(w) ==
    LET d == old[w]
        found == d \in rows \/ rowLock[d] = w
    IN  /\ pc[w] = "release"
        /\ found => rowLock[d] \in {Nobody, w}
        /\ rowLock' = IF found THEN [rowLock EXCEPT ![d] = w] ELSE rowLock
        /\ pending' = IF found
                      THEN [pending EXCEPT ![d] = IF Seen(w, d) > 0 THEN Seen(w, d) - 1 ELSE 0]
                      ELSE pending
        /\ Goto(w, "commit")
        /\ UNCHANGED <<fileVars, tableVars, advisory, slotLock, sweepVars>>

\* The rows the transaction of w wrote become what everybody reads.
NewRef(w) == [s \in Slots |-> IF s = row[w] THEN new[w]
                              ELSE IF s = keep[w] THEN old[w] ELSE ref[s]]
NewCount(w) == [d \in Digests |-> IF rowLock[d] = w THEN pending[d] ELSE count[d]]

Commit(w) ==
    /\ pc[w] = "commit"
    /\ ref' = NewRef(w)
    /\ count' = NewCount(w)
    /\ rows' = rows \cup {d \in Digests : rowLock[d] = w}
    /\ EndTx({w})
    /\ Forget({w})
    /\ UNCHANGED <<fileVars, aged, sweepVars>>

\* Any statement may fail, a client may hang up, and Postgres breaks a
\* deadlock by failing one of the transactions: the deferred Rollback.
Rollback(w) ==
    /\ pc[w] \in InTx \cup {"begin"}
    /\ EndTx({w})
    /\ Forget({w})
    /\ UNCHANGED <<fileVars, tableVars, sweepVars>>

-----------------------------------------------------------------------------
(* The sweeper.                                                            *)

Eligible == {d \in rows \cap aged : count[d] = 0}

SweepGoto(k, next) == spc' = [spc EXCEPT ![k] = next]

\* Mistake: the loop goes on with the transaction left open.
SweepNextLeak(k) ==
    /\ UNCHANGED <<lockVars, pending>>
    /\ target' = [target EXCEPT ![k] = NoBlob]
    /\ SweepGoto(k, IF todo[k] = {} THEN "idle" ELSE "pick")
    /\ UNCHANGED <<todo, writerVars>>

\* The transaction for one blob is over; the loop takes the next.
SweepNext(k) ==
    /\ EndTx({k})
    /\ target' = [target EXCEPT ![k] = NoBlob]
    /\ SweepGoto(k, IF todo[k] = {} THEN "idle" ELSE "pick")
    /\ UNCHANGED <<todo, writerVars>>

\* unreferencedBlobs: the oldest batchLimit of them, oldest first.
SweepList(k) ==
    /\ spc[k] = "idle"
    /\ \E T \in SUBSET Eligible :
          /\ T # {}
          /\ Cardinality(T) <= SweepLimit
          /\ T # Eligible => Cardinality(T) = SweepLimit
          /\ todo' = [todo EXCEPT ![k] = T]
    /\ SweepGoto(k, "pick")
    /\ UNCHANGED <<fileVars, tableVars, pending, lockVars, writerVars, target>>

SweepLock(k) ==
    /\ spc[k] = "pick"
    /\ \E d \in todo[k] :
          /\ advisory[d] = Nobody
          /\ advisory' = [advisory EXCEPT ![d] = k]
          /\ target' = [target EXCEPT ![k] = d]
          /\ todo' = [todo EXCEPT ![k] = todo[k] \ {d}]
    /\ SweepGoto(k, "claim")
    /\ UNCHANGED <<fileVars, tableVars, pending, rowLock, slotLock, writerVars>>

\* The rows that REFERENCES blobs ON DELETE RESTRICT.
Refs(d) == {s \in Slots : ref[s] = d}

\* DELETE FROM blobs WHERE digest = $1 AND refcount = 0, under the lock.
Claimable(k) == target[k] \in rows /\ count[target[k]] = 0

\* A row that still points at the blob would make the statement fail.
SweepClaim(k) ==
    /\ spc[k] = "claim"
    /\ Claimable(k)
    /\ rowLock[target[k]] = Nobody
    /\ Refs(target[k]) = {}
    /\ rowLock' = [rowLock EXCEPT ![target[k]] = k]
    /\ SweepGoto(k, "unlink")
    /\ UNCHANGED <<fileVars, tableVars, pending, advisory, slotLock, writerVars, todo, target>>

\* Mistake: nobody looks whether a row was deleted.
SweepSkipNever(k) ==
    /\ spc[k] = "claim"
    /\ ~Claimable(k)
    /\ SweepGoto(k, "unlink")
    /\ UNCHANGED <<fileVars, tableVars, pending, lockVars, writerVars, todo, target>>

\* No row was deleted: the blob is in use again, or another worker took it.
SweepSkip(k) ==
    /\ spc[k] = "claim"
    /\ ~Claimable(k)
    /\ SweepNext(k)
    /\ UNCHANGED <<fileVars, tableVars>>

\* Store.Remove, before the commit.
SweepUnlink(k) ==
    /\ spc[k] = "unlink"
    /\ file' = [file EXCEPT ![target[k]] = FALSE]
    /\ SweepGoto(k, "reclaim")
    /\ UNCHANGED <<temp, tableVars, pending, lockVars, writerVars, todo, target>>

\* Mistake: the age of a reclaimed row outlives it.
SweepCommitKeepsAge(k) ==
    /\ spc[k] = "reclaim"
    /\ rows' = rows \ {target[k]}
    /\ SweepNext(k)
    /\ UNCHANGED <<fileVars, count, aged, ref>>

SweepCommit(k) ==
    /\ spc[k] = "reclaim"
    /\ rows' = rows \ {target[k]}
    /\ aged' = aged \ {target[k]}
    /\ SweepNext(k)
    /\ UNCHANGED <<fileVars, count, ref>>

\* A failed lock, DELETE, unlink or commit: logged, rolled back, next one.
SweepFails(k) ==
    /\ spc[k] \in {"claim", "unlink", "reclaim"}
    /\ SweepNext(k)
    /\ UNCHANGED <<fileVars, tableVars>>

-----------------------------------------------------------------------------
(* Time and restarts.                                                      *)

\* blobGrace passes since the row of d was created.
Age(d) ==
    /\ d \in rows \ aged
    /\ aged' = aged \cup {d}
    /\ UNCHANGED <<fileVars, rows, count, ref, pending, lockVars, writerVars, sweepVars>>

\* A process dies and comes back: its transactions roll back, and New calls
\* cleanTemp, which empties tmp/ on the volume all the processes share.
Restart(p) ==
    LET mine == {a \in Actors : ProcOf[a] = p}
    IN  /\ EndTx(mine)
        /\ Forget(mine \cap Writers)
        /\ spc' = [k \in Sweepers |-> IF k \in mine THEN "idle" ELSE spc[k]]
        /\ todo' = [k \in Sweepers |-> IF k \in mine THEN {} ELSE todo[k]]
        /\ target' = [k \in Sweepers |-> IF k \in mine THEN NoBlob ELSE target[k]]
        /\ temp' = {}
        /\ UNCHANGED <<file, tableVars>>

Stage(w) == Upload(w) \/ Dedupe(w) \/ FindAbsent(w) \/ Rename(w) \/ RenameFails(w) \/ UploadFails(w)
Transact(w) ==
    \/ Copy(w) \/ Delete(w) \/ Purge(w) \/ LockKey(w)
    \/ RetainLock(w) \/ RetainUpsert(w) \/ KeepLock(w) \/ KeepUpsert(w)
    \/ ReleaseBlob(w) \/ Commit(w) \/ Rollback(w)
Sweep(k) ==
    \/ SweepList(k) \/ SweepLock(k) \/ SweepClaim(k) \/ SweepSkip(k)
    \/ SweepUnlink(k) \/ SweepCommit(k) \/ SweepFails(k)

Next ==
    \/ \E w \in Writers : Stage(w) \/ Transact(w)
    \/ \E k \in Sweepers : Sweep(k)
    \/ \E d \in Digests : Age(d)
    \/ \E p \in Procs : Restart(p)

Spec == Init /\ [][Next]_vars

-----------------------------------------------------------------------------
(* Properties.                                                             *)

\* "The count changes atomically with the object row that caused the change"
\* (db/blobs.go): at every commit the refcount of a blob is the number of
\* committed rows that point at it, whatever transactions ran side by side.
RefcountExact == \A d \in Digests : count[d] = Cardinality(Refs(d))

\* claimAndUnlink never removes the file of a blob that a committed row
\* points at while it does so.
UnlinkSparesReferenced ==
    [][\A d \in Digests : file[d] /\ ~file'[d] => Refs(d) = {} /\ Refs(d)' = {}]_vars

\* "A row here asserts the file exists" (RetainBlob): every committed
\* object, part and version has its bytes on disk.
ReferencedHasFile == \A s \in Slots : ref[s] # NoBlob => file[ref[s]]
=============================================================================
