----------------------------- MODULE Multipart -----------------------------
(***************************************************************************)
(* Multipart uploads of one key: parts, completion, abort and the reaper   *)
(* of abandoned uploads.  db/multipart.go, s3api/multipart.go and the      *)
(* maintenance loop of cmd/s3d/maintenance.go.                             *)
(*                                                                         *)
(* A completion takes the lock of the object's key, a part the lock of its *)
(* number; an abort and the reaper take none.  What a transaction does to  *)
(* the refcounts is installed when it commits.  A row of blobs it has      *)
(* updated makes others wait until then (Free), and an update reads the    *)
(* row again when its turn comes.  What a transaction has read of          *)
(* multipart_parts it read when it listed them.                            *)
(***************************************************************************)
EXTENDS Integers, FiniteSets

CONSTANTS
    Uploads,      \* upload ids, each handed out once
    Numbers,      \* part numbers
    Digests,      \* contents
    Whole,        \* the digest of two or more parts joined
    Clients,      \* requests in flight
    Reapers,      \* maintenance loops, one in every worker
    None

ASSUME ContentsAssumption == None \notin Digests /\ Whole \in Digests
ASSUME FiniteAssumption == IsFiniteSet(Uploads) /\ IsFiniteSet(Numbers)
ASSUME ActorsAssumption ==
    IsFiniteSet(Clients) /\ IsFiniteSet(Reapers) /\ Clients \cap Reapers = {}

VARIABLES
    state,        \* state[u]: not handed out, a row of multipart_uploads, or gone
    part,         \* part[u][n]: the blob of a row of multipart_parts, or None
    object,       \* the blob of the key's row in objects, or None
    count,        \* blobs.refcount
    old,          \* uploads initiated longer than abandonedUploadAge ago
    pc, upload, number, blob,   \* a request's progress and its locals
    was,          \* the digest of the part a request replaces
    listed,       \* the parts an actor has listed and is releasing
    rpc, todo, victim           \* a reaper's progress and its locals

tables == <<state, part, object, count>>
clientVars == <<pc, upload, number, blob, was>>
reaperVars == <<rpc, todo, victim>>
vars == <<tables, old, clientVars, listed, reaperVars>>

Blob == Digests \cup {None}
Parts == [Numbers -> Blob]
NoParts == [n \in Numbers |-> None]
Actors == Clients \cup Reapers

TypeOK ==
    /\ state \in [Uploads -> {"new", "open", "gone"}]
    /\ part \in [Uploads -> Parts]
    /\ object \in Blob
    /\ count \in [Digests -> Nat]
    /\ old \subseteq Uploads
    /\ pc \in [Clients -> {"idle", "part", "written", "assembled", "completing", "abort", "aborting"}]
    /\ upload \in [Clients -> Uploads \cup {None}]
    /\ number \in [Clients -> Numbers \cup {0}]
    /\ blob \in [Clients -> Blob]
    /\ was \in [Clients -> Blob]
    /\ listed \in [Actors -> Parts]
    /\ rpc \in [Reapers -> {"idle", "loop", "reaping"}]
    /\ todo \in [Reapers -> SUBSET Uploads]
    /\ victim \in [Reapers -> Uploads \cup {None}]

Init ==
    /\ state = [u \in Uploads |-> "new"]
    /\ part = [u \in Uploads |-> NoParts]
    /\ object = None
    /\ count = [d \in Digests |-> 0]
    /\ old = {}
    /\ pc = [c \in Clients |-> "idle"]
    /\ upload = [c \in Clients |-> None]
    /\ number = [c \in Clients |-> 0]
    /\ blob = [c \in Clients |-> None]
    /\ was = [c \in Clients |-> None]
    /\ listed = [a \in Actors |-> NoParts]
    /\ rpc = [r \in Reapers |-> "idle"]
    /\ todo = [r \in Reapers |-> {}]
    /\ victim = [r \in Reapers |-> None]

-----------------------------------------------------------------------------
(* Counting.                                                               *)

B(p) == IF p THEN 1 ELSE 0

\* A statement that retains `gained', releases `lost' and releases every part
\* of `ps'; GREATEST keeps each count from going below zero.
Recount(gained, lost, ps) ==
    [d \in Digests |->
        LET n == count[d] + B(gained = d) - B(lost = d)
                   - Cardinality({i \in Numbers : ps[i] = d})
        IN  IF n > 0 THEN n ELSE 0]

\* The rows of blobs that x has updated and not committed.
Held(x) ==
    CASE pc[x] = "written"    -> {blob[x], was[x]} \ {None}
      [] pc[x] = "completing" -> {blob[x], object} \ {None}
      [] OTHER                -> {}

\* No one but a holds the row of any of ds.
Free(ds, a) == \A x \in Clients \ {a} : Held(x) \cap ds = {}

BlobsOf(ps) == {ps[n] : n \in Numbers}

\* A part row of u is written and not committed: its foreign key, or its row,
\* makes a DELETE of the upload wait.
InUse(u) == \E c \in Clients : pc[c] = "written" /\ upload[c] = u

\* DELETE FROM multipart_uploads; the parts cascade.  Deleting nothing is fine.
DropUpload(u) ==
    /\ ~InUse(u)
    /\ state' = [state EXCEPT ![u] = "gone"]
    /\ part' = [part EXCEPT ![u] = NoParts]

Goto(c, next) == pc' = [pc EXCEPT ![c] = next]

Finish(c) ==
    /\ Goto(c, "idle")
    /\ upload' = [upload EXCEPT ![c] = None]
    /\ number' = [number EXCEPT ![c] = 0]
    /\ blob' = [blob EXCEPT ![c] = None]
    /\ was' = [was EXCEPT ![c] = None]
    /\ UNCHANGED <<old, reaperVars>>

\* requireUpload, then the request goes on with the upload's row id.
Require(c, u) ==
    /\ pc[c] = "idle"
    /\ state[u] = "open"
    /\ upload' = [upload EXCEPT ![c] = u]
    /\ UNCHANGED <<tables, old, was, listed, reaperVars>>

-----------------------------------------------------------------------------
(* Parts.                                                                  *)

CreateMultipartUpload(u) ==
    /\ state[u] = "new"
    /\ state' = [state EXCEPT ![u] = "open"]
    /\ UNCHANGED <<part, object, count, old, clientVars, listed, reaperVars>>

UploadPart(c) ==
    /\ \E u \in Uploads, n \in Numbers, d \in Digests :
          /\ Require(c, u)
          /\ number' = [number EXCEPT ![c] = n]
          /\ blob' = [blob EXCEPT ![c] = d]
    /\ Goto(c, "part")

\* Mistake: no advisory lock on the part number.
PartLockedNever(u, n) == FALSE

PartLocked(u, n) ==
    \E c \in Clients : pc[c] = "written" /\ upload[c] = u /\ number[c] = n

\* Mistake: the upsert has no foreign key to refuse a part of a finished upload.
PutMultipartPartNoUpload(c) ==
    LET u == upload[c] IN
    /\ pc[c] = "part"
    /\ ~PartLocked(u, number[c])
    /\ Free({blob[c], part[u][number[c]]}, c)
    /\ was' = [was EXCEPT ![c] = part[u][number[c]]]
    /\ Goto(c, "written")
    /\ UNCHANGED <<tables, old, upload, number, blob, listed, reaperVars>>

\* Lock, read the part it replaces, retain, upsert, release.  The upsert's
\* foreign key fails when the upload is gone.
PutMultipartPart(c) ==
    LET u == upload[c] IN
    /\ pc[c] = "part"
    /\ state[u] = "open"
    /\ ~PartLocked(u, number[c])
    /\ Free({blob[c], part[u][number[c]]}, c)
    /\ was' = [was EXCEPT ![c] = part[u][number[c]]]
    /\ Goto(c, "written")
    /\ UNCHANGED <<tables, old, upload, number, blob, listed, reaperVars>>

CommitPart(c) ==
    LET u == upload[c] IN
    /\ pc[c] = "written"
    /\ part' = [part EXCEPT ![u][number[c]] = blob[c]]
    /\ count' = Recount(blob[c], was[c], NoParts)
    /\ Finish(c)
    /\ UNCHANGED <<state, object, listed>>

-----------------------------------------------------------------------------
(* Completion and abort.                                                   *)

Join(u, chosen) == IF Cardinality(chosen) = 1
                   THEN part[u][CHOOSE n \in chosen : TRUE] ELSE Whole

\* selectParts against the parts of the moment, and Concat.
SelectParts(c) ==
    /\ \E u \in Uploads :
          /\ Require(c, u)
          /\ \E chosen \in SUBSET {n \in Numbers : part[u][n] # None} :
                /\ chosen # {}
                /\ blob' = [blob EXCEPT ![c] = Join(u, chosen)]
    /\ Goto(c, "assembled")
    /\ UNCHANGED number

KeyLocked == \E c \in Clients : pc[c] = "completing"

\* The key's lock, retain, write the object, release the one it replaces, and
\* then releaseUpload's own list of the parts.
LockAndList(c) ==
    /\ pc[c] = "assembled"
    /\ ~KeyLocked
    /\ Free({blob[c], object}, c)
    /\ listed' = [listed EXCEPT ![c] = part[upload[c]]]
    /\ Goto(c, "completing")
    /\ UNCHANGED <<tables, old, upload, number, blob, was, reaperVars>>

CompleteMultipartUpload(c) ==
    /\ pc[c] = "completing"
    /\ Free(BlobsOf(listed[c]), c)
    /\ object' = blob[c]
    /\ count' = Recount(blob[c], object, listed[c])
    /\ DropUpload(upload[c])
    /\ listed' = [listed EXCEPT ![c] = NoParts]
    /\ Finish(c)

Abort(c) ==
    /\ \E u \in Uploads : Require(c, u)
    /\ Goto(c, "abort")
    /\ UNCHANGED <<number, blob>>

ListForAbort(c) ==
    /\ pc[c] = "abort"
    /\ listed' = [listed EXCEPT ![c] = part[upload[c]]]
    /\ Goto(c, "aborting")
    /\ UNCHANGED <<tables, old, upload, number, blob, was, reaperVars>>

AbortMultipartUpload(c) ==
    /\ pc[c] = "aborting"
    /\ Free(BlobsOf(listed[c]), c)
    /\ count' = Recount(None, None, listed[c])
    /\ DropUpload(upload[c])
    /\ listed' = [listed EXCEPT ![c] = NoParts]
    /\ Finish(c)
    /\ UNCHANGED object

\* A client that hangs up, a failed statement, or a part whose upload is gone.
Fail(c) ==
    /\ pc[c] # "idle"
    /\ listed' = [listed EXCEPT ![c] = NoParts]
    /\ Finish(c)
    /\ UNCHANGED tables

\* PutObject and DeleteObject of the same key, under its lock.
Overwrite ==
    /\ ~KeyLocked
    /\ \E d \in Blob :
          /\ Free({d, object}, None)
          /\ object' = d
          /\ count' = Recount(d, object, NoParts)
    /\ UNCHANGED <<state, part, old, clientVars, listed, reaperVars>>

-----------------------------------------------------------------------------
(* The reaper.                                                             *)

Age(u) ==
    /\ state[u] = "open" /\ u \notin old
    /\ old' = old \cup {u}
    /\ UNCHANGED <<tables, clientVars, listed, reaperVars>>

\* Mistake: an upload nothing was ever sent to is never abandoned.
AbandonedWithParts == {u \in old : state[u] = "open" /\ part[u] # NoParts}

Abandoned == {u \in old : state[u] = "open"}

ListAbandoned(r) ==
    /\ rpc[r] = "idle"
    /\ Abandoned # {}
    /\ todo' = [todo EXCEPT ![r] = Abandoned]
    /\ rpc' = [rpc EXCEPT ![r] = "loop"]
    /\ UNCHANGED <<tables, old, clientVars, listed, victim>>

ListForReap(r) ==
    /\ rpc[r] = "loop"
    /\ \E u \in todo[r] :
          /\ victim' = [victim EXCEPT ![r] = u]
          /\ todo' = [todo EXCEPT ![r] = todo[r] \ {u}]
          /\ listed' = [listed EXCEPT ![r] = part[u]]
    /\ rpc' = [rpc EXCEPT ![r] = "reaping"]
    /\ UNCHANGED <<tables, old, clientVars>>

\* The loop over the abandoned uploads goes on, or stops at the first error.
ReapNext(r, left) ==
    /\ todo' = [todo EXCEPT ![r] = left]
    /\ victim' = [victim EXCEPT ![r] = None]
    /\ listed' = [listed EXCEPT ![r] = NoParts]
    /\ rpc' = [rpc EXCEPT ![r] = IF left = {} THEN "idle" ELSE "loop"]
    /\ UNCHANGED <<old, clientVars>>

Reap(r) ==
    /\ rpc[r] = "reaping"
    /\ Free(BlobsOf(listed[r]), r)
    /\ count' = Recount(None, None, listed[r])
    /\ DropUpload(victim[r])
    /\ ReapNext(r, todo[r])
    /\ UNCHANGED object

ReapFails(r) ==
    /\ rpc[r] = "reaping"
    /\ ReapNext(r, {})
    /\ UNCHANGED tables

-----------------------------------------------------------------------------
ClientStep(c) ==
    \/ UploadPart(c) \/ PutMultipartPart(c) \/ CommitPart(c)
    \/ SelectParts(c) \/ LockAndList(c) \/ CompleteMultipartUpload(c)
    \/ Abort(c) \/ ListForAbort(c) \/ AbortMultipartUpload(c)
    \/ Fail(c)
ReaperStep(r) == ListAbandoned(r) \/ ListForReap(r) \/ Reap(r) \/ ReapFails(r)

Next ==
    \/ \E u \in Uploads : CreateMultipartUpload(u) \/ Age(u)
    \/ \E c \in Clients : ClientStep(c)
    \/ Overwrite
    \/ \E r \in Reapers : ReaperStep(r)

Spec == Init /\ [][Next]_vars

-----------------------------------------------------------------------------
(* One release at a time.                                                  *)

Releasing(u) ==
    {c \in Clients : pc[c] \in {"completing", "aborting"} /\ upload[c] = u}
       \cup {r \in Reapers : rpc[r] = "reaping" /\ victim[r] = u}
Writing(u) == {c \in Clients : pc[c] = "written" /\ upload[c] = u}

\* While one transaction lists and releases the parts of an upload, no other
\* does, and no part of it is being written.  The code does not see to this.
OneRelease ==
    \A u \in Uploads :
       /\ Cardinality(Releasing(u)) <= 1
       /\ Releasing(u) # {} => Writing(u) = {}

\* A transaction that is open commits or rolls back: its context is cancelled
\* when the client goes away, and by the server's shutdown.
EndTx(c) ==
    \/ CommitPart(c) \/ CompleteMultipartUpload(c) \/ AbortMultipartUpload(c)
    \/ pc[c] \in {"written", "completing", "aborting"} /\ Fail(c)

\* In the end the reaper's statements succeed, and the clients of an upload that
\* has been abandoned leave it alone.
Scheduling ==
    /\ \A c \in Clients : WF_vars(EndTx(c))
    /\ \A r \in Reapers :
          /\ WF_vars(ListAbandoned(r))
          /\ SF_vars(ListForReap(r) /\ OneRelease')
          /\ SF_vars(Reap(r))
    /\ <>[][\A r \in Reapers : ~ReapFails(r)]_vars
    /\ <>[][\A c \in Clients : pc[c] = "idle" => upload'[c] \notin old]_vars

CalmSpec == Init /\ [][Next /\ OneRelease']_vars /\ Scheduling

-----------------------------------------------------------------------------
(* Properties.                                                             *)

Holding(d) ==
    B(object = d) + Cardinality({p \in Uploads \X Numbers : part[p[1]][p[2]] = d})

\* The refcount of a blob is the number of parts and objects made of it.
RefcountExact == \A d \in Digests : count[d] = Holding(d)

\* A part belongs to an upload in progress: nobody adds one to an upload that
\* has been completed, aborted or reaped, where nothing would ever release it.
NoOrphanParts == \A u \in Uploads : state[u] # "open" => part[u] = NoParts

\* "A client that starts a multipart upload and disappears leaves its parts
\* referenced forever.  Without this the disk fills" (ReapAbandonedUploads):
\* every abandoned upload goes in the end.
AbandonedGo == \A u \in Uploads : u \in old ~> state[u] = "gone"
=============================================================================
