----------------------------- MODULE KeyHistory -----------------------------
(***************************************************************************)
(* The versions of one key of one bucket, kept in two tables: objects has  *)
(* the current version, object_versions the rest.  db/objects.go,          *)
(* db/current.go, db/versions.go, db/version_access.go,                    *)
(* db/versioning_state.go, and the handlers that call them.                *)
(*                                                                         *)
(* A request reads the bucket's versioning, begins its transaction, whose  *)
(* start is the now() of everything it writes, and waits for the key's     *)
(* advisory lock.  What it does under that lock is one step, because every *)
(* other holder of the lock waits; only the promotion of a version is two, *)
(* since the console's purges do not ask for the lock.                     *)
(*                                                                         *)
(* A transaction mints at most one version id, so an id is the start of    *)
(* the transaction that minted it.                                         *)
(***************************************************************************)
EXTENDS Integers, FiniteSets

CONSTANTS
    Writers,      \* requests in flight
    Blobs,        \* contents
    Modes,        \* the states PutBucketVersioning may ask for
    Operations,   \* the requests that occur
    MaxTime,      \* transactions begun
    NullId, Marker, NoObject

ASSUME NamesAssumption ==
    /\ Marker \notin Blobs
    /\ NullId \notin Nat
ASSUME ModesAssumption == Modes \subseteq {"enabled", "suspended"}
ASSUME TimeAssumption == MaxTime \in Nat

VARIABLES
    versioning,   \* bucket_settings.versioning_state
    current,      \* the row of objects, or NoObject
    history,      \* the rows of object_versions
    count,        \* blobs.refcount
    clock,        \* the start of the latest transaction
    pc,           \* where a request is
    op,           \* what it was asked to do
    opts,         \* WriteOptions.Versioning, as it read it
    start,        \* now() of its transaction
    removed,      \* the row it deleted and has not committed
    newest        \* the row it is about to promote

tables == <<current, history, count>>
locals == <<op, opts, start, removed, newest>>
vars == <<versioning, tables, clock, pc, locals>>

Times == 1..MaxTime
Ids == Times \cup {NullId}
Row == [id : Ids, body : Blobs \cup {Marker}, at : Times]
Requests ==
    [kind : {"put"}, body : Blobs] \cup [kind : {"delete"}]
       \cup [kind : {"deleteVersion", "restore"}, id : Ids]
NoRequest == [kind |-> "none"]
ASSUME NoRowAssumption == NoObject \notin Row
States == {"unversioned", "enabled", "suspended"}

TypeOK ==
    /\ versioning \in States
    /\ current \in Row \cup {NoObject}
    /\ current # NoObject => current.body # Marker
    /\ history \subseteq Row
    /\ \A u, v \in history : u.id = v.id => u = v
    /\ count \in [Blobs -> Nat]
    /\ clock \in 0..MaxTime
    /\ pc \in [Writers -> {"idle", "ready", "begun", "promoting"}]
    /\ op \in [Writers -> Requests \cup {NoRequest}]
    /\ opts \in [Writers -> States]
    /\ start \in [Writers -> 0..MaxTime]
    /\ removed \in [Writers -> Row \cup {NoObject}]
    /\ newest \in [Writers -> Row \cup {NoObject}]

Init ==
    /\ versioning = "unversioned"
    /\ current = NoObject
    /\ history = {}
    /\ count = [b \in Blobs |-> 0]
    /\ clock = 0
    /\ pc = [w \in Writers |-> "idle"]
    /\ op = [w \in Writers |-> NoRequest]
    /\ opts = [w \in Writers |-> "unversioned"]
    /\ start = [w \in Writers |-> 0]
    /\ removed = [w \in Writers |-> NoObject]
    /\ newest = [w \in Writers |-> NoObject]

-----------------------------------------------------------------------------
(* A request up to its transaction.                                        *)

\* What GetBucketSettings may answer: "unversioned" when the read fails.
Answers == {versioning} \cup (IF "failedRead" \in Operations THEN {"unversioned"} ELSE {})

\* The handler of a put or a delete reads the bucket's settings; other requests
\* name an id, and only one that was minted.
Arrive(w) ==
    /\ pc[w] = "idle"
    /\ \E r \in Requests :
          /\ r.kind \in Operations
          /\ op' = [op EXCEPT ![w] = r]
          /\ IF r.kind \in {"put", "delete"}
             THEN \E s \in Answers : opts' = [opts EXCEPT ![w] = s]
             ELSE r.id \in 1..clock \cup {NullId} /\ UNCHANGED opts
    /\ pc' = [pc EXCEPT ![w] = "ready"]
    /\ UNCHANGED <<versioning, tables, clock, start, removed, newest>>

Begin(w) ==
    /\ pc[w] = "ready"
    /\ clock < MaxTime
    /\ clock' = clock + 1
    /\ start' = [start EXCEPT ![w] = clock + 1]
    /\ pc' = [pc EXCEPT ![w] = "begun"]
    /\ UNCHANGED <<versioning, tables, op, opts, removed, newest>>

\* Commit or rollback: the connection and the locks are given back.
Finish(w) ==
    /\ pc' = [pc EXCEPT ![w] = "idle"]
    /\ op' = [op EXCEPT ![w] = NoRequest]
    /\ opts' = [opts EXCEPT ![w] = "unversioned"]
    /\ start' = [start EXCEPT ![w] = 0]
    /\ removed' = [removed EXCEPT ![w] = NoObject]
    /\ newest' = [newest EXCEPT ![w] = NoObject]
    /\ UNCHANGED <<versioning, clock>>

\* pg_advisory_xact_lock(objectLockID(...)) is free for w.
Locked(w) == pc[w] = "begun" /\ \A x \in Writers : pc[x] # "promoting"

-----------------------------------------------------------------------------
(* What a write does to the version it replaces.                           *)

B(p) == IF p THEN 1 ELSE 0
Sub1(n) == IF n > 0 THEN n - 1 ELSE 0

\* RetainBlob and ReleaseBlob of the bodies of rows; a marker has no blob.
Retain(c, v) == [b \in Blobs |-> c[b] + B(v.body = b)]
Release(c, v) == [b \in Blobs |-> IF v.body = b THEN Sub1(c[b]) ELSE c[b]]

\* Mistake: suspending a bucket stops preserving what is already there.
PreservesEnabled(w) == current # NoObject /\ opts[w] = "enabled"

\* The current version with an id object_versions can hold; objects holds
\* the null version as "".
Preserves(w) ==
    /\ current # NoObject
    /\ \/ opts[w] = "enabled"
       \/ opts[w] = "suspended" /\ current.id # NullId

\* supersede: the rows history gains.
Superseded(w) == IF Preserves(w) THEN {current} ELSE {}

\* Mistake: the new version takes the id of the one it replaces.
NewIdReused(w) ==
    IF opts[w] # "enabled" THEN NullId
    ELSE IF current = NoObject THEN start[w] ELSE current.id

NewId(w) == IF opts[w] = "enabled" THEN start[w] ELSE NullId

\* Mistake: the table has no unique key.
ClashNever(rows, v) == FALSE

\* object_versions_key: (bucket, key, version) is unique.
Clash(rows, v) == \E u \in rows : u.id = v.id

\* Mistake: the preserved row takes no reference of its own.
ReleaseCurrentOnly(w, c) == IF current = NoObject THEN c ELSE Release(c, current)

\* The reference of the preserved row, then the one of the objects row.
ReleaseCurrent(w, c) ==
    IF current = NoObject THEN c
    ELSE IF Preserves(w) THEN Release(Retain(c, current), current)
    ELSE Release(c, current)

Nulls == {v \in history : v.id = NullId}

-----------------------------------------------------------------------------
(* The S3 API's operations.                                                *)

PutObject(w) ==
    /\ Locked(w)
    /\ op[w].kind = "put"
    /\ ~(Preserves(w) /\ Clash(history, current))
    /\ LET v == [id |-> NewId(w), body |-> op[w].body, at |-> start[w]]
       IN  /\ current' = v
           /\ history' = history \cup Superseded(w)
           /\ count' = ReleaseCurrent(w, Retain(count, v))
    /\ Finish(w)

\* Versioned: preserve, then write a marker, which for a suspended bucket
\* takes the place of the null version.
MarkDeleted(w) ==
    LET stays == history \ (IF opts[w] = "suspended" THEN Nulls ELSE {})
        v == [id |-> NewId(w), body |-> Marker, at |-> start[w]]
        counted == IF opts[w] = "suspended" /\ Nulls # {}
                   THEN Release(count, CHOOSE u \in Nulls : TRUE) ELSE count
    IN  /\ history' = stays \cup Superseded(w) \cup {v}
        /\ count' = ReleaseCurrent(w, counted)

DeleteObject(w) ==
    /\ Locked(w)
    /\ op[w].kind = "delete"
    /\ ~(Preserves(w) /\ Clash(history, current))
    /\ IF opts[w] = "unversioned"
       THEN history' = history /\ count' = ReleaseCurrent(w, count)
       ELSE MarkDeleted(w)
    /\ current' = NoObject
    /\ Finish(w)

\* The null version of the key is in object_versions already: supersede's
\* INSERT fails, and the request with it.
NullClash(w) ==
    /\ Locked(w)
    /\ op[w].kind \in {"put", "delete"}
    /\ Preserves(w) /\ Clash(history, current)
    /\ Finish(w)
    /\ UNCHANGED tables

Named(w) == IF current # NoObject /\ current.id = op[w].id THEN {current}
            ELSE {v \in history : v.id = op[w].id}

VersionNotFound(w) ==
    /\ Locked(w)
    /\ op[w].kind \in {"deleteVersion", "restore"}
    /\ IF op[w].kind = "restore"
       THEN \A v \in history : v.id = op[w].id => v.body = Marker
       ELSE Named(w) = {}
    /\ Finish(w)
    /\ UNCHANGED tables

\* Mistake: ORDER BY created_at.
OldestOf(rows) == {v \in rows : \A u \in rows : u.at >= v.at}

\* ORDER BY created_at DESC, id DESC LIMIT 1, where id is a random uuid.
NewestOf(rows) == {v \in rows : \A u \in rows : u.at <= v.at}

\* Nothing has to be promoted: another version is current, no other is left,
\* or the newest is a marker.
DeleteObjectVersion(w) ==
    /\ Locked(w)
    /\ op[w].kind = "deleteVersion"
    /\ \E v \in Named(w) :
          /\ \/ current \notin {v, NoObject}
             \/ history \ {v} = {}
             \/ \E u \in NewestOf(history \ {v}) : u.body = Marker
          /\ current' = IF current = v THEN NoObject ELSE current
          /\ history' = history \ {v}
          /\ count' = Release(count, v)
    /\ Finish(w)

\* The version is deleted, and promoteNewestVersion has read its successor.
PickSuccessor(w) ==
    /\ Locked(w)
    /\ op[w].kind = "deleteVersion"
    /\ \E v \in Named(w) :
          /\ current \in {v, NoObject}
          /\ \E u \in NewestOf(history \ {v}) :
                /\ u.body # Marker
                /\ newest' = [newest EXCEPT ![w] = u]
          /\ removed' = [removed EXCEPT ![w] = v]
    /\ pc' = [pc EXCEPT ![w] = "promoting"]
    /\ UNCHANGED <<versioning, tables, clock, op, opts, start>>

\* Mistake: the promoted row stays in object_versions as well.
PromoteNewestVersionTwice(w) ==
    /\ pc[w] = "promoting"
    /\ current' = [newest[w] EXCEPT !.at = start[w]]
    /\ history' = history \ {removed[w]}
    /\ count' = Retain(Release(count, removed[w]), newest[w])
    /\ Finish(w)

\* Retain, INSERT INTO objects, DELETE by row id whether or not it is still
\* there, Release, commit.
PromoteNewestVersion(w) ==
    /\ pc[w] = "promoting"
    /\ current' = [newest[w] EXCEPT !.at = start[w]]
    /\ history' = history \ {removed[w], newest[w]}
    /\ count' = Release(Retain(Release(count, removed[w]), newest[w]), newest[w])
    /\ Finish(w)

Rollback(w) ==
    /\ pc[w] # "idle"
    /\ Finish(w)
    /\ UNCHANGED tables

\* PutBucketVersioning, through TransitionTo.
PutVersioning ==
    /\ "putVersioning" \in Operations
    /\ \E s \in Modes \ {versioning} : versioning' = s
    /\ UNCHANGED <<tables, clock, pc, locals>>

-----------------------------------------------------------------------------
(* The console's operations.                                               *)

\* RestoreVersion writes the old contents over the objects row, which keeps
\* its id, and records them once more under an id of their own.
RestoreVersion(w) ==
    /\ Locked(w)
    /\ op[w].kind = "restore"
    /\ \E v \in history :
          /\ v.id = op[w].id /\ v.body # Marker
          /\ LET id == IF current = NoObject THEN NullId ELSE current.id
                 retained == Retain(count, v)
                 released == IF current = NoObject THEN retained ELSE Release(retained, current)
             IN  /\ current' = [id |-> id, body |-> v.body, at |-> start[w]]
                 /\ history' = history \cup {[id |-> start[w], body |-> v.body, at |-> start[w]]}
                 /\ count' = Retain(released, v)
    /\ Finish(w)

\* Rows deleted by a transaction that has not committed make a purge wait.
InDoubt == {removed[w] : w \in {x \in Writers : pc[x] = "promoting"}}

\* PurgeVersion: no key lock.
PurgeVersion ==
    /\ "purge" \in Operations
    /\ \E v \in history \ InDoubt :
          /\ history' = history \ {v}
          /\ count' = Release(count, v)
    /\ UNCHANGED <<versioning, current, clock, pc, locals>>

\* PurgeKeyVersions: the whole history at once.
PurgeKeyVersions ==
    /\ "purge" \in Operations
    /\ history # {}
    /\ history \cap InDoubt = {}
    /\ history' = {}
    /\ count' = [b \in Blobs |->
                    LET left == count[b] - Cardinality({v \in history : v.body = b})
                    IN  IF left > 0 THEN left ELSE 0]
    /\ UNCHANGED <<versioning, current, clock, pc, locals>>

Write(w) ==
    \/ PutObject(w) \/ DeleteObject(w) \/ NullClash(w) \/ VersionNotFound(w)
    \/ DeleteObjectVersion(w) \/ PickSuccessor(w) \/ PromoteNewestVersion(w)
    \/ RestoreVersion(w) \/ Rollback(w)

Next ==
    \/ \E w \in Writers : Arrive(w) \/ Begin(w) \/ Write(w)
    \/ PutVersioning
    \/ PurgeVersion
    \/ PurgeKeyVersions

Spec == Init /\ [][Next]_vars

\* The console's purges stay clear of a promotion, which the code does not see
\* to: neither asks for the lock of the key.
CalmNext ==
    \/ \E w \in Writers : Arrive(w) \/ Begin(w) \/ Write(w)
    \/ PutVersioning
    \/ (\A w \in Writers : pc[w] # "promoting") /\ (PurgeVersion \/ PurgeKeyVersions)

CalmSpec == Init /\ [][CalmNext]_vars

-----------------------------------------------------------------------------
(* Properties.                                                             *)

Rows == history \cup (IF current = NoObject THEN {} ELSE {current})
Holding(b) == B(current # NoObject /\ current.body = b)
                 + Cardinality({v \in history : v.body = b})

\* Moving a version between the two tables never loses or doubles its claim
\* on the bytes: the refcount of a blob is the number of versions that have it.
RefcountMatches == \A b \in Blobs : count[b] = Holding(b)

\* "objects holds the current version; object_versions holds the rest"
\* (db/current.go): no minted id is in both.
OneHome ==
    current # NoObject /\ current.id # NullId => \A v \in history : v.id # current.id

\* "A version id never changes" (db/current.go), except that a restore writes
\* over the current version without giving it another: nothing but a restore
\* changes what a minted id names, and it changes no id but the current one.
OnlyRestoreRewrites ==
    [][\A v \in Rows, u \in Rows' :
          v.id # NullId /\ v.id = u.id /\ v.body # u.body =>
             /\ v = current
             /\ \E w \in Writers : pc[w] = "begun" /\ pc'[w] = "idle" /\ op[w].kind = "restore"]_vars

\* "VersioningEnabled keeps every version", and suspending does not discard
\* those "already there" (db/versioning_state.go): a minted id disappears only
\* when a request names it, when the console purges what is not current, or by
\* a request that was told the bucket is unversioned, which a bucket that has
\* just become versioned cannot prevent.
LostBy(w, v) ==
    /\ pc[w] # "idle" /\ pc'[w] = "idle"
    /\ \/ op[w].kind \in {"put", "delete"} /\ opts[w] = "unversioned"
       \/ op[w].kind = "deleteVersion" /\ op[w].id = v.id
HistoryKept ==
    [][\A v \in Rows : v.id # NullId =>
          \/ \E u \in Rows' : u.id = v.id
          \/ "purge" \in Operations /\ v \in history /\ UNCHANGED <<current, pc>>
          \/ \E w \in Writers : LostBy(w, v)]_vars
=============================================================================
