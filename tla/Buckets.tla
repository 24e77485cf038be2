------------------------------ MODULE Buckets ------------------------------
(***************************************************************************)
(* One bucket name: creation, deletion with its cascade, settings, uploads *)
(* and deletes of its keys, the console's deletion of a folder, and the    *)
(* expiry of objects by the maintenance loop.  db/buckets.go,              *)
(* db/settings.go, console/{storage,settings}.go, s3api/{buckets,          *)
(* versioning}.go and cmd/s3d/maintenance.go.                              *)
(*                                                                         *)
(* A request resolves the name to an id first and works with the id from   *)
(* then on, and the name may get another id meanwhile.  A transaction that *)
(* inserts a row holds a key-share lock of the bucket's row until it ends. *)
(***************************************************************************)
EXTENDS Integers, FiniteSets, FiniteSetsExt

CONSTANTS
    Keys,       \* keys, as integers in the order of their names
    Ids,        \* bucket ids, handed out in order
    Clients,    \* requests in flight
    PageSize,   \* maxPageSize of the console
    BatchLimit, \* batchLimit of the maintenance loop
    Rules,      \* what lifecycle rules can be saved: the sets of keys they cover
    None

ASSUME KeysAssumption == Keys \subseteq Nat \ {0} /\ IsFiniteSet(Keys)
ASSUME IdsAssumption == Ids \subseteq Nat \ {0} /\ IsFiniteSet(Ids) /\ None \notin Ids
ASSUME ClientsAssumption == None \notin Clients
ASSUME LimitsAssumption == PageSize \in Nat \ {0} /\ BatchLimit \in Nat \ {0}
ASSUME RulesAssumption == Rules \subseteq SUBSET Keys /\ {} \in Rules

VARIABLES
    bucket,     \* the id the name has, or None
    used,       \* ids handed out
    settings,   \* the row of bucket_settings, or the defaults
    object,     \* object[k]: the row of objects, or NoRow
    pc, id,     \* a request's progress, and the bucket id it resolved
    seen,       \* the settings it has read
    key,        \* the key it writes
    after, page, doomed, failed, \* deleting a folder: cursor, whether more pages follow, keys, failures
    there,      \* history: keys listed by a client (None: by the loop) that nobody else has
                \* touched; of the loop's, those whose deletion has not failed
    wpc, wid, rule, expired      \* the maintenance loop

folderVars == <<after, page, doomed, failed>>
workerVars == <<wpc, wid, rule, expired>>
clientVars == <<pc, id, seen, key, folderVars, there>>
tables == <<bucket, used, settings, object>>
vars == <<tables, clientVars, workerVars>>

States == {"unversioned", "enabled", "suspended"}
Settings == [versioning : States, rule : Rules]
NoSettings == [versioning |-> "unversioned", rule |-> {}]
NoRow == [bucket |-> None, age |-> "fresh"]
Rows == [bucket : Ids \cup {None}, age : {"fresh", "old"}]

TypeOK ==
    /\ bucket \in Ids \cup {None}
    /\ used \subseteq Ids
    /\ settings \in Settings
    /\ object \in [Keys -> Rows]
    /\ pc \in [Clients -> {"idle", "upload", "inserted", "folder",
                           "console", "putVersioning", "save", "put", "dropping"}]
    /\ id \in [Clients -> Ids \cup {None}]
    /\ seen \in [Clients -> Settings]
    /\ key \in [Clients -> Keys \cup {0}]
    /\ after \in [Clients -> Keys \cup {0}]
    /\ page \in [Clients -> BOOLEAN]
    /\ doomed \in [Clients -> SUBSET Keys]
    /\ failed \in [Clients -> SUBSET Keys]
    /\ there \in [Clients \cup {None} -> SUBSET Keys]
    /\ wpc \in {"idle", "list", "delete"}
    /\ wid \in Ids \cup {None}
    /\ rule \in Rules
    /\ expired \in SUBSET Keys

Init ==
    /\ bucket = None /\ used = {} /\ settings = NoSettings
    /\ object = [k \in Keys |-> NoRow]
    /\ pc = [c \in Clients |-> "idle"] /\ id = [c \in Clients |-> None]
    /\ seen = [c \in Clients |-> NoSettings] /\ key = [c \in Clients |-> 0]
    /\ after = [c \in Clients |-> 0] /\ page = [c \in Clients |-> FALSE]
    /\ doomed = [c \in Clients |-> {}] /\ failed = [c \in Clients |-> {}]
    /\ there = [c \in Clients \cup {None} |-> {}]
    /\ wpc = "idle" /\ wid = None /\ rule = {} /\ expired = {}

-----------------------------------------------------------------------------
(* The tables.                                                             *)

Goto(c, next) == pc' = [pc EXCEPT ![c] = next]

\* The request is answered and its locals are dropped.
Finish(c) ==
    /\ Goto(c, "idle")
    /\ id' = [id EXCEPT ![c] = None]
    /\ seen' = [seen EXCEPT ![c] = NoSettings]
    /\ key' = [key EXCEPT ![c] = 0]
    /\ after' = [after EXCEPT ![c] = 0]
    /\ failed' = [failed EXCEPT ![c] = {}]

Has(b, k) == object[k].bucket = b /\ b # None
KeysOf(b) == {k \in Keys : Has(b, k)}

\* A transaction of another client writes k and has not committed: it holds
\* the key's advisory lock.
Locked(k) == \E c \in Clients : pc[c] = "inserted" /\ key[c] = k

\* The settings of bucket b: the defaults when it has no row.
SettingsOf(b) == IF b = bucket THEN settings ELSE NoSettings

\* Somebody other than c has written or removed k.
Touched(k, c) == there' = [x \in DOMAIN there |-> IF x = c THEN there[x] ELSE there[x] \ {k}]

First(n, ks) == {k \in ks : Cardinality({j \in ks : j <= k}) <= n}

-----------------------------------------------------------------------------
(* Buckets.                                                                *)

\* The next id goes to the name if it is free; a taken name is an error.
CreateBucket ==
    /\ bucket = None
    /\ Ids \ used # {}
    /\ bucket' = Min(Ids \ used)
    /\ used' = used \cup {bucket'}
    /\ UNCHANGED <<settings, object, clientVars, workerVars>>

\* The one statement of DeleteBucket begins: its snapshot shows an empty bucket.
DeleteBucket(c) ==
    /\ pc[c] = "idle" /\ bucket # None
    /\ KeysOf(bucket) = {}
    /\ id' = [id EXCEPT ![c] = bucket]
    /\ Goto(c, "dropping")
    /\ UNCHANGED <<tables, seen, key, folderVars, there, workerVars>>

\* It has the lock of the bucket's row: nobody holds it in share mode any more.
\* The rows of the bucket cascade, those inserted while it waited included.
DropBucket(c) ==
    /\ pc[c] = "dropping"
    /\ \A x \in Clients : pc[x] = "inserted" => id[x] # id[c]
    /\ IF bucket = id[c]
       THEN /\ bucket' = None /\ settings' = NoSettings
            /\ object' = [k \in Keys |-> NoRow]
            /\ there' = [x \in DOMAIN there |-> {}]
       ELSE UNCHANGED <<bucket, settings, object, there>>
    /\ Finish(c)
    /\ UNCHANGED <<used, page, doomed, workerVars>>

\* requireBucket: every other request begins with the id of the name.
Resolve(c, next) ==
    /\ pc[c] = "idle" /\ bucket # None
    /\ id' = [id EXCEPT ![c] = bucket]
    /\ Goto(c, next)
    /\ UNCHANGED <<tables, seen, after, failed, workerVars>>

StartSettings(c) ==
    /\ \E next \in {"console", "putVersioning"} : Resolve(c, next)
    /\ UNCHANGED <<key, page, doomed, there>>

\* handleUploadObject, handlePutObject; a folder is an upload of its key.
StartUpload(c, k) ==
    /\ Resolve(c, "upload")
    /\ key' = [key EXCEPT ![c] = k]
    /\ UNCHANGED <<page, doomed, there>>

\* A deletion is of selected keys, of everything under a prefix, or of both.
StartDeletion(c, ks, prefix) ==
    /\ Resolve(c, "folder")
    /\ doomed' = [doomed EXCEPT ![c] = ks]
    /\ page' = [page EXCEPT ![c] = prefix]
    /\ there' = [there EXCEPT ![c] = IF prefix THEN KeysOf(bucket) ELSE {}]
    /\ UNCHANGED key

-----------------------------------------------------------------------------
(* Objects.                                                                *)

\* Mistake: no foreign key, the row goes to whatever bucket has the name now.
InsertByName(c) ==
    /\ pc[c] = "upload" /\ ~Locked(key[c]) /\ bucket # None
    /\ Goto(c, "inserted")
    /\ UNCHANGED <<tables, id, seen, key, folderVars, there, workerVars>>

\* PutObject writes the row; a bucket that is gone breaks the foreign key.
Insert(c) ==
    /\ pc[c] = "upload" /\ ~Locked(key[c])
    /\ IF bucket = id[c]
       THEN Goto(c, "inserted") /\ UNCHANGED <<id, seen, key, after, failed>>
       ELSE Finish(c)
    /\ UNCHANGED <<tables, page, doomed, there, workerVars>>

\* The transaction commits, or the connection is lost.
EndInsert(c) ==
    /\ pc[c] = "inserted"
    /\ \/ /\ object' = [object EXCEPT ![key[c]] = [bucket |-> id[c], age |-> "fresh"]]
          /\ Touched(key[c], c)
       \/ UNCHANGED <<object, there>>
    /\ Finish(c)
    /\ UNCHANGED <<bucket, used, settings, page, doomed, workerVars>>

\* DELETE FROM objects by bucket id and key.
Remove(b, k) == object' = [object EXCEPT ![k] = IF Has(b, k) THEN NoRow ELSE @]

\* Mistake: the cursor is one beyond the last key of the page.
ListFolderSkips(c) ==
    /\ pc[c] = "folder" /\ page[c]
    /\ LET rest == {k \in KeysOf(id[c]) : k > after[c]}
           now == First(PageSize, rest)
       IN  /\ doomed' = [doomed EXCEPT ![c] = @ \cup now]
           /\ page' = [page EXCEPT ![c] = now # rest]
           /\ after' = [after EXCEPT ![c] = IF now = {} THEN @ ELSE Min({Max(now) + 1, Max(Keys)})]
    /\ UNCHANGED <<tables, pc, id, seen, key, failed, there, workerVars>>

\* One page of the folder is added to the keys to delete.
ListFolder(c) ==
    /\ pc[c] = "folder" /\ page[c]
    /\ LET rest == {k \in KeysOf(id[c]) : k > after[c]}
           now == First(PageSize, rest)
       IN  /\ doomed' = [doomed EXCEPT ![c] = @ \cup now]
           /\ page' = [page EXCEPT ![c] = now # rest]
           /\ after' = [after EXCEPT ![c] = IF now = {} THEN @ ELSE Max(now)]
    /\ UNCHANGED <<tables, pc, id, seen, key, failed, there, workerVars>>

\* DeleteObject of the next key, one transaction each.  Any may fail: that is
\* remembered, and the loop goes on.
DeleteInFolder(c) ==
    /\ pc[c] = "folder" /\ ~page[c] /\ doomed[c] # {}
    /\ LET k == Min(doomed[c])
       IN  /\ doomed' = [doomed EXCEPT ![c] = @ \ {k}]
           /\ \/ failed' = [failed EXCEPT ![c] = @ \cup {k}] /\ UNCHANGED <<object, there>>
              \/ ~Locked(k) /\ Remove(id[c], k) /\ Touched(k, c) /\ UNCHANGED failed
    /\ UNCHANGED <<bucket, used, settings, pc, id, seen, key, after, page, workerVars>>

\* The answer tells how many went and which failed; or the listing has failed, and
\* nothing is deleted.
FolderDone(c) ==
    /\ pc[c] = "folder" /\ (page[c] \/ doomed[c] = {})
    /\ Finish(c)
    /\ page' = [page EXCEPT ![c] = FALSE]
    /\ doomed' = [doomed EXCEPT ![c] = {}]
    /\ there' = [there EXCEPT ![c] = {}]
    /\ UNCHANGED <<tables, workerVars>>

-----------------------------------------------------------------------------
(* Settings.                                                               *)

\* GetBucketSettings.  A query that fails counts as no row.
ReadSettings(c) ==
    /\ \/ pc[c] = "console" /\ Goto(c, "save")
       \/ pc[c] = "putVersioning" /\ Goto(c, "put")
    /\ \E answer \in {SettingsOf(id[c]), NoSettings} : seen' = [seen EXCEPT ![c] = answer]
    /\ UNCHANGED <<tables, id, key, folderVars, there, workerVars>>

\* Mistake: the switch's word is stored as the state.
ConsoleVersioningRaw(previous, on) == IF on THEN "enabled" ELSE "disabled"

\* Mistake: off means never turned on.
ConsoleVersioningOff(previous, on) == IF on THEN "enabled" ELSE "unversioned"

\* What the console's switch makes of the state it has read.
ConsoleVersioning(previous, on) ==
    IF on THEN "enabled"
    ELSE IF previous # "unversioned" THEN "suspended"
    ELSE previous

\* SaveBucketSettings writes every column (rule stands for all but one); a bucket
\* that is gone breaks the foreign key.
Save(c, new) ==
    /\ settings' = IF bucket = id[c] THEN new ELSE settings
    /\ Finish(c)
    /\ UNCHANGED <<bucket, used, object, page, doomed, there, workerVars>>

SaveSettings(c, on, covered) ==
    /\ pc[c] = "save"
    /\ Save(c, [versioning |-> ConsoleVersioning(seen[c].versioning, on), rule |-> covered])

\* Mistake: only the new state is filled in.
PutVersioningAlone(c, requested) ==
    /\ pc[c] = "put"
    /\ Save(c, [NoSettings EXCEPT !.versioning = requested])

\* PutBucketVersioning accepts two states, from any.
PutVersioning(c, requested) ==
    /\ pc[c] = "put"
    /\ Save(c, [seen[c] EXCEPT !.versioning = requested])

-----------------------------------------------------------------------------
(* Lifecycle expiry.                                                       *)

\* Objects grow old.
Age(k) ==
    /\ object[k].bucket # None /\ object[k].age = "fresh"
    /\ object' = [object EXCEPT ![k].age = "old"]
    /\ UNCHANGED <<bucket, used, settings, clientVars, workerVars>>

\* BucketsWithLifecycle: the rules, as they are at the start of the pass.
Targets ==
    /\ wpc = "idle" /\ bucket # None /\ settings.rule # {}
    /\ wpc' = "list" /\ wid' = bucket /\ rule' = settings.rule
    /\ UNCHANGED <<tables, clientVars, expired>>

\* ExpiredObjectKeys: the first keys of the rule that are old.
ListExpired ==
    /\ wpc = "list"
    /\ expired' = First(BatchLimit, {k \in KeysOf(wid) \cap rule : object[k].age = "old"})
    /\ there' = [there EXCEPT ![None] = expired']
    /\ wpc' = "delete"
    /\ UNCHANGED <<tables, pc, id, seen, key, folderVars, wid, rule>>

WorkerDone ==
    /\ wpc' = "idle" /\ wid' = None /\ rule' = {} /\ expired' = {}
    /\ there' = [there EXCEPT ![None] = {}]

\* The deletion of k fails.
ExpireFails(k) == there' = [there EXCEPT ![None] = @ \ {k}] /\ UNCHANGED object

\* Mistake: the first failure ends the pass.
ExpireStops ==
    /\ wpc = "delete" /\ expired # {}
    /\ LET k == Min(expired)
       IN  \/ /\ WorkerDone
              /\ UNCHANGED object
           \/ /\ ~Locked(k) /\ Remove(wid, k) /\ Touched(k, None)
              /\ expired' = expired \ {k}
              /\ UNCHANGED <<wpc, wid, rule>>
    /\ UNCHANGED <<bucket, used, settings, pc, id, seen, key, folderVars>>

\* One listed key is deleted, by the same operation a client uses; or that fails,
\* and the loop goes on.
Expire ==
    /\ wpc = "delete" /\ expired # {}
    /\ LET k == Min(expired)
       IN  /\ expired' = expired \ {k}
           /\ ExpireFails(k) \/ (~Locked(k) /\ Remove(wid, k) /\ Touched(k, None))
    /\ UNCHANGED <<bucket, used, settings, pc, id, seen, key, folderVars, wpc, wid, rule>>

\* The pass is over, its listing has failed, or its process is restarted.
EndPass ==
    /\ \/ wpc = "list"
       \/ wpc = "delete" /\ expired = {}
    /\ WorkerDone
    /\ UNCHANGED <<tables, pc, id, seen, key, folderVars>>

-----------------------------------------------------------------------------
SaveStep(c) ==
    \/ \E on \in BOOLEAN, covered \in Rules : SaveSettings(c, on, covered)
    \/ \E requested \in {"enabled", "suspended"} : PutVersioning(c, requested)

ClientStep(c) ==
    \/ DeleteBucket(c) \/ DropBucket(c)
    \/ \E k \in Keys : StartUpload(c, k)
    \/ \E ks \in SUBSET Keys, prefix \in BOOLEAN : StartDeletion(c, ks, prefix)
    \/ Insert(c) \/ EndInsert(c)
    \/ ListFolder(c) \/ DeleteInFolder(c) \/ FolderDone(c)
    \/ StartSettings(c) \/ ReadSettings(c) \/ SaveStep(c)

WorkerStep == Targets \/ ListExpired \/ Expire \/ EndPass

Next ==
    \/ CreateBucket \/ WorkerStep
    \/ \E k \in Keys : Age(k)
    \/ \E c \in Clients : ClientStep(c)

Spec == Init /\ [][Next]_vars

-----------------------------------------------------------------------------
(* Properties.                                                             *)

\* A row is in the bucket that has the name now, whatever id the request that
\* wrote it had resolved: an upload begun before the bucket was deleted and
\* created again never lands in the new one (the foreign keys of objects).
RowsAreOfTheBucket == \A k \in Keys : object[k] # NoRow => object[k].bucket = bucket

\* Deleting a folder leaves none of the keys that were in it from the start and
\* that nobody else touched, but those it reports as failed (handleDeleteObjects
\* pages through the listing).
FolderEmptied ==
    \A c \in Clients : pc[c] = "folder" /\ ~page[c] =>
        there[c] \cap KeysOf(id[c]) \subseteq doomed[c] \cup failed[c]

\* A pass that comes to its end has removed every key it listed, but those whose
\* own deletion failed and those that somebody else has touched (expireByLifecycle
\* continues after a failure).
PassExpires ==
    [][wpc = "delete" /\ wpc' = "idle" =>
         \A k \in there[None] : ~Has(wid, k)]_vars
=============================================================================
