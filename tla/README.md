# A model of s3d, the lightweight S3 server

s3d stores the bytes of objects as content-addressed files on a volume and
everything else in Postgres. It runs as one process or split into roles (`s3`,
`console`, `worker`) that share the volume and the database and share no memory.
What makes it hard is that the two stores cannot commit together, that several
processes and requests work on the same rows with locks they choose themselves,
and that any of them can fail between two statements.

The modules here are translated from the Go code and its SQL. TLC checks them on
small instances, TLAPS proves the safety properties for all instances. Paths below are relative to
`src/`; `PROJECT.json` has the lines of every definition.

## Inventory

### Blob files: `internal/storage/blobstore.go`
- State: `blobs/<digest>` files, `tmp/upload-*` files.
- Operations: `Put` (copy and hash into `tmp/`, then dedupe or rename), `Concat`,
  `Open`, `Remove`, `New` (which empties `tmp/`).
- Interaction: called before any transaction by the S3 handlers; `Remove` by the
  sweeper inside one.
- Hard: look-then-act against the sweeper and other uploads of the same contents;
  processes that share `tmp/`; a crash after the rename.
- Correct when: a committed row has its bytes; every file is somebody's or goes.

### Reference counts and the sweeper: `internal/db/blobs.go`, `cmd/s3d/maintenance.go`
- State: rows of `blobs` (digest, refcount, created_at).
- Operations: `RetainBlob`, `ReleaseBlob` in the caller's transaction;
  `SweepUnreferenced`, one transaction for each blob.
- Hard: advisory and row locks on the same thing, several sweepers, deadlocks, an
  unlink that cannot be rolled back.
- Correct when: the count of a blob is the number of rows that point at it; nothing
  is unlinked that a row points at; garbage goes in the end; requests end.

### Objects and versions: `internal/db/{objects,current,versions,version_access,versioning_state}.go`
- State: `objects` (the current version of a key), `object_versions` (the others
  and the delete markers), the bucket's versioning state.
- Operations: put, copy, delete, delete of a version with promotion of the next,
  restore, purge of one version or of all, and the transitions of the state.
- Hard: one key's versions are spread over two tables; the state is read before
  the lock is held; order is by the start of transactions; the console's purges
  take no lock; the null version.
- Correct when: each version is in one table, keeps its id, and disappears only when
  asked; the tables behave as the list of versions S3 describes.

### Multipart uploads: `internal/db/multipart.go`, `internal/s3api/multipart.go`
- State: `multipart_uploads`, `multipart_parts`.
- Operations: create, put part, complete, abort; the reaper of uploads a day old.
- Hard: completion holds the key's lock, a part its number's, abort and reaper none.
- Correct when: every part is counted once and released once; no part outlives its
  upload; abandoned uploads go.

### Buckets and their settings: `internal/db/{buckets,settings}.go`, `internal/console/{storage,settings}.go`, `cmd/s3d/maintenance.go`
- State: `buckets`, `bucket_settings`; what requests have resolved and read.
- Operations: create, delete with its cascade, uploads, deletion of a folder, both ways to
  save settings, expiry by lifecycle rules.
- Interaction: every request begins with the id of the bucket's name; settings decide how
  `PutObject` treats the version it replaces.
- Hard: a name that changes its id under requests; read-modify-write of settings; the
  deletion of many keys in pages, with failures, beside writers.
- Correct when: rows are of the bucket that has the name; nothing that a folder's deletion
  or an expiry was meant for stays; a save changes what it was asked to and nothing else.

### Accounts: `internal/db/{auth,users,passwords}.go`, `internal/console/{auth,account,passwords,users}.go`, `cmd/s3d/user.go`
- State: `users`, `sessions`, `login_attempts`.
- Operations: sign in and out, revoke, change and reset a password, create, demote and
  remove users, the command line's reset.
- Hard: every statement commits on its own, and a handler has up to four of them.
- Correct when: an administrator remains; sessions end with the password they began with
  and with their account; guessing is bounded.

### Alerts: `internal/alerts/engine.go`, `internal/db/{alerts,singleton,appsettings}.go`, `internal/console/{alerts,mailer}.go`
- State: `alert_rules`, `alerts`, the configuration of mail, the session lock of the engine.
- Operations: the engine's cycle (check, raise or resolve, mail, mark), acknowledge,
  resolve, change a rule, save the configuration of mail.
- Hard: one engine in several processes; a mail cannot be taken back; rules, alerts and
  mail change during a cycle.
- Correct when: what fires is mailed in the end and once; what is acknowledged is quiet;
  what is over clears.

### Request log: `internal/logs/*.go`, `internal/db/logs.go`, `internal/console/logs.go`, shutdown in `cmd/s3d/main.go`
- State: a bounded buffer in each process, `request_logs`, the cursor of a stream.
- Operations: record, flush, poll, the signal, the grace period, exit.
- Hard: a flush drains before it inserts; ids and commits are not in one order; the last
  flush and the draining of the servers run beside one another.
- Correct when: a hole is counted; a stream shows what is committed, once and in order.

### Listings: `internal/db/{listing,version_listing}.go`, `internal/s3api/{listing,versioning}.go`
- State: a page with its cursor, markers and groups; the cursor the client hands back.
- Hard: pages end inside groups and inside the versions of a key; a grant filters; others write.
- Correct when: pages are in order, repeat and skip nothing, and end.

### Requests: `internal/s3api/{middleware,verify,presign,sigv4,public,server,authorize,chunked}.go` and the handlers, `internal/db/{credentials,grants}.go`
- State: the access key's scope, buckets and which are public, the progress of a request.
- Operations: authenticate by header, link or not at all; route and its demands; the bucket;
  the body; the handler. In the console: scope, revocation, visibility, buckets.
- Hard: four looks at the database in one request, and the console changes what they see.
- Correct when: one grant decides a request; what is stored is what was sent.

## Modules

| Module | What it is |
|---|---|
| `BlobStore` | files, counts, transactions, sweepers, restarts |
| `BlobStoreRaces` | the history of the race that loses bytes, and that there is no other |
| `BucketsRaces` | what saves of the settings have not seen, and that nothing else loses settings |
| `AccountsRaces` | counts of administrators that are overtaken, and that nothing else leaves none |
| `LogsRaces` | entries the stream is bound to pass over, and that it passes over no others |
| `RequestsRaces` | buckets that take the name an unsigned request is on its way to |
| `BlobStoreLive` | its fairness and what must happen in the end |
| `KeyHistory` | the versions of one key in two tables |
| `VersionList` | what S3 promises about the versions of a key |
| `KeyHistoryList` | the mapping of `KeyHistory` to `VersionList` |
| `Multipart` | parts, completion, abort and the reaper |
| `Buckets` | a bucket's name, its settings, folders and lifecycle |
| `Accounts` | users, sessions and passwords |
| `Alerts` | the engine, the operator and the mail |
| `Logs` | the sinks, the stream and the end of a process |
| `Listing` | one client's listing beside writers |
| `Requests` | the way of a request, and the console beside it |
| `BlobStoreProofs`, `KeyHistoryProofs`, `MultipartProofs`, `BucketsProofs`, `AccountsProofs`, `AlertsProofs`, `RequestsProofs` | the theorems about each, with their lemmas |
| `ReaderProofs` | the theorems about `Logs` and `Listing`, where a reader goes on behind a cursor while others write |
| `MC*` | definitions the configurations need: processes, symmetry, bounds |

Definitions named as a mistake (`SweepNextLeak`, `ClashNever`, ...) are not used by
any specification. Each is a plausible bug in the definition that follows it, kept
because putting it in place of the right one makes a property fail: it shows that
the property depends on that line of the code.

The code leaves some races open, and the modules treat them in one of two ways. A `Races`
module adds history variables to `Spec` and restricts nothing: its `RaceSpec` has every step of
`Spec`, failures included, and its property says that what goes wrong does so by
this race and by no other. `KeyHistory`, `Multipart` and `Listing` (where the names are
`ListSpec` and `ListCalmSpec`) have a `CalmSpec` beside `Spec`, which leaves out one kind of
interleaving that the code does not prevent and under which one property is false; what it leaves
out is stated there and under *Assumptions*.

### BlobStore
One action for each file-system call or SQL statement that another process can see
the effect of. A request first brings its bytes to disk (`Upload`, `Dedupe`,
`FindAbsent`, `Rename`, `RenameFails`), or has the digest from a row (`Copy`), or has
none (`Delete`), then runs one transaction: the key's lock and the row it replaces
(`LockKey`), `RetainBlob` in its two statements, the preserved version
(`KeepLock`, `KeepUpsert`), `ReleaseBlob`, `Commit`. `Purge` is the console's: it locks
a version row and releases it. `Rollback` may happen at any point.

What Postgres does is modelled as far as it matters: `advisory` and `slotLock` are
the locks the code asks for, `rowLock` the lock an update takes on a row of `blobs`,
`pending` the counts a transaction has written and nobody else sees. Reads are at
READ COMMITTED, an update waits for the row and reads it again. The rows of
`objects`, `multipart_parts` and `object_versions` are all slots that point at a
digest: `Keys` are written under an advisory lock, `Versions` once and then purged.
`Restart` drops a process with its transactions and empties `tmp/`.

`BlobStoreRaces` adds `raced`, the digests whose file went while a request had them `InHand`:
it has seen that the bytes are there and has not asked for the lock that keeps the sweeper
away. `OnlyRacesLoseBytes` says that no row lacks its file but for that. `SweepClaim` heeds the
schema's `REFERENCES blobs ON DELETE RESTRICT`: a row that points at the blob keeps it, whatever
the count says. `UnlinkSparesReferenced` depends on the sweeper going on only when it has deleted a row.

The module covers put, copy, delete and purge. Promotion and restore of a version
are in `KeyHistory`, the release of many parts at once in `Multipart`, where the
counts are kept at the grain of whole transactions.

### KeyHistory and VersionList
The rows of one key, and requests that read the versioning state (`Arrive`), begin
(`Begin`, which fixes `now()`) and do their work under the key's lock in one step,
since every other holder of the lock waits. Only a promotion takes two steps
(`PickSuccessor`, `PromoteNewestVersion`), because `PurgeVersion` and
`PurgeKeyVersions` do not ask for the lock. A version id is the start of the transaction
that minted it; `null` is an id like others except that it can be reused.

`VersionList` is the promise: a list, the last of which is current. `KeyHistoryList`
maps the rows of history ordered by timestamp, followed by the objects row, to that
list, and what a GET returns to its `visible`. The tables implement the list when
requests come one at a time (`OrderedSpec`) in a bucket that is unversioned or
enabled; suspended, or with overlapping requests, they do not (see *Findings*).

### Multipart
The uploads of one key. A part and a completion take two or three steps: what they
list or read, and what they commit. An update of a `blobs` row makes others wait
until the commit (`Free`), and an uncommitted part makes a delete of its upload wait
(`InUse`). `Overwrite` stands for every other write of the key. `Join` is what `Concat`
returns: the digest of the one part chosen, or `Whole`.

### Buckets
One name, and the ids it has one after the other. `Resolve` is `requireBucket`: `StartUpload`,
`StartSettings` and `StartDeletion` are the requests that begin with it. An upload has written
its row (`Insert`) before it commits (`EndInsert`), and holds the bucket's row in share
mode in between; `DeleteBucket` takes its snapshot and `DropBucket` has the lock, so that
what was inserted in between goes with the bucket, as it does in Postgres. `ListFolder`
and `DeleteInFolder` are the two loops of `handleDeleteObjects`. `ReadSettings` and
`SaveSettings` or `PutVersioning` are the two halves of a save; `rule` stands for every
column but the versioning state. `Targets`, `ListExpired`, `Expire`, `EndPass` are
`expireByLifecycle`. Any deletion of a key may fail, for good or for once, and any read of
settings, which then count as the default ones. `there` is history: the keys a deletion was
meant for and nobody else touched. `BucketsRaces` adds `missed`: the columns a save is about to write
and has not seen as they are, since its read failed or somebody saved in between.
`OnlyBlindSavesUnversion` and `OnlyBlindSavesLoseRules` say that only such a save
turns versioning back, or a `PutBucketVersioning` what else was set.

### Accounts
A step for each statement whose order others can see. A password is the number of the
change that set it. `Login`, `VerifyPassword`, `RecordAttempt` or `CreateSession` are a sign-in;
a statement that counts administrators counts in its snapshot (`pc` in the counting states)
and writes when it has the row. A session is `late` when its sign-in had been verified with a
password that was replaced before the session was created. `guesses` is history: the wrong
passwords tried in the window that `failures` counts. `AccountsRaces` adds `overtaken`: the
statements that have counted the administrators, and since then another has taken one away.
`OnlyOverlapsLeaveNoAdmin` says that the last administrator goes by such a statement only.

### Alerts
`Begin` is `WithSingleton`; `Check` and `Evaluate` are `evaluate` for one rule, `FindPending`,
`Notify`, `PassOver` and `Mark` are `notify`. The cycle does not run on the connection that
holds the lock, so that `LoseLock` lets another engine begin while the first goes on.
`Fault`s are bounded by `MaxFaults`: a statement or a send that fails, a process that dies, the
lost lock. What the checks measure is the environment's choice (`Change`).

### Logs
A request is recorded when it is answered (`RecordRequest`), and dropped and counted when
the buffer is full (`Keep`); the logger's own entries go the same way (`RecordEvent`, `Warn`). A
flush drains, inserts (the ids) and commits (what others see), or fails: `Drain`,
`InsertLogs`, `CommitLogs`, `InsertEvents`. `OpenStream` begins a stream, at the first row if it
cannot find out the last; `Poll` is its answer. `Signal` starts the last flush; the servers
drain until the grace period ends; `Exit` loses what the process has in memory, whatever
the flush does. A commit is not held up by anything, so that entries of two processes can become
visible in another order than that of their ids. `LogsRaces` adds what the stream is bound to pass
over: entries that were `late`, committed when one with a greater id was visible already, and
`crowded`, when `TailLimit` newer ones were. `OnlyRacesHideEntries` says that everything else that
is committed is shown, once and in order. `EntriesArrive` says that an entry does not stay in memory:
it is committed or lost, with a flush that failed or with the process.

### Listing
Keys are numbers, a group is the range of keys with a common prefix, a cursor is the last key
behind it. `Fetch` is the query with its limit, `TakeObject` and `TakeVersion` one round of the
loops, `EndOfObjects`, `EndOfVersions` and `More` their ends. `Deliver` gives the page to
the client, who asks for the next. `Insert` and `Delete` are others. `Wanted` are the
keys with the prefix asked for and `Shown` those the grant lets through. `PlaceOf` is the order of
the query and `EntriesAt` the filter of a page, both without recursion, so that the prover can follow.

### Requests
One action for each look at the database: `Verify` or `VerifyPresigned`, `AllowAnonymous`,
`Route` with what it demands, `Resolve`, the body chunk by chunk, `ReadSource` of a copy,
`Handle`, `DeleteOne` of a batch. `Handle` has a disjunct for each handler. The console changes
the scope of the key (`SetScope`, `Revoke`), what is public and which buckets there are.
Signatures are what they vouch for: a chunk passes if it is the one that follows. A stream may
end where a chunk does (`EndShort`), and what is stored then is short of what was sent; the
history `ended` tells it from a body out of which something is missing. `touched` and
`refused` are history: what a request has read or changed, as triples of bucket, key and
permission, and what it has been refused; `Rights` gives a meaning to a grant as a set of such
triples, independently of the functions of `db/grants.go` that decide. `RequestsRaces` adds `taken`:
the buckets created under the name of a public one between `allowAnonymous` and `requireBucket`,
which is the only way a request without a signature gets at what was never public.

## Runs

| Run | Instance | Shows |
|---|---|---|
| `blob_store` | 2 requests, 1 sweeper, 2 keys, 1 version row, 2 contents, restarts | `TypeOK`, `RefcountExact`, `UnlinkSparesReferenced`, `OnlyRacesLoseBytes` |
| `store_live` | 2 requests with a row each, 1 sweeper, 2 contents, 1 process | `RequestsEnd`, `GarbageReclaimed` |
| `key_history` | 4 transactions, 2 requests, 2 contents, all operations | `TypeOK`, `RefcountMatches`, `OneHome`, `OnlyRestoreRewrites`, `HistoryKept` |
| `version_list` | 5 transactions, one request at a time | `ImplementsVersionList` |
| `multipart` | 2 uploads, 2 part numbers, 2 clients, 1 reaper | `RefcountExact`, `NoOrphanParts`, `AbandonedGo` |
| `buckets` | 2 keys, 2 ids of the name, 2 clients, the loop, any read or deletion may fail | `TypeOK`, `RowsAreOfTheBucket`, `FolderEmptied`, `OnlyBlindSavesUnversion`, `OnlyBlindSavesLoseRules`, `PassExpires` |
| `accounts` | 2 users, 2 sessions, 2 clients, 2 changes of a password | `TypeOK`, `OnlyOverlapsLeaveNoAdmin`, `OldSessionsEnd`, `LiveSessionsHaveUsers`, `BoundedGuesses` |
| `alerts` | 1 rule, 2 engines, 2 alerts, 1 fault | `MailedOnce`, `AcknowledgedIsQuiet`, `Mailed`, `Cleared` |
| `logs` | 2 processes, 2 requests, a buffer of 1, answers of 1 entry, 1 fault | `HolesAreCounted`, `OnlyRacesHideEntries`, `EntriesArrive` |
| `listing` | 4 keys, 2 of them a group, 2 versions, pages of 2, 2 writes | `TypeOK`, `InOrder`, `NothingSkipped`, `Ends` |
| `requests` | 1 request, 2 buckets, 2 keys, bodies of 2 chunks, 4 scopes, 1 change in the console | `OneGrantDecides`, `AnonymousReadsPublic`, `StoredIsSent` |
| `blob_loss` | 2 requests, 1 sweeper, 1 key, 1 content | violates `ReferencedHasFile` |

Why these bounds are enough to be interesting. Two contents and two keys are what a
deadlock, a swap of contents and a shared blob need; two requests and a sweeper are the
parties of every race the code comments on. Four transactions on a key are enough to
enable, write, suspend, write, and come back; a version can be current, superseded,
deleted and promoted again. Two uploads let a blob be shared between them and give the
reaper a list to go through. Two ids let a name be deleted and created again under a request
that has the first. Two keys with pages of one make the deletion of a folder page, and it and
the expiry have a key to go on to when one fails. Two accounts, one of
them the first administrator's, can demote and remove each other; two sessions tell one's own
from others. With a buffer of one the second entry is dropped; with two processes the greater id can be
committed first, and with answers of one entry two at once are a burst. Pages of two end
before, in and behind a group of two keys; batches of three are shorter than the listing.
One request meets the console, which is where its several looks at the database
can disagree; other requests change what the console's uploads and deletions change.

Named bounds: `MaxTime` (transactions in `KeyHistory`), `SweepLimit` and `BatchLimit` (the code's
`batchLimit`), `PageSize`, `MaxPassword`, `MaxAlerts`, `MaxFaults`, `MaxBuffer` (the code's
constant), `TailLimit` (the rows the stream reads at a time), `MaxWrites`, `Length`, `MaxIds`, `MaxChanges`. The `MC` modules add three:
in `MCBlobStoreLive` each request has a row of its own and only one of them deletes; in
`MCMultipart` only one client knows the second upload, which has one part; in `MCAlerts` a disabled
rule has one severity. Deadlock is not checked where a bounded run comes to its end
(`KeyHistory`, `Logs`, `Listing`, `Alerts`, `Requests`, `Accounts`) or where everybody may be
done (`Multipart`, `Buckets`).

### Assumptions
What `CalmSpec` and `ListCalmSpec` leave out, and what `Spec` violates without it:

| Module | Left out | Without it |
|---|---|---|
| `KeyHistory` | a purge by the console between the two steps of a promotion | `RefcountMatches` |
| `Multipart` | two releases of one upload at once, or one while a part is written (`OneRelease`) | `RefcountExact` |
| `Listing` | deleting the version a page ends with before the next page (`Kept`) | `NothingSkipped`, of versions |
| `Listing` | queries of versions that end within the history of a key (`VersionBatch` in the run) | `NothingSkipped`, of versions |

`QuickSpec` of `blob_loss` excludes requests that last longer than the grace period: the
loss does not depend on a slow request, because `blobGrace` is measured from the creation
of the row and not from the moment the blob became unreferenced.

## Findings
`PROJECT.json` quotes the comments concerned; `blob_loss` shows the first of them, the others
are described there with the specification that violates the property, where one does.
- Blobs: `Put` decides to reuse a file before it holds the lock that would keep the
  sweeper away. A file without a row is never reclaimed. The start of a process empties the
  `tmp/` of the others.
- Versions: a put in a suspended bucket keeps a null delete marker, and later writes run
  into the unique constraint. `now()` is the start of the transaction, so that a marker can
  sort below the version it hides. A restore rewrites the current version under its old id. The
  console's purges race a promotion. A failed read of the settings counts as an
  unversioned bucket.
- Multipart: nothing keeps two transactions from releasing the same parts. The count of a blob in use
  then reaches zero; the foreign keys keep its bytes, and the sweeper lists it and fails in every pass.
- Buckets: the cascade of a deletion can take objects, and takes all history, without
  releasing their blobs. Overlapping saves of settings lose one another. An expiry deletes
  what was stored since it listed.
- Accounts: two administrators can remove one another. A sign-in in progress survives a reset.
  Two creations of one address reset one another's password.
- Alerts: mail that is not configured is tried again like mail that failed; a cycle under
  way mails what has been acknowledged.
- Logs and metrics: the last flush does not wait for the servers, nor `main` for the flush; the
  stream can pass entries over; a metrics flush that fails in the middle counts twice.
- Listings: histories beyond one batch, and markers whose version has gone, make the pages
  of versions skip.
- Requests: a chunked body that ends at a chunk's end is complete to the reader; conditional
  headers of a PUT have no effect; a share link is signed with the first active key.

## Fairness
`BlobStoreLive`: a request takes its next step if it can again and again (strong fairness,
because what it waits for is a lock, and Postgres serves lock queues in order); Postgres'
deadlock detector fails a member of every cycle of waiting transactions (weak fairness of
`DeadlockVictim`, whose cycle is the transitive closure of who waits for whom); the ticker
of the maintenance loop fires for ever (strong fairness of the sweeper). In the end
restarts and failing sweeps stop: the code retries on the next tick and can promise no
more than that. No fairness is assumed of new requests, of failures or of ageing.

`Multipart`: the reaper's loop goes on, an open transaction commits or rolls back, the
reaper's statements succeed in the end, and clients of an abandoned upload leave it alone
in the end. `ReapAbandonedUploads` stops at the first upload it cannot abort and begins
with the oldest again, so that without the third of these one bad upload keeps the rest.

`Alerts`: the ticker of some engine fires (weak fairness of `Begin`, whichever it is), and a
cycle that has begun goes on (weak fairness of each `Work`). Faults, operators and the world are
free; faults end because they are bounded.

`Logs`: the stream polls (weak fairness of `Poll`), and in each process the ticker flushes, and a
flush goes on, until the process exits (weak fairness of `Flushing` or `Exit`: that a signal is followed
by an exit is the grace period). Nothing is assumed of faults, which end because they are bounded.

`Listing`: the client goes on asking (weak fairness of `Reader`); the others write or do not.

## Proofs
The theorems are in the `Proofs` module of each component, those of `Logs` and `Listing`
together in `ReaderProofs`. They hold for all constants that
satisfy the named assumptions of the module they are about (and are finite where these say so):
there is no bound on requests, keys, contents, processes or sizes, but for the ones the model has
to cap (`MaxTime`, `MaxChanges` and the like), which can be any number. TLC evaluates the
assumptions in the runs, and has checked each inductive invariant on the instances of the runs.
A theorem of `CalmSpec` needs what *Assumptions* says `CalmSpec` leaves out; one of `RaceSpec` needs
nothing of the kind, and names its exceptions in the property.

| Theorem | States |
|---|---|
| `BlobStore`: `TypeCorrect`, `RefcountIsExact`, `UnlinkSafe` | `TypeOK`, `RefcountExact`, `UnlinkSparesReferenced` of `Spec` |
| `BlobStore`: `OnlyOneRaceLosesBytes` | `OnlyRacesLoseBytes` of `RaceSpec` |
| `BlobStore`: `RowsHaveFiles` | `ReferencedHasFile` of `RaceSpec`, while nothing has `raced` |
| `KeyHistory`: `TypeCorrect`, `CurrentHasOneHome`, `IdsKeepTheirMeaning`, `VersionsAreKept` | `TypeOK`, `OneHome`, `OnlyRestoreRewrites`, `HistoryKept` of `Spec` |
| `KeyHistory`: `CountsMatchVersions` | `RefcountMatches` of `CalmSpec` |
| `KeyHistory`: `TablesAreTheList` | `ImplementsVersionList` of `OrderedSpec`, where `Plain` |
| `Multipart`: `TypeCorrect`, `PartsHaveUploads` | `TypeOK`, `NoOrphanParts` of `Spec` |
| `Multipart`: `RefcountsAreExact` | `RefcountExact` of `CalmSpec` |
| `Buckets`: `TypeCorrect`, `RowsBelong`, `FoldersAreEmptied`, `PassesExpire` | `TypeOK`, `RowsAreOfTheBucket`, `FolderEmptied`, `PassExpires` of `Spec` |
| `Buckets`: `StaysVersioned`, `VersioningKeepsRules` | `OnlyBlindSavesUnversion`, `OnlyBlindSavesLoseRules` of `RaceSpec` |
| `Accounts`: `TypeCorrect`, `SessionsHaveUsers`, `PasswordChangeEndsSessions`, `GuessesAreBounded` | `TypeOK`, `LiveSessionsHaveUsers`, `OldSessionsEnd`, `BoundedGuesses` of `Spec` |
| `Accounts`: `AnAdminRemains` | `OnlyOverlapsLeaveNoAdmin` of `RaceSpec` |
| `Alerts`: `AlertsAreMailedOnce`, `AcknowledgedStaysQuiet` | `MailedOnce`, `AcknowledgedIsQuiet` of `Spec` |
| `Logs`: `HolesAreKnown` | `HolesAreCounted` of `Spec` |
| `Logs`: `NothingIsMissed` | `OnlyRacesHideEntries` of `RaceSpec` |
| `Listing`: `ListingTypeCorrect`, `PagesAreInOrder` | `TypeOK`, `InOrder` of `ListSpec` |
| `Listing`: `ObjectsAreAllListed` | `NothingSkipped` of `ListSpec`, for the listing of objects |
| `Listing`: `WholeQueriesSkipNothing` | `NothingSkipped` of `ListCalmSpec`, while `HistoriesWhole` |
| `Listing`: `NothingIsSkipped` | `NothingSkipped` of `ListCalmSpec`, without versions or where all rows fit into one query |
| `Requests`: `OneGrantDecidesAll`, `StoredIsWhatWasSent` | `OneGrantDecides`, `StoredIsSent` of `Spec` |
| `Requests`: `AnonymousIsHeld` | `AnonymousReadsPublic` of `RaceSpec` |

Each module has one invariant `IInv` that every step of `Spec` keeps, with a lemma for each action
or group of actions, and where a theorem is about a calm specification or a history, a `CalmInv` or a
`RaceInv` beside it. What they add
to the properties, and why the properties need it:

- `BlobStore`. Inside a transaction the rows and the count change in several statements. `IInv` adds
  what each transaction has done: `LocalsOf` (the row it replaces is locked by it and still is what
  it read, the fresh row of a preserved version is locked and empty), `HoldsOf` (the `blobs` rows
  it has counted in are locked by it), `PendingOf` (for every row it has locked, the uncommitted
  count is the committed one plus `Inc`: one for the new blob once retained, one for the preserved
  one once kept, minus one for the old one once released), `ClaimOf` (a sweeper about to unlink
  has locked a row whose count is zero) and `NoRowNoCount`. A commit then changes at most two
  slots, and `CountSplit` turns that into the change of the number of rows that point at each
  digest. `UnlinkSafe` follows from `ClaimOf` and `RefcountExact`.
- `BlobStoreRaces`. `RaceSpec` is `Spec` with the history of what has raced, and restricts nothing.
  `LocksHeld` says which advisory locks sweepers and requests hold, so that an unlink and a
  retained blob exclude each other; `NewIsThere` says that what a request is about to point at
  has its file or has raced, from the look at the disk to the commit. With `UnlinkSafe` that
  makes `OnlyRacesLoseBytes` inductive. The finding is thereby complete: the code loses bytes in
  this way (`blob_loss`) and in no other that the model has.
- `KeyHistory`. `OneHome` holds because what a transaction is still to write is new to both tables:
  `StartsDiffer` (no two transactions under way have one start) and `RowsSettled` (rows are of
  transactions that are over). `PromotionOf` says what a promotion knows between its two steps,
  when a purge may have taken the row it is about to move. For the counts, `Undisturbed` adds that
  under `CalmSpec` both rows are still there.
- The refinement of `VersionList` needs `OrderedInv`: the rows are a stack (`Piled`: the current one
  is later than all of history, without one a marker is on top, and before the bucket is versioned
  there is but the null version), the request under way is `Alone` and knows the settings, and a
  promotion goes on with what it has read (`Picked`). Then the list is the rows in the order of
  their times (`OneList`), a put or a versioned delete adds one on top (`OnTop`), a deletion takes
  one out (`WithoutRow`), and a promotion, which writes the top row again with a later time, takes
  out the one it was asked to delete and no other. `Plain` says that the bucket is never suspended,
  nothing is restored and no read of the settings fails: the findings show that the tables are not
  the list otherwise.
- `Multipart`. A part that is written and not committed keeps its upload open (`Located`). For the
  counts, who releases the parts of an upload is alone with it, and has listed all there is
  (`ListedAll`); `OneReplaced` turns a change of one part into the change of the number of parts
  made of each blob.
- `Buckets`. Ids in use anywhere have been handed out (`IdsKnown`) and an insert holds its bucket
  (`UploadsHeld`), so that a bucket created later is new to everybody. `PagesSoFar` and `PassSoFar`
  say how far a deletion and an expiry have come: up to the cursor, everything is in hand.
  `SeenOrMissed` ties the settings a request holds to those that are stored: they agree in each column
  it has not missed, or its bucket has gone. A save of a column it has seen then writes what is there.
- `Accounts`. Between the statements of a handler the tables do not agree; `Covered` says that a
  session of an older password is one that some request under way will end, and `Throttle` counts
  the attempts that have passed the throttle and are not recorded. `CountsHold`: what a
  statement has counted is still so when it writes, unless it was overtaken.
- `Alerts`. A cycle that lost its lock goes on beside the next one. `MailsBounded` and `LateBounded`
  count the cycles that know the alert, those that have mailed it and not marked it, and those
  without the lock, of which there are no more than faults.
- `Logs`. `HolesAreCounted` is inductive with `BatchInHand` (a flush that does not hold a batch has
  none) and `OwnEntries` (what a process has was served, and failed there if it failed). For the
  stream, `RaceInv` says where each entry is (`OnePlace`), that it was served first (`ServedFirst`), that
  ids which are committed or about to be are distinct (`OwnIds`), and that the cursor of the stream is
  the id of a committed entry with nothing shown beyond it (`StreamInv`): what then becomes
  visible behind the cursor does so beside a greater id.
- `Listing`. `OrderInv` says where the listing stands: the rows of a batch lie behind the cursor
  (`Sorted`), no entry of the client or of the page lies beyond the row that is looked for, the
  last row or the cursor (`Passed`), and the client's entries lie before those of the page
  (`Ordered`). What is delivered next is then in order and new, whatever is written. For
  `NothingSkipped`, `Coverage` says that each row that was there all the time is entered, in the
  batch or ahead, where a short batch leaves nothing ahead but behind a group that was jumped
  over; and `MarkerKept` that the next query finds the row a page of versions ended with. Objects need
  no more than that. Versions need `HistoriesWhole` (a query takes all of a key's rows or none, since
  the scan goes on behind the last key it saw) and `ListCalmSpec`: with histories longer than a
  batch, or with the marker's row deleted, TLC finds a version that no page has.
- `Requests`. `Now` and `Granted` tie the grant of a request to the scopes its key had since it
  began, and what it has touched and been refused to `Rights` of that grant; `OnItsWay` says
  what is known at each point. `Unsigned` says that the name an unsigned request follows leads to
  a bucket that is `Known`, public at some time or noted in `taken`; `Faithful` that a body has
  the chunks that were sent, in order, and all of them or a stream that ended early.

Only model-checked: the liveness properties (`RequestsEnd`, `GarbageReclaimed`, `AbandonedGo`,
`Mailed`, `Cleared`, `EntriesArrive`, `Ends`), since the prover handles no fairness with ENABLED.
Every invariant and every action property of a passing run is a theorem.

## Not modelled
- Cryptography, parsing, wording, URL encoding and ranges: functions without state.
- Conditional headers, CORS and the checks of names and rules: each decides on one read.
- The metrics collector: the shape of the sink, with sums in place of rows (a finding says
  where it differs); the tables of requests in flight, which are displayed only.
- Purges of audit, metric and log rows by age; reports and totals, which only read; the audit
  trail, which is only written to.
- Configuration, migrations, listeners, secrets, the commands other than `user`, the web front
  end.
- In `Buckets`, the history rows of a key (`KeyHistory` has them) and uploads by parts
  (`Multipart` has them). In `Accounts`, the throttle by client address. In `Requests`, a second
  access key, and the routes of parts and versions.

## What could follow
The refinement of `VersionList` leaves out restores and suspended buckets, and with reason: a
restore writes over the current version instead of adding one, and a suspended bucket keeps two
versions that S3 has as one (*Findings*). Both would refine a list with those faults built in, which
promises nothing; once the code adds a version on restore, `Plain` can let it in as a `Put`. The
metrics collector and a history of uploads in `Logs` after the signal are the next parts to model.
