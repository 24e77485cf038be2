------------------------------ MODULE Requests ------------------------------
(***************************************************************************)
(* The way of an S3 request: the signature and the grant of its access     *)
(* key, the reads that a public bucket allows without one, the route and   *)
(* what it demands, the bucket, the body, and the handler's reads and      *)
(* writes; while the console changes what the key may do and which buckets *)
(* there are.  s3api/{middleware,verify,presign,sigv4,public,server,       *)
(* authorize,chunked}.go and its handlers, db/{credentials,grants}.go,     *)
(* console/credentials.go.                                                 *)
(*                                                                         *)
(* Each statement is a step; an object is what its bytes are, and all      *)
(* requests carry the one access key or none.                              *)
(***************************************************************************)
EXTENDS Integers, Sequences, FiniteSets

CONSTANTS
    Clients, Buckets, Keys,
    Prefixes,       \* of rules
    Covered,        \* the keys that begin with a prefix
    Whole,          \* the empty prefix
    Scopes,         \* grants an administrator gives: Unrestricted, or a set of rules
    Unrestricted, Revoked, Anonymous, NoObject,
    Length,         \* bound: chunks of a body
    MaxIds,         \* bound: buckets created
    MaxChanges      \* bound: changes of the grant and of what is public, and uploads in the console

\* The rules there are leave some key to the empty prefix.
ASSUME PrefixAssumption ==
    /\ Covered \in [Prefixes -> SUBSET Keys]
    /\ Whole \in Prefixes /\ Covered[Whole] = Keys
    /\ \E k \in Keys : \A p \in Prefixes \ {Whole} : k \notin Covered[p]
ASSUME LengthAssumption == {Length, MaxIds, MaxChanges} \subseteq Nat /\ MaxIds # 0

VARIABLES
    scope,          \* credentials: access_scope of the key, or Revoked
    idOf, public,   \* buckets by name, 0 for none; ids with public_read
    store,          \* objects: what is stored under a bucket's id and a key
    lastId, changes,
    req,            \* progress of a client's request
    held,           \* history: the grants the key had since a request began
    opened,         \* history: the buckets that were public since then
    touched, refused    \* history: what it read or changed, and was refused

tables == <<scope, idOf, public, store, lastId, changes>>
history == <<held, opened, touched, refused>>
vars == <<tables, req, history>>

Permissions == {"read", "write", "delete"}
Rules == [bucket : Buckets, prefix : Prefixes, permissions : SUBSET Permissions]
ASSUME NamesAssumption ==
    /\ \A g \in Scopes : g = Unrestricted \/ g \subseteq Rules
    /\ {Revoked, Anonymous} \cap (Scopes \cup {{}, Unrestricted}) = {}
    /\ "" \notin Buckets /\ NoObject \notin {"sound", "short", "unsound"}

Objects == Buckets \X Keys
ObjectCalls == [op : {"get", "put", "delete"}, bucket : Buckets, key : Keys, from : {<<>>}]
BucketCalls == [op : {"list", "batch", "create", "drop", "head", "configure"}, bucket : Buckets,
                key : {CHOOSE k \in Keys : TRUE}, from : {<<>>}]
ServiceCall == [op |-> "buckets", bucket |-> "", key |-> "", from |-> <<>>]
Copies == [op : {"copy"}, bucket : Buckets, key : Keys, from : Objects]
Calls == ObjectCalls \cup BucketCalls \cup Copies \cup {ServiceCall}

NoCall == [pc |-> "idle"]

Init ==
    /\ scope \in Scopes
    /\ idOf \in [Buckets -> {0, 1}] /\ \A b, c \in Buckets : idOf[b] = 1 /\ idOf[c] = 1 => b = c
    /\ public \in SUBSET {i \in {1} : \E b \in Buckets : idOf[b] = i}
    /\ \E present \in SUBSET Keys :
         store = [i \in 1..MaxIds |-> [k \in Keys |->
                    IF i = 1 /\ k \in present /\ \E b \in Buckets : idOf[b] = 1
                    THEN "sound" ELSE NoObject]]
    /\ lastId = 1 /\ changes = 0
    /\ req = [c \in Clients |-> NoCall]
    /\ held = [c \in Clients |-> {}] /\ opened = [c \in Clients |-> {}]
    /\ touched = [c \in Clients |-> {}] /\ refused = [c \in Clients |-> {}]

-----------------------------------------------------------------------------
(* db/grants.go.                                                           *)

\* The rules of a grant: a key that is not scoped may do all, as with rules for all.
RulesOf(g) ==
    IF g = Unrestricted
    THEN {[bucket |-> b, prefix |-> Whole, permissions |-> Permissions] : b \in Buckets}
    ELSE g

Allows(g, b, k, p) ==
    \E r \in RulesOf(g) : r.bucket = b /\ k \in Covered[r.prefix] /\ p \in r.permissions
AllowsAnywhereIn(g, b, p) == \E r \in RulesOf(g) : r.bucket = b /\ p \in r.permissions
AllowsWholeBucket(g, b, p) ==
    \E r \in RulesOf(g) : r.bucket = b /\ r.prefix = Whole /\ p \in r.permissions
Visible(g, b) == \E r \in RulesOf(g) : r.bucket = b /\ r.permissions # {}

\* ReadablePrefixes, and what listingLimit lets through of a bucket.
Readable(g, b) == {k \in Keys : Allows(g, b, k, "read")}

-----------------------------------------------------------------------------
(* Authenticate.                                                           *)

At(c, pc) == req[c].pc = pc
Goto(c, pc) == req' = [req EXCEPT ![c].pc = pc]
Reject(c) == req' = [req EXCEPT ![c] = NoCall]
Forget(c) ==
    /\ held' = [held EXCEPT ![c] = {}] /\ opened' = [opened EXCEPT ![c] = {}]
    /\ touched' = [touched EXCEPT ![c] = {}] /\ refused' = [refused EXCEPT ![c] = {}]

PublicIds == {idOf[b] : b \in {x \in Buckets : idOf[x] \in public}}

\* A call has its signature in a header or, as a link, in its query, or has none.
Arrive(c, call, pc) ==
    /\ At(c, "idle")
    /\ req' = [req EXCEPT ![c] = [pc |-> pc, call |-> call, grant |-> {}, id |-> 0,
                                  todo |-> {}, body |-> NoObject]]
    /\ held' = [held EXCEPT ![c] = {scope}] /\ opened' = [opened EXCEPT ![c] = PublicIds]
    /\ UNCHANGED <<tables, touched, refused>>

\* Verify: the secret that the signature is checked with and the grant are read at once.
Lookup(c) ==
    req' = IF scope # Revoked THEN [req EXCEPT ![c].pc = "route", ![c].grant = scope]
           ELSE [req EXCEPT ![c].pc = "public"]

Verify(c) ==
    /\ At(c, "verify")
    /\ Lookup(c)
    /\ UNCHANGED <<tables, history>>

\* The grant of a link is that of its key now, whatever it was when the link was made.
VerifyPresigned(c, expired) ==
    /\ At(c, "link")
    /\ IF expired THEN Goto(c, "public") ELSE Lookup(c)
    /\ UNCHANGED <<tables, history>>

\* Mistake: the methods are not looked at.
AnonymousAnyMethod(call) == TRUE
AnonymousMethodAllowed(call) == call.op \in {"get", "head", "list", "buckets"}

\* allowAnonymous.
AllowAnonymous(c) ==
    /\ At(c, "public")
    /\ IF /\ AnonymousMethodAllowed(req[c].call)
          /\ \E b \in Buckets : req[c].call.bucket = b /\ idOf[b] \in public
       THEN req' = [req EXCEPT ![c].pc = "route", ![c].grant = Anonymous]
       ELSE Goto(c, "answer")
    /\ UNCHANGED <<tables, history>>

-----------------------------------------------------------------------------
(* route.                                                                  *)

\* What a call is about: a bucket, a key or all keys, and a permission.
Target(call, k, p) == <<call.bucket, k, p>>
AllOf(call, p) == {Target(call, k, p) : k \in Keys}

\* Mistake: a copy asks for its destination alone.
DemandsDestination(call) == {Target(call, call.key, "write")}
CopyDemands(call) == {Target(call, call.key, "write"), <<call.from[1], call.from[2], "read">>}

\* The objects a route names with what it does to them.
Demands(call) ==
    CASE call.op = "get" -> {Target(call, call.key, "read")}
      [] call.op = "put" -> {Target(call, call.key, "write")}
      [] call.op = "delete" -> {Target(call, call.key, "delete")}
      [] call.op = "copy" -> CopyDemands(call)
      [] OTHER -> {}

\* permit, in the routes for objects and for buckets.
PermitsKey(g, call) ==
    /\ \A t \in Demands(call) : Allows(g, t[1], t[2], t[3])
    /\ call.op \in {"list", "head"} => AllowsAnywhereIn(g, call.bucket, "read")
    /\ call.op = "batch" => AllowsAnywhereIn(g, call.bucket, "delete")
    /\ call.op \in {"create", "configure"} => AllowsWholeBucket(g, call.bucket, "write")
    /\ call.op = "drop" => AllowsWholeBucket(g, call.bucket, "delete")

\* allowAnonymous has looked at a call without a signature.
PermitsCall(g, call) == IF g = Anonymous THEN TRUE ELSE PermitsKey(g, call)

\* What a refused call would have reached.
Reach(call) ==
    CASE call.op \in {"create", "configure"} -> AllOf(call, "write")
      [] call.op \in {"drop", "batch"} -> AllOf(call, "delete")
      [] call.op \in {"list", "head"} -> AllOf(call, "read")
      [] OTHER -> Demands(call)

Route(c) ==
    /\ At(c, "route")
    /\ IF PermitsCall(req[c].grant, req[c].call)
       THEN /\ Goto(c, IF req[c].call.op \in {"create", "buckets"} THEN "handle" ELSE "resolve")
            /\ UNCHANGED refused
       ELSE /\ refused' = [refused EXCEPT ![c] = Reach(req[c].call)]
            /\ Goto(c, "answer")
    /\ UNCHANGED <<tables, held, opened, touched>>

\* requireBucket.
Resolve(c) ==
    /\ At(c, "resolve")
    /\ LET call == req[c].call
           id == idOf[call.bucket]
           next == CASE call.op = "put" -> "body" [] call.op = "copy" -> "source" [] OTHER -> "handle"
       IN  req' = IF id = 0 THEN [req EXCEPT ![c].pc = "answer"]
                  ELSE [req EXCEPT ![c].pc = next, ![c].id = id,
                                   ![c].todo = IF call.op = "batch" THEN Keys ELSE {}]
    /\ UNCHANGED <<tables, history>>

-----------------------------------------------------------------------------
(* The body of an upload: with a digest of the whole, in signed chunks, or *)
(* in chunks without signatures.                                           *)

Sent == [j \in 1..Length |-> j]
Altered == 0

StartBody(c, mode) ==
    /\ At(c, "body") /\ req[c].body = NoObject
    /\ req' = [req EXCEPT ![c].body = [mode |-> mode, bytes |-> <<>>, ended |-> TRUE]]
    /\ UNCHANGED <<tables, history>>

\* Mistake: a chunk's signature does not cover the one before.
VerifyChunkAlone(body, chunk) == body.mode = "signed" => chunk # Altered
\* verifyChunk: the chunk is the one whose signature follows.
VerifyChunk(body, chunk) == body.mode = "signed" => chunk = Len(body.bytes) + 1

\* Any chunk of those that were sent, or one that was altered on the way.
ReadChunk(c, chunk) ==
    /\ At(c, "body") /\ req[c].body # NoObject
    /\ LET body == req[c].body IN
         /\ Len(body.bytes) < Length
         /\ req' = IF VerifyChunk(body, chunk)
                   THEN [req EXCEPT ![c].body.bytes = Append(@, chunk)]
                   ELSE [req EXCEPT ![c].pc = "answer"]
    /\ UNCHANGED <<tables, history>>

\* The end of the body: verifyingReader compares digests, and the last chunk, which is
\* empty, has a signature that follows that of the chunk before.
VerifyEnd(body) == IF body.mode = "digest" THEN body.bytes = Sent ELSE VerifyChunk(body, Length + 1)

\* The last chunk and the end of the body arrive.
EndBody(c) ==
    /\ At(c, "body") /\ req[c].body # NoObject
    /\ Goto(c, IF VerifyEnd(req[c].body) THEN "handle" ELSE "answer")
    /\ UNCHANGED <<tables, history>>

\* The body ends where a chunk does, without the last one: readLine's io.EOF is
\* taken for the end of the stream.  (ended is history.)
EndShort(c) ==
    /\ At(c, "body") /\ req[c].body # NoObject /\ req[c].body.mode # "digest"
    /\ req' = [req EXCEPT ![c].pc = "handle", ![c].body.ended = FALSE]
    /\ UNCHANGED <<tables, history>>

\* The connection is lost.
LoseBody(c) ==
    /\ At(c, "body")
    /\ Goto(c, "answer")
    /\ UNCHANGED <<tables, history>>

-----------------------------------------------------------------------------
(* Handlers.                                                               *)

Exists(id) == \E b \in Buckets : idOf[b] = id
Touch(c, triples) == touched' = [touched EXCEPT ![c] = @ \cup triples]

Get(c) ==
    LET call == req[c].call IN
    /\ call.op = "get"
    /\ Touch(c, IF store[req[c].id][call.key] = NoObject THEN {} ELSE {Target(call, call.key, "read")})
    /\ UNCHANGED <<tables, refused>>

\* PutObject: the row cannot be inserted once the bucket is gone.
Insert(c, k, object) ==
    /\ store' = IF Exists(req[c].id) THEN [store EXCEPT ![req[c].id][k] = object] ELSE store
    /\ Touch(c, IF Exists(req[c].id) THEN {Target(req[c].call, k, "write")} ELSE {})
    /\ UNCHANGED <<scope, idOf, public, lastId, changes, refused>>

\* All that is told of an object's bytes is whether they are those that a digest or
\* signatures vouch for, or the beginning of them in a stream that did not end.
InOrder(bytes) == \A j \in 1..Len(bytes) : bytes[j] = j
Stored(body) ==
    IF body.mode = "unsigned" \/ body.bytes = Sent THEN "sound"
    ELSE IF ~body.ended /\ InOrder(body.bytes) THEN "short"
    ELSE "unsound"

Put(c) == req[c].call.op = "put" /\ Insert(c, req[c].call.key, Stored(req[c].body))
PutCopy(c) == req[c].call.op = "copy" /\ Insert(c, req[c].call.key, req[c].body)

Delete(c) ==
    LET call == req[c].call IN
    /\ call.op = "delete"
    /\ store' = [store EXCEPT ![req[c].id][call.key] = NoObject]
    /\ Touch(c, {Target(call, call.key, "delete")})
    /\ UNCHANGED <<scope, idOf, public, lastId, changes, refused>>

Listed(c) == IF req[c].grant = Anonymous THEN Keys ELSE Readable(req[c].grant, req[c].call.bucket)

List(c) ==
    /\ req[c].call.op = "list"
    /\ Touch(c, {Target(req[c].call, k, "read") :
                    k \in {x \in Listed(c) : store[req[c].id][x] # NoObject}})
    /\ UNCHANGED <<tables, refused>>

HeadBucket(c) == req[c].call.op = "head" /\ UNCHANGED <<tables, touched, refused>>

\* ListBuckets tells the names of the buckets that are visible.
ListBuckets(c) ==
    /\ req[c].call.op = "buckets"
    /\ Touch(c, {<<b, k, "see">> : b \in {x \in Buckets : idOf[x] # 0 /\ Visible(req[c].grant, x)},
                                   k \in Keys})
    /\ UNCHANGED <<tables, refused>>

\* The state of versioning, which nothing here depends on.
Configure(c) ==
    /\ req[c].call.op = "configure"
    /\ Touch(c, IF Exists(req[c].id) THEN AllOf(req[c].call, "write") ELSE {})
    /\ UNCHANGED <<tables, refused>>

\* Console and S3 delete a bucket that has no objects, and its settings.
Dropped(b) ==
    IF \A k \in Keys : store[idOf[b]][k] = NoObject
    THEN idOf' = [idOf EXCEPT ![b] = 0] /\ public' = public \ {idOf[b]}
    ELSE UNCHANGED <<idOf, public>>

Drop(c) ==
    LET call == req[c].call IN
    /\ call.op = "drop"
    /\ IF idOf[call.bucket] # 0 THEN Dropped(call.bucket) ELSE UNCHANGED <<idOf, public>>
    /\ Touch(c, IF idOf'[call.bucket] # idOf[call.bucket] THEN AllOf(call, "delete") ELSE {})
    /\ UNCHANGED <<scope, store, lastId, changes, refused>>

Created(b) ==
    IF idOf[b] = 0
    THEN /\ lastId < MaxIds
         /\ idOf' = [idOf EXCEPT ![b] = lastId + 1] /\ lastId' = lastId + 1
    ELSE UNCHANGED <<idOf, lastId>>

Create(c) ==
    LET call == req[c].call IN
    /\ call.op = "create"
    /\ Created(call.bucket)
    /\ Touch(c, IF idOf' # idOf THEN AllOf(call, "write") ELSE {})
    /\ UNCHANGED <<scope, public, store, changes, refused>>

Handle(c) ==
    /\ At(c, "handle")
    /\ Get(c) \/ Put(c) \/ PutCopy(c) \/ Delete(c) \/ List(c) \/ HeadBucket(c)
       \/ ListBuckets(c) \/ Configure(c) \/ Drop(c) \/ Create(c)
    /\ Goto(c, "answer")
    /\ UNCHANGED <<held, opened>>

\* handleDeleteObjects decides key by key, in the order of the request.
DeleteOne(c, k) ==
    /\ At(c, "handle") /\ req[c].call.op = "batch" /\ k \in req[c].todo
    /\ LET call == req[c].call
           t == Target(call, k, "delete")
       IN  IF Allows(req[c].grant, call.bucket, k, "delete")
           THEN /\ store' = [store EXCEPT ![req[c].id][k] = NoObject]
                /\ Touch(c, {t}) /\ UNCHANGED refused
           ELSE refused' = [refused EXCEPT ![c] = @ \cup {t}] /\ UNCHANGED <<store, touched>>
    /\ req' = [req EXCEPT ![c].todo = @ \ {k}, ![c].pc = IF req[c].todo = {k} THEN "answer" ELSE @]
    /\ UNCHANGED <<scope, idOf, public, lastId, changes, held, opened>>

\* handleCopyObject reads the source by its names, and then stores it.
ReadSource(c) ==
    /\ At(c, "source")
    /\ LET call == req[c].call
           id == idOf[call.from[1]]
           self == id = req[c].id /\ call.from[2] = call.key
           absent == IF id = 0 THEN TRUE ELSE self \/ store[id][call.from[2]] = NoObject
       IN  IF absent THEN Goto(c, "answer") /\ UNCHANGED touched
           ELSE /\ req' = [req EXCEPT ![c].pc = "handle", ![c].body = store[id][call.from[2]]]
                /\ Touch(c, {<<call.from[1], call.from[2], "read">>})
    /\ UNCHANGED <<tables, held, opened, refused>>

Answer(c) ==
    /\ At(c, "answer")
    /\ Reject(c)
    /\ Forget(c)
    /\ UNCHANGED tables

-----------------------------------------------------------------------------
(* The console.                                                            *)

Busy == {c \in Clients : ~At(c, "idle")}
HoldsToo(g) == held' = [c \in Clients |-> IF c \in Busy THEN held[c] \cup {g} ELSE held[c]]
OpensToo(ids) == opened' = [c \in Clients |-> IF c \in Busy THEN opened[c] \cup ids ELSE opened[c]]

\* A key that is revoked has no scope to set and cannot be revoked again.
Revoke ==
    /\ scope # Revoked /\ changes < MaxChanges
    /\ scope' = Revoked /\ changes' = changes + 1
    /\ HoldsToo(Revoked)
    /\ UNCHANGED <<idOf, public, store, lastId, req, opened, touched, refused>>

SetScope(g) ==
    /\ scope # Revoked /\ changes < MaxChanges
    /\ scope' = g /\ changes' = changes + 1
    /\ HoldsToo(g)
    /\ UNCHANGED <<idOf, public, store, lastId, req, opened, touched, refused>>

SetPublic(b, on) ==
    /\ idOf[b] # 0 /\ (idOf[b] \in public) # on
    /\ changes < MaxChanges /\ changes' = changes + 1
    /\ public' = IF on THEN public \cup {idOf[b]} ELSE public \ {idOf[b]}
    /\ OpensToo(IF on THEN {idOf[b]} ELSE {})
    /\ UNCHANGED <<scope, idOf, store, lastId, req, held, touched, refused>>

\* handleCreateBucket and handleDeleteBucket of the console.
ConsoleCreate(b) ==
    /\ idOf[b] = 0 /\ Created(b)
    /\ UNCHANGED <<scope, public, store, changes, req, history>>

ConsoleDrop(b) ==
    /\ idOf[b] # 0 /\ Dropped(b)
    /\ UNCHANGED <<scope, store, lastId, changes, req, history>>

\* handleUploadObject, of an object that is not there yet.
ConsoleUpload(b, k) ==
    /\ idOf[b] # 0 /\ store[idOf[b]][k] = NoObject
    /\ changes < MaxChanges /\ changes' = changes + 1
    /\ store' = [store EXCEPT ![idOf[b]][k] = "sound"]
    /\ UNCHANGED <<scope, idOf, public, lastId, req, history>>

-----------------------------------------------------------------------------
Read(c) ==
    \/ \E mode \in {"digest", "signed", "unsigned"} : StartBody(c, mode)
    \/ \E chunk \in 1..Length \cup {Altered} : ReadChunk(c, chunk)
    \/ EndBody(c) \/ EndShort(c) \/ LoseBody(c)

Next ==
    \/ \E c \in Clients :
        \/ \E call \in Calls, pc \in {"verify", "link", "public"} : Arrive(c, call, pc)
        \/ Verify(c) \/ \E expired \in BOOLEAN : VerifyPresigned(c, expired)
        \/ AllowAnonymous(c) \/ Route(c) \/ Resolve(c)
        \/ Read(c) \/ ReadSource(c) \/ Handle(c) \/ Answer(c)
        \/ \E k \in Keys : DeleteOne(c, k)
    \/ Revoke \/ \E g \in Scopes : SetScope(g)
    \/ \E b \in Buckets, k \in Keys : ConsoleUpload(b, k)
    \/ \E b \in Buckets : ConsoleCreate(b) \/ ConsoleDrop(b) \/ \E on \in BOOLEAN : SetPublic(b, on)
Spec == Init /\ [][Next]_vars

-----------------------------------------------------------------------------
(* Properties.                                                             *)

\* The triples of bucket, key and permission that a grant stands for.  Any permission
\* in a bucket shows its name.
Rights(g) ==
    IF g = Unrestricted THEN Buckets \X Keys \X (Permissions \cup {"see"})
    ELSE IF g = Revoked THEN {}
    ELSE (UNION {{rule.bucket} \X Covered[rule.prefix] \X rule.permissions : rule \in g})
         \cup {<<rule.bucket, k, "see">> : rule \in {x \in g : x.permissions # {}}, k \in Keys}

Signed == {c \in Busy : req[c].grant # Anonymous}

\* A call is refused for want of any of what it reaches, but a listing or a batch for
\* want of all of it.
RefusedRightly(c, g) ==
    \/ refused[c] = {}
    \/ refused[c] \cap Rights(g) = {}
    \/ req[c].call.op \notin {"list", "head", "batch"} /\ ~(refused[c] \subseteq Rights(g))

\* Whatever a request reads and changes, and whatever it is refused, accords with one
\* grant that its key had since it began: both sides of a copy, every key of a batch
\* and of a listing, every bucket whose name it is told, and all keys of a bucket
\* that it creates or deletes.  So a key that is narrowed or revoked is so for the
\* next request (SetCredentialScope).
OneGrantDecides ==
    \A c \in Signed : \E g \in held[c] : touched[c] \subseteq Rights(g) /\ RefusedRightly(c, g)

\* What is stored under a digest is what was sent; and under signatures too, or the
\* beginning of it where the stream ended between two chunks.  No chunk is missing
\* before another, repeated, out of its order or altered.
StoredIsSent == \A i \in 1..MaxIds, k \in Keys : store[i][k] # "unsound"
=============================================================================
