--------------------------- MODULE RequestsProofs ---------------------------
(***************************************************************************)
(* Proofs about Requests: one grant decides all that a request does, what  *)
(* is stored is what was sent, and what is read without a signature.       *)
(***************************************************************************)
EXTENDS RequestsRaces, TLAPS

Modes == {"digest", "signed", "unsigned"}
Body == [mode : Modes, bytes : Seq(0..Length), ended : BOOLEAN]
Steps == {"verify", "link", "public", "route", "resolve", "body", "source", "handle", "answer"}
Request == [pc : Steps,
            call : Calls, grant : Scopes \cup {{}, Anonymous}, id : 0..MaxIds, todo : SUBSET Keys,
            body : {NoObject, "sound", "short", "unsound"} \cup Body]

TypeOK ==
    /\ scope \in Scopes \cup {Revoked}
    /\ lastId \in 1..MaxIds
    /\ idOf \in [Buckets -> 0..lastId] /\ public \subseteq 1..lastId
    /\ store \in [1..MaxIds -> [Keys -> {NoObject, "sound", "short", "unsound"}]]
    /\ req \in [Clients -> {NoCall} \cup Request]
    /\ held \in [Clients -> SUBSET (Scopes \cup {Revoked})]
    /\ opened \in [Clients -> SUBSET Nat]
    /\ DOMAIN touched = Clients /\ DOMAIN refused = Clients

\* What is known of a request at each point of its way.
OnItsWay(c) ==
    /\ req[c].pc \in {"verify", "link", "public", "route", "resolve"} => req[c].body = NoObject
    /\ At(c, "resolve") => req[c].call.op # "buckets"
    /\ At(c, "body") => /\ req[c].call.op = "put" /\ req[c].id # 0
                        /\ req[c].body \in {NoObject} \cup Body
    /\ At(c, "source") => req[c].call.op = "copy" /\ req[c].id # 0
    /\ At(c, "handle") =>
          /\ req[c].call.op \notin {"create", "buckets"} => req[c].id # 0
          /\ req[c].call.op = "put" => req[c].body \in Body
          /\ req[c].call.op = "copy" => req[c].body \in {"sound", "short", "unsound"}

\* Before its route a request has reached nothing and, but for the anonymous ones, has
\* no grant; from there to its answer it has one that its key had.
Granted(c) ==
    /\ req[c].pc \in {"idle", "verify", "link", "public", "route"} =>
           touched[c] = {} /\ refused[c] = {}
    /\ req[c].pc \in {"verify", "link", "public"} => req[c].grant = {}
    /\ req[c].pc \in {"route", "resolve", "body", "source", "handle"} /\ req[c].grant # Anonymous =>
           req[c].grant \in held[c] \cap Scopes
    /\ req[c].pc \in {"resolve", "body", "source", "handle"} /\ req[c].grant # Anonymous =>
           /\ PermitsKey(req[c].grant, req[c].call)
           /\ touched[c] \subseteq Rights(req[c].grant)
           /\ refused[c] \cap Rights(req[c].grant) = {}

Now == \A c \in Busy : scope \in held[c] /\ PublicIds \subseteq opened[c]

Decided(c) ==
    c \in Signed => \E g \in held[c] : touched[c] \subseteq Rights(g) /\ RefusedRightly(c, g)

\* The inductive invariant of Spec.
IInv == TypeOK /\ Now /\ \A c \in Clients : OnItsWay(c) /\ Granted(c) /\ Decided(c)

-----------------------------------------------------------------------------
(* Calls and grants.                                                       *)

\* What each call names: all but ListBuckets a bucket, and a copy an object to read.
LEMMA CallFacts ==
    ASSUME NEW call \in Calls
    PROVE  /\ call.op \in {"get", "put", "delete", "list", "batch", "create", "drop", "head",
                           "configure", "copy", "buckets"}
           /\ call.op # "buckets" => call.bucket \in Buckets /\ call.key \in Keys
           /\ call.bucket \in Buckets => call.op # "buckets"
           /\ call.op = "copy" => call.from[1] \in Buckets /\ call.from[2] \in Keys
<1>1. (CHOOSE k \in Keys : TRUE) \in Keys
  BY PrefixAssumption
<1>2. CASE call \in ObjectCalls
  BY <1>2 DEF ObjectCalls
<1>3. CASE call \in BucketCalls
  BY <1>1, <1>3 DEF BucketCalls
<1>4. CASE call \in Copies
  BY <1>4 DEF Copies, Objects
<1>5. CASE call = ServiceCall
  BY <1>5, NamesAssumption DEF ServiceCall
<1> QED
  BY <1>2, <1>3, <1>4, <1>5 DEF Calls

\* The grants an administrator gives are rules for some or for all.
LEMMA GrantFacts ==
    ASSUME NEW g \in Scopes
    PROVE  /\ g # Revoked /\ g # Anonymous /\ RulesOf(g) \subseteq Rules
           /\ g # Unrestricted => RulesOf(g) = g
<1>1. g = Unrestricted \/ g \subseteq Rules
  BY NamesAssumption
<1>2. g # Revoked /\ g # Anonymous
  BY NamesAssumption
<1>3. CASE g = Unrestricted
  BY <1>2, <1>3, PrefixAssumption DEF RulesOf, Rules
<1>4. CASE g # Unrestricted
  BY <1>1, <1>2, <1>4 DEF RulesOf
<1> QED
  BY <1>3, <1>4

Products(g) == {{rule.bucket} \X Covered[rule.prefix] \X rule.permissions : rule \in g}
Names(g) == {<<rule.bucket, k, "see">> : rule \in {x \in g : x.permissions # {}}, k \in Keys}

\* The rights of a scoped grant are those of its rules.
LEMMA ScopedRights ==
    ASSUME NEW g \in Scopes, g # Unrestricted
    PROVE  Rights(g) = (UNION Products(g)) \cup Names(g)
<1>1. g # Revoked
  BY GrantFacts
<1> QED
  BY <1>1 DEF Rights, Products, Names

\* A grant allows what is among its rights.
LEMMA AllowedIsRight ==
    ASSUME NEW g \in Scopes, NEW b \in Buckets, NEW k \in Keys, NEW p \in Permissions
    PROVE  Allows(g, b, k, p) <=> <<b, k, p>> \in Rights(g)
<1>1. p # "see"
  BY DEF Permissions
<1>2. CASE g = Unrestricted
  <2>1. [bucket |-> b, prefix |-> Whole, permissions |-> Permissions] \in RulesOf(g)
    BY <1>2 DEF RulesOf
  <2>2. Allows(g, b, k, p)
    BY <2>1, PrefixAssumption DEF Allows
  <2> QED
    BY <1>2, <2>2 DEF Rights
<1>3. CASE g # Unrestricted
  <2>1. RulesOf(g) = g /\ g # Revoked /\ g \subseteq Rules
    BY <1>3, GrantFacts
  <2>2. <<b, k, p>> \in Rights(g) <=>
          \E rule \in g : <<b, k, p>> \in {rule.bucket} \X Covered[rule.prefix] \X rule.permissions
    <3>1. Rights(g) = (UNION Products(g)) \cup Names(g)
      BY <1>3, ScopedRights
    <3>2. <<b, k, p>> \notin Names(g)
      BY <1>1 DEF Names
    <3>3. <<b, k, p>> \in UNION Products(g) <=> \E S \in Products(g) : <<b, k, p>> \in S
      OBVIOUS
    <3>4. (\E S \in Products(g) : <<b, k, p>> \in S) <=>
            \E rule \in g : <<b, k, p>> \in {rule.bucket} \X Covered[rule.prefix] \X rule.permissions
      BY Zenon DEF Products
    <3> QED
      BY <3>1, <3>2, <3>3, <3>4
  <2>3. Allows(g, b, k, p) <=>
          \E r \in g : r.bucket = b /\ k \in Covered[r.prefix] /\ p \in r.permissions
    BY <2>1 DEF Allows
  <2> QED
    BY <2>2, <2>3
<1> QED
  BY <1>2, <1>3

\* A right on a bucket's whole is one on each of its keys; without it some key is
\* out of reach, and without a right on any part all are.
LEMMA BucketRights ==
    ASSUME NEW g \in Scopes, NEW b \in Buckets, NEW p \in Permissions
    PROVE  /\ AllowsWholeBucket(g, b, p) => \A k \in Keys : <<b, k, p>> \in Rights(g)
           /\ ~AllowsWholeBucket(g, b, p) => \E k \in Keys : <<b, k, p>> \notin Rights(g)
           /\ ~AllowsAnywhereIn(g, b, p) => \A k \in Keys : <<b, k, p>> \notin Rights(g)
<1>1. RulesOf(g) \subseteq Rules
  BY GrantFacts
<1>2. ASSUME AllowsWholeBucket(g, b, p), NEW k \in Keys PROVE <<b, k, p>> \in Rights(g)
  <2>1. Allows(g, b, k, p)
    BY <1>2, PrefixAssumption DEF AllowsWholeBucket, Allows
  <2> QED
    BY <2>1, AllowedIsRight
<1>3. ASSUME ~AllowsWholeBucket(g, b, p) PROVE \E k \in Keys : <<b, k, p>> \notin Rights(g)
  <2>1. PICK k \in Keys : \A prefix \in Prefixes \ {Whole} : k \notin Covered[prefix]
    BY PrefixAssumption
  <2>2. ~Allows(g, b, k, p)
    BY <1>1, <1>3, <2>1 DEF AllowsWholeBucket, Allows, Rules
  <2> QED
    BY <2>2, AllowedIsRight
<1>4. ASSUME ~AllowsAnywhereIn(g, b, p), NEW k \in Keys PROVE <<b, k, p>> \notin Rights(g)
  <2>1. ~Allows(g, b, k, p)
    BY <1>4 DEF AllowsAnywhereIn, Allows
  <2> QED
    BY <2>1, AllowedIsRight
<1> QED
  BY <1>2, <1>3, <1>4

\* A name that is told is of a bucket with a right.
LEMMA VisibleIsRight ==
    ASSUME NEW g \in Scopes, NEW b \in Buckets, NEW k \in Keys, Visible(g, b)
    PROVE  <<b, k, "see">> \in Rights(g)
<1>1. CASE g = Unrestricted
  BY <1>1 DEF Rights
<1>2. CASE g # Unrestricted
  <2>1. RulesOf(g) = g /\ g # Revoked
    BY <1>2, GrantFacts
  <2>2. PICK r \in g : r.bucket = b /\ r.permissions # {}
    BY <2>1 DEF Visible
  <2>3. <<b, k, "see">> \in Names(g)
    BY <2>2 DEF Names
  <2> QED
    BY <1>2, <2>3, ScopedRights
<1> QED
  BY <1>1, <1>2

\* What a permitted call names it has a right to.
LEMMA PermittedIsRight ==
    ASSUME NEW g \in Scopes, NEW call \in Calls, PermitsKey(g, call)
    PROVE  /\ Demands(call) \subseteq Rights(g)
           /\ call.op \in {"create", "configure"} => AllOf(call, "write") \subseteq Rights(g)
           /\ call.op = "drop" => AllOf(call, "delete") \subseteq Rights(g)
<1>1. \A t \in Demands(call) : t \in Rights(g)
  <2>1. SUFFICES ASSUME NEW t \in Demands(call) PROVE t \in Rights(g)
    OBVIOUS
  <2>2. Allows(g, t[1], t[2], t[3])
    BY DEF PermitsKey
  <2>3. t = <<t[1], t[2], t[3]>> /\ t[1] \in Buckets /\ t[2] \in Keys /\ t[3] \in Permissions
    BY CallFacts DEF Demands, CopyDemands, Target, Permissions
  <2> QED
    BY <2>2, <2>3, AllowedIsRight
<1>2. ASSUME call.op \in {"create", "configure"} PROVE AllOf(call, "write") \subseteq Rights(g)
  <2>1. AllowsWholeBucket(g, call.bucket, "write") /\ call.bucket \in Buckets /\ "write" \in Permissions
    BY <1>2, CallFacts DEF PermitsKey, Permissions
  <2> QED
    BY <2>1, BucketRights DEF AllOf, Target
<1>3. ASSUME call.op = "drop" PROVE AllOf(call, "delete") \subseteq Rights(g)
  <2>1. AllowsWholeBucket(g, call.bucket, "delete") /\ call.bucket \in Buckets /\ "delete" \in Permissions
    BY <1>3, CallFacts DEF PermitsKey, Permissions
  <2> QED
    BY <2>1, BucketRights DEF AllOf, Target
<1> QED
  BY <1>1, <1>2, <1>3

\* A call that is not permitted reaches something that it has no right to, and a listing
\* or a batch nothing that it has a right to.
LEMMA RefusedIsNoRight ==
    ASSUME NEW g \in Scopes, NEW call \in Calls, ~PermitsKey(g, call)
    PROVE  \/ Reach(call) \cap Rights(g) = {}
           \/ call.op \notin {"list", "head", "batch"} /\ ~(Reach(call) \subseteq Rights(g))
<1> USE DEF Permissions
<1>1. Keys # {}
  BY PrefixAssumption
<1>2. CASE call.op \in {"list", "head"}
  <2>1. ~AllowsAnywhereIn(g, call.bucket, "read") /\ call.bucket \in Buckets
    BY <1>2, CallFacts DEF PermitsKey, Demands
  <2>2. \A k \in Keys : <<call.bucket, k, "read">> \notin Rights(g)
    BY <2>1, BucketRights
  <2> QED
    BY <1>2, <2>2 DEF Reach, AllOf, Target
<1>3. CASE call.op = "batch"
  <2>1. ~AllowsAnywhereIn(g, call.bucket, "delete") /\ call.bucket \in Buckets
    BY <1>3, CallFacts DEF PermitsKey, Demands
  <2>2. \A k \in Keys : <<call.bucket, k, "delete">> \notin Rights(g)
    BY <2>1, BucketRights
  <2> QED
    BY <1>3, <2>2 DEF Reach, AllOf, Target
<1>4. CASE call.op \in {"create", "configure"}
  <2>1. ~AllowsWholeBucket(g, call.bucket, "write") /\ call.bucket \in Buckets
    BY <1>4, CallFacts DEF PermitsKey, Demands
  <2>2. \E k \in Keys : <<call.bucket, k, "write">> \notin Rights(g)
    BY <2>1, BucketRights
  <2> QED
    BY <1>4, <2>2 DEF Reach, AllOf, Target
<1>5. CASE call.op = "drop"
  <2>1. ~AllowsWholeBucket(g, call.bucket, "delete") /\ call.bucket \in Buckets
    BY <1>5, CallFacts DEF PermitsKey, Demands
  <2>2. \E k \in Keys : <<call.bucket, k, "delete">> \notin Rights(g)
    BY <2>1, BucketRights
  <2> QED
    BY <1>5, <2>2 DEF Reach, AllOf, Target
<1>6. CASE call.op \in {"get", "put", "delete", "copy", "buckets"}
  <2>1. PICK t \in Demands(call) : ~Allows(g, t[1], t[2], t[3])
    BY <1>6 DEF PermitsKey
  <2>2. t = <<t[1], t[2], t[3]>> /\ t[1] \in Buckets /\ t[2] \in Keys /\ t[3] \in Permissions
    BY CallFacts DEF Demands, CopyDemands, Target
  <2>3. t \notin Rights(g)
    BY <2>1, <2>2, AllowedIsRight
  <2> QED
    BY <1>6, <2>3 DEF Reach
<1> QED
  BY <1>2, <1>3, <1>4, <1>5, <1>6, CallFacts

-----------------------------------------------------------------------------
(* Steps of a request.                                                     *)

\* A client that is not idle has a request.
LEMMA Underway ==
    ASSUME TypeOK, NEW c \in Clients, ~At(c, "idle")
    PROVE  req[c] \in Request
BY DEF TypeOK, At, NoCall

\* A request that goes to its next step keeps all else.
LEMMA GoesOn ==
    ASSUME TypeOK, NEW c \in Clients, ~At(c, "idle"), NEW pc \in Steps, Goto(c, pc)
    PROVE  /\ req' \in [Clients -> {NoCall} \cup Request]
           /\ \A d \in Clients \ {c} : req'[d] = req[d]
           /\ req'[c].pc = pc /\ req'[c].call = req[c].call /\ req'[c].grant = req[c].grant
           /\ req'[c].id = req[c].id /\ req'[c].body = req[c].body
<1>1. req[c] \in Request /\ req \in [Clients -> {NoCall} \cup Request]
  BY Underway DEF TypeOK
<1>2. req' = [req EXCEPT ![c] = [req[c] EXCEPT !.pc = pc]]
  BY DEF Goto
<1>3. [req[c] EXCEPT !.pc = pc] \in Request
  BY <1>1 DEF Request
<1>4. req'[c] = [req[c] EXCEPT !.pc = pc]
  BY <1>1, <1>2
<1>5. req'[c].pc = pc /\ req'[c].call = req[c].call /\ req'[c].grant = req[c].grant
      /\ req'[c].id = req[c].id /\ req'[c].body = req[c].body
  BY <1>1, <1>4 DEF Request
<1> QED
  BY <1>1, <1>2, <1>3, <1>5

\* A step of one client: what it is for the others.
ClientStep(c) ==
    /\ \A d \in Clients \ {c} : /\ req'[d] = req[d] /\ held'[d] = held[d] /\ opened'[d] = opened[d]
                                /\ touched'[d] = touched[d] /\ refused'[d] = refused[d]
    /\ scope' = scope /\ PublicIds' \subseteq PublicIds
    /\ c \in Busy' => scope \in held'[c] /\ PublicIds \subseteq opened'[c]

\* What the step of one client does not touch keeps the invariant.
LEMMA OthersKeep ==
    ASSUME IInv, NEW c \in Clients, ClientStep(c), TypeOK',
           OnItsWay(c)', Granted(c)', Decided(c)'
    PROVE  IInv'
<1>1. ASSUME NEW d \in Clients \ {c} PROVE OnItsWay(d)' /\ Granted(d)' /\ Decided(d)'
  <2>1. req'[d] = req[d] /\ held'[d] = held[d] /\ touched'[d] = touched[d] /\ refused'[d] = refused[d]
    BY <1>1 DEF ClientStep
  <2>2. OnItsWay(d) /\ Granted(d) /\ Decided(d)
    BY <1>1 DEF IInv
  <2>3. OnItsWay(d)'
    BY <2>1, <2>2 DEF OnItsWay, At
  <2>4. Granted(d)'
    BY <2>1, <2>2 DEF Granted
  <2>5. Decided(d)'
    BY <2>1, <2>2 DEF Decided, Signed, Busy, At, RefusedRightly
  <2> QED
    BY <2>3, <2>4, <2>5
<1>2. Now'
  BY DEF IInv, Now, ClientStep, Busy, At
<1> QED
  BY <1>1, <1>2 DEF IInv

\* A request that arrives has no grant yet and has reached nothing.
LEMMA ArriveStep ==
    ASSUME IInv, NEW c \in Clients, NEW call \in Calls, NEW pc \in {"verify", "link", "public"},
           Arrive(c, call, pc)
    PROVE  IInv'
<1> DEFINE r == [pc |-> pc, call |-> call, grant |-> {}, id |-> 0, todo |-> {}, body |-> NoObject]
<1>1. req \in [Clients -> {NoCall} \cup Request] /\ At(c, "idle")
  BY DEF IInv, TypeOK, Arrive
<1>2. r \in Request
  BY LengthAssumption DEF Request, Steps
<1>3. req' = [req EXCEPT ![c] = r]
  BY DEF Arrive
<1>4. req'[c] = r /\ \A d \in Clients \ {c} : req'[d] = req[d]
  BY <1>1, <1>3
<1>5. r.pc = pc /\ r.call = call /\ r.grant = {} /\ r.body = NoObject
  OBVIOUS
<1> HIDE DEF r
<1>6. held' = [held EXCEPT ![c] = {scope}] /\ opened' = [opened EXCEPT ![c] = PublicIds]
      /\ UNCHANGED <<tables, touched, refused>>
  BY DEF Arrive
<1>7. PublicIds \subseteq Nat
  BY DEF PublicIds, IInv, TypeOK
<1>8. TypeOK'
  BY <1>1, <1>2, <1>3, <1>6, <1>7 DEF IInv, TypeOK, tables
<1>9. touched'[c] = {} /\ refused'[c] = {} /\ held'[c] = {scope} /\ opened'[c] = PublicIds
  BY <1>1, <1>6 DEF IInv, Granted, At, TypeOK
<1>10. ClientStep(c)
  BY <1>4, <1>6, <1>9 DEF ClientStep, tables, IInv, TypeOK, PublicIds
<1>11. OnItsWay(c)'
  BY <1>4, <1>5 DEF OnItsWay, At
<1>12. Granted(c)'
  BY <1>4, <1>5, <1>9 DEF Granted
<1>13. Decided(c)'
  BY <1>9 DEF Decided, RefusedRightly
<1> QED
  BY <1>8, <1>10, <1>11, <1>12, <1>13, OthersKeep

\* A step of the request alone.
Quiet == UNCHANGED <<tables, history>>

\* A step of the request alone leaves what the key may do, the tables and the rest.
LEMMA QuietStep ==
    ASSUME IInv, NEW c \in Clients, ~At(c, "idle"), Quiet,
           req' \in [Clients -> {NoCall} \cup Request],
           \A d \in Clients \ {c} : req'[d] = req[d],
           OnItsWay(c)', Granted(c)', Decided(c)'
    PROVE  IInv'
<1>1. TypeOK'
  BY DEF IInv, TypeOK, Quiet, tables, history
<1>2. PublicIds' = PublicIds
  BY DEF Quiet, tables, PublicIds
<1>3. scope \in held[c] /\ PublicIds \subseteq opened[c]
  BY DEF IInv, Now, Busy
<1>4. ClientStep(c)
  BY <1>2, <1>3 DEF ClientStep, Quiet, tables, history
<1> QED
  BY <1>1, <1>4, OthersKeep

\* A request that is refused or lost before it has reached anything is answered.
LEMMA TurnedAway ==
    ASSUME IInv, NEW c \in Clients, ~At(c, "idle"), ~At(c, "answer"), Goto(c, "answer"), Quiet
    PROVE  IInv'
<1>1. /\ req' \in [Clients -> {NoCall} \cup Request]
      /\ \A d \in Clients \ {c} : req'[d] = req[d]
      /\ req'[c].pc = "answer" /\ req'[c].call = req[c].call /\ req'[c].grant = req[c].grant
  BY GoesOn DEF IInv, Steps
<1>2. OnItsWay(c)' /\ Granted(c)'
  BY <1>1 DEF OnItsWay, Granted, At
<1>3. Decided(c)
  BY DEF IInv
<1>4. Decided(c)'
  BY <1>1, <1>3 DEF Decided, Signed, Busy, At, RefusedRightly, Quiet, tables, history
<1> QED
  BY <1>1, <1>2, <1>4, QuietStep

\* The signature is good and the key is active: its grant is what it has at this time.
LEMMA LookupStep ==
    ASSUME IInv, NEW c \in Clients, At(c, "verify") \/ At(c, "link"), Lookup(c), Quiet
    PROVE  IInv'
<1> DEFINE r == [req[c] EXCEPT !.pc = "route", !.grant = scope]
<1>1. req[c] \in Request /\ req \in [Clients -> {NoCall} \cup Request] /\ ~At(c, "idle")
  BY Underway DEF IInv, TypeOK, At
<1>2. CASE scope # Revoked
  <2>1. req' = [req EXCEPT ![c] = r] /\ scope \in Scopes
    BY <1>1, <1>2 DEF Lookup, IInv, TypeOK
  <2>2. r \in Request
    BY <1>1, <2>1 DEF Request, Steps
  <2>3. r.pc = "route" /\ r.grant = scope /\ r.body = req[c].body
    BY <1>1 DEF Request
  <2> HIDE DEF r
  <2>4. req'[c] = r /\ req' \in [Clients -> {NoCall} \cup Request]
        /\ \A d \in Clients \ {c} : req'[d] = req[d]
    BY <1>1, <2>1, <2>2
  <2>5. touched[c] = {} /\ refused[c] = {} /\ scope \in held[c] /\ req[c].body = NoObject
    BY <1>1 DEF IInv, OnItsWay, Granted, At, Now, Busy
  <2>6. OnItsWay(c)'
    BY <2>3, <2>4, <2>5 DEF OnItsWay, At
  <2>7. Granted(c)' /\ Decided(c)'
    BY <2>1, <2>3, <2>4, <2>5 DEF Granted, Decided, RefusedRightly, Quiet, tables, history
  <2> QED
    BY <1>1, <2>4, <2>6, <2>7, QuietStep
<1>3. CASE scope = Revoked
  <2>1. Goto(c, "public")
    BY <1>3 DEF Lookup, Goto
  <2>2. /\ req' \in [Clients -> {NoCall} \cup Request]
        /\ \A d \in Clients \ {c} : req'[d] = req[d]
        /\ req'[c].pc = "public" /\ req'[c].grant = req[c].grant /\ req'[c].body = req[c].body
    BY <1>1, <2>1, GoesOn DEF IInv, Steps
  <2>3. touched[c] = {} /\ refused[c] = {} /\ scope \in held[c] /\ req[c].grant = {} /\ req[c].body = NoObject
    BY <1>1 DEF IInv, OnItsWay, Granted, At, Now, Busy
  <2>4. OnItsWay(c)' /\ Granted(c)' /\ Decided(c)'
    BY <2>2, <2>3 DEF OnItsWay, At, Granted, Decided, RefusedRightly, Quiet, tables, history
  <2> QED
    BY <1>1, <2>2, <2>4, QuietStep
<1> QED
  BY <1>2, <1>3

\* A signature is checked, of a header or of a link.
LEMMA VerifyStep ==
    ASSUME IInv, NEW c \in Clients,
           Verify(c) \/ \E expired \in BOOLEAN : VerifyPresigned(c, expired)
    PROVE  IInv'
<1>1. CASE Lookup(c) /\ (At(c, "verify") \/ At(c, "link")) /\ Quiet
  BY <1>1, LookupStep
<1>2. CASE Goto(c, "public") /\ At(c, "link") /\ Quiet
  <2>1. /\ req' \in [Clients -> {NoCall} \cup Request]
        /\ \A d \in Clients \ {c} : req'[d] = req[d]
        /\ req'[c].pc = "public" /\ req'[c].grant = req[c].grant /\ req'[c].body = req[c].body
    BY <1>2, GoesOn DEF IInv, Steps, At
  <2>2. touched[c] = {} /\ refused[c] = {} /\ scope \in held[c] /\ req[c].grant = {} /\ req[c].body = NoObject
    BY <1>2 DEF IInv, OnItsWay, Granted, At, Now, Busy
  <2>3. OnItsWay(c)' /\ Granted(c)' /\ Decided(c)'
    BY <1>2, <2>1, <2>2 DEF OnItsWay, At, Granted, Decided, RefusedRightly, Quiet, tables, history
  <2> QED
    BY <1>2, <2>1, <2>3, QuietStep DEF At
<1> QED
  BY <1>1, <1>2 DEF Verify, VerifyPresigned, Quiet

\* A request without a signature goes on without a grant, or is answered.
LEMMA AllowAnonymousStep ==
    ASSUME IInv, NEW c \in Clients, AllowAnonymous(c)
    PROVE  IInv'
<1> DEFINE r == [req[c] EXCEPT !.pc = "route", !.grant = Anonymous]
<1>1. req[c] \in Request /\ req \in [Clients -> {NoCall} \cup Request] /\ At(c, "public") /\ Quiet
  BY Underway DEF IInv, TypeOK, At, AllowAnonymous, Quiet
<1>2. CASE Goto(c, "answer")
  BY <1>1, <1>2, TurnedAway DEF At
<1>3. CASE req' = [req EXCEPT ![c].pc = "route", ![c].grant = Anonymous]
  <2>1. req' = [req EXCEPT ![c] = r]
    BY <1>1, <1>3
  <2>2. r \in Request
    BY <1>1 DEF Request, Steps
  <2>3. r.pc = "route" /\ r.grant = Anonymous /\ r.body = req[c].body
    BY <1>1 DEF Request
  <2> HIDE DEF r
  <2>4. req'[c] = r /\ req' \in [Clients -> {NoCall} \cup Request]
        /\ \A d \in Clients \ {c} : req'[d] = req[d]
    BY <1>1, <2>1, <2>2
  <2>5. touched[c] = {} /\ refused[c] = {} /\ req[c].body = NoObject
    BY <1>1 DEF IInv, OnItsWay, Granted, At
  <2>6. OnItsWay(c)' /\ Granted(c)' /\ Decided(c)'
    BY <1>1, <2>3, <2>4, <2>5 DEF OnItsWay, At, Granted, Decided, Signed, Quiet, tables, history
  <2> QED
    BY <1>1, <2>4, <2>6, QuietStep DEF At
<1> QED
  BY <1>2, <1>3 DEF AllowAnonymous

\* The route lets a call through that its grant permits, or refuses it.
LEMMA RouteStep ==
    ASSUME IInv, NEW c \in Clients, Route(c)
    PROVE  IInv'
<1>1. req[c] \in Request /\ At(c, "route") /\ ~At(c, "idle")
  BY Underway DEF IInv, At, Route
<1>2. req[c].call \in Calls /\ (req[c].grant # Anonymous => req[c].grant \in held[c] \cap Scopes)
      /\ touched[c] = {} /\ refused[c] = {} /\ scope \in held[c] /\ PublicIds \subseteq opened[c]
      /\ req[c].body = NoObject
  BY <1>1 DEF IInv, OnItsWay, Granted, At, Request, Now, Busy
<1>3. ASSUME PermitsCall(req[c].grant, req[c].call), NEW pc \in {"resolve", "handle"},
             pc = "handle" <=> req[c].call.op \in {"create", "buckets"}, Goto(c, pc), Quiet
      PROVE  IInv'
  <2>1. /\ req' \in [Clients -> {NoCall} \cup Request]
        /\ \A d \in Clients \ {c} : req'[d] = req[d]
        /\ req'[c].pc = pc /\ req'[c].call = req[c].call /\ req'[c].grant = req[c].grant
        /\ req'[c].body = req[c].body
    BY <1>1, <1>3, GoesOn DEF IInv, Steps
  <2>2. OnItsWay(c)'
    BY <1>2, <1>3, <2>1 DEF OnItsWay, At
  <2>3. Granted(c)' /\ Decided(c)'
    BY <1>2, <1>3, <2>1 DEF Granted, Decided, Signed, RefusedRightly, PermitsCall, Quiet, tables, history
  <2> QED
    BY <1>1, <1>3, <2>1, <2>2, <2>3, QuietStep
<1>4. ASSUME ~PermitsCall(req[c].grant, req[c].call), Goto(c, "answer"),
             refused' = [refused EXCEPT ![c] = Reach(req[c].call)],
             UNCHANGED <<tables, held, opened, touched>>
      PROVE  IInv'
  <2>1. /\ req' \in [Clients -> {NoCall} \cup Request]
        /\ \A d \in Clients \ {c} : req'[d] = req[d]
        /\ req'[c].pc = "answer" /\ req'[c].call = req[c].call /\ req'[c].grant = req[c].grant
    BY <1>1, <1>4, GoesOn DEF IInv, Steps
  <2>2. PICK g : g = req[c].grant
    OBVIOUS
  <2>3. g \in held[c] \cap Scopes /\ ~PermitsKey(g, req[c].call)
    BY <1>2, <1>4, <2>2 DEF PermitsCall
  <2>4. refused'[c] = Reach(req[c].call) /\ touched'[c] = {} /\ held'[c] = held[c]
    BY <1>2, <1>4 DEF IInv, TypeOK
  <2>5. \/ Reach(req[c].call) \cap Rights(g) = {}
        \/ req[c].call.op \notin {"list", "head", "batch"} /\ ~(Reach(req[c].call) \subseteq Rights(g))
    BY <1>2, <2>3, RefusedIsNoRight
  <2>6. Decided(c)'
    BY <2>1, <2>3, <2>4, <2>5 DEF Decided, RefusedRightly
  <2>7. OnItsWay(c)' /\ Granted(c)'
    BY <2>1 DEF OnItsWay, Granted, At
  <2>8. TypeOK'
    BY <1>4, <2>1 DEF IInv, TypeOK, tables
  <2>9. PublicIds' = PublicIds
    BY <1>4 DEF tables, PublicIds
  <2>10. ClientStep(c)
    BY <1>2, <1>4, <2>1, <2>9 DEF ClientStep, tables, IInv, TypeOK
  <2> QED
    BY <2>6, <2>7, <2>8, <2>10, OthersKeep
<1>5. CASE PermitsCall(req[c].grant, req[c].call)
  <2>1. Quiet
    BY <1>5 DEF Route, Quiet, history
  <2>2. CASE req[c].call.op \in {"create", "buckets"}
    BY <1>3, <1>5, <2>1, <2>2 DEF Route
  <2>3. CASE req[c].call.op \notin {"create", "buckets"}
    BY <1>3, <1>5, <2>1, <2>3 DEF Route
  <2> QED
    BY <2>2, <2>3
<1>6. CASE ~PermitsCall(req[c].grant, req[c].call)
  BY <1>4, <1>6 DEF Route
<1> QED
  BY <1>5, <1>6

\* Steps between the route and the handler change neither the call nor the grant, nor
\* what was reached.
LEMMA OnwardStep ==
    ASSUME IInv, NEW c \in Clients, req[c].pc \in {"resolve", "body", "source"}, Quiet,
           req' \in [Clients -> {NoCall} \cup Request],
           \A d \in Clients \ {c} : req'[d] = req[d],
           req'[c].pc \in {"body", "source", "handle", "answer"},
           req'[c].call = req[c].call, req'[c].grant = req[c].grant, OnItsWay(c)'
    PROVE  IInv'
<1>1. ~At(c, "idle") /\ Granted(c) /\ Decided(c)
  BY DEF At, IInv
<1>2. UNCHANGED <<held, touched, refused>>
  BY DEF Quiet, history
<1>3. Granted(c)'
  BY <1>1, <1>2 DEF Granted
<1>4. Decided(c)'
  BY <1>1, <1>2 DEF Decided, Signed, Busy, At, RefusedRightly
<1> QED
  BY <1>1, <1>3, <1>4, QuietStep

\* The bucket is there and its id is what the request goes on with, or it is answered.
LEMMA ResolveStep ==
    ASSUME IInv, NEW c \in Clients, Resolve(c)
    PROVE  IInv'
<1>1. req[c] \in Request /\ At(c, "resolve") /\ ~At(c, "idle") /\ Quiet
      /\ req \in [Clients -> {NoCall} \cup Request] /\ req[c].call.op # "buckets"
  BY Underway DEF IInv, TypeOK, At, Resolve, Quiet, OnItsWay
<1>2. PICK id \in 0..MaxIds : id = idOf[req[c].call.bucket]
  <2>1. req[c].call.bucket \in Buckets
    BY <1>1, CallFacts DEF Request
  <2> QED
    BY <2>1, LengthAssumption DEF IInv, TypeOK
<1>3. CASE id = 0
  <2>1. Goto(c, "answer")
    BY <1>2, <1>3 DEF Resolve, Goto
  <2> QED
    BY <1>1, <2>1, TurnedAway DEF At
<1>4. CASE id # 0
  <2>1. PICK next \in {"body", "source", "handle"} :
            next = (CASE req[c].call.op = "put" -> "body" [] req[c].call.op = "copy" -> "source"
                      [] OTHER -> "handle")
    OBVIOUS
  <2>2. PICK todo \in SUBSET Keys : todo = IF req[c].call.op = "batch" THEN Keys ELSE {}
    OBVIOUS
  <2> DEFINE r == [req[c] EXCEPT !.pc = next, !.id = id, !.todo = todo]
  <2>3. req' = [req EXCEPT ![c] = r]
    BY <1>1, <1>2, <1>4, <2>1, <2>2 DEF Resolve
  <2>4. r \in Request
    BY <1>1 DEF Request, Steps
  <2>5. r.pc = next /\ r.id = id /\ r.call = req[c].call /\ r.grant = req[c].grant /\ r.body = req[c].body
    BY <1>1 DEF Request
  <2> HIDE DEF r
  <2>6. req'[c] = r /\ req' \in [Clients -> {NoCall} \cup Request]
        /\ \A d \in Clients \ {c} : req'[d] = req[d]
    BY <1>1, <2>3, <2>4
  <2>7. OnItsWay(c)'
    BY <1>1, <1>4, <2>1, <2>5, <2>6 DEF OnItsWay, At, IInv
  <2> QED
    BY <1>1, <2>5, <2>6, <2>1, <2>7, OnwardStep DEF At
<1> QED
  BY <1>3, <1>4

\* The body of an upload begins.
LEMMA StartBodyStep ==
    ASSUME IInv, NEW c \in Clients, NEW mode \in Modes, StartBody(c, mode)
    PROVE  IInv'
<1> DEFINE b == [mode |-> mode, bytes |-> <<>>, ended |-> TRUE]
           r == [req[c] EXCEPT !.body = b]
<1>1. req[c] \in Request /\ At(c, "body") /\ Quiet /\ req[c].call.op = "put" /\ req[c].id # 0
      /\ req \in [Clients -> {NoCall} \cup Request]
  BY Underway DEF IInv, TypeOK, At, StartBody, Quiet, OnItsWay
<1>2. b \in Body
  BY DEF Body
<1> HIDE DEF b
<1>3. r \in Request
  BY <1>1, <1>2 DEF Request
<1>4. r.pc = "body" /\ r.body = b /\ r.call = req[c].call /\ r.grant = req[c].grant /\ r.id = req[c].id
  BY <1>1 DEF Request, At
<1>5. req' = [req EXCEPT ![c] = r]
  BY <1>1 DEF StartBody, b
<1> HIDE DEF r
<1>6. req'[c] = r /\ req' \in [Clients -> {NoCall} \cup Request]
      /\ \A d \in Clients \ {c} : req'[d] = req[d]
  BY <1>1, <1>3, <1>5
<1>7. OnItsWay(c)'
  BY <1>1, <1>2, <1>4, <1>6 DEF OnItsWay, At
<1> QED
  BY <1>1, <1>4, <1>6, <1>7, OnwardStep DEF At

\* A chunk is read and goes to the body, or the request is answered.
LEMMA ReadChunkStep ==
    ASSUME IInv, NEW c \in Clients, NEW chunk \in 1..Length \cup {Altered}, ReadChunk(c, chunk)
    PROVE  IInv'
<1>1. req[c] \in Request /\ At(c, "body") /\ Quiet /\ req[c].call.op = "put" /\ req[c].id # 0
      /\ req \in [Clients -> {NoCall} \cup Request] /\ req[c].body \in Body
  BY Underway DEF IInv, TypeOK, At, ReadChunk, Quiet, OnItsWay
<1>2. CASE Goto(c, "answer")
  BY <1>1, <1>2, TurnedAway DEF At
<1>3. CASE req' = [req EXCEPT ![c].body.bytes = Append(@, chunk)]
  <2> DEFINE b == [req[c].body EXCEPT !.bytes = Append(req[c].body.bytes, chunk)]
             r == [req[c] EXCEPT !.body = b]
  <2>1. chunk \in 0..Length
    BY LengthAssumption DEF Altered
  <2>2. b \in Body
    <3>1. req[c].body.bytes \in Seq(0..Length)
      BY <1>1 DEF Body
    <3>2. Append(req[c].body.bytes, chunk) \in Seq(0..Length)
      BY <2>1, <3>1
    <3> QED
      BY <1>1, <3>2 DEF Body
  <2>3. req' = [req EXCEPT ![c] = r]
    BY <1>1, <1>3
  <2> HIDE DEF b
  <2>4. r \in Request
    BY <1>1, <2>2 DEF Request
  <2>5. r.pc = "body" /\ r.body = b /\ r.call = req[c].call /\ r.grant = req[c].grant /\ r.id = req[c].id
    BY <1>1 DEF Request, At
  <2> HIDE DEF r
  <2>6. req'[c] = r /\ req' \in [Clients -> {NoCall} \cup Request]
        /\ \A d \in Clients \ {c} : req'[d] = req[d]
    BY <1>1, <2>3, <2>4
  <2>7. OnItsWay(c)'
    BY <1>1, <2>2, <2>5, <2>6 DEF OnItsWay, At
  <2> QED
    BY <1>1, <2>5, <2>6, <2>7, OnwardStep DEF At
<1> QED
  BY <1>2, <1>3 DEF ReadChunk, Goto

\* A body ends as it should, too early or with its connection.
LEMMA BodyEnds ==
    ASSUME IInv, NEW c \in Clients, EndBody(c) \/ EndShort(c) \/ LoseBody(c)
    PROVE  IInv'
<1>1. At(c, "body") /\ ~At(c, "idle") /\ Quiet /\ req[c].call.op = "put" /\ req[c].id # 0
  BY DEF IInv, At, EndBody, EndShort, LoseBody, Quiet, OnItsWay
<1>2. CASE Goto(c, "answer")
  BY <1>1, <1>2, TurnedAway DEF At
<1>3. CASE EndShort(c)
  <2> DEFINE b == [req[c].body EXCEPT !.ended = FALSE]
             r == [req[c] EXCEPT !.pc = "handle", !.body = b]
  <2>1. req[c] \in Request /\ req[c].body \in Body /\ req \in [Clients -> {NoCall} \cup Request]
    BY <1>1, <1>3, Underway DEF IInv, TypeOK, EndShort, OnItsWay
  <2>2. b \in Body
    BY <2>1 DEF Body
  <2>3. req' = [req EXCEPT ![c] = r]
    BY <2>1, <1>3 DEF EndShort
  <2> HIDE DEF b
  <2>4. r \in Request
    BY <2>1, <2>2 DEF Request, Steps
  <2>5. r.pc = "handle" /\ r.body = b /\ r.call = req[c].call /\ r.grant = req[c].grant /\ r.id = req[c].id
    BY <2>1 DEF Request
  <2> HIDE DEF r
  <2>6. req'[c] = r /\ req' \in [Clients -> {NoCall} \cup Request]
        /\ \A d \in Clients \ {c} : req'[d] = req[d]
    BY <2>1, <2>3, <2>4
  <2>7. OnItsWay(c)'
    BY <1>1, <2>2, <2>5, <2>6 DEF OnItsWay, At
  <2> QED
    BY <1>1, <2>5, <2>6, <2>7, OnwardStep DEF At
<1>4. CASE Goto(c, "handle") /\ req[c].body # NoObject
  <2>1. /\ req' \in [Clients -> {NoCall} \cup Request]
        /\ \A d \in Clients \ {c} : req'[d] = req[d]
        /\ req'[c].pc = "handle" /\ req'[c].call = req[c].call /\ req'[c].grant = req[c].grant
        /\ req'[c].id = req[c].id /\ req'[c].body = req[c].body
    BY <1>1, <1>4, GoesOn DEF IInv, Steps
  <2>2. req[c].body \in Body
    BY <1>1, <1>4 DEF IInv, OnItsWay
  <2>3. OnItsWay(c)'
    BY <1>1, <2>1, <2>2 DEF OnItsWay, At
  <2> QED
    BY <1>1, <2>1, <2>3, OnwardStep DEF At
<1> QED
  BY <1>2, <1>3, <1>4 DEF EndBody, LoseBody

\* A copy reads what its call names, which its grant permits.
LEMMA ReadSourceStep ==
    ASSUME IInv, NEW c \in Clients, ReadSource(c)
    PROVE  IInv'
<1>1. req[c] \in Request /\ At(c, "source") /\ ~At(c, "idle") /\ req[c].call.op = "copy" /\ req[c].id # 0
      /\ req \in [Clients -> {NoCall} \cup Request] /\ req[c].call \in Calls
      /\ UNCHANGED <<tables, held, opened, refused>>
  BY Underway DEF IInv, TypeOK, At, ReadSource, OnItsWay, Request
<1>2. CASE Goto(c, "answer") /\ UNCHANGED touched
  BY <1>1, <1>2, TurnedAway DEF At, Quiet, history
<1>3. ASSUME NEW b \in {"sound", "short", "unsound"}, req' = [req EXCEPT ![c].pc = "handle", ![c].body = b],
             Touch(c, {<<req[c].call.from[1], req[c].call.from[2], "read">>})
      PROVE  IInv'
  <2> DEFINE r == [req[c] EXCEPT !.pc = "handle", !.body = b]
  <2>1. req' = [req EXCEPT ![c] = r]
    BY <1>1, <1>3
  <2>2. r \in Request
    BY <1>1 DEF Request, Steps
  <2>3. r.pc = "handle" /\ r.body = b /\ r.call = req[c].call /\ r.grant = req[c].grant /\ r.id = req[c].id
    BY <1>1 DEF Request
  <2> HIDE DEF r
  <2>4. req'[c] = r /\ req' \in [Clients -> {NoCall} \cup Request]
        /\ \A d \in Clients \ {c} : req'[d] = req[d]
    BY <1>1, <2>1, <2>2
  <2>5. OnItsWay(c)'
    BY <1>1, <2>3, <2>4 DEF OnItsWay, At
  <2>6. touched'[c] = touched[c] \cup {<<req[c].call.from[1], req[c].call.from[2], "read">>}
        /\ \A d \in Clients \ {c} : touched'[d] = touched[d]
    BY <1>3 DEF Touch, IInv, TypeOK
  <2>7. <<req[c].call.from[1], req[c].call.from[2], "read">> \in Demands(req[c].call)
    BY <1>1 DEF Demands, CopyDemands
  <2>8. Granted(c)' /\ Decided(c)'
    <3>1. CASE req[c].grant = Anonymous
      BY <2>3, <2>4, <3>1 DEF Granted, Decided, Signed
    <3>2. CASE req[c].grant # Anonymous
      <4>1. PICK g : g = req[c].grant
        OBVIOUS
      <4>2. g \in held[c] \cap Scopes /\ PermitsKey(g, req[c].call)
            /\ touched[c] \subseteq Rights(g) /\ refused[c] \cap Rights(g) = {}
        BY <1>1, <3>2, <4>1 DEF IInv, Granted, At
      <4>3. touched'[c] \subseteq Rights(g)
        BY <1>1, <2>6, <2>7, <4>2, PermittedIsRight
      <4> QED
        BY <1>1, <2>3, <2>4, <4>1, <4>2, <4>3 DEF Granted, Decided, RefusedRightly
    <3> QED
      BY <3>1, <3>2
  <2>9. TypeOK'
    BY <1>1, <1>3, <2>4 DEF IInv, TypeOK, tables, Touch
  <2>10. PublicIds' = PublicIds
    BY <1>1 DEF tables, PublicIds
  <2>11. scope \in held[c] /\ PublicIds \subseteq opened[c]
    BY <1>1 DEF IInv, Now, Busy
  <2>12. ClientStep(c)
    BY <1>1, <2>4, <2>6, <2>10, <2>11 DEF ClientStep, tables
  <2> QED
    BY <2>5, <2>8, <2>9, <2>12, OthersKeep
<1>4. PICK id : id = idOf[req[c].call.from[1]]
  OBVIOUS
<1>5. id \in 0..MaxIds /\ req[c].call.from[2] \in Keys
  BY <1>1, <1>4, CallFacts, LengthAssumption DEF IInv, TypeOK
<1>6. CASE id # 0 /\ store[id][req[c].call.from[2]] # NoObject
  <2>1. store[id][req[c].call.from[2]] \in {"sound", "short", "unsound"}
    BY <1>5, <1>6, LengthAssumption DEF IInv, TypeOK
  <2> QED
    BY <1>2, <1>3, <1>4, <2>1 DEF ReadSource
<1>7. CASE ~(id # 0 /\ store[id][req[c].call.from[2]] # NoObject)
  BY <1>2, <1>4, <1>7 DEF ReadSource
<1> QED
  BY <1>6, <1>7

\* The answer ends the request and what was known of it.
LEMMA AnswerStep ==
    ASSUME IInv, NEW c \in Clients, Answer(c)
    PROVE  IInv'
<1>1. UNCHANGED tables /\ Forget(c) /\ req' = [req EXCEPT ![c] = NoCall]
      /\ req \in [Clients -> {NoCall} \cup Request]
  BY DEF Answer, Reject, IInv, TypeOK
<1>2. req'[c] = NoCall /\ req' \in [Clients -> {NoCall} \cup Request]
      /\ \A d \in Clients \ {c} : req'[d] = req[d]
  BY <1>1
<1>3. TypeOK'
  BY <1>1, <1>2 DEF IInv, TypeOK, tables, Forget
<1>4. req'[c].pc = "idle"
  BY <1>2 DEF NoCall
<1>5. PublicIds' = PublicIds
  BY <1>1 DEF tables, PublicIds
<1>6. ClientStep(c)
  BY <1>1, <1>2, <1>4, <1>5 DEF ClientStep, tables, Forget, IInv, TypeOK, Busy, At
<1>7. touched'[c] = {} /\ refused'[c] = {}
  BY <1>1 DEF Forget, IInv, TypeOK
<1>8. OnItsWay(c)' /\ Granted(c)' /\ Decided(c)'
  BY <1>4, <1>7 DEF OnItsWay, Granted, Decided, Signed, Busy, At
<1> QED
  BY <1>3, <1>6, <1>8, OthersKeep

\* A key of a batch is deleted if the grant allows it, and refused if not.
LEMMA DeleteOneStep ==
    ASSUME IInv, NEW c \in Clients, NEW k \in Keys, DeleteOne(c, k)
    PROVE  IInv'
<1>1. req[c] \in Request /\ At(c, "handle") /\ ~At(c, "idle") /\ req[c].call.op = "batch" /\ req[c].id # 0
      /\ req \in [Clients -> {NoCall} \cup Request] /\ req[c].call \in Calls
      /\ UNCHANGED <<scope, idOf, public, lastId, changes, held, opened>>
  BY Underway DEF IInv, TypeOK, At, DeleteOne, OnItsWay, Request
<1>2. PICK pc \in {"handle", "answer"} : pc = IF req[c].todo = {k} THEN "answer" ELSE req[c].pc
  BY <1>1 DEF At
<1>3. PICK t : t = <<req[c].call.bucket, k, "delete">>
  OBVIOUS
<1> DEFINE r == [req[c] EXCEPT !.todo = req[c].todo \ {k}, !.pc = pc]
<1>4. req' = [req EXCEPT ![c] = r]
  BY <1>1, <1>2 DEF DeleteOne
<1>5. r \in Request
  BY <1>1 DEF Request, Steps
<1>6. r.pc = pc /\ r.body = req[c].body /\ r.call = req[c].call /\ r.grant = req[c].grant /\ r.id = req[c].id
  BY <1>1 DEF Request
<1> HIDE DEF r
<1>7. req'[c] = r /\ req' \in [Clients -> {NoCall} \cup Request]
      /\ \A d \in Clients \ {c} : req'[d] = req[d]
  BY <1>1, <1>4, <1>5
<1>8. OnItsWay(c)'
  BY <1>1, <1>6, <1>7 DEF OnItsWay, At
<1>9. PublicIds' = PublicIds
  BY <1>1 DEF PublicIds
<1>10. scope \in held[c] /\ PublicIds \subseteq opened[c]
  BY <1>1 DEF IInv, Now, Busy
<1>11. CASE Allows(req[c].grant, req[c].call.bucket, k, "delete")
  <2>1. store' = [store EXCEPT ![req[c].id][k] = NoObject] /\ Touch(c, {t}) /\ UNCHANGED refused
    BY <1>3, <1>11 DEF DeleteOne, Target
  <2>2. store' \in [1..MaxIds -> [Keys -> {NoObject, "sound", "short", "unsound"}]]
    BY <2>1 DEF IInv, TypeOK
  <2>3. TypeOK'
    BY <1>1, <1>7, <2>1, <2>2 DEF IInv, TypeOK, Touch
  <2>4. touched'[c] = touched[c] \cup {t} /\ \A d \in Clients \ {c} : touched'[d] = touched[d]
    BY <2>1 DEF Touch, IInv, TypeOK
  <2>5. ClientStep(c)
    BY <1>1, <1>7, <1>9, <1>10, <2>1, <2>4 DEF ClientStep
  <2>6. Granted(c)' /\ Decided(c)'
    <3>1. CASE req[c].grant = Anonymous
      BY <1>2, <1>6, <1>7, <3>1 DEF Granted, Decided, Signed
    <3>2. CASE req[c].grant # Anonymous
      <4>1. PICK g : g = req[c].grant
        OBVIOUS
      <4>2. g \in held[c] \cap Scopes /\ PermitsKey(g, req[c].call)
            /\ touched[c] \subseteq Rights(g) /\ refused[c] \cap Rights(g) = {}
        BY <1>1, <3>2, <4>1 DEF IInv, Granted, At
      <4>3. t \in Rights(g)
        BY <1>1, <1>3, <1>11, <4>1, <4>2, CallFacts, AllowedIsRight DEF Permissions
      <4>4. touched'[c] \subseteq Rights(g)
        BY <2>4, <4>2, <4>3
      <4> QED
        BY <1>1, <1>2, <1>6, <1>7, <2>1, <4>1, <4>2, <4>4 DEF Granted, Decided, RefusedRightly
    <3> QED
      BY <3>1, <3>2
  <2> QED
    BY <1>8, <2>3, <2>5, <2>6, OthersKeep
<1>12. CASE ~Allows(req[c].grant, req[c].call.bucket, k, "delete")
  <2>1. refused' = [refused EXCEPT ![c] = @ \cup {t}] /\ UNCHANGED <<store, touched>>
    BY <1>3, <1>12 DEF DeleteOne, Target
  <2>2. TypeOK'
    BY <1>1, <1>7, <2>1 DEF IInv, TypeOK
  <2>3. refused'[c] = refused[c] \cup {t} /\ \A d \in Clients \ {c} : refused'[d] = refused[d]
    BY <2>1 DEF IInv, TypeOK
  <2>4. ClientStep(c)
    BY <1>1, <1>7, <1>9, <1>10, <2>1, <2>3 DEF ClientStep
  <2>5. Granted(c)' /\ Decided(c)'
    <3>1. CASE req[c].grant = Anonymous
      BY <1>2, <1>6, <1>7, <3>1 DEF Granted, Decided, Signed
    <3>2. CASE req[c].grant # Anonymous
      <4>1. PICK g : g = req[c].grant
        OBVIOUS
      <4>2. g \in held[c] \cap Scopes /\ PermitsKey(g, req[c].call)
            /\ touched[c] \subseteq Rights(g) /\ refused[c] \cap Rights(g) = {}
        BY <1>1, <3>2, <4>1 DEF IInv, Granted, At
      <4>3. t \notin Rights(g)
        BY <1>1, <1>3, <1>12, <4>1, <4>2, CallFacts, AllowedIsRight DEF Permissions
      <4>4. refused'[c] \cap Rights(g) = {}
        BY <2>3, <4>2, <4>3
      <4> QED
        BY <1>1, <1>2, <1>6, <1>7, <2>1, <4>1, <4>2, <4>4 DEF Granted, Decided, RefusedRightly
    <3> QED
      BY <3>1, <3>2
  <2> QED
    BY <1>8, <2>2, <2>4, <2>5, OthersKeep
<1> QED
  BY <1>11, <1>12

-----------------------------------------------------------------------------
(* Buckets that come and go.                                               *)

TablesOK ==
    /\ lastId \in 1..MaxIds
    /\ idOf \in [Buckets -> 0..lastId] /\ public \subseteq 1..lastId
    /\ store \in [1..MaxIds -> [Keys -> {NoObject, "sound", "short", "unsound"}]]

\* A bucket that is dropped is not public any more, and one that is created is not yet.
LEMMA DroppedStep ==
    ASSUME IInv, NEW b \in Buckets, Dropped(b), UNCHANGED <<store, lastId>>
    PROVE  TablesOK' /\ PublicIds' \subseteq PublicIds /\ \A x \in Buckets : idOf'[x] \in {idOf[x], 0}
<1>1. TablesOK
  BY DEF IInv, TypeOK, TablesOK
<1>2. CASE UNCHANGED <<idOf, public>>
  BY <1>1, <1>2 DEF TablesOK, PublicIds
<1>3. CASE idOf' = [idOf EXCEPT ![b] = 0] /\ public' = public \ {idOf[b]}
  <2>1. idOf' \in [Buckets -> 0..lastId] /\ \A x \in Buckets : idOf'[x] = IF x = b THEN 0 ELSE idOf[x]
    BY <1>1, <1>3 DEF TablesOK
  <2>2. public' \subseteq public /\ 0 \notin public
    BY <1>1, <1>3 DEF TablesOK
  <2>3. PublicIds' \subseteq PublicIds
    BY <2>1, <2>2 DEF PublicIds
  <2> QED
    BY <1>1, <2>1, <2>2, <2>3 DEF TablesOK
<1> QED
  BY <1>2, <1>3 DEF Dropped

\* A bucket that is created takes an id that nothing had.
LEMMA CreatedStep ==
    ASSUME IInv, NEW b \in Buckets, Created(b), UNCHANGED <<store, public>>
    PROVE  TablesOK' /\ PublicIds' \subseteq PublicIds /\ \A x \in Buckets \ {b} : idOf'[x] = idOf[x]
<1>1. TablesOK
  BY DEF IInv, TypeOK, TablesOK
<1>2. CASE UNCHANGED <<idOf, lastId>>
  BY <1>1, <1>2 DEF TablesOK, PublicIds
<1>3. CASE lastId < MaxIds /\ idOf' = [idOf EXCEPT ![b] = lastId + 1] /\ lastId' = lastId + 1
  <2>1. \A x \in Buckets : idOf'[x] = IF x = b THEN lastId + 1 ELSE idOf[x]
    BY <1>1, <1>3 DEF TablesOK
  <2>2. lastId' \in 1..MaxIds /\ idOf' \in [Buckets -> 0..lastId'] /\ public' \subseteq 1..lastId'
    BY <1>1, <1>3, LengthAssumption DEF TablesOK
  <2>3. lastId + 1 \notin public
    BY <1>1 DEF TablesOK
  <2>4. PublicIds' \subseteq PublicIds
    BY <2>1, <2>3 DEF PublicIds
  <2> QED
    BY <1>1, <2>1, <2>2, <2>4 DEF TablesOK
<1> QED
  BY <1>2, <1>3 DEF Created

-----------------------------------------------------------------------------
(* Handlers.                                                               *)

Handler(c) ==
    Get(c) \/ Put(c) \/ PutCopy(c) \/ Delete(c) \/ List(c) \/ HeadBucket(c)
    \/ ListBuckets(c) \/ Configure(c) \/ Drop(c) \/ Create(c)

\* What a handler leaves in the tables.
LEMMA HandlerTables ==
    ASSUME IInv, NEW c \in Clients, At(c, "handle"), Handler(c)
    PROVE  TablesOK' /\ PublicIds' \subseteq PublicIds /\ scope' = scope /\ refused' = refused
<1>1. TablesOK /\ req[c] \in Request /\ req[c].call \in Calls
  BY Underway DEF IInv, TypeOK, TablesOK, At, Request
<1>2. CASE UNCHANGED <<tables, refused>>
  BY <1>1, <1>2 DEF tables, TablesOK, PublicIds
<1>3. ASSUME UNCHANGED <<scope, idOf, public, lastId, changes, refused>>,
             NEW o \in {NoObject, "sound", "short", "unsound"}, NEW k \in Keys,
             store' \in {store, [store EXCEPT ![req[c].id][k] = o]}
      PROVE  TablesOK' /\ PublicIds' \subseteq PublicIds /\ scope' = scope /\ refused' = refused
  <2>1. store' \in [1..MaxIds -> [Keys -> {NoObject, "sound", "short", "unsound"}]]
    BY <1>1, <1>3 DEF TablesOK
  <2> QED
    BY <1>1, <1>3, <2>1 DEF TablesOK, PublicIds
<1>4. CASE Put(c)
  <2>1. PICK o \in {"sound", "short", "unsound"} : o = Stored(req[c].body)
    BY DEF Stored
  <2> QED
    BY <1>1, <1>3, <1>4, <2>1, CallFacts DEF Put, Insert
<1>5. CASE PutCopy(c)
  <2>1. req[c].body \in {"sound", "short", "unsound"}
    BY <1>5 DEF IInv, OnItsWay, PutCopy
  <2> QED
    BY <1>1, <1>3, <1>5, <2>1, CallFacts DEF PutCopy, Insert
<1>6. CASE Delete(c)
  BY <1>1, <1>3, <1>6, CallFacts DEF Delete
<1>7. CASE Drop(c)
  <2>1. req[c].call.bucket \in Buckets /\ UNCHANGED <<scope, store, lastId, refused>>
    BY <1>1, <1>7, CallFacts DEF Drop
  <2>2. CASE UNCHANGED <<idOf, public>>
    BY <1>1, <2>1, <2>2 DEF TablesOK, PublicIds
  <2>3. CASE Dropped(req[c].call.bucket)
    <3>1. PICK b \in Buckets : b = req[c].call.bucket
      BY <2>1
    <3> QED
      BY <2>1, <2>3, <3>1, DroppedStep
  <2> QED
    BY <1>7, <2>2, <2>3 DEF Drop
<1>8. CASE Create(c)
  <2>1. PICK b \in Buckets : b = req[c].call.bucket
    BY <1>1, <1>8, CallFacts DEF Create
  <2>2. Created(b) /\ UNCHANGED <<scope, public, store, refused>>
    BY <1>8, <2>1 DEF Create
  <2> QED
    BY <2>2, CreatedStep
<1> QED
  BY <1>2, <1>4, <1>5, <1>6, <1>7, <1>8
     DEF Handler, Get, List, HeadBucket, ListBuckets, Configure

\* What a handler reads and changes is among the rights of its grant.
LEMMA HandlerReach ==
    ASSUME IInv, NEW c \in Clients, At(c, "handle"), Handler(c)
    PROVE  /\ DOMAIN touched' = Clients /\ \A d \in Clients \ {c} : touched'[d] = touched[d]
           /\ \E X : /\ touched'[c] = touched[c] \cup X
                     /\ req[c].grant # Anonymous => X \subseteq Rights(req[c].grant)
<1>1. PICK call \in Calls : call = req[c].call
  BY Underway DEF IInv, At, Request
<1>2. PICK g : g = req[c].grant
  OBVIOUS
<1>3. g # Anonymous => g \in Scopes /\ PermitsKey(g, call)
  BY <1>1, <1>2 DEF IInv, Granted, At
<1>4. ASSUME NEW X, Touch(c, X), g # Anonymous => X \subseteq Rights(g)
      PROVE  /\ DOMAIN touched' = Clients /\ \A d \in Clients \ {c} : touched'[d] = touched[d]
             /\ \E Y : touched'[c] = touched[c] \cup Y /\ (g # Anonymous => Y \subseteq Rights(g))
  BY <1>4 DEF Touch, IInv, TypeOK
<1>5. g # Anonymous => /\ Demands(call) \subseteq Rights(g)
                       /\ call.op \in {"create", "configure"} => AllOf(call, "write") \subseteq Rights(g)
                       /\ call.op = "drop" => AllOf(call, "delete") \subseteq Rights(g)
  BY <1>1, <1>3, PermittedIsRight
<1>6. CASE Get(c)
  <2>1. call.op = "get"
    BY <1>1, <1>6 DEF Get
  <2>2. PICK X \in SUBSET {Target(call, call.key, "read")} : Touch(c, X)
    <3>1. PICK X : X = IF store[req[c].id][call.key] = NoObject THEN {} ELSE {Target(call, call.key, "read")}
      OBVIOUS
    <3> QED
      BY <1>1, <1>6, <3>1 DEF Get
  <2>3. X \subseteq Demands(call)
    BY <2>1, <2>2 DEF Demands
  <2> QED
    BY <1>2, <1>4, <1>5, <2>2, <2>3
<1>7. CASE Put(c) \/ PutCopy(c)
  <2>1. call.op \in {"put", "copy"}
    BY <1>1, <1>7 DEF Put, PutCopy
  <2>2. PICK X \in SUBSET {Target(call, call.key, "write")} : Touch(c, X)
    <3>1. PICK X : X = IF Exists(req[c].id) THEN {Target(call, call.key, "write")} ELSE {}
      OBVIOUS
    <3> QED
      BY <1>1, <1>7, <3>1 DEF Put, PutCopy, Insert
  <2>3. X \subseteq Demands(call)
    BY <2>1, <2>2 DEF Demands, CopyDemands
  <2> QED
    BY <1>2, <1>4, <1>5, <2>2, <2>3
<1>8. CASE Delete(c)
  <2>1. call.op = "delete" /\ Touch(c, Demands(call))
    BY <1>1, <1>8 DEF Delete, Demands
  <2> QED
    BY <1>2, <1>4, <1>5, <2>1
<1>9. CASE List(c)
  <2>1. call.op = "list" /\ call.bucket \in Buckets
    BY <1>1, <1>9, CallFacts DEF List
  <2>2. PICK X : X = {Target(call, k, "read") : k \in {x \in Listed(c) : store[req[c].id][x] # NoObject}}
    OBVIOUS
  <2>3. Touch(c, X)
    BY <1>1, <1>9, <2>2 DEF List
  <2>4. ASSUME g # Anonymous, NEW k \in Listed(c) PROVE Target(call, k, "read") \in Rights(g)
    <3>1. k \in Keys /\ Allows(g, call.bucket, k, "read")
      BY <1>1, <1>2, <2>4 DEF Listed, Readable
    <3> QED
      BY <1>3, <2>1, <2>4, <3>1, AllowedIsRight DEF Permissions, Target
  <2> QED
    BY <1>2, <1>4, <2>2, <2>3, <2>4
<1>10. CASE HeadBucket(c)
  <2>1. UNCHANGED touched
    BY <1>10 DEF HeadBucket
  <2>2. PICK X : X = {}
    OBVIOUS
  <2>3. touched'[c] = touched[c] \cup X /\ X \subseteq Rights(req[c].grant)
    BY <2>1, <2>2
  <2> QED
    BY <2>1, <2>3 DEF IInv, TypeOK
<1>11. CASE ListBuckets(c)
  <2> DEFINE Told == {<<b, k, "see">> : b \in {x \in Buckets : idOf[x] # 0 /\ Visible(req[c].grant, x)},
                                 k \in Keys}
  <2>1. Touch(c, Told)
    BY <1>11 DEF ListBuckets
  <2>2. g # Anonymous => Told \subseteq Rights(g)
    BY <1>2, <1>3, VisibleIsRight
  <2> HIDE DEF Told
  <2>3. PICK X : X = Told
    OBVIOUS
  <2> QED
    BY <1>2, <1>4, <2>1, <2>2, <2>3
<1>12. CASE Configure(c)
  <2>1. call.op = "configure"
    BY <1>1, <1>12 DEF Configure
  <2>2. PICK X \in SUBSET AllOf(call, "write") : Touch(c, X)
    <3>1. PICK X : X = IF Exists(req[c].id) THEN AllOf(call, "write") ELSE {}
      OBVIOUS
    <3> QED
      BY <1>1, <1>12, <3>1 DEF Configure
  <2> QED
    BY <1>2, <1>4, <1>5, <2>1, <2>2
<1>13. CASE Drop(c)
  <2>1. call.op = "drop"
    BY <1>1, <1>13 DEF Drop
  <2>2. PICK X \in SUBSET AllOf(call, "delete") : Touch(c, X)
    <3>1. PICK X : X = IF idOf'[call.bucket] # idOf[call.bucket] THEN AllOf(call, "delete") ELSE {}
      OBVIOUS
    <3> QED
      BY <1>1, <1>13, <3>1 DEF Drop
  <2> QED
    BY <1>2, <1>4, <1>5, <2>1, <2>2
<1>14. CASE Create(c)
  <2>1. call.op = "create"
    BY <1>1, <1>14 DEF Create
  <2>2. PICK X \in SUBSET AllOf(call, "write") : Touch(c, X)
    <3>1. PICK X : X = IF idOf' # idOf THEN AllOf(call, "write") ELSE {}
      OBVIOUS
    <3> QED
      BY <1>1, <1>14, <3>1 DEF Create
  <2> QED
    BY <1>2, <1>4, <1>5, <2>1, <2>2
<1> QED
  BY <1>6, <1>7, <1>8, <1>9, <1>10, <1>11, <1>12, <1>13, <1>14 DEF Handler

\* A handler reaches what the grant gives a right to, and the request is answered.
LEMMA HandleStep ==
    ASSUME IInv, NEW c \in Clients, Handle(c)
    PROVE  IInv'
<1>1. At(c, "handle") /\ ~At(c, "idle") /\ Handler(c) /\ Goto(c, "answer") /\ UNCHANGED <<held, opened>>
  BY DEF Handle, Handler, At
<1>2. TablesOK' /\ PublicIds' \subseteq PublicIds /\ scope' = scope /\ refused' = refused
  BY <1>1, HandlerTables
<1>3. DOMAIN touched' = Clients /\ \A d \in Clients \ {c} : touched'[d] = touched[d]
  BY <1>1, HandlerReach
<1>4. PICK g : g = req[c].grant
  OBVIOUS
<1>5. PICK X : touched'[c] = touched[c] \cup X /\ (g # Anonymous => X \subseteq Rights(g))
  BY <1>1, <1>4, HandlerReach
<1>6. /\ req' \in [Clients -> {NoCall} \cup Request]
      /\ \A d \in Clients \ {c} : req'[d] = req[d]
      /\ req'[c].pc = "answer" /\ req'[c].call = req[c].call /\ req'[c].grant = req[c].grant
  BY <1>1, GoesOn DEF IInv, Steps
<1>7. TypeOK'
  BY <1>1, <1>2, <1>3, <1>6 DEF IInv, TypeOK, TablesOK
<1>8. scope \in held[c] /\ PublicIds \subseteq opened[c]
  BY <1>1 DEF IInv, Now, Busy
<1>9. ClientStep(c)
  BY <1>1, <1>2, <1>3, <1>6, <1>8 DEF ClientStep
<1>10. OnItsWay(c)' /\ Granted(c)'
  BY <1>6 DEF OnItsWay, Granted, At
<1>11. Decided(c)'
  <2>1. g # Anonymous => g \in held[c] /\ touched[c] \subseteq Rights(g) /\ refused[c] \cap Rights(g) = {}
    BY <1>1, <1>4 DEF IInv, Granted, At
  <2> QED
    BY <1>1, <1>2, <1>4, <1>5, <1>6, <2>1 DEF Decided, Signed, RefusedRightly
<1> QED
  BY <1>7, <1>9, <1>10, <1>11, OthersKeep

-----------------------------------------------------------------------------
(* The console, and all together.                                          *)

\* What the console does leaves requests as they are.
LEMMA ConsoleKeeps ==
    ASSUME IInv, TablesOK', scope' \in Scopes \cup {Revoked}, UNCHANGED <<req, touched, refused>>,
           held' \in [Clients -> SUBSET (Scopes \cup {Revoked})], opened' \in [Clients -> SUBSET Nat],
           \A c \in Clients : held[c] \subseteq held'[c],
           \A c \in Busy : scope' \in held'[c] /\ PublicIds' \subseteq opened'[c]
    PROVE  IInv'
<1>1. TypeOK'
  BY DEF IInv, TypeOK, TablesOK
<1>2. Now'
  BY DEF Now, Busy, At
<1>3. ASSUME NEW c \in Clients PROVE OnItsWay(c)' /\ Granted(c)' /\ Decided(c)'
  <2>1. OnItsWay(c) /\ Granted(c) /\ Decided(c) /\ held[c] \subseteq held'[c]
    BY DEF IInv
  <2>2. OnItsWay(c)'
    BY <2>1 DEF OnItsWay, At
  <2>3. Granted(c)'
    BY <2>1 DEF Granted
  <2>4. Decided(c)'
    BY <2>1 DEF Decided, Signed, Busy, At, RefusedRightly
  <2> QED
    BY <2>2, <2>3, <2>4
<1> QED
  BY <1>1, <1>2, <1>3 DEF IInv

Console ==
    \/ Revoke \/ \E g \in Scopes : SetScope(g)
    \/ \E b \in Buckets, k \in Keys : ConsoleUpload(b, k)
    \/ \E b \in Buckets : ConsoleDrop(b) \/ ConsoleCreate(b) \/ \E on \in BOOLEAN : SetPublic(b, on)

\* Whatever the console changes, a request keeps the grant it has.
LEMMA ConsoleStep ==
    ASSUME IInv, Console
    PROVE  IInv'
<1>1. TablesOK /\ scope \in Scopes \cup {Revoked} /\ held \in [Clients -> SUBSET (Scopes \cup {Revoked})]
      /\ opened \in [Clients -> SUBSET Nat]
  BY DEF IInv, TypeOK, TablesOK
<1>2. \A c \in Busy : scope \in held[c] /\ PublicIds \subseteq opened[c]
  BY DEF IInv, Now
<1>3. ASSUME NEW g \in Scopes \cup {Revoked}, scope' = g, HoldsToo(g),
             UNCHANGED <<idOf, public, store, lastId, req, opened, touched, refused>>
      PROVE  IInv'
  <2>1. held' = [c \in Clients |-> IF c \in Busy THEN held[c] \cup {g} ELSE held[c]]
    BY <1>3 DEF HoldsToo
  <2>2. PublicIds' = PublicIds /\ TablesOK'
    BY <1>1, <1>3 DEF PublicIds, TablesOK
  <2>3. held' \in [Clients -> SUBSET (Scopes \cup {Revoked})] /\ \A c \in Clients : held[c] \subseteq held'[c]
    BY <1>1, <2>1
  <2>4. \A c \in Busy : scope' \in held'[c] /\ PublicIds' \subseteq opened'[c]
    BY <1>2, <1>3, <2>1, <2>2 DEF Busy
  <2> QED
    BY <1>1, <1>3, <2>2, <2>3, <2>4, ConsoleKeeps
<1>4. CASE Revoke \/ \E g \in Scopes : SetScope(g)
  BY <1>3, <1>4 DEF Revoke, SetScope
<1>5. ASSUME NEW b \in Buckets, NEW k \in Keys, ConsoleUpload(b, k) PROVE IInv'
  <2>1. UNCHANGED <<scope, idOf, public, lastId, req, history>>
        /\ store' = [store EXCEPT ![idOf[b]][k] = "sound"]
    BY <1>5 DEF ConsoleUpload
  <2>2. TablesOK' /\ PublicIds' = PublicIds
    BY <1>1, <2>1 DEF TablesOK, PublicIds
  <2> QED
    BY <1>1, <1>2, <2>1, <2>2, ConsoleKeeps DEF history
<1>6. ASSUME NEW b \in Buckets, ConsoleDrop(b) \/ ConsoleCreate(b) PROVE IInv'
  <2>1. UNCHANGED <<scope, req, history>>
    BY <1>6 DEF ConsoleDrop, ConsoleCreate
  <2>2. TablesOK' /\ PublicIds' \subseteq PublicIds
    BY <1>6, DroppedStep, CreatedStep DEF ConsoleDrop, ConsoleCreate
  <2> QED
    BY <1>1, <1>2, <2>1, <2>2, ConsoleKeeps DEF history
<1>7. ASSUME NEW b \in Buckets, NEW on \in BOOLEAN, SetPublic(b, on) PROVE IInv'
  <2>1. UNCHANGED <<scope, idOf, store, lastId, req, held, touched, refused>> /\ idOf[b] \in 1..lastId
    BY <1>1, <1>7 DEF SetPublic, TablesOK
  <2>2. PICK ids \in SUBSET {idOf[b]} : public' \subseteq public \cup ids /\ OpensToo(ids)
    <3>1. CASE on
      BY <1>7, <3>1 DEF SetPublic
    <3>2. CASE ~on
      BY <1>7, <3>2 DEF SetPublic
    <3> QED
      BY <3>1, <3>2
  <2>3. TablesOK'
    BY <1>1, <2>1, <2>2 DEF TablesOK
  <2>4. PublicIds' \subseteq PublicIds \cup ids
    BY <2>1, <2>2 DEF PublicIds
  <2>5. ids \subseteq Nat
    BY <1>1, <2>1, <2>2 DEF TablesOK
  <2>6. opened' = [c \in Clients |-> IF c \in Busy THEN opened[c] \cup ids ELSE opened[c]]
    BY <2>2 DEF OpensToo
  <2>7. opened' \in [Clients -> SUBSET Nat]
    BY <1>1, <2>5, <2>6
  <2>8. \A c \in Busy : scope' \in held'[c] /\ PublicIds' \subseteq opened'[c]
    BY <1>2, <2>1, <2>4, <2>6 DEF Busy
  <2> QED
    BY <1>1, <2>1, <2>3, <2>7, <2>8, ConsoleKeeps
<1> QED
  BY <1>4, <1>5, <1>6, <1>7 DEF Console

\* The invariant holds at the start.
LEMMA Initially == Init => IInv
<1> SUFFICES ASSUME Init PROVE IInv
  OBVIOUS
<1>1. TypeOK
  BY LengthAssumption DEF Init, TypeOK
<1>2. \A c \in Clients : At(c, "idle") /\ touched[c] = {} /\ refused[c] = {}
  BY DEF Init, At, NoCall
<1>3. Now /\ \A c \in Clients : OnItsWay(c) /\ Granted(c) /\ Decided(c)
  BY <1>2 DEF Now, Busy, OnItsWay, Granted, Decided, Signed, At
<1> QED
  BY <1>1, <1>3 DEF IInv

\* It holds where nothing changes.
LEMMA Stutters == IInv /\ UNCHANGED vars => IInv'
<1> SUFFICES ASSUME IInv, UNCHANGED vars PROVE IInv'
  OBVIOUS
<1>1. TablesOK' /\ PublicIds' = PublicIds
  BY DEF IInv, TypeOK, TablesOK, PublicIds, vars, tables
<1> QED
  BY <1>1, ConsoleKeeps DEF IInv, TypeOK, Now, vars, tables, history

\* It holds after every step.
LEMMA NextKeeps == IInv /\ Next => IInv'
<1> SUFFICES ASSUME IInv, Next PROVE IInv'
  OBVIOUS
<1>1. CASE Console
  BY <1>1, ConsoleStep
<1>2. ASSUME NEW c \in Clients, NEW call \in Calls, NEW pc \in {"verify", "link", "public"},
             Arrive(c, call, pc)
      PROVE  IInv'
  BY <1>2, ArriveStep
<1>3. ASSUME NEW c \in Clients, Verify(c) \/ \E expired \in BOOLEAN : VerifyPresigned(c, expired)
      PROVE  IInv'
  BY <1>3, VerifyStep
<1>4. ASSUME NEW c \in Clients, AllowAnonymous(c) \/ Route(c) \/ Resolve(c) PROVE IInv'
  BY <1>4, AllowAnonymousStep, RouteStep, ResolveStep
<1>5. ASSUME NEW c \in Clients, Read(c) PROVE IInv'
  BY <1>5, StartBodyStep, ReadChunkStep, BodyEnds DEF Read, Modes
<1>6. ASSUME NEW c \in Clients, ReadSource(c) \/ Handle(c) \/ Answer(c) PROVE IInv'
  BY <1>6, ReadSourceStep, HandleStep, AnswerStep
<1>7. ASSUME NEW c \in Clients, NEW k \in Keys, DeleteOne(c, k) PROVE IInv'
  BY <1>7, DeleteOneStep
<1> QED
  BY <1>1, <1>2, <1>3, <1>4, <1>5, <1>6, <1>7 DEF Next, Console

\* OneGrantDecides, of all that the model does: whatever a request reads, changes or is
\* refused accords with one grant that its key had while it was under way.
THEOREM OneGrantDecidesAll == Spec => []OneGrantDecides
<1>1. IInv => OneGrantDecides
  BY DEF IInv, Decided, OneGrantDecides, Signed, Busy
<1>2. IInv /\ [Next]_vars => IInv'
  BY NextKeeps, Stutters
<1> QED
  BY <1>1, <1>2, Initially, PTL DEF Spec

-----------------------------------------------------------------------------
(* The steps of a request, and what they leave alone.                      *)

\* Each step of a request but for the handler's.
Onward(c) ==
    \/ \E call \in Calls, pc \in {"verify", "link", "public"} : Arrive(c, call, pc)
    \/ Verify(c) \/ \E expired \in BOOLEAN : VerifyPresigned(c, expired)
    \/ AllowAnonymous(c) \/ Route(c) \/ Resolve(c)
    \/ Read(c) \/ ReadSource(c) \/ Answer(c)
    \/ \E k \in Keys : DeleteOne(c, k)

\* A step of one client leaves the others' requests.
LEMMA OnwardIsLocal ==
    ASSUME IInv, NEW c \in Clients, Onward(c)
    PROVE  /\ UNCHANGED <<idOf, public, lastId>>
           /\ \A d \in Clients \ {c} : req'[d] = req[d] /\ touched'[d] = touched[d] /\ opened'[d] = opened[d]
<1> USE DEF IInv, TypeOK
<1>1. CASE \E call \in Calls, pc \in {"verify", "link", "public"} : Arrive(c, call, pc)
  BY <1>1 DEF Arrive, tables
<1>2. CASE Verify(c) \/ \E expired \in BOOLEAN : VerifyPresigned(c, expired)
  BY <1>2 DEF Verify, VerifyPresigned, Lookup, Goto, tables, history
<1>3. CASE AllowAnonymous(c) \/ Route(c) \/ Resolve(c)
  BY <1>3 DEF AllowAnonymous, Route, Resolve, Goto, tables, history
<1>4. CASE Read(c)
  BY <1>4 DEF Read, StartBody, ReadChunk, EndBody, EndShort, LoseBody, Goto, tables, history
<1>5. CASE ReadSource(c) \/ Answer(c)
  BY <1>5 DEF ReadSource, Answer, Reject, Forget, Goto, Touch, tables, history
<1>6. CASE \E k \in Keys : DeleteOne(c, k)
  BY <1>6 DEF DeleteOne, Touch
<1> QED
  BY <1>1, <1>2, <1>3, <1>4, <1>5, <1>6 DEF Onward

-----------------------------------------------------------------------------
(* What is stored.                                                         *)

\* What is vouched for of a body so far is what was sent.  At its end it is all of it,
\* or the beginning where the stream ended between two chunks.
Faithful(c) ==
    /\ At(c, "body") /\ req[c].body # NoObject =>
          /\ Len(req[c].body.bytes) <= Length
          /\ req[c].body.mode = "signed" => InOrder(req[c].body.bytes)
    /\ At(c, "handle") /\ req[c].call.op = "put" /\ req[c].body.mode # "unsigned" =>
          req[c].body.bytes = Sent \/ (~req[c].body.ended /\ InOrder(req[c].body.bytes))
    /\ At(c, "handle") /\ req[c].call.op = "copy" => req[c].body # "unsound"

SoundInv == IInv /\ (\A c \in Clients : Faithful(c)) /\ StoredIsSent

\* A body that is not read from stays what it is.
LEMMA FaithfulKeeps ==
    ASSUME NEW d \in Clients, Faithful(d), req'[d] = req[d]
    PROVE  Faithful(d)'
BY DEF Faithful, At

\* A body is vouched for chunk by chunk and at its end, and a copy copies what is stored.
LEMMA FaithfulOnward ==
    ASSUME SoundInv, NEW c \in Clients, Onward(c)
    PROVE  Faithful(c)'
<1>1. IInv /\ Faithful(c) /\ OnItsWay(c)
  BY DEF SoundInv, IInv
<1>2. ~At(c, "idle") => req[c] \in Request
  BY <1>1, Underway DEF IInv
<1>3. req \in [Clients -> {NoCall} \cup Request]
  BY <1>1 DEF IInv, TypeOK
<1>4. ASSUME NEW pc \in Steps \ {"body", "handle"}, req'[c].pc = pc PROVE Faithful(c)'
  BY <1>4 DEF Faithful, At, Steps
<1>5. CASE \E call \in Calls, pc \in {"verify", "link", "public"} : Arrive(c, call, pc)
  <2>1. req'[c].pc \in {"verify", "link", "public"}
    BY <1>3, <1>5 DEF Arrive
  <2> QED
    BY <1>4, <2>1 DEF Steps
<1>6. CASE Verify(c) \/ \E expired \in BOOLEAN : VerifyPresigned(c, expired)
  <2>1. req[c] \in Request
    BY <1>2, <1>6 DEF Verify, VerifyPresigned, At
  <2>2. req'[c].pc \in {"route", "public"}
    BY <1>3, <1>6, <2>1 DEF Verify, VerifyPresigned, Lookup, Goto, Request
  <2> QED
    BY <1>4, <2>2 DEF Steps
<1>7. CASE AllowAnonymous(c)
  <2>1. req[c] \in Request
    BY <1>2, <1>7 DEF AllowAnonymous, At
  <2>2. req'[c].pc \in {"route", "answer"}
    BY <1>3, <1>7, <2>1 DEF AllowAnonymous, Goto, Request
  <2> QED
    BY <1>4, <2>2 DEF Steps
<1>8. CASE Route(c)
  <2>1. req[c] \in Request
    BY <1>2, <1>8 DEF Route, At
  <2>2. PICK pc \in {"resolve", "handle", "answer"} :
            Goto(c, pc) /\ (pc = "handle" => req[c].call.op \in {"create", "buckets"})
    BY <1>8 DEF Route
  <2>3. req'[c].pc = pc /\ req'[c].call = req[c].call
    BY <1>3, <2>1, <2>2 DEF Goto, Request
  <2> QED
    BY <2>2, <2>3 DEF Faithful, At
<1>9. CASE Resolve(c)
  <2>1. req[c] \in Request /\ req[c].body = NoObject
    BY <1>1, <1>2, <1>9 DEF Resolve, At, OnItsWay
  <2>2. CASE idOf[req[c].call.bucket] = 0
    <3>1. req'[c].pc = "answer"
      BY <1>3, <1>9, <2>1, <2>2 DEF Resolve, Request
    <3> QED
      BY <1>4, <3>1 DEF Steps
  <2>3. CASE idOf[req[c].call.bucket] # 0
    <3>1. req'[c].call = req[c].call /\ req'[c].body = NoObject
      BY <1>3, <1>9, <2>1, <2>3 DEF Resolve, Request
    <3>2. req'[c].pc = CASE req[c].call.op = "put" -> "body" [] req[c].call.op = "copy" -> "source"
                         [] OTHER -> "handle"
      BY <1>3, <1>9, <2>1, <2>3 DEF Resolve, Request
    <3> QED
      BY <3>1, <3>2 DEF Faithful, At
  <2> QED
    BY <2>2, <2>3
<1>10. ASSUME NEW mode \in Modes, StartBody(c, mode) PROVE Faithful(c)'
  <2> DEFINE b == [mode |-> mode, bytes |-> <<>>, ended |-> TRUE]
  <2>1. req[c] \in Request /\ req[c].pc = "body" /\ req' = [req EXCEPT ![c].body = b]
    BY <1>2, <1>10 DEF StartBody, At
  <2>2. b.bytes = <<>> /\ Len(b.bytes) = 0
    OBVIOUS
  <2> HIDE DEF b
  <2>3. req'[c].pc = "body" /\ req'[c].body = b
    BY <1>3, <2>1 DEF Request
  <2> QED
    BY <2>2, <2>3, LengthAssumption DEF Faithful, At, InOrder
<1>11. ASSUME NEW chunk \in 1..Length \cup {Altered}, ReadChunk(c, chunk) PROVE Faithful(c)'
  <2>1. req[c] \in Request /\ At(c, "body") /\ req[c].body # NoObject /\ req[c].body \in Body
        /\ Len(req[c].body.bytes) < Length
    BY <1>1, <1>2, <1>11 DEF ReadChunk, At, OnItsWay
  <2>2. CASE ~VerifyChunk(req[c].body, chunk)
    <3>1. req'[c].pc = "answer"
      BY <1>3, <1>11, <2>1, <2>2 DEF ReadChunk, Request
    <3> QED
      BY <1>4, <3>1 DEF Steps
  <2>3. CASE VerifyChunk(req[c].body, chunk)
    <3>1. req' = [req EXCEPT ![c].body.bytes = Append(@, chunk)]
      BY <1>11, <2>3 DEF ReadChunk
    <3>2. PICK s \in Seq(0..Length) : s = req[c].body.bytes
      BY <2>1 DEF Body
    <3>3. req'[c].pc = "body" /\ req'[c].body = [req[c].body EXCEPT !.bytes = Append(s, chunk)]
      BY <1>3, <2>1, <3>1, <3>2 DEF Request, At
    <3>4. req'[c].body.bytes = Append(s, chunk) /\ req'[c].body.mode = req[c].body.mode
      BY <2>1, <3>3 DEF Body
    <3>5. chunk \in 0..Length /\ Len(s) < Length /\ Len(s) \in Nat
      BY <2>1, <3>2, LengthAssumption DEF Altered
    <3>6. Len(Append(s, chunk)) = Len(s) + 1 /\ Len(s) + 1 <= Length
      BY <3>2, <3>5, LengthAssumption
    <3>7. ASSUME req[c].body.mode = "signed" PROVE InOrder(Append(s, chunk))
      <4>1. chunk = Len(s) + 1 /\ InOrder(s)
        BY <1>1, <2>1, <2>3, <3>2, <3>7 DEF VerifyChunk, Faithful
      <4>2. ASSUME NEW j \in 1..(Len(s) + 1) PROVE Append(s, chunk)[j] = j
        <5>1. CASE j = Len(s) + 1
          BY <3>2, <3>5, <4>1, <5>1
        <5>2. CASE j # Len(s) + 1
          <6>1. j \in 1..Len(s)
            BY <3>5, <5>2
          <6> QED
            BY <3>2, <3>5, <4>1, <6>1 DEF InOrder
        <5> QED
          BY <5>1, <5>2
      <4> QED
        BY <3>6, <4>2 DEF InOrder
    <3> QED
      BY <3>3, <3>4, <3>6, <3>7 DEF Faithful, At
  <2> QED
    BY <2>2, <2>3
<1>12. CASE EndBody(c)
  <2>1. req[c] \in Request /\ At(c, "body") /\ req[c].body # NoObject /\ req[c].body \in Body
    BY <1>1, <1>2, <1>12 DEF EndBody, At, OnItsWay
  <2>2. CASE ~VerifyEnd(req[c].body)
    <3>1. req'[c].pc = "answer"
      BY <1>3, <1>12, <2>1, <2>2 DEF EndBody, Goto, Request
    <3> QED
      BY <1>4, <3>1 DEF Steps
  <2>3. CASE VerifyEnd(req[c].body)
    <3>1. req'[c].pc = "handle" /\ req'[c].body = req[c].body /\ req'[c].call = req[c].call
      BY <1>3, <1>12, <2>1, <2>3 DEF EndBody, Goto, Request
    <3>2. ASSUME req[c].body.mode # "unsigned" PROVE req[c].body.bytes = Sent
      <4>1. CASE req[c].body.mode = "digest"
        BY <2>3, <4>1 DEF VerifyEnd
      <4>2. CASE req[c].body.mode = "signed"
        <5>1. PICK s \in Seq(0..Length) : s = req[c].body.bytes
          BY <2>1 DEF Body
        <5>2. Length + 1 = Len(s) + 1 /\ Len(s) \in Nat /\ InOrder(s)
          BY <1>1, <2>1, <2>3, <4>2, <5>1 DEF VerifyEnd, VerifyChunk, Faithful
        <5>3. Len(s) = Length
          BY <5>2, LengthAssumption
        <5>4. s = [j \in 1..Len(s) |-> s[j]]
          BY <5>1
        <5> QED
          BY <5>1, <5>2, <5>3, <5>4 DEF InOrder, Sent
      <4> QED
        BY <2>1, <3>2, <4>1, <4>2 DEF Body, Modes
    <3> QED
      BY <2>1, <3>1, <3>2, <1>1 DEF Faithful, At, OnItsWay
  <2> QED
    BY <2>2, <2>3
<1>13. CASE LoseBody(c) \/ Answer(c)
  <2>1. req'[c].pc \in {"answer", "idle"}
    BY <1>2, <1>3, <1>13 DEF LoseBody, Answer, Reject, Goto, NoCall, At, Request
  <2> QED
    BY <2>1 DEF Faithful, At
<1>14. CASE ReadSource(c)
  <2>1. req[c] \in Request /\ req[c].call \in Calls /\ req[c].call.op = "copy"
    BY <1>1, <1>2, <1>14 DEF ReadSource, At, OnItsWay, Request
  <2>2. PICK id : id = idOf[req[c].call.from[1]]
    OBVIOUS
  <2>3. id \in 0..MaxIds /\ req[c].call.from[2] \in Keys
    BY <1>1, <2>1, <2>2, CallFacts, LengthAssumption DEF IInv, TypeOK
  <2>4. CASE Goto(c, "answer")
    <3>1. req'[c].pc = "answer"
      BY <1>3, <2>1, <2>4 DEF Goto, Request
    <3> QED
      BY <1>4, <3>1 DEF Steps
  <2>5. CASE ~Goto(c, "answer")
    <3>1. id # 0 /\ store[id][req[c].call.from[2]] # NoObject
          /\ req' = [req EXCEPT ![c].pc = "handle", ![c].body = store[id][req[c].call.from[2]]]
      BY <1>14, <2>2, <2>5 DEF ReadSource
    <3>2. store[id][req[c].call.from[2]] # "unsound"
      BY <1>1, <2>3, <3>1, LengthAssumption DEF IInv, TypeOK, SoundInv, StoredIsSent
    <3>3. req'[c].call = req[c].call /\ req'[c].body = store[id][req[c].call.from[2]]
      BY <1>3, <2>1, <3>1, <3>2 DEF Request
    <3>4. req'[c].pc = "handle"
      BY <1>3, <2>1, <3>1 DEF Request
    <3> QED
      BY <2>1, <3>2, <3>3, <3>4 DEF Faithful, At
  <2> QED
    BY <2>4, <2>5
<1>15. ASSUME NEW k \in Keys, DeleteOne(c, k) PROVE Faithful(c)'
  <2>1. req[c] \in Request /\ req[c].call.op = "batch" /\ req[c].pc = "handle"
    BY <1>2, <1>15 DEF DeleteOne, At
  <2>2. req'[c].call = req[c].call /\ req'[c].pc \in {"handle", "answer"}
    BY <1>3, <1>15, <2>1 DEF DeleteOne, Request
  <2> QED
    BY <2>1, <2>2 DEF Faithful, At
<1>16. CASE EndShort(c)
  <2>1. req[c] \in Request /\ At(c, "body") /\ req[c].body # NoObject /\ req[c].body \in Body
        /\ req[c].body.mode # "digest"
    BY <1>1, <1>2, <1>16 DEF EndShort, At, OnItsWay
  <2>2. req'[c].pc = "handle" /\ req'[c].call = req[c].call
        /\ req'[c].body = [req[c].body EXCEPT !.ended = FALSE]
    BY <1>3, <1>16, <2>1 DEF EndShort, Request
  <2>3. /\ req'[c].body.mode = req[c].body.mode /\ req'[c].body.bytes = req[c].body.bytes
        /\ req'[c].body.ended = FALSE
    BY <2>1, <2>2 DEF Body
  <2>4. req[c].body.mode # "unsigned" => InOrder(req[c].body.bytes)
    BY <1>1, <2>1 DEF Faithful, Body, Modes
  <2>5. req'[c].call.op = "put"
    BY <1>1, <2>1, <2>2 DEF OnItsWay
  <2> QED
    BY <2>2, <2>3, <2>4, <2>5 DEF Faithful, At
<1> QED
  BY <1>5, <1>6, <1>7, <1>8, <1>9, <1>10, <1>11, <1>12, <1>13, <1>14, <1>15, <1>16 DEF Onward, Read, Modes

\* So for all requests, when one goes on.
LEMMA OnwardSound ==
    ASSUME SoundInv, NEW c \in Clients, Onward(c)
    PROVE  (\A d \in Clients : Faithful(d))' /\ StoredIsSent'
<1>1. IInv
  BY DEF SoundInv
<1>2. ASSUME NEW d \in Clients PROVE Faithful(d)'
  <2>1. CASE d = c
    BY <2>1, FaithfulOnward
  <2>2. CASE d # c
    BY <1>1, <2>2, OnwardIsLocal, FaithfulKeeps DEF SoundInv
  <2> QED
    BY <2>1, <2>2
<1>3. StoredIsSent'
  <2>1. CASE store' = store
    BY <2>1 DEF SoundInv, StoredIsSent
  <2>2. ASSUME NEW k \in Keys, DeleteOne(c, k) PROVE StoredIsSent'
    <3>1. store' = store \/ store' = [store EXCEPT ![req[c].id][k] = NoObject]
      BY <2>2 DEF DeleteOne
    <3>2. CASE store' = [store EXCEPT ![req[c].id][k] = NoObject]
      BY <1>1, <3>2, NamesAssumption DEF SoundInv, StoredIsSent, IInv, TypeOK
    <3> QED
      BY <2>1, <3>1, <3>2
  <2>3. store' = store \/ \E k \in Keys : DeleteOne(c, k)
    BY DEF Onward, Arrive, Verify, VerifyPresigned, AllowAnonymous, Route, Resolve, Read, StartBody,
           ReadChunk, EndBody, EndShort, LoseBody, ReadSource, Answer, tables
  <2> QED
    BY <2>1, <2>2, <2>3
<1> QED
  BY <1>2, <1>3

\* A handler stores what is vouched for.
LEMMA HandleSound ==
    ASSUME SoundInv, NEW c \in Clients, Handle(c)
    PROVE  (\A d \in Clients : Faithful(d))' /\ StoredIsSent'
<1>1. IInv /\ At(c, "handle") /\ ~At(c, "idle") /\ Handler(c) /\ Goto(c, "answer")
      /\ Faithful(c) /\ OnItsWay(c)
  BY DEF Handle, Handler, At, SoundInv, IInv
<1>2. /\ \A d \in Clients \ {c} : req'[d] = req[d]
      /\ req'[c].pc = "answer" /\ req[c].call \in Calls
  BY <1>1, GoesOn, Underway DEF IInv, Steps, Request
<1>3. ASSUME NEW d \in Clients PROVE Faithful(d)'
  <2>1. CASE d = c
    BY <1>2, <2>1 DEF Faithful, At
  <2>2. CASE d # c
    BY <1>2, <2>2, FaithfulKeeps DEF SoundInv
  <2> QED
    BY <2>1, <2>2
<1>4. StoredIsSent'
  <2>1. CASE store' = store
    BY <2>1 DEF SoundInv, StoredIsSent
  <2>2. ASSUME NEW o \in {NoObject, "sound", "short"}, NEW k \in Keys,
               store' = [store EXCEPT ![req[c].id][k] = o]
        PROVE  StoredIsSent'
    BY <1>1, <2>2, NamesAssumption DEF SoundInv, StoredIsSent, IInv, TypeOK
  <2>3. CASE Put(c)
    <3>1. Stored(req[c].body) \in {"sound", "short"} /\ req[c].call.key \in Keys
      BY <1>1, <1>2, <2>3, CallFacts DEF Put, Stored, Faithful
    <3> QED
      BY <2>1, <2>2, <2>3, <3>1 DEF Put, Insert
  <2>4. CASE PutCopy(c)
    <3>1. req[c].body \in {"sound", "short"} /\ req[c].call.key \in Keys
      BY <1>1, <1>2, <2>4, CallFacts DEF PutCopy, Faithful, OnItsWay
    <3> QED
      BY <2>1, <2>2, <2>4, <3>1 DEF PutCopy, Insert
  <2>5. CASE Delete(c)
    BY <1>2, <2>2, <2>5, CallFacts DEF Delete
  <2> QED
    BY <1>1, <2>1, <2>3, <2>4, <2>5
       DEF Handler, Get, List, HeadBucket, ListBuckets, Configure, Drop, Create, tables
<1> QED
  BY <1>3, <1>4

\* What is uploaded in the console comes whole.
LEMMA ConsoleSound ==
    ASSUME SoundInv, Console
    PROVE  (\A d \in Clients : Faithful(d))' /\ StoredIsSent'
<1>1. IInv /\ UNCHANGED req
  BY DEF SoundInv, Console, Revoke, SetScope, ConsoleUpload, ConsoleDrop, ConsoleCreate, SetPublic
<1>2. \A d \in Clients : Faithful(d)'
  BY <1>1, FaithfulKeeps DEF SoundInv
<1>3. CASE store' = store
  BY <1>2, <1>3 DEF SoundInv, StoredIsSent
<1>4. ASSUME NEW b \in Buckets, NEW k \in Keys, ConsoleUpload(b, k) PROVE StoredIsSent'
  BY <1>1, <1>4 DEF ConsoleUpload, SoundInv, StoredIsSent, IInv, TypeOK
<1> QED
  BY <1>2, <1>3, <1>4 DEF Console, Revoke, SetScope, ConsoleDrop, ConsoleCreate, SetPublic

LEMMA SoundInitially == Init => SoundInv
<1> SUFFICES ASSUME Init PROVE SoundInv
  OBVIOUS
<1>1. \A c \in Clients : At(c, "idle")
  BY DEF Init, At, NoCall
<1>2. \A c \in Clients : Faithful(c)
  BY <1>1 DEF Faithful, At
<1>3. StoredIsSent
  <2>1. PICK present \in SUBSET Keys :
           store = [i \in 1..MaxIds |-> [k \in Keys |->
                      IF i = 1 /\ k \in present /\ \E b \in Buckets : idOf[b] = 1
                      THEN "sound" ELSE NoObject]]
    BY DEF Init
  <2>2. NoObject # "unsound"
    BY NamesAssumption
  <2>3. ASSUME NEW i \in 1..MaxIds, NEW k \in Keys PROVE store[i][k] \in {"sound", NoObject}
    BY <2>1
  <2> QED
    BY <2>2, <2>3 DEF StoredIsSent
<1> QED
  BY <1>2, <1>3, Initially DEF SoundInv

\* Each step is a request's or the console's.
LEMMA NextIs == Next => (\E c \in Clients : Onward(c) \/ Handle(c)) \/ Console
BY DEF Next, Onward, Console

\* StoredIsSent, of all that the model does: what is stored under a digest is what was
\* sent; and under signatures too, or the beginning of it.
THEOREM StoredIsWhatWasSent == Spec => []StoredIsSent
<1>1. SoundInv => StoredIsSent
  BY DEF SoundInv
<1>2. ASSUME SoundInv, [Next]_vars PROVE SoundInv'
  <2>1. CASE UNCHANGED vars
    <3>1. IInv'
      BY <1>2, <2>1, Stutters DEF SoundInv
    <3>2. (\A d \in Clients : Faithful(d))' /\ StoredIsSent'
      BY <1>2, <2>1, FaithfulKeeps DEF SoundInv, StoredIsSent, vars, tables
    <3> QED
      BY <3>1, <3>2 DEF SoundInv
  <2>2. CASE Next
    <3>1. IInv'
      BY <1>2, <2>2, NextKeeps DEF SoundInv
    <3>2. (\A d \in Clients : Faithful(d))' /\ StoredIsSent'
      BY <1>2, <2>2, NextIs, OnwardSound, HandleSound, ConsoleSound
    <3> QED
      BY <3>1, <3>2 DEF SoundInv
  <2> QED
    BY <1>2, <2>1, <2>2
<1> QED
  BY <1>1, <1>2, SoundInitially, PTL DEF Spec

-----------------------------------------------------------------------------
(* What is read without a signature.                                       *)

\* The buckets that a request without a signature may read.
Known(c) == opened[c] \cup taken[c]

\* The name that such a request has on its way is of one of those, or of none.
Unsigned(c) ==
    c \in Busy /\ req[c].grant = Anonymous =>
        /\ req[c].call.op \in {"get", "head", "list"}
        /\ req[c].pc \in {"route", "resolve"} => idOf[req[c].call.bucket] \in Known(c) \cup {0}
        /\ At(c, "handle") => req[c].id \in Known(c)
        /\ ~At(c, "answer") => touched[c] = {}
        /\ \A t \in touched[c] : t[3] = "read"
        /\ touched[c] # {} => req[c].id \in Known(c)

RaceInv == IInv /\ \A c \in Clients : Unsigned(c)

\* What takes a name is noted for the requests that are on their way to it.
LEMMA TakenNotes ==
    ASSUME NEW d \in Clients, RaceNext \/ UNCHANGED raceVars, ~At(d, "idle"), ~At(d, "idle")'
    PROVE  /\ taken[d] \subseteq taken'[d]
           /\ \A x \in Buckets : Awaits(d, x) => idOf'[x] \in {idOf[x], 0} \cup taken'[d]
BY DEF RaceNext, raceVars, vars, tables

\* The requests that a step leaves alone.
LEMMA UnsignedKeeps ==
    ASSUME IInv, NEW d \in Clients, Unsigned(d), RaceNext \/ UNCHANGED raceVars,
           req'[d] = req[d], touched'[d] = touched[d], opened[d] \subseteq opened'[d]
    PROVE  Unsigned(d)'
<1>1. SUFFICES ASSUME ~At(d, "idle"), req[d].grant = Anonymous PROVE Unsigned(d)'
  BY DEF Unsigned, Busy, At
<1>2. Known(d) \subseteq Known(d)'
  BY <1>1, TakenNotes DEF At, Known
<1>3. ASSUME req[d].pc \in {"route", "resolve"}
      PROVE  idOf'[req[d].call.bucket] \in Known(d)' \cup {0}
  <2>1. req[d].call \in Calls /\ req[d].call.op \in {"get", "head", "list"}
        /\ idOf[req[d].call.bucket] \in Known(d) \cup {0}
    BY <1>1, <1>3, Underway DEF IInv, Request, Unsigned, Busy
  <2>2. PICK x \in Buckets : x = req[d].call.bucket
    BY <2>1, CallFacts
  <2>3. Awaits(d, x)
    BY <1>1, <1>3, <2>2 DEF Awaits
  <2>4. idOf'[x] \in {idOf[x], 0} \cup taken'[d]
    BY <1>1, <2>3, TakenNotes DEF At
  <2> QED
    BY <1>2, <2>1, <2>2, <2>4 DEF Known
<1> QED
  BY <1>1, <1>2, <1>3 DEF Unsigned, Busy, At

\* A request without a signature keeps to buckets that it may read.
LEMMA UnsignedOnward ==
    ASSUME RaceInv, NEW c \in Clients, Onward(c), RaceNext
    PROVE  Unsigned(c)'
<1>1. IInv /\ Unsigned(c) /\ OnItsWay(c) /\ Granted(c) /\ Anonymous # {} /\ Anonymous \notin Scopes
  BY NamesAssumption DEF RaceInv, IInv
<1>2. ~At(c, "idle") => req[c] \in Request /\ req[c].call \in Calls /\ PublicIds \subseteq opened[c]
  BY <1>1, Underway DEF IInv, Request, Now, Busy
<1>3. req \in [Clients -> {NoCall} \cup Request]
  BY <1>1 DEF IInv, TypeOK
<1>0. ~At(c, "idle") /\ ~At(c, "idle")' /\ UNCHANGED opened => Known(c) \subseteq Known(c)'
  BY TakenNotes DEF Known
<1>4. CASE \E call \in Calls, pc \in {"verify", "link", "public"} : Arrive(c, call, pc)
  <2>1. req'[c].grant = {}
    BY <1>3, <1>4 DEF Arrive
  <2> QED
    BY <1>1, <2>1 DEF Unsigned
<1>5. CASE Verify(c) \/ \E expired \in BOOLEAN : VerifyPresigned(c, expired)
  <2>1. req[c] \in Request /\ req[c].grant = {}
    BY <1>1, <1>2, <1>5 DEF Granted, Verify, VerifyPresigned, At
  <2>2. req'[c].grant \in Scopes \cup {{}}
    <3>1. CASE Goto(c, "public")
      BY <1>3, <2>1, <3>1 DEF Goto, Request
    <3>2. CASE Lookup(c) /\ scope = Revoked
      BY <1>3, <2>1, <3>2 DEF Lookup, Request
    <3>3. CASE Lookup(c) /\ scope # Revoked
      <4>1. req' = [req EXCEPT ![c].pc = "route", ![c].grant = scope] /\ scope \in Scopes
        BY <1>1, <3>3 DEF Lookup, IInv, TypeOK
      <4> QED
        BY <1>3, <2>1, <4>1 DEF Request
    <3> QED
      BY <1>5, <3>1, <3>2, <3>3 DEF Verify, VerifyPresigned
  <2> QED
    BY <1>1, <2>2 DEF Unsigned
<1>6. CASE AllowAnonymous(c)
  <2>1. req[c] \in Request /\ req[c].grant = {} /\ touched[c] = {} /\ UNCHANGED <<idOf, opened, touched>>
        /\ req[c].call \in Calls /\ PublicIds \subseteq opened[c]
    BY <1>1, <1>2, <1>6 DEF Granted, AllowAnonymous, At, tables, history
  <2>2. CASE Goto(c, "answer")
    <3>1. req'[c].grant = {}
      BY <1>3, <2>1, <2>2 DEF Goto, Request
    <3> QED
      BY <1>1, <3>1 DEF Unsigned
  <2>3. CASE ~Goto(c, "answer")
    <3>1. /\ AnonymousMethodAllowed(req[c].call)
          /\ \E b \in Buckets : req[c].call.bucket = b /\ idOf[b] \in public
          /\ req' = [req EXCEPT ![c].pc = "route", ![c].grant = Anonymous]
      BY <1>6, <2>3 DEF AllowAnonymous
    <3>2. req'[c].pc = "route" /\ req'[c].call = req[c].call
      BY <1>3, <2>1, <3>1 DEF Request
    <3>3. req[c].call.op \in {"get", "head", "list"}
      BY <2>1, <3>1, CallFacts DEF AnonymousMethodAllowed
    <3>4. idOf[req[c].call.bucket] \in opened[c]
      BY <2>1, <3>1 DEF PublicIds
    <3> QED
      <4>1. Known(c) \subseteq Known(c)'
        BY <1>0, <1>6, <2>1, <3>2 DEF AllowAnonymous, At
      <4>2. idOf'[req'[c].call.bucket] \in Known(c)'
        BY <2>1, <3>2, <3>4, <4>1 DEF Known
      <4> QED
        BY <2>1, <3>2, <3>3, <4>2 DEF Unsigned, At
  <2> QED
    BY <2>2, <2>3
<1>7. CASE Route(c)
  <2>1. req[c] \in Request /\ At(c, "route") /\ touched[c] = {} /\ UNCHANGED <<idOf, opened, touched>>
    BY <1>1, <1>2, <1>7 DEF Granted, Route, At, tables
  <2>2. PICK pc \in Steps : /\ Goto(c, pc)
                            /\ req[c].grant = Anonymous /\ req[c].call.op \notin {"create", "buckets"} =>
                                  pc = "resolve"
    BY <1>7 DEF Route, Steps, PermitsCall
  <2>3. req'[c].pc = pc /\ req'[c].call = req[c].call /\ req'[c].grant = req[c].grant
    BY <1>3, <2>1, <2>2 DEF Goto, Request
  <2>4. SUFFICES ASSUME req[c].grant = Anonymous PROVE Unsigned(c)'
    BY <2>3 DEF Unsigned
  <2>5. /\ req[c].call.op \in {"get", "head", "list"} /\ pc = "resolve"
        /\ idOf[req[c].call.bucket] \in Known(c) \cup {0}
    BY <1>1, <2>1, <2>2, <2>4 DEF Unsigned, Busy, At
  <2>6. Known(c) \subseteq Known(c)'
    BY <1>0, <2>1, <2>3, <2>5 DEF At
  <2> QED
    BY <2>1, <2>3, <2>5, <2>6 DEF Unsigned, At
<1>8. CASE Resolve(c)
  <2>1. req[c] \in Request /\ At(c, "resolve") /\ UNCHANGED <<idOf, opened, touched>>
    BY <1>1, <1>2, <1>8 DEF Resolve, At, tables, history
  <2>2. PICK id : id = idOf[req[c].call.bucket]
    OBVIOUS
  <2>3. CASE id = 0
    <3>1. req'[c].pc = "answer" /\ req'[c].call = req[c].call /\ req'[c].grant = req[c].grant
      BY <1>3, <1>8, <2>1, <2>2, <2>3 DEF Resolve, Request
    <3> QED
      BY <1>1, <2>1, <3>1 DEF Unsigned, Busy, At
  <2>4. CASE id # 0
    <3>1. req'[c].call = req[c].call /\ req'[c].grant = req[c].grant /\ req'[c].id = id
          /\ req'[c].pc \notin {"route", "resolve"}
      BY <1>3, <1>8, <2>1, <2>2, <2>4 DEF Resolve, Request
    <3>2. SUFFICES ASSUME req[c].grant = Anonymous PROVE Unsigned(c)'
      BY <3>1 DEF Unsigned
    <3>3. /\ req[c].call.op \in {"get", "head", "list"} /\ touched[c] = {} /\ id \in Known(c)
      BY <1>1, <2>1, <2>2, <2>4, <3>2 DEF Unsigned, Busy, At
    <3>4. Known(c) \subseteq Known(c)' \/ At(c, "idle")'
      BY <1>0, <2>1 DEF At
    <3> QED
      BY <2>1, <3>1, <3>3, <3>4 DEF Unsigned, Busy, At
  <2> QED
    BY <2>3, <2>4
<1>9. CASE Read(c)
  <2>1. At(c, "body") /\ req[c].grant # Anonymous /\ req[c] \in Request
    BY <1>1, <1>2, <1>9 DEF Read, StartBody, ReadChunk, EndBody, EndShort, LoseBody, OnItsWay, Unsigned, Busy, At
  <2>2. req'[c].grant = req[c].grant
    BY <1>3, <1>9, <2>1 DEF Read, StartBody, ReadChunk, EndBody, EndShort, LoseBody, Goto, Request
  <2> QED
    BY <2>1, <2>2 DEF Unsigned
<1>10. CASE ReadSource(c)
  <2>1. At(c, "source") /\ req[c].grant # Anonymous /\ req[c] \in Request
    BY <1>1, <1>2, <1>10 DEF ReadSource, OnItsWay, Unsigned, Busy, At
  <2>2. req'[c].grant = req[c].grant
    BY <1>3, <1>10, <2>1 DEF ReadSource, Goto, Request
  <2> QED
    BY <2>1, <2>2 DEF Unsigned
<1>11. CASE Answer(c)
  BY <1>3, <1>11 DEF Answer, Reject, NoCall, Unsigned, Busy, At
<1>12. ASSUME NEW k \in Keys, DeleteOne(c, k) PROVE Unsigned(c)'
  <2>1. At(c, "handle") /\ req[c].grant # Anonymous /\ req[c] \in Request
    BY <1>1, <1>2, <1>12 DEF DeleteOne, Unsigned, Busy, At
  <2>2. req'[c].grant = req[c].grant
    BY <1>3, <1>12, <2>1 DEF DeleteOne, Request
  <2> QED
    BY <2>1, <2>2 DEF Unsigned
<1> QED
  BY <1>4, <1>5, <1>6, <1>7, <1>8, <1>9, <1>10, <1>11, <1>12 DEF Onward

\* A handler reads without a grant where it may.
LEMMA UnsignedHandle ==
    ASSUME RaceInv, NEW c \in Clients, Handle(c), RaceNext
    PROVE  \A d \in Clients : Unsigned(d)'
<1>1. IInv /\ At(c, "handle") /\ ~At(c, "idle") /\ Handler(c) /\ Goto(c, "answer")
      /\ UNCHANGED <<held, opened>>
  BY DEF Handle, Handler, At, RaceInv
<1>2. /\ \A d \in Clients \ {c} : req'[d] = req[d]
      /\ req'[c].pc = "answer" /\ req'[c].call = req[c].call /\ req'[c].grant = req[c].grant
      /\ req'[c].id = req[c].id
  BY <1>1, GoesOn DEF IInv, Steps
<1>3. \A d \in Clients \ {c} : touched'[d] = touched[d]
  BY <1>1, HandlerReach
<1>4. ASSUME NEW d \in Clients \ {c} PROVE Unsigned(d)'
  BY <1>1, <1>2, <1>3, UnsignedKeeps DEF RaceInv
<1>5. Unsigned(c)'
  <2>1. SUFFICES ASSUME req[c].grant = Anonymous PROVE Unsigned(c)'
    BY <1>2 DEF Unsigned
  <2>2. req[c].call.op \in {"get", "head", "list"} /\ req[c].id \in Known(c) /\ touched[c] = {}
    BY <1>1, <2>1 DEF RaceInv, Unsigned, Busy, At
  <2>3. req[c].id \in Known(c)'
    BY <1>1, <1>2, <2>2, TakenNotes DEF Known, At
  <2>4. \A t \in touched'[c] : t[3] = "read"
    <3>1. CASE Get(c)
      BY <1>1, <2>2, <3>1 DEF Get, Touch, Target, IInv, TypeOK
    <3>2. CASE List(c)
      BY <1>1, <2>2, <3>2 DEF List, Touch, Target, IInv, TypeOK
    <3>3. CASE HeadBucket(c)
      BY <2>2, <3>3 DEF HeadBucket
    <3> QED
      BY <1>1, <2>2, <3>1, <3>2, <3>3
         DEF Handler, Put, PutCopy, Delete, ListBuckets, Configure, Drop, Create
  <2> QED
    BY <1>2, <2>2, <2>3, <2>4 DEF Unsigned, Busy, At
<1> QED
  BY <1>4, <1>5

\* Every step keeps what is known of a request without a signature.
LEMMA RaceNextKeeps == RaceInv /\ [RaceNext]_raceVars => RaceInv'
<1> SUFFICES ASSUME RaceInv, [RaceNext]_raceVars PROVE RaceInv'
  OBVIOUS
<1>1. IInv /\ \A d \in Clients : Unsigned(d)
  BY DEF RaceInv
<1>2. CASE UNCHANGED raceVars
  <2>1. IInv'
    BY <1>1, <1>2, Stutters DEF raceVars
  <2>2. ASSUME NEW d \in Clients PROVE Unsigned(d)'
    BY <1>1, <1>2, UnsignedKeeps DEF raceVars, vars, history
  <2> QED
    BY <2>1, <2>2 DEF RaceInv
<1>3. CASE RaceNext
  <2>1. Next
    BY <1>3 DEF RaceNext
  <2>2. IInv'
    BY <1>1, <2>1, NextKeeps
  <2>3. ASSUME NEW c \in Clients, Onward(c), NEW d \in Clients PROVE Unsigned(d)'
    <3>1. CASE d = c
      BY <1>3, <2>3, <3>1, UnsignedOnward
    <3>2. CASE d # c
      <4>1. req'[d] = req[d] /\ touched'[d] = touched[d] /\ opened'[d] = opened[d]
        BY <1>1, <2>3, <3>2, OnwardIsLocal
      <4> QED
        BY <1>1, <1>3, <4>1, UnsignedKeeps
    <3> QED
      BY <3>1, <3>2
  <2>4. ASSUME NEW c \in Clients, Handle(c), NEW d \in Clients PROVE Unsigned(d)'
    BY <1>3, <2>4, UnsignedHandle
  <2>5. ASSUME Console, NEW d \in Clients PROVE Unsigned(d)'
    <3>1. UNCHANGED <<req, touched>> /\ opened[d] \subseteq opened'[d]
      BY <1>1, <2>5 DEF Console, Revoke, SetScope, ConsoleUpload, ConsoleDrop, ConsoleCreate,
                        SetPublic, history, OpensToo, IInv, TypeOK
    <3> QED
      BY <1>1, <1>3, <3>1, UnsignedKeeps
  <2> QED
    BY <2>1, <2>2, <2>3, <2>4, <2>5, NextIs DEF RaceInv
<1> QED
  BY <1>2, <1>3

\* AnonymousReadsPublic, of all that the model does: a request without a signature
\* changes nothing, and reads where it was public, or where a bucket took the name
\* between allowAnonymous and requireBucket.
THEOREM AnonymousIsHeld == RaceSpec => []AnonymousReadsPublic
<1>1. RaceInit => RaceInv
  <2>1. RaceInit => \A c \in Clients : Unsigned(c)
    BY DEF RaceInit, Init, Unsigned, Busy, At, NoCall
  <2> QED
    BY <2>1, Initially DEF RaceInit, RaceInv
<1>2. RaceInv => AnonymousReadsPublic
  BY DEF RaceInv, Unsigned, Known, AnonymousReadsPublic, Signed, Busy
<1> QED
  BY <1>1, <1>2, RaceNextKeeps, PTL DEF RaceSpec
=============================================================================
