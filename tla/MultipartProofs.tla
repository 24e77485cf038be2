--------------------------- MODULE MultipartProofs ---------------------------
(***************************************************************************)
(* Proofs about Multipart: no part outlives its upload, whatever meets;    *)
(* and, while one transaction at a time releases the parts of an upload,   *)
(* each refcount is the number of parts and objects made of the blob.      *)
(***************************************************************************)
EXTENDS Multipart, FiniteSetTheorems, TLAPS

\* A request that is under way is of an upload, and a part of a number.
Located(c) ==
    /\ pc[c] # "idle" => upload[c] \in Uploads
    /\ pc[c] \in {"part", "written"} => number[c] \in Numbers /\ blob[c] \in Digests
    /\ pc[c] = "written" => state[upload[c]] = "open"

\* The inductive invariant of Spec.
IInv ==
    /\ TypeOK
    /\ \A c \in Clients : Located(c)
    /\ \A r \in Reapers : rpc[r] = "reaping" => victim[r] \in Uploads
    /\ NoOrphanParts

-----------------------------------------------------------------------------
(* Counting.                                                               *)

\* The parts made of blob d, by upload and number; and the numbers of one upload's.
Pairs(f, d) == {p \in Uploads \X Numbers : f[p[1]][p[2]] = d}
Of(ps, d) == {i \in Numbers : ps[i] = d}

\* There are so many parts, of an upload and in all.
LEMMA Finite ==
    ASSUME NEW f, NEW ps, NEW d
    PROVE  /\ IsFiniteSet(Pairs(f, d)) /\ Cardinality(Pairs(f, d)) \in Nat
           /\ IsFiniteSet(Of(ps, d)) /\ Cardinality(Of(ps, d)) \in Nat
<1>1. IsFiniteSet(Uploads \X Numbers)
  BY FiniteAssumption, FS_Product
<1>2. Pairs(f, d) \in SUBSET (Uploads \X Numbers) /\ Of(ps, d) \in SUBSET Numbers
  BY DEF Pairs, Of
<1>3. IsFiniteSet(Pairs(f, d)) /\ IsFiniteSet(Of(ps, d))
  BY <1>1, <1>2, FiniteAssumption, FS_Subset
<1> QED
  BY <1>3, FS_CardinalityType

\* The parts when part n of upload u is b.
With(f, u, n, b) == [f EXCEPT ![u][n] = b]

\* One part takes the place of another.
LEMMA OneReplaced ==
    ASSUME NEW f \in [Uploads -> Parts], NEW u \in Uploads, NEW n \in Numbers, NEW b, NEW d
    PROVE  \E rest \in Nat :
              /\ Cardinality(Pairs(f, d)) = (IF f[u][n] = d THEN rest + 1 ELSE rest)
              /\ Cardinality(Pairs(With(f, u, n, b), d)) = (IF b = d THEN rest + 1 ELSE rest)
<1> DEFINE g == With(f, u, n, b)
<1> DEFINE R == Pairs(f, d) \ {<<u, n>>}
           x == <<u, n>>
<1>1. \A p \in Uploads \X Numbers : g[p[1]][p[2]] = IF p = x THEN b ELSE f[p[1]][p[2]]
  <2>1. SUFFICES ASSUME NEW v \in Uploads, NEW m \in Numbers
                 PROVE  g[v][m] = IF v = u /\ m = n THEN b ELSE f[v][m]
    OBVIOUS
  <2> QED
    BY DEF Parts, With
<1> HIDE DEF g
<1>2. IsFiniteSet(Pairs(f, d)) /\ IsFiniteSet(Pairs(g, d)) /\ IsFiniteSet(R)
      /\ Cardinality(Pairs(f, d)) \in Nat /\ Cardinality(Pairs(g, d)) \in Nat /\ Cardinality(R) \in Nat
  <2>1. IsFiniteSet(Pairs(f, d)) /\ IsFiniteSet(Pairs(g, d))
    BY Finite
  <2>2. IsFiniteSet(R)
    BY <2>1, FS_RemoveElement
  <2> QED
    BY <2>1, <2>2, FS_CardinalityType
<1>3. Pairs(g, d) \ {x} = R
  BY <1>1 DEF Pairs
<1>4. (x \in Pairs(g, d) <=> b = d) /\ (x \in Pairs(f, d) <=> f[u][n] = d)
  BY <1>1 DEF Pairs
<1>5. Cardinality(R) = IF x \in Pairs(f, d) THEN Cardinality(Pairs(f, d)) - 1 ELSE Cardinality(Pairs(f, d))
  BY <1>2, FS_RemoveElement
<1>6. Cardinality(Pairs(g, d) \ {x}) =
        IF x \in Pairs(g, d) THEN Cardinality(Pairs(g, d)) - 1 ELSE Cardinality(Pairs(g, d))
  BY <1>2, FS_RemoveElement
<1> DEFINE had == Cardinality(Pairs(f, d))
           new == Cardinality(Pairs(g, d))
           rest == Cardinality(R)
<1>7. /\ rest = IF f[u][n] = d THEN had - 1 ELSE had
      /\ rest = IF b = d THEN new - 1 ELSE new
      /\ had \in Nat /\ new \in Nat /\ rest \in Nat
  BY <1>2, <1>3, <1>4, <1>5, <1>6
<1> HIDE DEF R, x, had, new, rest
<1>8. rest \in Nat /\ had = (IF f[u][n] = d THEN rest + 1 ELSE rest) /\ new = (IF b = d THEN rest + 1 ELSE rest)
  BY <1>7
<1> QED
  BY <1>8 DEF had, new, g

\* The parts of an upload go all at once.
LEMMA AllDropped ==
    ASSUME NEW f \in [Uploads -> Parts], NEW u \in Uploads, NEW d, d # None,
           NEW g, g = [f EXCEPT ![u] = NoParts]
    PROVE  Cardinality(Pairs(g, d)) = Cardinality(Pairs(f, d)) - Cardinality(Of(f[u], d))
<1> DEFINE X == {u} \X Of(f[u], d)
<1>1. \A p \in Uploads \X Numbers : g[p[1]][p[2]] = IF p[1] = u THEN None ELSE f[p[1]][p[2]]
  BY DEF NoParts
<1>2. Pairs(f, d) = Pairs(g, d) \cup X /\ Pairs(g, d) \cap X = {}
  <2>1. \A p \in Uploads \X Numbers : p \in X <=> p[1] = u /\ f[p[1]][p[2]] = d
    BY DEF Of
  <2>2. X \subseteq Uploads \X Numbers
    BY DEF Of
  <2> HIDE DEF X
  <2> QED
    BY <1>1, <2>1, <2>2 DEF Pairs
<1>3. IsFiniteSet(X) /\ Cardinality(X) = Cardinality(Of(f[u], d))
  <2>1. IsFiniteSet({u}) /\ Cardinality({u}) = 1
    BY FS_Singleton
  <2>2. IsFiniteSet(Of(f[u], d)) /\ Cardinality(Of(f[u], d)) \in Nat
    BY Finite
  <2>3. IsFiniteSet(X) /\ Cardinality(X) = Cardinality({u}) * Cardinality(Of(f[u], d))
    BY <2>1, <2>2, FS_Product
  <2> QED
    BY <2>1, <2>2, <2>3
<1>4. IsFiniteSet(Pairs(g, d)) /\ Cardinality(Pairs(g, d)) \in Nat /\ Cardinality(Of(f[u], d)) \in Nat
      /\ Cardinality(Pairs(f, d)) \in Nat
  BY Finite
<1> HIDE DEF X
<1>5. Cardinality(Pairs(g, d) \cup X) = Cardinality(Pairs(g, d)) + Cardinality(X) - Cardinality(Pairs(g, d) \cap X)
  BY <1>3, <1>4, FS_Union
<1>6. Cardinality(Pairs(f, d)) = Cardinality(Pairs(g, d)) + Cardinality(Of(f[u], d)) - 0
  BY <1>2, <1>3, <1>5, FS_EmptySet
<1> DEFINE all == Cardinality(Pairs(f, d))
           rest == Cardinality(Pairs(g, d))
           gone == Cardinality(Of(f[u], d))
<1>7. all = rest + gone - 0 /\ all \in Nat /\ rest \in Nat /\ gone \in Nat
  BY <1>4, <1>6
<1> HIDE DEF all, rest, gone
<1>8. rest = all - gone
  BY <1>7
<1> QED
  BY <1>8 DEF all, rest, gone

\* A statement never counts below zero, and where it need not stop there it adds up.
LEMMA Recounted ==
    ASSUME TypeOK, NEW gained, NEW lost, NEW ps
    PROVE  /\ Recount(gained, lost, ps) \in [Digests -> Nat]
           /\ \A d \in Digests :
                LET n == count[d] + (IF gained = d THEN 1 ELSE 0) - (IF lost = d THEN 1 ELSE 0)
                           - Cardinality(Of(ps, d))
                IN  n \in Nat => Recount(gained, lost, ps)[d] = n
<1>1. ASSUME NEW d \in Digests
      PROVE  LET n == count[d] + (IF gained = d THEN 1 ELSE 0) - (IF lost = d THEN 1 ELSE 0)
                        - Cardinality(Of(ps, d))
             IN  Recount(gained, lost, ps)[d] = (IF n > 0 THEN n ELSE 0) /\ n \in Int
  <2>1. count[d] \in Nat /\ Cardinality(Of(ps, d)) \in Nat
    BY Finite DEF TypeOK
  <2> QED
    BY <2>1 DEF Recount, B, Of
<1>2. \A d \in Digests : Recount(gained, lost, ps)[d] \in Nat
  BY <1>1
<1>3. Recount(gained, lost, ps) = [d \in Digests |-> Recount(gained, lost, ps)[d]]
  BY DEF Recount
<1>4. Recount(gained, lost, ps) \in [Digests -> Nat]
  BY <1>2, <1>3
<1>5. ASSUME NEW d \in Digests
      PROVE  LET n == count[d] + (IF gained = d THEN 1 ELSE 0) - (IF lost = d THEN 1 ELSE 0)
                        - Cardinality(Of(ps, d))
             IN  n \in Nat => Recount(gained, lost, ps)[d] = n
  BY <1>1
<1> QED
  BY <1>4, <1>5

-----------------------------------------------------------------------------
(* Every step of Spec.                                                     *)

\* A request that comes is of an upload in progress.
LEMMA ComeKeeps ==
    ASSUME IInv, NEW c \in Clients, UploadPart(c) \/ SelectParts(c) \/ Abort(c)
    PROVE  IInv'
<1>1. PICK u \in Uploads : Require(c, u)
  BY DEF UploadPart, SelectParts, Abort
<1>2. upload' = [upload EXCEPT ![c] = u] /\ UNCHANGED <<tables, old, was, listed, reaperVars>>
  BY <1>1 DEF Require
<1>3. CASE UploadPart(c)
  <2>1. PICK n \in Numbers, d \in Digests :
            number' = [number EXCEPT ![c] = n] /\ blob' = [blob EXCEPT ![c] = d]
            /\ pc' = [pc EXCEPT ![c] = "part"]
    BY <1>3 DEF UploadPart, Goto
  <2>2. TypeOK'
    BY <1>2, <2>1 DEF IInv, TypeOK, Blob, tables, reaperVars
  <2>3. \A x \in Clients : Located(x)'
    BY <1>2, <2>1 DEF IInv, TypeOK, Located, tables
  <2> QED
    BY <1>2, <2>2, <2>3 DEF IInv, NoOrphanParts, tables, reaperVars
<1>4. CASE SelectParts(c) \/ Abort(c)
  <2>1. PICK b \in Blob, next \in {"assembled", "abort"} :
            blob' \in {blob, [blob EXCEPT ![c] = b]} /\ pc' = [pc EXCEPT ![c] = next] /\ UNCHANGED number
    <3>1. CASE Abort(c)
      BY <3>1 DEF Abort, Goto, Blob
    <3>2. CASE SelectParts(c)
      <4>1. PICK v \in Uploads : \E chosen \in SUBSET {n \in Numbers : part[v][n] # None} :
                chosen # {} /\ blob' = [blob EXCEPT ![c] = Join(v, chosen)]
        BY <3>2 DEF SelectParts
      <4>2. PICK chosen \in SUBSET {n \in Numbers : part[v][n] # None} :
                chosen # {} /\ blob' = [blob EXCEPT ![c] = Join(v, chosen)]
        BY <4>1
      <4>3. Join(v, chosen) \in Blob
        <5>1. (CHOOSE n \in chosen : TRUE) \in Numbers
          BY <4>2
        <5> QED
          BY <5>1, ContentsAssumption DEF Join, Blob, IInv, TypeOK, Parts
      <4> QED
        BY <3>2, <4>2, <4>3 DEF SelectParts, Goto
    <3> QED
      BY <1>4, <3>1, <3>2
  <2>2. blob' \in [Clients -> Blob] /\ \A x \in Clients \ {c} : blob'[x] = blob[x]
    BY <2>1 DEF IInv, TypeOK
  <2>3. TypeOK'
    BY <1>2, <2>1, <2>2 DEF IInv, TypeOK, tables, reaperVars
  <2>4. \A x \in Clients : Located(x)'
    BY <1>2, <2>1, <2>2 DEF IInv, TypeOK, Located, tables
  <2> QED
    BY <1>2, <2>3, <2>4 DEF IInv, NoOrphanParts, tables, reaperVars
<1> QED
  BY <1>3, <1>4

\* A part is written where the upload is still in progress.
LEMMA WriteKeeps ==
    ASSUME IInv, NEW c \in Clients, PutMultipartPart(c)
    PROVE  IInv'
<1>1. /\ pc[c] = "part" /\ state[upload[c]] = "open" /\ pc' = [pc EXCEPT ![c] = "written"]
      /\ was' = [was EXCEPT ![c] = part[upload[c]][number[c]]]
      /\ UNCHANGED <<tables, old, upload, number, blob, listed, reaperVars>>
  BY DEF PutMultipartPart, Goto
<1>2. part[upload[c]][number[c]] \in Blob
  BY <1>1 DEF IInv, TypeOK, Located, Parts
<1>3. TypeOK'
  BY <1>1, <1>2 DEF IInv, TypeOK, tables, reaperVars
<1>4. \A x \in Clients : Located(x)'
  BY <1>1 DEF IInv, TypeOK, Located, tables
<1> QED
  BY <1>1, <1>3, <1>4 DEF IInv, NoOrphanParts, tables, reaperVars

\* What a request leaves behind when it ends.
LEMMA FinishKeeps ==
    ASSUME IInv, NEW c \in Clients, Finish(c), listed' \in [Actors -> Parts],
           state' \in [Uploads -> {"new", "open", "gone"}], part' \in [Uploads -> Parts],
           object' \in Blob, count' \in [Digests -> Nat],
           \A x \in Clients \ {c} : pc[x] = "written" => state'[upload[x]] = state[upload[x]],
           NoOrphanParts'
    PROVE  IInv'
<1>1. /\ pc' = [pc EXCEPT ![c] = "idle"] /\ upload' = [upload EXCEPT ![c] = None]
      /\ number' = [number EXCEPT ![c] = 0] /\ blob' = [blob EXCEPT ![c] = None]
      /\ was' = [was EXCEPT ![c] = None] /\ UNCHANGED <<old, reaperVars>>
  BY DEF Finish, Goto
<1>2. TypeOK'
  BY <1>1 DEF IInv, TypeOK, Blob, reaperVars
<1>3. \A x \in Clients : Located(x)'
  BY <1>1 DEF IInv, TypeOK, Located
<1> QED
  BY <1>1, <1>2, <1>3 DEF IInv, reaperVars

\* A part is committed into an upload that is open, whose row it has locked.
LEMMA CommitKeeps ==
    ASSUME IInv, NEW c \in Clients, CommitPart(c)
    PROVE  IInv'
<1>1. /\ pc[c] = "written" /\ part' = [part EXCEPT ![upload[c]][number[c]] = blob[c]]
      /\ count' = Recount(blob[c], was[c], NoParts) /\ Finish(c) /\ UNCHANGED <<state, object, listed>>
  BY DEF CommitPart
<1>2. upload[c] \in Uploads /\ number[c] \in Numbers /\ blob[c] \in Blob /\ state[upload[c]] = "open"
  BY <1>1 DEF IInv, Located, Blob
<1>3. part' \in [Uploads -> Parts]
  BY <1>1, <1>2 DEF IInv, TypeOK, Parts
<1>4. count' \in [Digests -> Nat]
  BY <1>1, Recounted DEF IInv
<1>5. NoOrphanParts'
  BY <1>1, <1>2 DEF IInv, TypeOK, NoOrphanParts
<1> QED
  BY <1>1, <1>3, <1>4, <1>5, FinishKeeps DEF IInv, TypeOK

\* An upload goes with its parts, and nobody is writing one.
LEMMA UploadDropped ==
    ASSUME IInv, NEW u \in Uploads, DropUpload(u)
    PROVE  /\ state' \in [Uploads -> {"new", "open", "gone"}] /\ part' \in [Uploads -> Parts]
           /\ \A x \in Clients : pc[x] = "written" => state'[upload[x]] = state[upload[x]]
           /\ NoOrphanParts'
<1>1. /\ state' = [state EXCEPT ![u] = "gone"] /\ part' = [part EXCEPT ![u] = NoParts] /\ ~InUse(u)
  BY DEF DropUpload
<1>2. NoParts \in Parts
  BY DEF NoParts, Parts, Blob
<1>3. \A x \in Clients : pc[x] = "written" => upload[x] \in Uploads \ {u}
  BY <1>1 DEF InUse, IInv, Located
<1> QED
  BY <1>1, <1>2, <1>3 DEF IInv, TypeOK, NoOrphanParts

\* Whoever is done forgets the parts it had listed.
LEMMA NoPartsListed ==
    ASSUME IInv, NEW a \in Actors, listed' = [listed EXCEPT ![a] = NoParts]
    PROVE  listed' \in [Actors -> Parts]
BY DEF NoParts, Parts, Blob, IInv, TypeOK

\* With an upload go its parts.
LEMMA ReleaseKeeps ==
    ASSUME IInv, NEW c \in Clients, CompleteMultipartUpload(c) \/ AbortMultipartUpload(c)
    PROVE  IInv'
<1>1. /\ pc[c] \in {"completing", "aborting"} /\ DropUpload(upload[c])
      /\ listed' = [listed EXCEPT ![c] = NoParts] /\ Finish(c) /\ object' \in {blob[c], object}
  BY DEF CompleteMultipartUpload, AbortMultipartUpload
<1>2. count' \in [Digests -> Nat]
  BY Recounted DEF IInv, CompleteMultipartUpload, AbortMultipartUpload
<1>3. PICK u \in Uploads : u = upload[c]
  BY <1>1 DEF IInv, Located
<1>4. object' \in Blob
  BY <1>1 DEF IInv, TypeOK
<1>5. listed' \in [Actors -> Parts]
  BY <1>1, NoPartsListed DEF Actors
<1>6. DropUpload(u)
  BY <1>1, <1>3
<1> QED
  BY <1>1, <1>2, <1>4, <1>5, <1>6, UploadDropped, FinishKeeps

\* A request that fails leaves the tables as they are.
LEMMA FailKeeps ==
    ASSUME IInv, NEW c \in Clients, Fail(c)
    PROVE  IInv'
<1>1. listed' = [listed EXCEPT ![c] = NoParts] /\ Finish(c) /\ UNCHANGED tables
  BY DEF Fail
<1>2. listed' \in [Actors -> Parts]
  BY <1>1, NoPartsListed DEF Actors
<1>3. NoOrphanParts'
  BY <1>1 DEF tables, IInv, NoOrphanParts
<1> QED
  BY <1>1, <1>2, <1>3, FinishKeeps DEF tables, IInv, TypeOK

\* Who is about to release an upload reads its parts, and nothing else changes.
LEMMA ListKeeps ==
    ASSUME IInv, NEW c \in Clients, LockAndList(c) \/ ListForAbort(c)
    PROVE  IInv'
<1>1. PICK next \in {"completing", "aborting"} :
          /\ pc' = [pc EXCEPT ![c] = next] /\ pc[c] \in {"assembled", "abort"}
          /\ listed' = [listed EXCEPT ![c] = part[upload[c]]]
          /\ UNCHANGED <<tables, old, upload, number, blob, was, reaperVars>>
  BY DEF LockAndList, ListForAbort, Goto
<1>2. part[upload[c]] \in Parts
  BY <1>1 DEF IInv, TypeOK, Located
<1>3. TypeOK'
  BY <1>1, <1>2 DEF IInv, TypeOK, tables, reaperVars, Actors
<1>4. \A x \in Clients : Located(x)'
  BY <1>1 DEF IInv, TypeOK, Located, tables
<1> QED
  BY <1>1, <1>3, <1>4 DEF IInv, NoOrphanParts, tables, reaperVars

\* What is not a client's step.
LEMMA UploadKeeps ==
    ASSUME IInv, NEW u \in Uploads, CreateMultipartUpload(u) \/ Age(u)
    PROVE  IInv'
<1>1. CASE CreateMultipartUpload(u)
  <2>1. /\ state[u] = "new" /\ state' = [state EXCEPT ![u] = "open"]
        /\ UNCHANGED <<part, object, count, old, clientVars, listed, reaperVars>>
    BY <1>1 DEF CreateMultipartUpload
  <2>2. TypeOK'
    BY <2>1 DEF IInv, TypeOK, clientVars, reaperVars
  <2>3. \A x \in Clients : Located(x)'
    BY <2>1 DEF IInv, TypeOK, Located, clientVars
  <2> QED
    BY <2>1, <2>2, <2>3 DEF IInv, TypeOK, NoOrphanParts, reaperVars
<1>2. CASE Age(u)
  <2>1. old' = old \cup {u} /\ UNCHANGED <<tables, clientVars, listed, reaperVars>>
    BY <1>2 DEF Age
  <2>2. TypeOK'
    BY <2>1 DEF IInv, TypeOK, tables, clientVars, reaperVars
  <2> QED
    BY <2>1, <2>2 DEF IInv, Located, NoOrphanParts, tables, clientVars, reaperVars
<1> QED
  BY <1>1, <1>2

\* The object is overwritten or deleted: no part is concerned.
LEMMA OverwriteKeeps ==
    ASSUME IInv, Overwrite
    PROVE  IInv'
<1>1. PICK d \in Blob : object' = d /\ count' = Recount(d, object, NoParts)
  BY DEF Overwrite
<1>2. UNCHANGED <<state, part, old, clientVars, listed, reaperVars>>
  BY DEF Overwrite
<1>3. count' \in [Digests -> Nat]
  BY <1>1, Recounted DEF IInv
<1>4. TypeOK'
  BY <1>1, <1>2, <1>3 DEF IInv, TypeOK, clientVars, reaperVars
<1> QED
  BY <1>2, <1>4 DEF IInv, Located, NoOrphanParts, clientVars, reaperVars

\* The reaper takes uploads that were in progress when it looked.
LEMMA ReaperKeeps ==
    ASSUME IInv, NEW r \in Reapers, ReaperStep(r)
    PROVE  IInv'
<1>1. CASE ListAbandoned(r)
  <2>1. /\ todo' = [todo EXCEPT ![r] = Abandoned] /\ rpc' = [rpc EXCEPT ![r] = "loop"]
        /\ UNCHANGED <<tables, old, clientVars, listed, victim>>
    BY <1>1 DEF ListAbandoned
  <2>2. Abandoned \subseteq Uploads
    BY DEF Abandoned, IInv, TypeOK
  <2>3. TypeOK'
    BY <2>1, <2>2 DEF IInv, TypeOK, tables, clientVars
  <2> QED
    BY <2>1, <2>3 DEF IInv, TypeOK, Located, NoOrphanParts, tables, clientVars
<1>2. CASE ListForReap(r)
  <2>1. PICK u \in todo[r] : /\ victim' = [victim EXCEPT ![r] = u] /\ todo' = [todo EXCEPT ![r] = todo[r] \ {u}]
                             /\ listed' = [listed EXCEPT ![r] = part[u]]
    BY <1>2 DEF ListForReap
  <2>2. rpc' = [rpc EXCEPT ![r] = "reaping"] /\ UNCHANGED <<tables, old, clientVars>> /\ u \in Uploads
    BY <1>2, <2>1 DEF ListForReap, IInv, TypeOK
  <2>3. TypeOK'
    BY <2>1, <2>2 DEF IInv, TypeOK, tables, clientVars, Actors
  <2> QED
    BY <2>1, <2>2, <2>3 DEF IInv, TypeOK, Located, NoOrphanParts, tables, clientVars
<1>3. ASSUME NEW left \in SUBSET Uploads, ReapNext(r, left), NoOrphanParts', object' \in Blob,
             state' \in [Uploads -> {"new", "open", "gone"}], part' \in [Uploads -> Parts],
             count' \in [Digests -> Nat],
             \A x \in Clients : pc[x] = "written" => state'[upload[x]] = state[upload[x]]
      PROVE  IInv'
  <2>1. PICK next \in {"idle", "loop"} :
            /\ todo' = [todo EXCEPT ![r] = left] /\ victim' = [victim EXCEPT ![r] = None]
            /\ listed' = [listed EXCEPT ![r] = NoParts] /\ rpc' = [rpc EXCEPT ![r] = next]
            /\ UNCHANGED <<old, clientVars>>
    BY <1>3 DEF ReapNext
  <2>2. listed' \in [Actors -> Parts]
    BY <2>1, NoPartsListed DEF Actors
  <2>3. TypeOK'
    BY <1>3, <2>1, <2>2 DEF IInv, TypeOK, clientVars
  <2>4. \A x \in Clients : Located(x)'
    BY <1>3, <2>1 DEF IInv, Located, clientVars
  <2> QED
    BY <1>3, <2>1, <2>3, <2>4 DEF IInv, TypeOK
<1>4. CASE Reap(r)
  <2>1. PICK u \in Uploads, left \in SUBSET Uploads : u = victim[r] /\ left = todo[r]
    BY <1>4 DEF Reap, IInv, TypeOK
  <2>2. DropUpload(u) /\ ReapNext(r, left) /\ UNCHANGED object
    BY <1>4, <2>1 DEF Reap
  <2>3. count' \in [Digests -> Nat]
    BY <1>4, Recounted DEF Reap, IInv
  <2> QED
    BY <1>3, <2>2, <2>3, UploadDropped DEF IInv, TypeOK
<1>5. CASE ReapFails(r)
  <2>1. UNCHANGED tables /\ ReapNext(r, {})
    BY <1>5 DEF ReapFails
  <2>2. NoOrphanParts'
    BY <2>1 DEF tables, IInv, NoOrphanParts
  <2> QED
    BY <1>3, <2>1, <2>2 DEF tables, IInv, TypeOK
<1> QED
  BY <1>1, <1>2, <1>4, <1>5 DEF ReaperStep

\* At the start there are no parts and no requests.
LEMMA Initially == Init => IInv
<1> SUFFICES ASSUME Init PROVE IInv
  OBVIOUS
<1>1. NoParts \in Parts
  BY DEF NoParts, Parts, Blob
<1>2. TypeOK
  BY <1>1 DEF Init, TypeOK, Blob
<1> QED
  BY <1>2 DEF Init, IInv, Located, NoOrphanParts

\* Every step keeps the invariant.
LEMMA NextKeeps == IInv /\ [Next]_vars => IInv'
<1> SUFFICES ASSUME IInv, [Next]_vars PROVE IInv'
  OBVIOUS
<1>1. CASE UNCHANGED vars
  BY <1>1 DEF IInv, TypeOK, Located, NoOrphanParts, vars, tables, clientVars, reaperVars
<1>2. ASSUME NEW c \in Clients, ClientStep(c) PROVE IInv'
  BY <1>2, ComeKeeps, WriteKeeps, CommitKeeps, ListKeeps, ReleaseKeeps, FailKeeps DEF ClientStep
<1> QED
  BY <1>1, <1>2, UploadKeeps, OverwriteKeeps, ReaperKeeps DEF Next

\* TypeOK, of every value a table, a request or a reaper takes; the counts among them,
\* which GREATEST keeps from going below zero.
THEOREM TypeCorrect == Spec => []TypeOK
<1>1. IInv => TypeOK
  BY DEF IInv
<1> QED
  BY <1>1, Initially, NextKeeps, PTL DEF Spec

\* NoOrphanParts: no part is added to an upload that was completed, aborted or reaped,
\* whatever meets, as the part's row waits for the upload's and the upload's for it.
THEOREM PartsHaveUploads == Spec => []NoOrphanParts
<1>1. IInv => NoOrphanParts
  BY DEF IInv
<1> QED
  BY <1>1, Initially, NextKeeps, PTL DEF Spec

-----------------------------------------------------------------------------
(* One release at a time.                                                  *)

\* A part that is written and not committed replaces what is there, and no other does.
Replacing(c) ==
    pc[c] = "written" =>
        /\ was[c] = part[upload[c]][number[c]]
        /\ \A d \in Clients \ {c} : ~(pc[d] = "written" /\ upload[d] = upload[c] /\ number[d] = number[c])

\* What is being released is all there is.
ListedAll ==
    /\ \A c \in Clients : pc[c] \in {"completing", "aborting"} => listed[c] = part[upload[c]]
    /\ \A r \in Reapers : rpc[r] = "reaping" => listed[r] = part[victim[r]]

\* The inductive invariant of CalmSpec: who releases the parts of an upload is alone with it.
CalmInv ==
    /\ IInv /\ OneRelease
    /\ \A c \in Clients : Replacing(c)
    /\ ListedAll
    /\ RefcountExact

\* Who releases the parts of an upload is alone with them.
LEMMA AloneWithParts ==
    ASSUME OneRelease, NEW u \in Uploads, NEW a \in Releasing(u)
    PROVE  Writing(u) = {} /\ \A b \in Releasing(u) : b = a
<1>1. Cardinality(Releasing(u)) <= 1 /\ Writing(u) = {}
  BY DEF OneRelease
<1>2. IsFiniteSet(Clients \cup Reapers)
  BY ActorsAssumption, FS_Union
<1>3. Releasing(u) \in SUBSET (Clients \cup Reapers)
  BY DEF Releasing
<1>4. IsFiniteSet(Releasing(u))
  BY <1>2, <1>3, FS_Subset
<1>5. Cardinality(Releasing(u)) \in Nat /\ Cardinality(Releasing(u)) # 0
  BY <1>4, FS_CardinalityType, FS_EmptySet
<1>6. Cardinality(Releasing(u)) = 1
  BY <1>1, <1>5
<1>7. PICK x : Releasing(u) = {x}
  BY <1>4, <1>6, FS_Singleton
<1> QED
  BY <1>1, <1>7

\* What a blob is held by.
LEMMA HeldBy ==
    ASSUME NEW d
    PROVE  Holding(d) = (IF object = d THEN 1 ELSE 0) + Cardinality(Pairs(part, d))
BY DEF Holding, Pairs, B

\* Steps that change neither parts nor counts.
LEMMA QuietKeeps ==
    ASSUME CalmInv, UNCHANGED <<part, object, count>>
    PROVE  RefcountExact'
BY DEF CalmInv, RefcountExact, Holding

\* A request that comes, fails or lists does not disturb the others.
LEMMA ClientsCalm ==
    ASSUME CalmInv, NEW c \in Clients,
           \/ UploadPart(c) \/ SelectParts(c) \/ Abort(c) \/ PutMultipartPart(c)
           \/ LockAndList(c) \/ ListForAbort(c) \/ Fail(c)
    PROVE  RefcountExact' /\ ListedAll' /\ \A x \in Clients : Replacing(x)'
<1> USE DEF CalmInv, IInv, TypeOK
<1>1. /\ UNCHANGED <<part, object, count, reaperVars>>
      /\ \A x \in Clients \ {c} : /\ pc'[x] = pc[x] /\ upload'[x] = upload[x] /\ number'[x] = number[x]
                                  /\ was'[x] = was[x] /\ listed'[x] = listed[x]
      /\ \A r \in Reapers : listed'[r] = listed[r]
  <2>1. CASE UploadPart(c) \/ SelectParts(c) \/ Abort(c)
    BY <2>1 DEF UploadPart, SelectParts, Abort, Require, Goto, tables
  <2>2. CASE PutMultipartPart(c) \/ LockAndList(c) \/ ListForAbort(c)
    BY <2>2, ActorsAssumption DEF PutMultipartPart, LockAndList, ListForAbort, Goto, tables, Actors
  <2>3. CASE Fail(c)
    BY <2>3, ActorsAssumption DEF Fail, Finish, Goto, tables, Actors
  <2> QED
    BY <2>1, <2>2, <2>3
<1>2. RefcountExact'
  BY <1>1, QuietKeeps
<1>3. \/ pc'[c] \notin {"written", "completing", "aborting"}
      \/ pc'[c] = "written" /\ PutMultipartPart(c)
      \/ pc'[c] \in {"completing", "aborting"} /\ listed'[c] = part[upload[c]] /\ upload'[c] = upload[c]
  <2>1. CASE UploadPart(c) \/ SelectParts(c) \/ Abort(c)
    BY <2>1 DEF UploadPart, SelectParts, Abort, Goto
  <2>2. CASE PutMultipartPart(c)
    BY <2>2 DEF PutMultipartPart, Goto
  <2>3. CASE LockAndList(c) \/ ListForAbort(c)
    BY <2>3 DEF LockAndList, ListForAbort, Goto, Actors
  <2>4. CASE Fail(c)
    BY <2>4 DEF Fail, Finish, Goto
  <2> QED
    BY <2>1, <2>2, <2>3, <2>4
<1>4. ListedAll'
  <2>1. ASSUME NEW x \in Clients, pc'[x] \in {"completing", "aborting"} PROVE listed'[x] = part'[upload'[x]]
    BY <1>1, <1>3, <2>1 DEF ListedAll
  <2>2. ASSUME NEW r \in Reapers, rpc'[r] = "reaping" PROVE listed'[r] = part'[victim'[r]]
    BY <1>1, <2>2 DEF ListedAll, reaperVars
  <2> QED
    BY <2>1, <2>2 DEF ListedAll
<1>5. ASSUME NEW x \in Clients PROVE Replacing(x)'
  <2>1. CASE pc'[c] # "written"
    BY <1>1, <2>1 DEF Replacing
  <2>2. CASE PutMultipartPart(c)
    <3>1. /\ was'[c] = part[upload[c]][number[c]] /\ upload'[c] = upload[c] /\ number'[c] = number[c]
          /\ ~PartLocked(upload[c], number[c])
      BY <2>2 DEF PutMultipartPart
    <3>2. CASE x = c
      BY <1>1, <3>1, <3>2 DEF Replacing, PartLocked
    <3>3. CASE x # c
      BY <1>1, <3>1, <3>3 DEF Replacing, PartLocked
    <3> QED
      BY <3>2, <3>3
  <2> QED
    BY <1>3, <2>1, <2>2
<1> QED
  BY <1>2, <1>4, <1>5

\* A part that is committed takes the place it was to take, and is counted.
LEMMA CommitCalm ==
    ASSUME CalmInv, NEW c \in Clients, CommitPart(c)
    PROVE  RefcountExact' /\ ListedAll' /\ \A x \in Clients : Replacing(x)'
<1>1. /\ pc[c] = "written" /\ part' = [part EXCEPT ![upload[c]][number[c]] = blob[c]]
      /\ count' = Recount(blob[c], was[c], NoParts) /\ UNCHANGED <<state, object, listed, reaperVars>>
      /\ pc' = [pc EXCEPT ![c] = "idle"]
      /\ \A x \in Clients \ {c} : upload'[x] = upload[x] /\ number'[x] = number[x] /\ was'[x] = was[x]
  BY DEF CommitPart, Finish, Goto, CalmInv, IInv, TypeOK
<1>2. PICK u \in Uploads, n \in Numbers, b \in Digests : u = upload[c] /\ n = number[c] /\ b = blob[c]
  BY <1>1 DEF CalmInv, IInv, Located
<1>3. part' = [part EXCEPT ![u][n] = b]
  BY <1>1, <1>2
<1>4. was[c] = part[u][n] /\ part \in [Uploads -> Parts]
  BY <1>1, <1>2 DEF CalmInv, IInv, TypeOK, Replacing
<1>5. ASSUME NEW d \in Digests PROVE count'[d] = Holding(d)'
  <2> DEFINE had == Cardinality(Pairs(part, d))
             has == Cardinality(Pairs(part', d))
  <2>1. part' \in [Uploads -> Parts]
    BY <1>2, <1>3, <1>4 DEF Parts, Blob
  <2>2. has = had + (IF b = d THEN 1 ELSE 0) - (IF part[u][n] = d THEN 1 ELSE 0)
    <3>1. part \in [Uploads -> Parts]
      BY <1>4
    <3>2. PICK f \in [Uploads -> Parts] : f = part
      BY <3>1
    <3>3. PICK g \in [Uploads -> Parts] : g = part'
      BY <2>1
    <3>4. g = [f EXCEPT ![u][n] = b]
      BY <1>3, <3>2, <3>3
    <3>5. g = With(f, u, n, b)
      BY <3>4 DEF With
    <3>6. PICK rest \in Nat :
             /\ Cardinality(Pairs(f, d)) = (IF f[u][n] = d THEN rest + 1 ELSE rest)
             /\ Cardinality(Pairs(With(f, u, n, b), d)) = (IF b = d THEN rest + 1 ELSE rest)
      BY OneReplaced
    <3>7. had = (IF part[u][n] = d THEN rest + 1 ELSE rest) /\ has = (IF b = d THEN rest + 1 ELSE rest)
      BY <3>2, <3>3, <3>5, <3>6
    <3> HIDE DEF had, has
    <3> QED
      BY <3>7
  <2>3. had \in Nat /\ has \in Nat
    BY Finite
  <2>4. count[d] = (IF object = d THEN 1 ELSE 0) + had
    BY HeldBy DEF CalmInv, RefcountExact
  <2>5. Cardinality(Of(NoParts, d)) = 0
    <3>1. Of(NoParts, d) = {}
      BY ContentsAssumption DEF Of, NoParts
    <3> QED
      BY <3>1, FS_EmptySet
  <2>6. Holding(d)' = (IF object = d THEN 1 ELSE 0) + has
    <3>1. object' = object
      BY <1>1
    <3> QED
      BY <3>1 DEF Holding, Pairs, B
  <2> HIDE DEF had, has
  <2>7. count[d] + (IF b = d THEN 1 ELSE 0) - (IF part[u][n] = d THEN 1 ELSE 0) - 0
           = (IF object = d THEN 1 ELSE 0) + has
    BY <2>2, <2>3, <2>4
  <2>8. (IF object = d THEN 1 ELSE 0) + has \in Nat
    BY <2>3
  <2>9. Recount(b, part[u][n], NoParts)[d] = (IF object = d THEN 1 ELSE 0) + has
    BY <2>5, <2>7, <2>8, Recounted DEF CalmInv, IInv
  <2> QED
    BY <1>1, <1>2, <1>4, <2>6, <2>9
<1>6. \A x \in Clients \ {c} : pc'[x] = pc[x]
  BY <1>1 DEF CalmInv, IInv, TypeOK
<1>7. pc'[c] = "idle"
  BY <1>1 DEF CalmInv, IInv, TypeOK
<1>8. \A v \in Uploads \ {u} : part'[v] = part[v]
  BY <1>3, <1>4
<1>9. Releasing(u) = {}
  BY <1>1, <1>2 DEF CalmInv, OneRelease, Writing
<1>10. ListedAll'
  <2>1. ASSUME NEW x \in Clients, pc'[x] \in {"completing", "aborting"} PROVE listed'[x] = part'[upload'[x]]
    <3>1. x # c /\ pc[x] \in {"completing", "aborting"} /\ upload'[x] = upload[x]
      BY <1>1, <1>6, <1>7, <2>1
    <3>2. upload[x] \in Uploads \ {u}
      BY <1>9, <3>1 DEF Releasing, CalmInv, IInv, Located
    <3> QED
      BY <1>1, <1>8, <3>1, <3>2 DEF CalmInv, ListedAll
  <2>2. ASSUME NEW r \in Reapers, rpc'[r] = "reaping" PROVE listed'[r] = part'[victim'[r]]
    <3>1. rpc[r] = "reaping" /\ victim'[r] = victim[r]
      BY <1>1, <2>2 DEF reaperVars
    <3>2. victim[r] \in Uploads \ {u}
      BY <1>9, <3>1 DEF Releasing, CalmInv, IInv
    <3> QED
      BY <1>1, <1>8, <3>1, <3>2 DEF CalmInv, ListedAll
  <2> QED
    BY <2>1, <2>2 DEF ListedAll
<1>11. ASSUME NEW x \in Clients PROVE Replacing(x)'
  <2>1. SUFFICES ASSUME pc'[x] = "written" PROVE Replacing(x)'
    BY DEF Replacing
  <2>2. x # c /\ pc[x] = "written" /\ upload[x] \in Uploads /\ number[x] \in Numbers
    BY <1>6, <1>7, <2>1 DEF CalmInv, IInv, Located
  <2>3. ~(upload[x] = u /\ number[x] = n)
    BY <1>1, <1>2, <2>2 DEF CalmInv, Replacing
  <2>4. part'[upload[x]][number[x]] = part[upload[x]][number[x]]
    BY <1>3, <1>4, <2>2, <2>3 DEF Parts
  <2> QED
    BY <1>1, <1>6, <1>7, <2>2, <2>4 DEF CalmInv, Replacing
<1> QED
  BY <1>5, <1>10, <1>11 DEF RefcountExact

\* The parts of an upload go with it, and one release is counted for each.
LEMMA DropCounts ==
    ASSUME CalmInv, NEW u \in Uploads, DropUpload(u), NEW gained \in Blob, NEW lost \in Blob,
           NEW ps, ps = part[u], count' = Recount(gained, lost, ps),
           \/ lost = object /\ object' = gained
           \/ lost = None /\ gained = None /\ object' = object
    PROVE  RefcountExact'
<1>1. part' = [part EXCEPT ![u] = NoParts] /\ part \in [Uploads -> Parts]
  BY DEF DropUpload, CalmInv, IInv, TypeOK
<1>2. ASSUME NEW d \in Digests PROVE count'[d] = Holding(d)'
  <2> DEFINE had == Cardinality(Pairs(part, d))
             has == Cardinality(Pairs(part', d))
             gone == Cardinality(Of(ps, d))
             before == IF object = d THEN 1 ELSE 0
             after == IF object' = d THEN 1 ELSE 0
             n == count[d] + (IF gained = d THEN 1 ELSE 0) - (IF lost = d THEN 1 ELSE 0) - gone
  <2>1. has = had - gone
    BY <1>1, ContentsAssumption, AllDropped
  <2>2. had \in Nat /\ has \in Nat /\ gone \in Nat
    BY Finite
  <2>3. count[d] = before + had
    BY HeldBy DEF CalmInv, RefcountExact
  <2>4. Holding(d)' = after + has
    BY DEF Holding, Pairs, B
  <2>5. (IF gained = d THEN 1 ELSE 0) - (IF lost = d THEN 1 ELSE 0) = after - before
    <3>1. CASE lost = object /\ object' = gained
      BY <3>1
    <3>2. CASE lost = None /\ gained = None /\ object' = object
      BY <3>2, ContentsAssumption
    <3> QED
      BY <3>1, <3>2
  <2>6. n \in Nat => Recount(gained, lost, ps)[d] = n
    BY Recounted DEF CalmInv, IInv
  <2>7. before \in Nat /\ after \in Nat /\ (IF gained = d THEN 1 ELSE 0) \in Nat
        /\ (IF lost = d THEN 1 ELSE 0) \in Nat
    OBVIOUS
  <2> HIDE DEF had, has, gone, before, after
  <2>8. n = after + has
    BY <2>1, <2>2, <2>3, <2>5, <2>7
  <2>9. n \in Nat
    BY <2>2, <2>7, <2>8
  <2> HIDE DEF n
  <2> QED
    BY <2>4, <2>6, <2>8, <2>9
<1> QED
  BY <1>2 DEF RefcountExact

\* Who else writes or releases does so with another upload.
LEMMA DropIsAlone ==
    ASSUME CalmInv, NEW u \in Uploads, DropUpload(u), NEW a \in Releasing(u),
           \A x \in Clients \ {a} : /\ pc'[x] = pc[x] /\ upload'[x] = upload[x] /\ number'[x] = number[x]
                                    /\ was'[x] = was[x] /\ listed'[x] = listed[x],
           \A r \in Reapers \ {a} : rpc'[r] = rpc[r] /\ victim'[r] = victim[r] /\ listed'[r] = listed[r],
           a \in Clients => pc'[a] = "idle", a \in Reapers => rpc'[a] # "reaping"
    PROVE  ListedAll' /\ \A x \in Clients : Replacing(x)'
<1>1. \A v \in Uploads \ {u} : part'[v] = part[v]
  BY DEF DropUpload, CalmInv, IInv, TypeOK
<1>2. \A b \in Releasing(u) : b = a
  BY AloneWithParts DEF CalmInv
<1>3. ASSUME NEW x \in Clients, pc'[x] \in {"completing", "aborting"} PROVE listed'[x] = part'[upload'[x]]
  <2>1. x # a /\ pc[x] \in {"completing", "aborting"} /\ upload'[x] = upload[x] /\ listed'[x] = listed[x]
    BY <1>3
  <2>2. upload[x] \in Uploads \ {u}
    BY <1>2, <2>1 DEF Releasing, CalmInv, IInv, Located
  <2> QED
    BY <1>1, <2>1, <2>2 DEF CalmInv, ListedAll
<1>4. ASSUME NEW r \in Reapers, rpc'[r] = "reaping" PROVE listed'[r] = part'[victim'[r]]
  <2>1. r # a /\ rpc[r] = "reaping" /\ victim'[r] = victim[r] /\ listed'[r] = listed[r]
    BY <1>4
  <2>2. victim[r] \in Uploads \ {u}
    BY <1>2, <2>1 DEF Releasing, CalmInv, IInv
  <2> QED
    BY <1>1, <2>1, <2>2 DEF CalmInv, ListedAll
<1>5. ASSUME NEW x \in Clients PROVE Replacing(x)'
  <2>1. SUFFICES ASSUME pc'[x] = "written" PROVE Replacing(x)'
    BY DEF Replacing
  <2>2. x # a /\ pc[x] = "written" /\ upload'[x] = upload[x] /\ number'[x] = number[x] /\ was'[x] = was[x]
    BY <2>1
  <2>3. upload[x] \in Uploads \ {u}
    BY <2>2 DEF DropUpload, InUse, CalmInv, IInv, Located
  <2>4. was'[x] = part'[upload'[x]][number'[x]]
    BY <1>1, <2>2, <2>3 DEF CalmInv, Replacing
  <2>5. \A d \in Clients \ {x} : ~(pc'[d] = "written" /\ upload'[d] = upload'[x] /\ number'[d] = number'[x])
    BY <2>2 DEF CalmInv, Replacing
  <2> QED
    BY <2>4, <2>5 DEF Replacing
<1> QED
  BY <1>3, <1>4, <1>5 DEF ListedAll

\* A completion or an abort.
LEMMA ReleaseCalm ==
    ASSUME CalmInv, NEW c \in Clients, CompleteMultipartUpload(c) \/ AbortMultipartUpload(c)
    PROVE  RefcountExact' /\ ListedAll' /\ \A x \in Clients : Replacing(x)'
<1>1. /\ pc[c] \in {"completing", "aborting"} /\ DropUpload(upload[c]) /\ Finish(c)
      /\ listed' = [listed EXCEPT ![c] = NoParts] /\ upload[c] \in Uploads /\ listed[c] = part[upload[c]]
  BY DEF CompleteMultipartUpload, AbortMultipartUpload, CalmInv, IInv, Located, ListedAll
<1>2. PICK u \in Uploads : u = upload[c]
  BY <1>1
<1>3. PICK ps : u = upload[c] /\ ps = part[u]
  BY <1>2
<1>4. c \in Releasing(u)
  BY <1>1, <1>3 DEF Releasing
<1>5. RefcountExact'
  <2>1. CASE CompleteMultipartUpload(c)
    <3>1. PICK b \in Blob, o \in Blob : b = blob[c] /\ o = object
      BY DEF CalmInv, IInv, TypeOK
    <3> QED
      BY <1>1, <1>3, <2>1, <3>1, DropCounts DEF CompleteMultipartUpload
  <2>2. CASE AbortMultipartUpload(c)
    BY <1>1, <1>3, <2>2, DropCounts DEF AbortMultipartUpload, Blob
  <2> QED
    BY <2>1, <2>2
<1>6. /\ \A x \in Clients \ {c} : /\ pc'[x] = pc[x] /\ upload'[x] = upload[x] /\ number'[x] = number[x]
                                  /\ was'[x] = was[x] /\ listed'[x] = listed[x]
      /\ \A r \in Reapers \ {c} : rpc'[r] = rpc[r] /\ victim'[r] = victim[r] /\ listed'[r] = listed[r]
      /\ pc'[c] = "idle" /\ c \notin Reapers
  BY <1>1, ActorsAssumption DEF Finish, Goto, reaperVars, CalmInv, IInv, TypeOK, Actors
<1>7. DropUpload(u)
  BY <1>1, <1>3
<1> QED
  BY <1>4, <1>5, <1>6, <1>7, DropIsAlone

\* A write of the object itself.
LEMMA OverwriteCalm ==
    ASSUME CalmInv, Overwrite
    PROVE  RefcountExact' /\ ListedAll' /\ \A x \in Clients : Replacing(x)'
<1>1. PICK b \in Blob : object' = b /\ count' = Recount(b, object, NoParts)
  BY DEF Overwrite
<1>2. UNCHANGED <<part, clientVars, listed, reaperVars>>
  BY DEF Overwrite
<1>3. ASSUME NEW d \in Digests PROVE count'[d] = Holding(d)'
  <2> DEFINE had == Cardinality(Pairs(part, d))
             before == IF object = d THEN 1 ELSE 0
             after == IF b = d THEN 1 ELSE 0
  <2>1. had \in Nat /\ before \in Nat /\ after \in Nat
    BY Finite
  <2>2. count[d] = before + had
    BY HeldBy DEF CalmInv, RefcountExact
  <2>3. Cardinality(Of(NoParts, d)) = 0
    <3>1. Of(NoParts, d) = {}
      BY ContentsAssumption DEF Of, NoParts
    <3> QED
      BY <3>1, FS_EmptySet
  <2>4. Holding(d)' = after + had
    BY <1>1, <1>2 DEF Holding, Pairs, B
  <2>5. count[d] + after - before - 0 \in Nat =>
            Recount(b, object, NoParts)[d] = count[d] + after - before - 0
    BY <2>3, Recounted DEF CalmInv, IInv
  <2> HIDE DEF had, before, after
  <2>6. count[d] + after - before - 0 = after + had /\ after + had \in Nat
    BY <2>1, <2>2
  <2> QED
    BY <1>1, <2>4, <2>5, <2>6
<1> QED
  BY <1>2, <1>3 DEF RefcountExact, CalmInv, ListedAll, Replacing, clientVars, reaperVars

\* A reaper lists, releases or stops.
LEMMA ReaperCalm ==
    ASSUME CalmInv, NEW r \in Reapers, ReaperStep(r)
    PROVE  RefcountExact' /\ ListedAll' /\ \A x \in Clients : Replacing(x)'
<1>1. /\ UNCHANGED clientVars
      /\ \A s \in Reapers \ {r} : rpc'[s] = rpc[s] /\ victim'[s] = victim[s] /\ listed'[s] = listed[s]
      /\ \A x \in Clients : listed'[x] = listed[x]
  <2>1. CASE ListAbandoned(r)
    BY <2>1 DEF ListAbandoned, CalmInv, IInv, TypeOK
  <2>2. CASE ListForReap(r)
    BY <2>2, ActorsAssumption DEF ListForReap, CalmInv, IInv, TypeOK, Actors
  <2>3. CASE Reap(r) \/ ReapFails(r)
    BY <2>3, ActorsAssumption DEF Reap, ReapFails, ReapNext, CalmInv, IInv, TypeOK, Actors
  <2> QED
    BY <2>1, <2>2, <2>3 DEF ReaperStep
<1>2. CASE ListAbandoned(r) \/ ListForReap(r) \/ ReapFails(r)
  <2>1. UNCHANGED <<part, object, count>>
    BY <1>2 DEF ListAbandoned, ListForReap, ReapFails, tables
  <2>2. rpc'[r] = "reaping" => listed'[r] = part[victim'[r]]
    <3>1. CASE ListAbandoned(r)
      BY <3>1 DEF ListAbandoned, CalmInv, IInv, TypeOK
    <3>2. CASE ListForReap(r)
      BY <3>2 DEF ListForReap, CalmInv, IInv, TypeOK, Actors
    <3>3. CASE ReapFails(r)
      BY <3>3 DEF ReapFails, ReapNext, CalmInv, IInv, TypeOK
    <3> QED
      BY <1>2, <3>1, <3>2, <3>3
  <2>3. ListedAll'
    <3>1. ASSUME NEW x \in Clients, pc'[x] \in {"completing", "aborting"} PROVE listed'[x] = part'[upload'[x]]
      BY <1>1, <2>1, <3>1 DEF ListedAll, CalmInv, clientVars
    <3>2. ASSUME NEW s \in Reapers, rpc'[s] = "reaping" PROVE listed'[s] = part'[victim'[s]]
      BY <1>1, <2>1, <2>2, <3>2 DEF ListedAll, CalmInv
    <3> QED
      BY <3>1, <3>2 DEF ListedAll
  <2>4. \A x \in Clients : Replacing(x)'
    BY <1>1, <2>1 DEF Replacing, CalmInv, clientVars
  <2> QED
    BY <2>1, <2>3, <2>4, QuietKeeps
<1>3. CASE Reap(r)
  <2>1. PICK u \in Uploads : u = victim[r]
    BY <1>3 DEF Reap, CalmInv, IInv
  <2>2. PICK ps : u = victim[r] /\ ps = part[u]
    BY <2>1
  <2>3. rpc[r] = "reaping" /\ DropUpload(u) /\ listed[r] = ps /\ UNCHANGED object
    BY <1>3, <2>2 DEF Reap, CalmInv, ListedAll
  <2>4. RefcountExact'
    BY <1>3, <2>2, <2>3, DropCounts DEF Reap, Blob
  <2>5. r \in Releasing(u) /\ r \notin Clients
    BY <2>2, <2>3, ActorsAssumption DEF Releasing
  <2>6. rpc'[r] # "reaping"
    BY <1>3 DEF Reap, ReapNext, CalmInv, IInv, TypeOK
  <2>7. \A x \in Clients : /\ pc'[x] = pc[x] /\ upload'[x] = upload[x] /\ number'[x] = number[x]
                            /\ was'[x] = was[x] /\ listed'[x] = listed[x]
    BY <1>1 DEF clientVars
  <2> QED
    BY <1>1, <2>3, <2>4, <2>5, <2>6, <2>7, DropIsAlone
<1> QED
  BY <1>2, <1>3 DEF ReaperStep

\* An upload begins or grows old.
LEMMA UploadCalm ==
    ASSUME CalmInv, NEW u \in Uploads, CreateMultipartUpload(u) \/ Age(u)
    PROVE  RefcountExact' /\ ListedAll' /\ \A x \in Clients : Replacing(x)'
<1>1. UNCHANGED <<part, object, count, clientVars, listed, reaperVars>>
  BY DEF CreateMultipartUpload, Age, tables
<1> QED
  BY <1>1, QuietKeeps DEF CalmInv, ListedAll, Replacing, clientVars, reaperVars

\* At the start nothing is held and nobody is at work.
LEMMA CalmInitially == Init => CalmInv
<1> SUFFICES ASSUME Init PROVE CalmInv
  OBVIOUS
<1>1. OneRelease
  <2>1. \A u \in Uploads : Releasing(u) = {}
    BY DEF Init, Releasing
  <2> QED
    BY <2>1, FS_EmptySet DEF OneRelease
<1>2. (\A c \in Clients : Replacing(c)) /\ ListedAll
  BY DEF Init, Replacing, ListedAll
<1>3. ASSUME NEW d \in Digests PROVE count[d] = Holding(d)
  <2>1. Pairs(part, d) = {}
    BY ContentsAssumption DEF Init, Pairs, NoParts
  <2> QED
    BY <2>1, HeldBy, FS_EmptySet, ContentsAssumption DEF Init
<1> QED
  BY <1>1, <1>2, <1>3, Initially DEF CalmInv, RefcountExact

\* The invariant holds after each step that leaves one release at a time.
LEMMA CalmKeeps == CalmInv /\ [Next /\ OneRelease']_vars => CalmInv'
<1> SUFFICES ASSUME CalmInv, [Next /\ OneRelease']_vars PROVE CalmInv'
  OBVIOUS
<1>1. IInv'
  BY NextKeeps DEF CalmInv
<1>2. CASE UNCHANGED vars
  <2>1. UNCHANGED <<part, object, count>> /\ UNCHANGED <<clientVars, listed, reaperVars>>
    BY <1>2 DEF vars, tables
  <2>2. RefcountExact'
    BY <2>1, QuietKeeps
  <2>3. OneRelease'
    BY <2>1 DEF CalmInv, OneRelease, Releasing, Writing, clientVars, reaperVars
  <2>4. ListedAll' /\ \A x \in Clients : Replacing(x)'
    BY <2>1 DEF CalmInv, ListedAll, Replacing, clientVars, reaperVars
  <2> QED
    BY <1>1, <2>2, <2>3, <2>4 DEF CalmInv
<1>3. CASE Next /\ OneRelease'
  <2>1. ASSUME NEW c \in Clients, ClientStep(c)
        PROVE  RefcountExact' /\ ListedAll' /\ \A x \in Clients : Replacing(x)'
    BY <2>1, ClientsCalm, CommitCalm, ReleaseCalm DEF ClientStep
  <2>2. RefcountExact' /\ ListedAll' /\ \A x \in Clients : Replacing(x)'
    BY <1>3, <2>1, UploadCalm, OverwriteCalm, ReaperCalm DEF Next
  <2> QED
    BY <1>1, <1>3, <2>2 DEF CalmInv
<1> QED
  BY <1>2, <1>3

\* RefcountExact: while one transaction at a time lists and releases the parts of an
\* upload, each blob's refcount is the number of the parts and objects made of it.
THEOREM RefcountsAreExact == CalmSpec => []RefcountExact
<1>1. CalmInv => RefcountExact
  BY DEF CalmInv
<1> QED
  BY <1>1, CalmInitially, CalmKeeps, PTL DEF CalmSpec
=============================================================================
