-------------------------- MODULE KeyHistoryProofs --------------------------
(***************************************************************************)
(* Proofs about KeyHistory.  Ids and timestamps are the starts of          *)
(* transactions: the invariant below says that what a transaction is still *)
(* to write is new to both tables, and what a promotion holds between its  *)
(* two steps.  The last part proves that the tables are the list of        *)
(* VersionList: the rows in the order of their times are a stack, and each *)
(* write does one thing to it.                                             *)
(***************************************************************************)
EXTENDS KeyHistoryList, FiniteSetTheorems, SequenceTheorems, TLAPS

InTx(w) == pc[w] \in {"begun", "promoting"}

\* Every transaction has a start of its own.
StartsDiffer ==
    \A w \in Writers : InTx(w) =>
        /\ start[w] \in 1..clock
        /\ \A x \in Writers \ {w} : InTx(x) => start[x] # start[w]

\* The transaction that started at t, if any, is over.
Past(t) == t <= clock /\ \A w \in Writers : InTx(w) => start[w] # t

\* Row v was written by transactions that are over.
Settled(v) == Past(v.at) /\ (v.id # NullId => Past(v.id))

RowsSettled == \A v \in Rows : Settled(v)

\* No row is in both tables.
Disjoint == current # NoObject => current \notin history

\* Between its two steps a promotion knows a version that may have been purged
\* but cannot have been replaced.
PromotionOf(w) ==
    /\ op[w].kind = "deleteVersion"
    /\ removed[w] \in Row /\ removed[w].id = op[w].id
    /\ newest[w] \in Row /\ newest[w].body # Marker /\ Settled(newest[w])
    /\ newest[w].id # NullId => newest[w].id # removed[w].id
    /\ current \in {removed[w], NoObject}
    /\ \A v \in history : v.id = newest[w].id => v = newest[w]
    /\ \A x \in Writers \ {w} : pc[x] # "promoting"

\* The inductive invariant of Spec.
IInv ==
    /\ TypeOK
    /\ IsFiniteSet(history)
    /\ StartsDiffer
    /\ RowsSettled
    /\ Disjoint
    /\ OneHome
    /\ \A w \in Writers : pc[w] = "promoting" => PromotionOf(w)

\* When the purges stay clear of promotions, both rows are still there.
Undisturbed ==
    \A w \in Writers : pc[w] = "promoting" =>
        /\ newest[w] \in history \ {removed[w]}
        /\ removed[w] \in Rows
-----------------------------------------------------------------------------
(* Counts.                                                                 *)

\* Counts stay natural numbers.
LEMMA CountsTyped ==
    ASSUME NEW c \in [Blobs -> Nat], NEW v
    PROVE  Retain(c, v) \in [Blobs -> Nat] /\ Release(c, v) \in [Blobs -> Nat]
BY DEF Retain, Release, B, Sub1

\* Also those of the version that is replaced.
LEMMA ReleaseCurrentTyped ==
    ASSUME NEW w, NEW c \in [Blobs -> Nat]
    PROVE  ReleaseCurrent(w, c) \in [Blobs -> Nat]
BY CountsTyped DEF ReleaseCurrent

-----------------------------------------------------------------------------
(* Every action preserves the invariant.                                   *)

\* When its transaction ends, what was new becomes past.
LEMMA PastAfter ==
    ASSUME IInv, NEW w \in Writers, InTx(w), Finish(w), NEW t, Past(t) \/ t = start[w]
    PROVE  Past(t)'
BY DEF IInv, TypeOK, StartsDiffer, InTx, Past, Finish

\* A transaction that holds the key's lock ends with rows that are typed, in one
\* table each and its own or old.
LEMMA Commit ==
    ASSUME IInv, NEW w \in Writers, InTx(w), Finish(w),
           \A x \in Writers \ {w} : pc[x] # "promoting",
           current' \in Row \cup {NoObject},
           current' # NoObject => current'.body # Marker /\ current' \notin history',
           history' \subseteq Row, IsFiniteSet(history'),
           \A u, v \in history' : u.id = v.id => u = v,
           count' \in [Blobs -> Nat],
           OneHome',
           \A v \in Rows' : /\ Past(v.at) \/ v.at = start[w]
                            /\ v.id = NullId \/ Past(v.id) \/ v.id = start[w]
    PROVE  IInv'
<1>1. TypeOK'
  BY TimeAssumption DEF IInv, TypeOK, Finish, States
<1>2. StartsDiffer'
  BY DEF IInv, TypeOK, StartsDiffer, InTx, Finish
<1>3. RowsSettled'
  <2> SUFFICES ASSUME NEW v \in Rows'
               PROVE  Settled(v)'
    BY DEF RowsSettled
  <2>1. Past(v.at)'
    BY PastAfter
  <2>2. v.id # NullId => Past(v.id)'
    BY PastAfter
  <2> QED BY <2>1, <2>2 DEF Settled
<1>4. \A x \in Writers : pc'[x] # "promoting"
  BY DEF IInv, TypeOK, Finish
<1>5. Disjoint'
  BY DEF Disjoint
<1> QED BY <1>1, <1>2, <1>3, <1>4, <1>5 DEF IInv

\* A request that arrives has no transaction yet.
LEMMA ArriveStep ==
    ASSUME IInv, NEW w \in Writers, Arrive(w)
    PROVE  IInv'
<1> USE DEF Arrive, tables
<1>1. TypeOK'
  BY DEF IInv, TypeOK, Answers, States
<1>2. /\ \A x \in Writers : InTx(x)' <=> InTx(x)
      /\ \A x \in Writers : pc'[x] = "promoting" <=> pc[x] = "promoting"
      /\ \A x \in Writers : pc[x] = "promoting" => op'[x] = op[x]
  BY DEF IInv, TypeOK, InTx
<1>3. StartsDiffer'
  BY <1>2 DEF IInv, StartsDiffer
<1>4. RowsSettled' /\ Disjoint' /\ OneHome'
  BY <1>2 DEF IInv, RowsSettled, Settled, Past, Rows, Disjoint, OneHome
<1>5. \A x \in Writers : pc'[x] = "promoting" => PromotionOf(x)'
  BY <1>2 DEF IInv, PromotionOf, Settled, Past
<1> QED BY <1>1, <1>3, <1>4, <1>5 DEF IInv

\* A transaction starts after everything that is written.
LEMMA BeginStep ==
    ASSUME IInv, NEW w \in Writers, Begin(w)
    PROVE  IInv'
<1> USE DEF Begin, tables
<1>1. TypeOK'
  BY TimeAssumption DEF IInv, TypeOK
<1>2. StartsDiffer'
  BY TimeAssumption DEF IInv, TypeOK, StartsDiffer, InTx
<1>3. \A t \in Int : Past(t) => Past(t)'
  BY TimeAssumption DEF IInv, TypeOK, Past, InTx
<1>4. \A v \in Row : Settled(v) => Settled(v)'
  BY <1>3, TimeAssumption DEF Settled, Row, Ids, Times
<1>5. RowsSettled'
  BY <1>4 DEF IInv, TypeOK, RowsSettled, Rows
<1>6. Disjoint' /\ OneHome'
  BY DEF IInv, Disjoint, OneHome
<1>7. \A x \in Writers : pc'[x] = "promoting" => PromotionOf(x)'
  BY <1>4 DEF IInv, TypeOK, PromotionOf
<1> QED BY <1>1, <1>2, <1>5, <1>6, <1>7 DEF IInv

\* The settings of the bucket are no part of it.
LEMMA PutVersioningStep ==
    ASSUME IInv, PutVersioning
    PROVE  IInv'
<1> USE DEF PutVersioning, tables, locals
<1>1. TypeOK'
  BY ModesAssumption DEF IInv, TypeOK, States
<1>2. StartsDiffer' /\ RowsSettled' /\ Disjoint' /\ OneHome'
  BY DEF IInv, StartsDiffer, InTx, RowsSettled, Settled, Past, Rows, Disjoint, OneHome
<1>3. \A x \in Writers : pc'[x] = "promoting" => PromotionOf(x)'
  BY DEF IInv, PromotionOf, Settled, Past, InTx
<1> QED BY <1>1, <1>2, <1>3 DEF IInv

\* A row less in the history leaves the rest as it was.
LEMMA PurgeStep ==
    ASSUME IInv, history' \subseteq history, count' \in [Blobs -> Nat],
           UNCHANGED <<versioning, current, clock, pc, locals>>
    PROVE  IInv'
<1> USE DEF locals
<1>1. TypeOK'
  BY DEF IInv, TypeOK
<1>2. IsFiniteSet(history')
  BY FS_Subset DEF IInv
<1>3. StartsDiffer' /\ RowsSettled' /\ Disjoint' /\ OneHome'
  BY DEF IInv, StartsDiffer, InTx, RowsSettled, Settled, Past, Rows, Disjoint, OneHome
<1>4. \A x \in Writers : pc'[x] = "promoting" => PromotionOf(x)'
  BY DEF IInv, PromotionOf, Settled, Past, InTx
<1> QED BY <1>1, <1>2, <1>3, <1>4 DEF IInv

\* One version.
LEMMA PurgeVersionStep ==
    ASSUME IInv, PurgeVersion
    PROVE  IInv'
<1>1. history' \subseteq history /\ count' \in [Blobs -> Nat]
  BY CountsTyped DEF PurgeVersion, IInv, TypeOK
<1> QED BY <1>1, PurgeStep DEF PurgeVersion

\* All of them.
LEMMA PurgeKeyVersionsStep ==
    ASSUME IInv, PurgeKeyVersions
    PROVE  IInv'
<1>1. \A b \in Blobs : Cardinality({v \in history : v.body = b}) \in Nat
  BY FS_Subset, FS_CardinalityType DEF IInv
<1>2. history' \subseteq history /\ count' \in [Blobs -> Nat]
  BY <1>1 DEF PurgeKeyVersions, IInv, TypeOK
<1> QED BY <1>2, PurgeStep DEF PurgeKeyVersions

\* Nothing is written, or what was is undone.
LEMMA RollbackStep ==
    ASSUME IInv, NEW w \in Writers, Finish(w), UNCHANGED tables
    PROVE  IInv'
<1> USE DEF tables, Finish
<1>1. TypeOK'
  BY TimeAssumption DEF IInv, TypeOK, States
<1>2. \A x \in Writers : /\ InTx(x)' => InTx(x) /\ x # w
                         /\ pc'[x] = "promoting" => pc[x] = "promoting" /\ x # w
  BY DEF IInv, TypeOK, InTx
<1>3. \A x \in Writers \ {w} : /\ start'[x] = start[x] /\ op'[x] = op[x]
                               /\ removed'[x] = removed[x] /\ newest'[x] = newest[x]
  BY DEF IInv, TypeOK
<1>4. StartsDiffer'
  BY <1>2, <1>3 DEF IInv, StartsDiffer
<1>5. \A t : Past(t) => Past(t)'
  BY <1>2, <1>3 DEF Past
<1>6. RowsSettled' /\ Disjoint' /\ OneHome'
  BY <1>5 DEF IInv, RowsSettled, Settled, Rows, Disjoint, OneHome
<1>7. \A x \in Writers : pc'[x] = "promoting" => PromotionOf(x)'
  BY <1>2, <1>3, <1>5 DEF IInv, PromotionOf, Settled
<1> QED BY <1>1, <1>4, <1>6, <1>7 DEF IInv

\* The successor is another row of the history, with an id of its own.
LEMMA PickSuccessorStep ==
    ASSUME IInv, NEW w \in Writers, PickSuccessor(w)
    PROVE  IInv'
<1>1. PICK v \in Named(w) :
           /\ current \in {v, NoObject}
           /\ \E u \in NewestOf(history \ {v}) :
                 u.body # Marker /\ newest' = [newest EXCEPT ![w] = u]
           /\ removed' = [removed EXCEPT ![w] = v]
  BY DEF PickSuccessor
<1>2. PICK u \in NewestOf(history \ {v}) :
           u.body # Marker /\ newest' = [newest EXCEPT ![w] = u]
  BY <1>1
<1>3. /\ v \in Rows /\ v \in Row /\ v.id = op[w].id /\ u \in history /\ u # v /\ u \in Row
      /\ op[w].kind = "deleteVersion" /\ pc[w] = "begun" /\ \A x \in Writers : pc[x] # "promoting"
  BY <1>1, <1>2 DEF PickSuccessor, Locked, Named, NewestOf, Rows, IInv, TypeOK
<1> USE DEF PickSuccessor, tables
<1>4. TypeOK'
  BY <1>1, <1>2, <1>3 DEF IInv, TypeOK
<1>5. \A x \in Writers : InTx(x)' <=> InTx(x)
  BY <1>3 DEF IInv, TypeOK, InTx
<1>6. StartsDiffer' /\ RowsSettled' /\ Disjoint' /\ OneHome'
  BY <1>5 DEF IInv, StartsDiffer, RowsSettled, Settled, Past, Rows, Disjoint, OneHome
<1>7. u.id # NullId => u.id # v.id
  BY <1>3 DEF Rows, IInv, TypeOK, OneHome
<1>8. Settled(u)'
  BY <1>3, <1>5 DEF IInv, RowsSettled, Rows, Settled, Past
<1>9. \A x \in Writers : pc'[x] = "promoting" => x = w
  BY <1>3 DEF IInv, TypeOK
<1>10. PromotionOf(w)'
  BY <1>1, <1>2, <1>3, <1>7, <1>8, <1>9 DEF PromotionOf, IInv, TypeOK
<1> QED BY <1>4, <1>6, <1>9, <1>10 DEF IInv

\* What w writes under its start is new to both tables, and typed.
LEMMA NewRows ==
    ASSUME IInv, NEW w \in Writers, InTx(w)
    PROVE  /\ start[w] \in Times /\ start[w] # NullId
           /\ \A v \in Rows : /\ v \in Row /\ v.at # start[w] /\ v.id # start[w]
                              /\ Past(v.at) /\ (v.id = NullId \/ Past(v.id))
<1>1. start[w] \in Times /\ start[w] # NullId
  BY TimeAssumption, NamesAssumption DEF IInv, TypeOK, StartsDiffer, Times
<1>2. \A v \in Rows : v \in Row /\ Past(v.at) /\ (v.id = NullId \/ Past(v.id))
  BY DEF IInv, TypeOK, RowsSettled, Settled, Rows
<1>3. ~Past(start[w])
  BY DEF Past
<1> QED BY <1>1, <1>2, <1>3

\* Only one request holds the lock of the key.
LEMMA LockedAlone ==
    ASSUME NEW w \in Writers, Locked(w)
    PROVE  InTx(w) /\ pc[w] = "begun" /\ \A x \in Writers \ {w} : pc[x] # "promoting"
BY DEF Locked, InTx

\* The history with the version that is preserved.
LEMMA SupersededRows ==
    ASSUME IInv, NEW w \in Writers, ~(Preserves(w) /\ Clash(history, current))
    PROVE  LET h == history \cup Superseded(w) IN
           /\ h \subseteq Rows /\ h \subseteq Row /\ IsFiniteSet(h)
           /\ \A u, v \in h : u.id = v.id => u = v
           /\ opts[w] = "enabled" /\ current # NoObject => current \in h
<1>1. CASE Preserves(w)
  <2>1. Superseded(w) = {current} /\ current # NoObject
    BY <1>1 DEF Superseded, Preserves
  <2>2. IsFiniteSet(history \cup {current})
    BY FS_AddElement DEF IInv
  <2>3. \A u \in history : u.id # current.id
    BY <1>1 DEF Clash
  <2> QED BY <2>1, <2>2, <2>3 DEF IInv, TypeOK, Rows
<1>2. CASE ~Preserves(w)
  BY <1>2 DEF Superseded, Preserves, IInv, TypeOK, Rows
<1> QED BY <1>1, <1>2

\* A put gives the key a version with a new id, or the null version.
LEMMA PutObjectStep ==
    ASSUME IInv, NEW w \in Writers, PutObject(w)
    PROVE  IInv'
<1> DEFINE v == [id |-> NewId(w), body |-> op[w].body, at |-> start[w]]
           h == history \cup Superseded(w)
<1>1. /\ Locked(w) /\ op[w].kind = "put" /\ ~(Preserves(w) /\ Clash(history, current))
      /\ current' = v /\ history' = h /\ count' = ReleaseCurrent(w, Retain(count, v))
      /\ Finish(w)
  BY DEF PutObject
<1>2. InTx(w) /\ pc[w] = "begun" /\ \A x \in Writers \ {w} : pc[x] # "promoting"
  BY <1>1, LockedAlone
<1>3. /\ start[w] \in Times /\ start[w] # NullId
      /\ \A u \in Rows : /\ u \in Row /\ u.at # start[w] /\ u.id # start[w]
                         /\ Past(u.at) /\ (u.id = NullId \/ Past(u.id))
  BY <1>2, NewRows
<1>4. h \subseteq Rows /\ h \subseteq Row /\ IsFiniteSet(h) /\ \A t, u \in h : t.id = u.id => t = u
  BY <1>1, SupersededRows
<1>5. op[w].body \in Blobs
  BY <1>1 DEF IInv, TypeOK, Requests, NoRequest
<1>6. v \in Row /\ v.body # Marker /\ v.at = start[w] /\ v.id \in {start[w], NullId}
  BY <1>3, <1>5, NamesAssumption DEF Row, Ids, NewId
<1>7. count' \in [Blobs -> Nat]
  <2>1. Retain(count, v) \in [Blobs -> Nat]
    BY CountsTyped DEF IInv, TypeOK
  <2> QED BY <1>1, <2>1, ReleaseCurrentTyped
<1> HIDE DEF v, h
<1>8. v \notin h
  BY <1>3, <1>4, <1>6
<1>9. OneHome'
  BY <1>1, <1>3, <1>4, <1>6 DEF OneHome
<1>10. \A u \in Rows' : /\ Past(u.at) \/ u.at = start[w]
                        /\ u.id = NullId \/ Past(u.id) \/ u.id = start[w]
  BY <1>1, <1>3, <1>4, <1>6 DEF Rows
<1> QED BY <1>1, <1>2, <1>4, <1>6, <1>7, <1>8, <1>9, <1>10, Commit

\* A delete leaves a marker with a new id, or the null marker in place of the
\* null version, or nothing.
LEMMA DeleteObjectStep ==
    ASSUME IInv, NEW w \in Writers, DeleteObject(w)
    PROVE  IInv'
<1> DEFINE v == [id |-> NewId(w), body |-> Marker, at |-> start[w]]
           h == history \cup Superseded(w)
<1>1. /\ Locked(w) /\ ~(Preserves(w) /\ Clash(history, current)) /\ Finish(w)
      /\ current' = NoObject
      /\ \/ history' = history /\ count' = ReleaseCurrent(w, count)
         \/ opts[w] # "unversioned" /\ MarkDeleted(w)
  BY DEF DeleteObject
<1>2. InTx(w) /\ pc[w] = "begun" /\ \A x \in Writers \ {w} : pc[x] # "promoting"
  BY <1>1, LockedAlone
<1>3. /\ start[w] \in Times /\ start[w] # NullId
      /\ \A u \in Rows : /\ u \in Row /\ u.at # start[w] /\ u.id # start[w]
                         /\ Past(u.at) /\ (u.id = NullId \/ Past(u.id))
  BY <1>2, NewRows
<1>4. h \subseteq Rows /\ h \subseteq Row /\ IsFiniteSet(h) /\ \A t, u \in h : t.id = u.id => t = u
  BY <1>1, SupersededRows
<1>5. OneHome'
  BY <1>1 DEF OneHome
<1>6. CASE history' = history /\ count' = ReleaseCurrent(w, count)
  <2>1. count' \in [Blobs -> Nat]
    BY <1>6, ReleaseCurrentTyped DEF IInv, TypeOK
  <2>2. \A u \in Rows' : Past(u.at) /\ (u.id = NullId \/ Past(u.id))
    BY <1>1, <1>3, <1>6 DEF Rows
  <2>3. history' \subseteq Row /\ IsFiniteSet(history') /\ \A t, u \in history' : t.id = u.id => t = u
    BY <1>6 DEF IInv, TypeOK
  <2> QED BY <1>1, <1>2, <1>5, <2>1, <2>2, <2>3, Commit
<1>7. CASE opts[w] # "unversioned" /\ MarkDeleted(w)
  <2>1. v \in Row /\ v.at = start[w] /\ v.id \in {start[w], NullId}
    BY <1>3 DEF Row, Ids, NewId
  <2>2. \E s \in SUBSET h :
           history' = s \cup {v} /\ (v.id = NullId => \A u \in s : u.id # NullId)
    <3>1. CASE opts[w] = "enabled"
      BY <1>3, <1>7, <3>1 DEF MarkDeleted, NewId
    <3>2. CASE opts[w] = "suspended"
      <4>1. \A u \in Superseded(w) : u.id # NullId
        BY <3>2 DEF Superseded, Preserves
      <4>2. history' = ((history \ Nulls) \cup Superseded(w)) \cup {v}
        BY <1>7, <3>2 DEF MarkDeleted
      <4>3. \A u \in (history \ Nulls) \cup Superseded(w) : u.id # NullId
        BY <4>1 DEF Nulls
      <4> QED BY <4>2, <4>3
    <3> QED BY <1>7, <3>1, <3>2 DEF IInv, TypeOK, States
  <2>3. count' \in [Blobs -> Nat]
    <3>1. PICK c \in [Blobs -> Nat] : count' = ReleaseCurrent(w, c)
      BY <1>7, CountsTyped DEF MarkDeleted, IInv, TypeOK
    <3> QED BY <3>1, ReleaseCurrentTyped
  <2> HIDE DEF v, h
  <2>4. PICK s \in SUBSET h :
           history' = s \cup {v} /\ (v.id = NullId => \A u \in s : u.id # NullId)
    BY <2>2
  <2>5. IsFiniteSet(history')
    BY <1>4, <2>4, FS_Subset, FS_AddElement
  <2>6. history' \subseteq Row /\ \A t, u \in history' : t.id = u.id => t = u
    BY <1>3, <1>4, <2>1, <2>4
  <2>7. \A u \in Rows' : /\ Past(u.at) \/ u.at = start[w]
                         /\ u.id = NullId \/ Past(u.id) \/ u.id = start[w]
    BY <1>1, <1>3, <1>4, <2>1, <2>4 DEF Rows
  <2> QED BY <1>1, <1>2, <1>5, <2>3, <2>5, <2>6, <2>7, Commit
<1> QED BY <1>1, <1>6, <1>7

\* A version that is deleted is gone from its table.
LEMMA DeleteObjectVersionStep ==
    ASSUME IInv, NEW w \in Writers, DeleteObjectVersion(w)
    PROVE  IInv'
<1>1. PICK v \in Named(w) : /\ current' = IF current = v THEN NoObject ELSE current
                            /\ history' = history \ {v} /\ count' = Release(count, v)
  BY DEF DeleteObjectVersion
<1>2. Locked(w) /\ Finish(w)
  BY DEF DeleteObjectVersion
<1>3. InTx(w) /\ pc[w] = "begun" /\ \A x \in Writers \ {w} : pc[x] # "promoting"
  BY <1>2, LockedAlone
<1>4. \A u \in Rows : u \in Row /\ Past(u.at) /\ (u.id = NullId \/ Past(u.id))
  BY <1>3, NewRows
<1>5. count' \in [Blobs -> Nat]
  BY <1>1, CountsTyped DEF IInv, TypeOK
<1>6. history' \subseteq Row /\ IsFiniteSet(history') /\ \A t, u \in history' : t.id = u.id => t = u
  BY <1>1, FS_Subset DEF IInv, TypeOK
<1>7. /\ current' \in Row \cup {NoObject}
      /\ current' # NoObject => current'.body # Marker /\ current' \notin history'
      /\ OneHome'
  BY <1>1 DEF IInv, TypeOK, Disjoint, OneHome
<1>8. \A u \in Rows' : Past(u.at) /\ (u.id = NullId \/ Past(u.id))
  BY <1>1, <1>4 DEF Rows
<1> QED BY <1>2, <1>3, <1>5, <1>6, <1>7, <1>8, Commit

\* A version that is promoted leaves the history.
LEMMA PromoteNewestVersionStep ==
    ASSUME IInv, NEW w \in Writers, PromoteNewestVersion(w)
    PROVE  IInv'
<1> DEFINE v == [newest[w] EXCEPT !.at = start[w]]
<1>1. /\ pc[w] = "promoting" /\ Finish(w)
      /\ current' = v /\ history' = history \ {removed[w], newest[w]}
      /\ count' = Release(Retain(Release(count, removed[w]), newest[w]), newest[w])
  BY DEF PromoteNewestVersion
<1>2. InTx(w) /\ PromotionOf(w)
  BY <1>1 DEF IInv, InTx
<1>3. /\ start[w] \in Times /\ start[w] # NullId
      /\ \A u \in Rows : /\ u \in Row /\ u.at # start[w] /\ u.id # start[w]
                         /\ Past(u.at) /\ (u.id = NullId \/ Past(u.id))
  BY <1>2, NewRows
<1>4. v \in Row /\ v.at = start[w] /\ v.id = newest[w].id /\ v.body # Marker
  BY <1>2, <1>3 DEF PromotionOf, Row
<1>5. count' \in [Blobs -> Nat]
  <2>1. Release(count, removed[w]) \in [Blobs -> Nat]
    BY CountsTyped DEF IInv, TypeOK
  <2>2. Retain(Release(count, removed[w]), newest[w]) \in [Blobs -> Nat]
    BY <2>1, CountsTyped
  <2> QED BY <1>1, <2>2, CountsTyped
<1> HIDE DEF v
<1>6. history' \subseteq Row /\ IsFiniteSet(history') /\ \A t, u \in history' : t.id = u.id => t = u
  BY <1>1, FS_Subset DEF IInv, TypeOK
<1>7. history' \subseteq Rows /\ v \notin history'
  BY <1>1, <1>3, <1>4 DEF Rows
<1>8. OneHome'
  BY <1>1, <1>2, <1>4 DEF OneHome, PromotionOf
<1>9. v.id = NullId \/ Past(v.id)
  BY <1>2, <1>4 DEF PromotionOf, Settled
<1>10. \A u \in Rows' : /\ Past(u.at) \/ u.at = start[w]
                        /\ u.id = NullId \/ Past(u.id) \/ u.id = start[w]
  BY <1>1, <1>3, <1>4, <1>7, <1>9 DEF Rows
<1>11. \A x \in Writers \ {w} : pc[x] # "promoting"
  BY <1>2 DEF PromotionOf
<1> QED BY <1>1, <1>2, <1>4, <1>5, <1>6, <1>7, <1>8, <1>10, <1>11, Commit

\* A restore overwrites the current version under its id, and records itself
\* under a new one.
LEMMA RestoreVersionStep ==
    ASSUME IInv, NEW w \in Writers, RestoreVersion(w)
    PROVE  IInv'
<1>1. PICK v \in history :
          /\ v.body # Marker
          /\ LET id == IF current = NoObject THEN NullId ELSE current.id
                 retained == Retain(count, v)
                 released == IF current = NoObject THEN retained ELSE Release(retained, current)
             IN  /\ current' = [id |-> id, body |-> v.body, at |-> start[w]]
                 /\ history' = history \cup {[id |-> start[w], body |-> v.body, at |-> start[w]]}
                 /\ count' = Retain(released, v)
  BY DEF RestoreVersion
<1>2. Locked(w) /\ Finish(w)
  BY DEF RestoreVersion
<1>3. InTx(w) /\ pc[w] = "begun" /\ \A x \in Writers \ {w} : pc[x] # "promoting"
  BY <1>2, LockedAlone
<1>4. /\ start[w] \in Times /\ start[w] # NullId
      /\ \A u \in Rows : /\ u \in Row /\ u.at # start[w] /\ u.id # start[w]
                         /\ Past(u.at) /\ (u.id = NullId \/ Past(u.id))
  BY <1>3, NewRows
<1> DEFINE r == [id |-> start[w], body |-> v.body, at |-> start[w]]
<1>5. /\ current'.id = IF current = NoObject THEN NullId ELSE current.id
      /\ current'.body = v.body /\ current'.at = start[w] /\ history' = history \cup {r}
      /\ r \in Row /\ r.id = start[w] /\ r.at = start[w]
  BY <1>1, <1>4 DEF IInv, TypeOK, Row, Ids
<1>6. current' \in Row
  BY <1>1, <1>4 DEF IInv, TypeOK, Row, Ids
<1>7. count' \in [Blobs -> Nat]
  <2>1. Retain(count, v) \in [Blobs -> Nat]
    BY CountsTyped DEF IInv, TypeOK
  <2>2. Release(Retain(count, v), current) \in [Blobs -> Nat]
    BY <2>1, CountsTyped
  <2> QED BY <1>1, <2>1, <2>2, CountsTyped
<1> HIDE DEF r
<1>8. IsFiniteSet(history')
  BY <1>5, FS_AddElement DEF IInv
<1>9. history \subseteq Rows /\ (current # NoObject => current \in Rows)
  BY DEF Rows
<1>10. history' \subseteq Row /\ \A t, u \in history' : t.id = u.id => t = u
  BY <1>4, <1>5, <1>9 DEF IInv, TypeOK
<1>11. current'.id # start[w]
  BY <1>4, <1>5, <1>9
<1>12. current' \notin history'
  BY <1>4, <1>5, <1>9, <1>11
<1>13. OneHome'
  BY <1>4, <1>5, <1>9, <1>11 DEF OneHome, IInv
<1>14. \A u \in Rows' : /\ Past(u.at) \/ u.at = start[w]
                        /\ u.id = NullId \/ Past(u.id) \/ u.id = start[w]
  BY <1>4, <1>5, <1>9 DEF Rows
<1>15. current'.body # Marker
  BY <1>1, <1>5
<1> QED BY <1>2, <1>3, <1>6, <1>7, <1>8, <1>10, <1>12, <1>13, <1>14, <1>15, Commit

\* One step, whatever it is.
LEMMA NextStep ==
    ASSUME IInv, [Next]_vars
    PROVE  IInv'
<1>1. ASSUME NEW w \in Writers, Arrive(w) \/ Begin(w) \/ PickSuccessor(w)
      PROVE  IInv'
  BY <1>1, ArriveStep, BeginStep, PickSuccessorStep
<1>2. ASSUME NEW w \in Writers, NullClash(w) \/ VersionNotFound(w) \/ Rollback(w)
      PROVE  IInv'
  BY <1>2, RollbackStep DEF NullClash, VersionNotFound, Rollback
<1>3. ASSUME NEW w \in Writers,
             \/ PutObject(w) \/ DeleteObject(w) \/ DeleteObjectVersion(w)
             \/ PromoteNewestVersion(w) \/ RestoreVersion(w)
      PROVE  IInv'
  BY <1>3, PutObjectStep, DeleteObjectStep, DeleteObjectVersionStep, PromoteNewestVersionStep,
     RestoreVersionStep
<1>4. CASE PutVersioning \/ PurgeVersion \/ PurgeKeyVersions
  BY <1>4, PutVersioningStep, PurgeVersionStep, PurgeKeyVersionsStep
<1>5. CASE UNCHANGED vars
  <2> USE DEF vars, tables, locals
  <2>1. TypeOK'
    BY <1>5 DEF IInv, TypeOK
  <2>2. StartsDiffer' /\ RowsSettled' /\ Disjoint' /\ OneHome'
    BY <1>5 DEF IInv, StartsDiffer, InTx, RowsSettled, Settled, Past, Rows, Disjoint, OneHome
  <2>3. \A x \in Writers : pc'[x] = "promoting" => PromotionOf(x)'
    BY <1>5 DEF IInv, PromotionOf, Settled, Past, InTx
  <2> QED BY <1>5, <2>1, <2>2, <2>3 DEF IInv
<1> QED BY <1>1, <1>2, <1>3, <1>4, <1>5 DEF Next, Write

\* At first both tables are empty.
LEMMA InitIInv ==
    ASSUME Init
    PROVE  IInv
<1> USE DEF Init
<1>1. TypeOK
  BY TimeAssumption DEF TypeOK, States
<1>2. IsFiniteSet(history)
  BY FS_EmptySet
<1>3. StartsDiffer /\ RowsSettled /\ Disjoint /\ OneHome
  BY DEF StartsDiffer, InTx, RowsSettled, Rows, Disjoint, OneHome
<1> QED BY <1>1, <1>2, <1>3 DEF IInv

\* The invariant is one, for any requests, contents and number of transactions.
LEMMA Invariance == Spec => []IInv
<1>1. Init => IInv
  BY InitIInv
<1>2. IInv /\ [Next]_vars => IInv'
  BY NextStep
<1> QED BY <1>1, <1>2, PTL DEF Spec

\* Every variable keeps its type, and the history its unique ids.
THEOREM TypeCorrect == Spec => []TypeOK
<1>1. IInv => TypeOK
  BY DEF IInv
<1> QED BY <1>1, Invariance, PTL

\* The current version is in objects alone, also when a purge of the console
\* comes between the two steps of a promotion.
THEOREM CurrentHasOneHome == Spec => []OneHome
<1>1. IInv => OneHome
  BY DEF IInv
<1> QED BY <1>1, Invariance, PTL

-----------------------------------------------------------------------------
(* What a minted id names.                                                 *)

\* A minted id names one row.
LEMMA OneName ==
    ASSUME IInv, NEW u \in Rows, NEW v \in Rows, u.id = v.id, v.id # NullId
    PROVE  u = v
BY DEF IInv, TypeOK, OneHome, Rows

\* What step w does to the tables when it is no restore: the rows after it
\* were there before, or have a new id, or are the one promoted.
LEMMA RowsAfter ==
    ASSUME IInv, NEW w \in Writers,
           \/ PutObject(w) \/ DeleteObject(w) \/ DeleteObjectVersion(w) \/ PromoteNewestVersion(w),
           NEW u \in Rows', u \notin Rows, u.id # NullId
    PROVE  \/ InTx(w) /\ u.id = start[w]
           \/ PromotionOf(w) /\ u.id = newest[w].id /\ u.body = newest[w].body
<1>1. CASE PutObject(w)
  <2>1. InTx(w) /\ history' \subseteq Rows /\ (u = current' => u.id \in {start[w], NullId})
    BY <1>1, LockedAlone DEF PutObject, Superseded, Preserves, Rows, NewId
  <2> QED BY <2>1 DEF Rows
<1>2. CASE DeleteObject(w)
  <2>1. InTx(w) /\ current' = NoObject
    BY <1>2, LockedAlone DEF DeleteObject
  <2>2. u \in history' => u \in Rows \/ u.id \in {start[w], NullId}
    BY <1>2 DEF DeleteObject, MarkDeleted, Superseded, Preserves, Rows, NewId
  <2> QED BY <2>1, <2>2 DEF Rows
<1>3. CASE DeleteObjectVersion(w)
  BY <1>3 DEF DeleteObjectVersion, Rows
<1>4. CASE PromoteNewestVersion(w)
  <2>1. PromotionOf(w) /\ history' \subseteq Rows
    BY <1>4 DEF PromoteNewestVersion, IInv, Rows
  <2>2. u = current' => u.id = newest[w].id /\ u.body = newest[w].body
    BY <1>4, <2>1 DEF PromoteNewestVersion, PromotionOf, Row
  <2> QED BY <2>1, <2>2 DEF Rows
<1> QED BY <1>1, <1>2, <1>3, <1>4

\* Nothing but a restore changes what an id names, and it changes the current
\* one: promotion carries the contents over, and every other write has a new id.
THEOREM IdsKeepTheirMeaning == Spec => OnlyRestoreRewrites
<1>1. ASSUME IInv, [Next]_vars, NEW v \in Rows, NEW u \in Rows',
             v.id # NullId, v.id = u.id, v.body # u.body
      PROVE  /\ v = current
             /\ \E w \in Writers : pc[w] = "begun" /\ pc'[w] = "idle" /\ op[w].kind = "restore"
  <2>1. u \notin Rows
    BY <1>1, OneName
  <2>2. CASE Rows' \subseteq Rows
    BY <2>1, <2>2
  <2>3. ASSUME NEW w \in Writers,
               \/ PutObject(w) \/ DeleteObject(w) \/ DeleteObjectVersion(w) \/ PromoteNewestVersion(w)
        PROVE  FALSE
    <3>1. \/ InTx(w) /\ u.id = start[w]
          \/ PromotionOf(w) /\ u.id = newest[w].id /\ u.body = newest[w].body
      BY <1>1, <2>1, <2>3, RowsAfter
    <3>2. CASE InTx(w) /\ u.id = start[w]
      BY <1>1, <3>2, NewRows
    <3>3. CASE PromotionOf(w) /\ u.id = newest[w].id /\ u.body = newest[w].body
      <4>1. v \notin history
        BY <1>1, <3>3 DEF PromotionOf
      <4>2. v = removed[w]
        BY <1>1, <3>3, <4>1 DEF PromotionOf, Rows
      <4> QED BY <1>1, <3>3, <4>2 DEF PromotionOf
    <3> QED BY <3>1, <3>2, <3>3
  <2>4. ASSUME NEW w \in Writers, RestoreVersion(w)
        PROVE  v = current /\ pc[w] = "begun" /\ pc'[w] = "idle" /\ op[w].kind = "restore"
    <3>1. Locked(w) /\ Finish(w) /\ op[w].kind = "restore"
      BY <2>4 DEF RestoreVersion
    <3>2. InTx(w) /\ pc[w] = "begun" /\ pc'[w] = "idle"
      BY <1>1, <3>1 DEF Locked, InTx, Finish, IInv, TypeOK
    <3>3. u = current' => u.id = IF current = NoObject THEN NullId ELSE current.id
      BY <2>4 DEF RestoreVersion
    <3>4. u \in history' => u.id = start[w] \/ u \in Rows
      BY <2>4 DEF RestoreVersion, Rows
    <3>5. u.id # start[w]
      BY <1>1, <3>2, NewRows
    <3>6. u.id = current.id /\ current # NoObject
      BY <1>1, <2>1, <3>3, <3>4, <3>5 DEF Rows
    <3>7. v = current
      BY <1>1, <3>6, OneName DEF Rows
    <3> QED BY <3>1, <3>2, <3>7
  <2>5. ASSUME NEW w \in Writers,
               \/ Arrive(w) \/ Begin(w) \/ NullClash(w) \/ VersionNotFound(w) \/ PickSuccessor(w)
               \/ Rollback(w)
        PROVE  Rows' \subseteq Rows
    BY <2>5 DEF Arrive, Begin, NullClash, VersionNotFound, PickSuccessor, Rollback, tables, Rows
  <2>6. PutVersioning \/ PurgeVersion \/ PurgeKeyVersions \/ UNCHANGED vars => Rows' \subseteq Rows
    BY DEF PutVersioning, PurgeVersion, PurgeKeyVersions, vars, tables, Rows
  <2> QED BY <1>1, <2>2, <2>3, <2>4, <2>5, <2>6 DEF Next, Write
<1>2. IInv /\ [Next]_vars =>
        [\A v \in Rows, u \in Rows' :
            v.id # NullId /\ v.id = u.id /\ v.body # u.body =>
               /\ v = current
               /\ \E w \in Writers : pc[w] = "begun" /\ pc'[w] = "idle" /\ op[w].kind = "restore"]_vars
  BY <1>1
<1> QED BY <1>2, Invariance, PTL DEF Spec, OnlyRestoreRewrites

\* A version with an id goes only when it is named, purged, or overwritten by a
\* request that was told the bucket is unversioned.
THEOREM VersionsAreKept == Spec => HistoryKept
<1>1. ASSUME IInv, [Next]_vars, NEW v \in Rows, v.id # NullId
      PROVE  \/ \E u \in Rows' : u.id = v.id
             \/ "purge" \in Operations /\ v \in history /\ UNCHANGED <<current, pc>>
             \/ \E w \in Writers : LostBy(w, v)
  <2>1. CASE v \in Rows'
    BY <2>1
  <2>2. ASSUME NEW w \in Writers, Finish(w), InTx(w)
        PROVE  pc[w] # "idle" /\ pc'[w] = "idle"
    BY <1>1, <2>2 DEF Finish, InTx, IInv, TypeOK
  <2>3. ASSUME NEW w \in Writers, PutObject(w)
        PROVE  v \in Rows' \/ LostBy(w, v)
    <3>1. CASE opts[w] = "unversioned"
      BY <2>2, <2>3, <3>1, LockedAlone DEF PutObject, LostBy
    <3>2. CASE opts[w] # "unversioned"
      <4>1. v \in history \cup Superseded(w)
        BY <1>1, <3>2 DEF Superseded, Preserves, Rows, IInv, TypeOK, States
      <4> QED BY <2>3, <4>1 DEF PutObject, Rows
    <3> QED BY <3>1, <3>2
  <2>4. ASSUME NEW w \in Writers, DeleteObject(w)
        PROVE  v \in Rows' \/ LostBy(w, v)
    <3>1. CASE opts[w] = "unversioned"
      BY <2>2, <2>4, <3>1, LockedAlone DEF DeleteObject, LostBy
    <3>2. CASE opts[w] # "unversioned"
      <4>1. v \in history \cup Superseded(w)
        BY <1>1, <3>2 DEF Superseded, Preserves, Rows, IInv, TypeOK, States
      <4>2. v \notin Nulls
        BY <1>1 DEF Nulls
      <4> QED BY <2>4, <3>2, <4>1, <4>2 DEF DeleteObject, MarkDeleted, Rows
    <3> QED BY <3>1, <3>2
  <2>5. ASSUME NEW w \in Writers, DeleteObjectVersion(w)
        PROVE  v \in Rows' \/ LostBy(w, v)
    <3>1. PICK x \in Named(w) : /\ current' = IF current = x THEN NoObject ELSE current
                                /\ history' = history \ {x}
      BY <2>5 DEF DeleteObjectVersion
    <3>2. CASE v = x
      <4>1. v.id = op[w].id
        BY <3>2 DEF Named
      <4> QED BY <2>2, <2>5, <4>1, LockedAlone DEF DeleteObjectVersion, LostBy
    <3>3. CASE v # x
      BY <3>1, <3>3 DEF Rows
    <3> QED BY <3>2, <3>3
  <2>6. ASSUME NEW w \in Writers, PromoteNewestVersion(w)
        PROVE  (\E u \in Rows' : u.id = v.id) \/ LostBy(w, v)
    <3>1. /\ pc[w] = "promoting" /\ Finish(w) /\ current' = [newest[w] EXCEPT !.at = start[w]]
          /\ history' = history \ {removed[w], newest[w]}
      BY <2>6 DEF PromoteNewestVersion
    <3>2. PromotionOf(w) /\ InTx(w)
      BY <1>1, <3>1 DEF IInv, InTx
    <3>3. CASE v = removed[w]
      BY <2>2, <3>1, <3>2, <3>3 DEF LostBy, PromotionOf
    <3>4. CASE v = newest[w]
      <4>1. current' \in Row /\ current'.id = v.id
        BY <1>1, <3>1, <3>2, <3>4, NewRows DEF PromotionOf, Row
      <4> QED BY <4>1, NoRowAssumption DEF Rows
    <3>5. CASE v \notin {removed[w], newest[w]}
      BY <3>1, <3>2, <3>5 DEF Rows, PromotionOf
    <3> QED BY <3>3, <3>4, <3>5
  <2>7. ASSUME NEW w \in Writers, RestoreVersion(w)
        PROVE  \E u \in Rows' : u.id = v.id
    <3>1. PICK x \in history :
              /\ current' = [id |-> IF current = NoObject THEN NullId ELSE current.id,
                             body |-> x.body, at |-> start[w]]
              /\ history \subseteq history' /\ Locked(w)
      BY <2>7 DEF RestoreVersion
    <3>2. start[w] \in Times
      BY <1>1, <3>1, NewRows, LockedAlone
    <3>3. current' # NoObject
      BY <1>1, <3>1, <3>2, NoRowAssumption DEF IInv, TypeOK, Row, Ids
    <3> QED BY <3>1, <3>3 DEF Rows
  <2>8. ASSUME NEW w \in Writers,
               \/ Arrive(w) \/ Begin(w) \/ NullClash(w) \/ VersionNotFound(w) \/ PickSuccessor(w)
               \/ Rollback(w)
        PROVE  v \in Rows'
    BY <2>8 DEF Arrive, Begin, NullClash, VersionNotFound, PickSuccessor, Rollback, tables, Rows
  <2>9. PutVersioning \/ UNCHANGED vars => v \in Rows'
    BY DEF PutVersioning, vars, tables, Rows
  <2>10. PurgeVersion \/ PurgeKeyVersions =>
           v \in Rows' \/ ("purge" \in Operations /\ v \in history /\ UNCHANGED <<current, pc>>)
    BY DEF PurgeVersion, PurgeKeyVersions, Rows
  <2> QED BY <1>1, <2>1, <2>3, <2>4, <2>5, <2>6, <2>7, <2>8, <2>9, <2>10 DEF Next, Write
<1>2. IInv /\ [Next]_vars =>
        [\A v \in Rows : v.id # NullId =>
            \/ \E u \in Rows' : u.id = v.id
            \/ "purge" \in Operations /\ v \in history /\ UNCHANGED <<current, pc>>
            \/ \E w \in Writers : LostBy(w, v)]_vars
  BY <1>1
<1> QED BY <1>2, Invariance, PTL DEF Spec, HistoryKept
-----------------------------------------------------------------------------
(* Reference counts, while the purges stay clear of promotions.            *)

CountInv == IInv /\ Undisturbed /\ RefcountMatches

\* The rows of h with the contents b.
Versions(h, b) == Cardinality({v \in h : v.body = b})
One(v, b) == B(v.body = b)
KeptOf(w, b) == B(Preserves(w) /\ current.body = b)
Held(b) == B(current # NoObject /\ current.body = b)

\* A row more.
LEMMA AddVersion ==
    ASSUME NEW h, IsFiniteSet(h), NEW v, v \notin h, NEW b
    PROVE  Versions(h, b) \in Nat /\ Versions(h \cup {v}, b) = Versions(h, b) + One(v, b)
<1> DEFINE S == {u \in h : u.body = b}
<1>1. IsFiniteSet(S) /\ Cardinality(S) \in Nat
  BY FS_Subset, FS_CardinalityType
<1>2. CASE v.body = b
  <2>1. {u \in h \cup {v} : u.body = b} = S \cup {v} /\ v \notin S
    BY <1>2
  <2>2. Cardinality(S \cup {v}) = Cardinality(S) + 1
    BY <1>1, <2>1, FS_AddElement
  <2> QED BY <1>1, <1>2, <2>1, <2>2 DEF Versions, B, One, KeptOf
<1>3. CASE v.body # b
  <2>1. {u \in h \cup {v} : u.body = b} = S
    BY <1>3
  <2>2. One(v, b) = 0
    BY <1>3 DEF One, B
  <2> HIDE DEF S
  <2>3. Versions(h \cup {v}, b) = Cardinality(S)
    BY <2>1 DEF Versions
  <2>4. Versions(h, b) = Cardinality(S)
    BY DEF Versions, S
  <2> QED BY <1>1, <2>2, <2>3, <2>4
<1> QED BY <1>2, <1>3

\* A row less.
LEMMA RemoveVersion ==
    ASSUME NEW h, IsFiniteSet(h), NEW v \in h, NEW b
    PROVE  /\ IsFiniteSet(h \ {v}) /\ Versions(h \ {v}, b) \in Nat
           /\ Versions(h, b) = Versions(h \ {v}, b) + One(v, b)
<1> DEFINE g == h \ {v}
<1>1. IsFiniteSet(g) /\ v \notin g /\ g \cup {v} = h
  BY FS_Subset
<1> HIDE DEF g
<1>2. Versions(g, b) \in Nat /\ Versions(g \cup {v}, b) = Versions(g, b) + One(v, b)
  BY <1>1, AddVersion
<1> QED BY <1>1, <1>2 DEF g

\* What one reference more or less does to the count of b.
LEMMA CountOf ==
    ASSUME NEW c \in [Blobs -> Nat], NEW v, NEW b \in Blobs
    PROVE  /\ One(v, b) \in {0, 1}
           /\ Retain(c, v)[b] = c[b] + One(v, b)
           /\ c[b] >= One(v, b) => Release(c, v)[b] = c[b] - One(v, b)
BY DEF Retain, Release, Sub1, B, One, KeptOf

\* The version that is replaced gives up one reference, and takes one when it
\* is preserved.
LEMMA CountOfReplaced ==
    ASSUME NEW w, NEW c \in [Blobs -> Nat], NEW b \in Blobs, c[b] >= Held(b)
    PROVE  ReleaseCurrent(w, c)[b] = c[b] + KeptOf(w, b) - Held(b)
<1>1. CASE current = NoObject
  BY <1>1 DEF ReleaseCurrent, Held, B, One, KeptOf, Preserves
<1>2. CASE current # NoObject /\ ~Preserves(w)
  BY <1>2, CountOf DEF ReleaseCurrent, Held, B, One, KeptOf
<1>3. CASE current # NoObject /\ Preserves(w)
  <2>1. Retain(c, current) \in [Blobs -> Nat]
    BY CountsTyped
  <2>2. Release(Retain(c, current), current)[b] = c[b]
    BY <2>1, CountOf
  <2> QED BY <1>3, <2>2 DEF ReleaseCurrent, Held, B, One, KeptOf
<1> QED BY <1>1, <1>2, <1>3

\* Preserving moves that reference to the history.
LEMMA CountOfSuperseded ==
    ASSUME NEW w, NEW h, IsFiniteSet(h), current # NoObject => current \notin h, NEW b
    PROVE  /\ IsFiniteSet(h \cup Superseded(w)) /\ Versions(h, b) \in Nat
           /\ Versions(h \cup Superseded(w), b) = Versions(h, b) + KeptOf(w, b)
<1>1. CASE Preserves(w)
  <2>1. current # NoObject /\ Superseded(w) = {current}
    BY <1>1 DEF Preserves, Superseded
  <2> QED BY <1>1, <2>1, AddVersion, FS_AddElement DEF B, One, KeptOf
<1>2. CASE ~Preserves(w)
  <2>1. h \cup Superseded(w) = h
    BY <1>2 DEF Superseded
  <2>2. Versions(h, b) \in Nat
    BY FS_Subset, FS_CardinalityType DEF Versions
  <2> QED BY <1>2, <2>1, <2>2 DEF B, One, KeptOf
<1> QED BY <1>1, <1>2

\* The parts of the invariant that counting uses.
LEMMA CountFacts ==
    ASSUME CountInv, NEW b \in Blobs
    PROVE  /\ count \in [Blobs -> Nat] /\ IsFiniteSet(history)
           /\ current # NoObject => current \notin history
           /\ Held(b) \in {0, 1} /\ Versions(history, b) \in Nat
           /\ count[b] = Held(b) + Versions(history, b)
<1>1. count \in [Blobs -> Nat] /\ IsFiniteSet(history) /\ (current # NoObject => current \notin history)
  BY DEF CountInv, IInv, TypeOK, Disjoint
<1>2. Versions(history, b) \in Nat
  BY <1>1, FS_Subset, FS_CardinalityType DEF Versions
<1>3. Held(b) \in {0, 1} /\ count[b] = Held(b) + Versions(history, b)
  BY DEF CountInv, RefcountMatches, Holding, Held, Versions, B, One, KeptOf
<1> QED BY <1>1, <1>2, <1>3

\* A put counts the new version and moves the old one, or lets go of it.
LEMMA PutObjectCounts ==
    ASSUME CountInv, NEW w \in Writers, PutObject(w)
    PROVE  RefcountMatches'
<1> SUFFICES ASSUME NEW b \in Blobs
             PROVE  count'[b] = Held(b)' + Versions(history, b)'
  BY DEF RefcountMatches, Holding, Held, Versions
<1>1. PICK v \in [id : Ids, body : Blobs, at : Times] :
         /\ current' = v /\ v # NoObject /\ history' = history \cup Superseded(w)
         /\ count' = ReleaseCurrent(w, Retain(count, v))
  <2>1. InTx(w) /\ op[w].kind = "put"
    BY LockedAlone DEF PutObject
  <2>2. start[w] \in Times /\ op[w].body \in Blobs
    BY <2>1, NewRows DEF CountInv, IInv, TypeOK, Requests, NoRequest
  <2>3. [id |-> NewId(w), body |-> op[w].body, at |-> start[w]] \in [id : Ids, body : Blobs, at : Times]
    BY <2>2 DEF Ids, NewId
  <2> QED BY <2>3, NoRowAssumption DEF PutObject, Row
<1>2. /\ count \in [Blobs -> Nat] /\ IsFiniteSet(history)
      /\ current # NoObject => current \notin history
      /\ Held(b) \in {0, 1} /\ Versions(history, b) \in Nat
      /\ count[b] = Held(b) + Versions(history, b)
  BY CountFacts
<1> DEFINE c == Retain(count, v)
<1>3. c \in [Blobs -> Nat] /\ c[b] = count[b] + One(v, b) /\ One(v, b) \in {0, 1}
  BY <1>2, CountsTyped, CountOf
<1> HIDE DEF c
<1>4. count'[b] = c[b] + KeptOf(w, b) - Held(b)
  <2>1. c[b] >= Held(b)
    BY <1>2, <1>3
  <2> QED BY <1>1, <1>3, <2>1, CountOfReplaced DEF c
<1>5. Versions(history', b) = Versions(history, b) + KeptOf(w, b)
  BY <1>1, <1>2, CountOfSuperseded
<1>6. Held(b)' = One(v, b)
  BY <1>1 DEF Held, B, One, KeptOf
<1>7. KeptOf(w, b) \in {0, 1}
  BY DEF B, One, KeptOf
<1>8. Versions(history, b)' = Versions(history', b)
  BY DEF Versions
<1> QED BY <1>2, <1>3, <1>4, <1>5, <1>6, <1>7, <1>8

\* A marker has no contents; the null version it replaces gives up its own.
LEMMA DeleteObjectCounts ==
    ASSUME CountInv, NEW w \in Writers, DeleteObject(w)
    PROVE  RefcountMatches'
<1> SUFFICES ASSUME NEW b \in Blobs
             PROVE  count'[b] = Versions(history', b)
  <2>1. ASSUME NEW b \in Blobs
        PROVE  Held(b)' = 0 /\ Versions(history', b) \in Nat
    <3>1. IInv'
      BY DeleteObjectStep DEF CountInv
    <3> QED BY <3>1, FS_Subset, FS_CardinalityType DEF DeleteObject, Held, B, Versions, IInv
  <2>2. \A b \in Blobs : Holding(b)' = Held(b)' + Versions(history', b)
    BY DEF Holding, Held, Versions
  <2> QED BY <2>1, <2>2 DEF RefcountMatches
<1>1. /\ count \in [Blobs -> Nat] /\ IsFiniteSet(history)
      /\ current # NoObject => current \notin history
      /\ Held(b) \in {0, 1} /\ Versions(history, b) \in Nat
      /\ count[b] = Held(b) + Versions(history, b)
  BY CountFacts
<1>2. CASE opts[w] = "unversioned"
  <2>1. history' = history /\ count' = ReleaseCurrent(w, count) /\ ~Preserves(w)
    BY <1>2 DEF DeleteObject, Preserves
  <2>2. count'[b] = count[b] + KeptOf(w, b) - Held(b)
    BY <1>1, <2>1, CountOfReplaced
  <2>3. KeptOf(w, b) = 0
    BY <2>1 DEF B, One, KeptOf
  <2> QED BY <1>1, <2>1, <2>2, <2>3
<1>3. CASE opts[w] # "unversioned"
  <2>1. MarkDeleted(w) /\ InTx(w)
    BY <1>3, LockedAlone DEF DeleteObject
  <2> DEFINE m == [id |-> NewId(w), body |-> Marker, at |-> start[w]]
             P == KeptOf(w, b)
  <2>2. PICK stays \in SUBSET history, c \in [Blobs -> Nat] :
            /\ history' = stays \cup Superseded(w) \cup {m}
            /\ count' = ReleaseCurrent(w, c)
            /\ c[b] = Held(b) + Versions(stays, b)
    <3>1. CASE opts[w] = "suspended" /\ Nulls # {}
      <4>1. PICK u : u = CHOOSE n \in Nulls : TRUE
        OBVIOUS
      <4>2. u \in history /\ Nulls = {u}
        BY <3>1, <4>1 DEF Nulls, CountInv, IInv, TypeOK
      <4>3. Versions(history \ {u}, b) \in Nat /\ Versions(history, b) = Versions(history \ {u}, b) + One(u, b)
        BY <1>1, <4>2, RemoveVersion
      <4>4. Release(count, u) \in [Blobs -> Nat] /\ Release(count, u)[b] = count[b] - One(u, b)
        BY <1>1, <4>3, CountsTyped, CountOf
      <4>5. Release(count, u)[b] = Held(b) + Versions(history \ {u}, b)
        BY <1>1, <4>3, <4>4, CountOf
      <4> QED BY <2>1, <3>1, <4>1, <4>2, <4>4, <4>5 DEF MarkDeleted
    <3>2. CASE ~(opts[w] = "suspended" /\ Nulls # {})
      <4>1. history' = history \cup Superseded(w) \cup {m} /\ count' = ReleaseCurrent(w, count)
        BY <2>1, <3>2 DEF MarkDeleted
      <4> QED BY <1>1, <4>1
    <3> QED BY <3>1, <3>2
  <2>3. IsFiniteSet(stays) /\ (current # NoObject => current \notin stays)
    BY <1>1, FS_Subset
  <2> DEFINE h == stays \cup Superseded(w)
  <2>4. IsFiniteSet(h) /\ Versions(stays, b) \in Nat /\ Versions(h, b) = Versions(stays, b) + P
    BY <2>3, CountOfSuperseded
  <2>5. P \in {0, 1}
    BY DEF B, One, KeptOf
  <2>6. m \notin h
    <3>1. \A u \in h : u \in Rows
      BY DEF Superseded, Preserves, Rows
    <3>2. \A u \in Rows : u.at # start[w]
      BY <2>1, NewRows DEF CountInv
    <3> QED BY <3>1, <3>2
  <2>7. One(m, b) = 0
    BY NamesAssumption DEF B, One, KeptOf
  <2> HIDE DEF h, m, P
  <2>8. Versions(h \cup {m}, b) = Versions(h, b)
    <3>1. Versions(h, b) \in Nat /\ Versions(h \cup {m}, b) = Versions(h, b) + One(m, b)
      BY <2>4, <2>6, AddVersion
    <3> QED BY <2>7, <3>1
  <2>9. count'[b] = c[b] + P - Held(b)
    <3>1. c[b] >= Held(b)
      BY <1>1, <2>2, <2>4
    <3> QED BY <2>2, <3>1, CountOfReplaced DEF P
  <2>10. history' = h \cup {m}
    BY <2>2 DEF h
  <2>11. Versions(history', b) = Versions(h, b)
    BY <2>8, <2>10
  <2>12. c[b] \in Nat
    BY <2>2
  <2> QED BY <1>1, <2>2, <2>4, <2>5, <2>9, <2>11, <2>12
<1> QED BY <1>2, <1>3

\* The version that is deleted is in one of the tables, and counted there.
LEMMA DeleteObjectVersionCounts ==
    ASSUME CountInv, NEW w \in Writers, DeleteObjectVersion(w)
    PROVE  RefcountMatches'
<1> SUFFICES ASSUME NEW b \in Blobs
             PROVE  count'[b] = Held(b)' + Versions(history', b)
  BY DEF RefcountMatches, Holding, Held, Versions
<1>1. /\ count \in [Blobs -> Nat] /\ IsFiniteSet(history)
      /\ current # NoObject => current \notin history
      /\ Held(b) \in {0, 1} /\ Versions(history, b) \in Nat
      /\ count[b] = Held(b) + Versions(history, b)
  BY CountFacts
<1>2. PICK v \in Named(w) : /\ current' = IF current = v THEN NoObject ELSE current
                            /\ history' = history \ {v} /\ count' = Release(count, v)
  BY DEF DeleteObjectVersion
<1>3. One(v, b) \in {0, 1} /\ (count[b] >= One(v, b) => count'[b] = count[b] - One(v, b))
  BY <1>1, <1>2, CountOf
<1>4. CASE v = current
  <2>1. v # NoObject
    BY <1>4, NoRowAssumption DEF Named, CountInv, IInv, TypeOK
  <2>2. history' = history /\ Held(b) = One(v, b) /\ Held(b)' = 0
    BY <1>1, <1>2, <1>4, <2>1 DEF Held, B, One, KeptOf
  <2> QED BY <1>1, <1>3, <2>2
<1>5. CASE v # current
  <2>1. v \in history /\ current' = current
    BY <1>2, <1>5 DEF Named
  <2>2. /\ Versions(history', b) \in Nat
        /\ Versions(history, b) = Versions(history', b) + One(v, b)
    BY <1>1, <1>2, <2>1, RemoveVersion
  <2>3. Held(b)' = Held(b)
    BY <2>1 DEF Held
  <2> QED BY <1>1, <1>3, <2>2, <2>3
<1> QED BY <1>4, <1>5

\* The promoted version keeps its one reference, the deleted one gives up its.
LEMMA PromoteNewestVersionCounts ==
    ASSUME CountInv, NEW w \in Writers, PromoteNewestVersion(w)
    PROVE  RefcountMatches'
<1> SUFFICES ASSUME NEW b \in Blobs
             PROVE  count'[b] = Held(b)' + Versions(history', b)
  BY DEF RefcountMatches, Holding, Held, Versions
<1>1. /\ count \in [Blobs -> Nat] /\ IsFiniteSet(history)
      /\ current # NoObject => current \notin history
      /\ Held(b) \in {0, 1} /\ Versions(history, b) \in Nat
      /\ count[b] = Held(b) + Versions(history, b)
  BY CountFacts
<1>2. PICK r, u : r = removed[w] /\ u = newest[w]
  OBVIOUS
<1>3. /\ current' = [u EXCEPT !.at = start[w]] /\ history' = history \ {r, u}
      /\ count' = Release(Retain(Release(count, r), u), u)
      /\ u \in Row /\ u \in history /\ u # r /\ r \in Rows /\ current \in {r, NoObject}
      /\ InTx(w)
  BY <1>2 DEF PromoteNewestVersion, CountInv, Undisturbed, IInv, PromotionOf, InTx
<1>4. Held(b)' = One(u, b)
  <2>1. current' \in Row /\ current'.body = u.body
    BY <1>3, NewRows DEF CountInv, Row
  <2> QED BY <2>1, NoRowAssumption DEF Held, B, One, KeptOf
<1>5. IsFiniteSet(history \ {u}) /\ Versions(history \ {u}, b) \in Nat
      /\ Versions(history, b) = Versions(history \ {u}, b) + One(u, b)
  BY <1>1, <1>3, RemoveVersion
<1>6. Release(count, r) \in [Blobs -> Nat] /\ Retain(Release(count, r), u) \in [Blobs -> Nat]
  BY <1>1, CountsTyped
<1>7. count'[b] = Release(count, r)[b]
  BY <1>3, <1>6, CountOf
<1>8. One(r, b) \in {0, 1} /\ One(u, b) \in {0, 1}
      /\ (count[b] >= One(r, b) => count'[b] = count[b] - One(r, b))
  BY <1>1, <1>7, CountOf
<1>9. CASE r \in history
  <2>1. current = NoObject
    BY <1>1, <1>3, <1>9
  <2>2. Held(b) = 0
    BY <2>1 DEF Held, B, One, KeptOf
  <2>3. r \in history \ {u} /\ history' = (history \ {u}) \ {r}
    BY <1>3, <1>9
  <2>4. /\ Versions(history', b) \in Nat
        /\ Versions(history \ {u}, b) = Versions(history', b) + One(r, b)
    BY <1>5, <2>3, RemoveVersion
  <2> QED BY <1>1, <1>4, <1>5, <1>8, <2>2, <2>4
<1>10. CASE r \notin history
  <2>1. r = current /\ current # NoObject
    BY <1>3, <1>10 DEF Rows
  <2>2. Held(b) = One(r, b)
    BY <2>1 DEF Held, B, One, KeptOf
  <2>3. history' = history \ {u}
    BY <1>3, <1>10
  <2> QED BY <1>1, <1>4, <1>5, <1>8, <2>2, <2>3
<1> QED BY <1>9, <1>10

\* A restore takes two references of the contents, and gives up the old one.
LEMMA RestoreVersionCounts ==
    ASSUME CountInv, NEW w \in Writers, RestoreVersion(w)
    PROVE  RefcountMatches'
<1> SUFFICES ASSUME NEW b \in Blobs
             PROVE  count'[b] = Held(b)' + Versions(history', b)
  BY DEF RefcountMatches, Holding, Held, Versions
<1>1. /\ count \in [Blobs -> Nat] /\ IsFiniteSet(history)
      /\ current # NoObject => current \notin history
      /\ Held(b) \in {0, 1} /\ Versions(history, b) \in Nat
      /\ count[b] = Held(b) + Versions(history, b)
  BY CountFacts
<1>2. InTx(w)
  BY LockedAlone DEF RestoreVersion
<1>3. start[w] \in Times /\ \A u \in history : u.id # start[w] /\ u \in Row
  BY <1>2, NewRows DEF CountInv, Rows
<1> DEFINE id == IF current = NoObject THEN NullId ELSE current.id
<1>4. PICK v, n, r :
         /\ v \in history
         /\ n = [id |-> id, body |-> v.body, at |-> start[w]]
         /\ r = [id |-> start[w], body |-> v.body, at |-> start[w]]
         /\ current' = n /\ history' = history \cup {r}
         /\ count' = Retain(IF current = NoObject THEN Retain(count, v)
                            ELSE Release(Retain(count, v), current), v)
  BY DEF RestoreVersion
<1>5. n \in Row /\ n.body = v.body /\ r.body = v.body /\ r \notin history
  BY <1>3, <1>4 DEF Row, Ids, CountInv, IInv, TypeOK
<1>6. Held(b)' = One(v, b)
  BY <1>4, <1>5, NoRowAssumption DEF Held, B, One, KeptOf
<1>7. Versions(history', b) = Versions(history, b) + One(v, b)
  <2>1. One(r, b) = One(v, b)
    BY <1>5 DEF One
  <2> QED BY <1>1, <1>4, <1>5, <2>1, AddVersion
<1>8. /\ Retain(count, v) \in [Blobs -> Nat] /\ Retain(count, v)[b] = count[b] + One(v, b)
      /\ One(v, b) \in {0, 1}
  BY <1>1, CountsTyped, CountOf
<1>9. PICK c \in [Blobs -> Nat] : count' = Retain(c, v) /\ c[b] = Retain(count, v)[b] - Held(b)
  <2>1. CASE current = NoObject
    <3>1. Held(b) = 0
      BY <2>1 DEF Held, B, One, KeptOf
    <3> QED BY <1>1, <1>4, <1>8, <2>1, <3>1
  <2>2. CASE current # NoObject
    <3>1. Held(b) = One(current, b)
      BY <2>2 DEF Held, B, One, KeptOf
    <3>2. Release(Retain(count, v), current) \in [Blobs -> Nat]
      BY <1>8, CountsTyped
    <3>3. Retain(count, v)[b] >= One(current, b)
      BY <1>1, <1>8, <3>1
    <3>4. Release(Retain(count, v), current)[b] = Retain(count, v)[b] - One(current, b)
      BY <1>8, <3>3, CountOf
    <3> QED BY <1>4, <2>2, <3>1, <3>2, <3>4
  <2> QED BY <2>1, <2>2
<1>10. count'[b] = c[b] + One(v, b)
  BY <1>9, CountOf
<1> QED BY <1>1, <1>6, <1>7, <1>8, <1>9, <1>10

\* A purge gives up what it deletes.
LEMMA PurgeCounts ==
    ASSUME CountInv, PurgeVersion \/ PurgeKeyVersions
    PROVE  RefcountMatches'
<1> SUFFICES ASSUME NEW b \in Blobs
             PROVE  count'[b] = Held(b) + Versions(history', b)
  BY DEF RefcountMatches, Holding, Held, Versions, PurgeVersion, PurgeKeyVersions
<1>1. /\ count \in [Blobs -> Nat] /\ IsFiniteSet(history)
      /\ Held(b) \in {0, 1} /\ Versions(history, b) \in Nat
      /\ count[b] = Held(b) + Versions(history, b)
  BY CountFacts
<1>2. CASE PurgeVersion
  <2>1. PICK v \in history : history' = history \ {v} /\ count' = Release(count, v)
    BY <1>2 DEF PurgeVersion
  <2>2. /\ Versions(history', b) \in Nat
        /\ Versions(history, b) = Versions(history', b) + One(v, b)
    BY <1>1, <2>1, RemoveVersion
  <2>3. One(v, b) \in {0, 1} /\ (count[b] >= One(v, b) => count'[b] = count[b] - One(v, b))
    BY <1>1, <2>1, CountOf
  <2> QED BY <1>1, <2>2, <2>3
<1>3. CASE PurgeKeyVersions
  <2>1. history' = {} /\ count'[b] = LET left == count[b] - Versions(history, b)
                                     IN  IF left > 0 THEN left ELSE 0
    BY <1>3 DEF PurgeKeyVersions, Versions
  <2>2. Versions(history', b) = 0
    <3>1. {v \in history' : v.body = b} = {}
      BY <2>1
    <3> QED BY <3>1, FS_EmptySet DEF Versions
  <2> QED BY <1>1, <2>1, <2>2
<1> QED BY <1>2, <1>3

\* Nobody else writes while a promotion holds the lock.
LEMMA UndisturbedStep ==
    ASSUME IInv, Undisturbed, [CalmNext]_vars
    PROVE  Undisturbed'
<1> USE DEF tables, locals
<1>1. ASSUME NEW w \in Writers, Finish(w), \A x \in Writers \ {w} : pc[x] # "promoting"
      PROVE  Undisturbed'
  BY <1>1 DEF IInv, TypeOK, Finish, Undisturbed
<1>2. ASSUME NEW w \in Writers, Finish(w), UNCHANGED tables
      PROVE  Undisturbed'
  BY <1>2 DEF IInv, TypeOK, Finish, Undisturbed, Rows
<1>3. ASSUME NEW w \in Writers,
             \/ PutObject(w) \/ DeleteObject(w) \/ DeleteObjectVersion(w) \/ RestoreVersion(w)
      PROVE  Undisturbed'
  BY <1>1, <1>3, LockedAlone DEF PutObject, DeleteObject, DeleteObjectVersion, RestoreVersion
<1>4. ASSUME NEW w \in Writers, PromoteNewestVersion(w)
      PROVE  Undisturbed'
  BY <1>1, <1>4 DEF PromoteNewestVersion, IInv, PromotionOf
<1>5. ASSUME NEW w \in Writers, NullClash(w) \/ VersionNotFound(w) \/ Rollback(w)
      PROVE  Undisturbed'
  BY <1>2, <1>5 DEF NullClash, VersionNotFound, Rollback
<1>6. ASSUME NEW w \in Writers, Arrive(w) \/ Begin(w)
      PROVE  Undisturbed'
  BY <1>6 DEF Arrive, Begin, IInv, TypeOK, Undisturbed, Rows
<1>7. ASSUME NEW w \in Writers, PickSuccessor(w)
      PROVE  Undisturbed'
  <2>1. PICK v \in Named(w) : \E u \in history \ {v} :
           newest' = [newest EXCEPT ![w] = u] /\ removed' = [removed EXCEPT ![w] = v]
    BY <1>7 DEF PickSuccessor, NewestOf
  <2>2. PICK u \in history \ {v} :
           newest' = [newest EXCEPT ![w] = u] /\ removed' = [removed EXCEPT ![w] = v]
    BY <2>1
  <2>3. v \in Rows
    BY <2>1 DEF Named, Rows
  <2>4. \A x \in Writers : pc'[x] = "promoting" => x = w
    BY <1>7 DEF PickSuccessor, Locked, IInv, TypeOK
  <2>5. Rows' = Rows /\ history' = history
    BY <1>7 DEF PickSuccessor, Rows
  <2> QED BY <2>2, <2>3, <2>4, <2>5 DEF Undisturbed, IInv, TypeOK
<1>8. CASE PutVersioning \/ UNCHANGED vars
  BY <1>8 DEF PutVersioning, vars, Undisturbed, Rows
<1>9. CASE (\A w \in Writers : pc[w] # "promoting") /\ (PurgeVersion \/ PurgeKeyVersions)
  BY <1>9 DEF PurgeVersion, PurgeKeyVersions, Undisturbed
<1> QED BY <1>3, <1>4, <1>5, <1>6, <1>7, <1>8, <1>9 DEF CalmNext, Write

\* One step of a calm console.
LEMMA CountStep ==
    ASSUME CountInv, [CalmNext]_vars
    PROVE  CountInv'
<1>1. [Next]_vars
  BY DEF CalmNext, Next
<1>2. IInv' /\ Undisturbed'
  BY <1>1, NextStep, UndisturbedStep DEF CountInv
<1>3. UNCHANGED tables => RefcountMatches'
  BY DEF CountInv, RefcountMatches, Holding, tables
<1>4. ASSUME NEW w \in Writers,
             \/ Arrive(w) \/ Begin(w) \/ NullClash(w) \/ VersionNotFound(w) \/ PickSuccessor(w)
             \/ Rollback(w)
      PROVE  UNCHANGED tables
  BY <1>4 DEF Arrive, Begin, NullClash, VersionNotFound, PickSuccessor, Rollback
<1>5. PutVersioning \/ UNCHANGED vars => UNCHANGED tables
  BY DEF PutVersioning, vars
<1>6. RefcountMatches'
  BY <1>3, <1>4, <1>5, PutObjectCounts, DeleteObjectCounts, DeleteObjectVersionCounts,
     PromoteNewestVersionCounts, RestoreVersionCounts, PurgeCounts DEF CalmNext, Write
<1> QED BY <1>2, <1>6 DEF CountInv

\* Moving a version between the tables never loses or doubles its claim on the
\* bytes, as long as no purge of the console falls between the two steps of a
\* promotion.
THEOREM CountsMatchVersions == CalmSpec => []RefcountMatches
<1>1. Init => CountInv
  <2> SUFFICES ASSUME Init
               PROVE  CountInv
    OBVIOUS
  <2>1. IInv /\ Undisturbed
    BY InitIInv DEF Init, Undisturbed
  <2>2. RefcountMatches
    <3>1. \A b \in Blobs : {v \in history : v.body = b} = {}
      BY DEF Init
    <3> QED BY <3>1, FS_EmptySet DEF Init, RefcountMatches, Holding, B, One, KeptOf
  <2> QED BY <2>1, <2>2 DEF CountInv
<1>2. CountInv /\ [CalmNext]_vars => CountInv'
  BY CountStep
<1>3. CountInv => RefcountMatches
  BY DEF CountInv
<1> QED BY <1>1, <1>2, <1>3, PTL DEF CalmSpec

-----------------------------------------------------------------------------
(* Rows in order.                                                          *)

\* Rows that can be told apart by their time.
Timed(S) == S \subseteq Row /\ IsFiniteSet(S) /\ \A u, v \in S : u.at = v.at => u = v

\* Each place is taken, by one row.
LEMMA Places ==
    ASSUME NEW S, Timed(S)
    PROVE  /\ Cardinality(S) \in Nat
           /\ \A v \in S : Place(S, v) \in 1..Cardinality(S)
           /\ \A i \in 1..Cardinality(S) : \E v \in S : Place(S, v) = i
           /\ \A u, v \in S : Place(S, u) = Place(S, v) => u = v
           /\ \A u, v \in S : u.at < v.at => Place(S, u) < Place(S, v)
<1> DEFINE Upto(v) == {u \in S : u.at <= v.at}
           k == Cardinality(S)
           place(v) == Cardinality(Upto(v))
<1>1. IsFiniteSet(S) /\ k \in Nat
  BY FS_CardinalityType DEF Timed
<1>2. \A v \in S : IsFiniteSet(Upto(v)) /\ place(v) \in Nat /\ place(v) <= k
  BY <1>1, FS_Subset, FS_CardinalityType
<1>3. \A v \in S : v.at \in Int
  BY DEF Timed, Row, Times
<1>4. \A v \in S : place(v) \in 1..k
  <2>1. SUFFICES ASSUME NEW v \in S PROVE place(v) # 0
    BY <1>1, <1>2
  <2>2. v \in Upto(v)
    BY <1>3
  <2> QED
    BY <1>2, <2>2, FS_EmptySet
<1>5. ASSUME NEW u \in S, NEW v \in S, u.at < v.at PROVE place(u) < place(v)
  <2>1. Upto(u) \subseteq Upto(v)
    BY <1>3, <1>5
  <2>2. v \in Upto(v) /\ v \notin Upto(u)
    BY <1>3, <1>5
  <2>3. Upto(u) # Upto(v)
    BY <2>2
  <2> HIDE DEF Upto
  <2> QED
    BY <1>2, <2>1, <2>3, FS_Subset
<1>6. \A u, v \in S : u.at < v.at \/ v.at < u.at \/ u = v
  BY <1>3 DEF Timed
<1> HIDE DEF Upto, k
<1>7. \A u, v \in S : place(u) = place(v) => u = v
  BY <1>2, <1>5, <1>6
<1>8. \A i \in 1..k : \E v \in S : place(v) = i
  <2> DEFINE g == [v \in S |-> place(v)]
  <2>1. g \in [S -> 1..k] /\ \A u, v \in S : g[u] = g[v] => u = v
    BY <1>4, <1>7
  <2>2. g \in Injection(S, 1..k)
    <3> HIDE DEF g
    <3> QED
      BY <2>1 DEF Injection, IsInjective
  <2>3. IsFiniteSet(1..k) /\ Cardinality(1..k) = k
    BY <1>1, FS_Interval
  <2>4. g \in Surjection(S, 1..k)
    BY <2>2, <2>3, FS_Injection DEF k
  <2>5. \A i \in 1..k : \E v \in S : g[v] = i
    BY <2>4 DEF Surjection
  <2> QED
    BY <2>5
<1> QED
  BY <1>1, <1>4, <1>5, <1>7, <1>8 DEF k, Upto, Place

\* The rows in order, each at its place.
LEMMA Ordering ==
    ASSUME NEW S, Timed(S)
    PROVE  /\ InOrder(S) \in Seq(S) /\ Len(InOrder(S)) = Cardinality(S)
           /\ \A i \in 1..Cardinality(S) : InOrder(S)[i] \in S /\ Place(S, InOrder(S)[i]) = i
           /\ \A v \in S : InOrder(S)[Place(S, v)] = v
<1> DEFINE k == Cardinality(S)
           s == InOrder(S)
<1>1. k \in Nat /\ s = [i \in 1..k |-> CHOOSE v \in S : Place(S, v) = i]
  BY Places DEF InOrder
<1>2. \A i \in 1..k : s[i] \in S /\ Place(S, s[i]) = i
  BY <1>1, Places
<1>3. \A v \in S : Place(S, v) \in 1..k
  BY Places
<1> HIDE DEF k, s
<1>4. \A v \in S : s[Place(S, v)] = v
  BY <1>2, <1>3, Places
<1>5. s \in [1..k -> S]
  BY <1>1, <1>2
<1>6. s \in Seq(S) /\ Len(s) = k
  BY <1>1, <1>5, SeqDef
<1> QED
  BY <1>2, <1>4, <1>6 DEF s, k

\* A sequence without one of its elements.
LEMMA WithoutElement ==
    ASSUME NEW S, NEW s \in Seq(S), NEW p \in 1..Len(s)
    PROVE  /\ List!RemoveAt(s, p) \in Seq(S) /\ Len(List!RemoveAt(s, p)) = Len(s) - 1
           /\ \A i \in 1..(Len(s) - 1) :
                 List!RemoveAt(s, p)[i] = IF i < p THEN s[i] ELSE s[i + 1]
<1> DEFINE k == Len(s)
           a == SubSeq(s, 1, p - 1)
           b == SubSeq(s, p + 1, k)
<1>1. k \in Nat /\ k >= 1
  BY LenProperties
<1>2. /\ a \in Seq(S) /\ Len(a) = p - 1 /\ \A i \in 1..(p - 1) : a[i] = s[i]
      /\ b \in Seq(S) /\ Len(b) = k - p /\ \A i \in 1..(k - p) : b[i] = s[p + i]
  BY <1>1, SMTT(30)
<1>3. List!RemoveAt(s, p) = a \o b
  BY DEF List!RemoveAt
<1> HIDE DEF a, b, k
<1>4. /\ a \o b \in Seq(S) /\ Len(a \o b) = Len(a) + Len(b)
      /\ \A i \in 1..(Len(a) + Len(b)) :
            (a \o b)[i] = IF i <= Len(a) THEN a[i] ELSE b[i - Len(a)]
  BY <1>2, ConcatProperties, Zenon
<1>5. Len(a) + Len(b) = k - 1
  BY <1>1, <1>2 DEF k
<1>6. /\ Len(a \o b) = k - 1
      /\ \A i \in 1..(k - 1) : (a \o b)[i] = IF i <= p - 1 THEN a[i] ELSE b[i - (p - 1)]
  BY <1>2, <1>4, <1>5, Zenon
<1>7. \A i \in 1..(k - 1) : (a \o b)[i] = IF i < p THEN s[i] ELSE s[i + 1]
  <2> TAKE i \in 1..(k - 1)
  <2>1. CASE i < p
    BY <1>1, <1>2, <1>6, <2>1
  <2>2. CASE ~(i < p)
    <3>1. i - (p - 1) \in 1..(k - p) /\ p + (i - (p - 1)) = i + 1
      BY <1>1, <2>2 DEF k
    <3>2. b[i - (p - 1)] = s[i + 1]
      BY <1>2, <3>1
    <3> QED
      BY <1>1, <1>6, <2>2, <3>2 DEF k
  <2> QED
    BY <2>1, <2>2
<1> QED
  BY <1>3, <1>4, <1>6, <1>7 DEF k

\* The list without a row.
LEMMA OneLess ==
    ASSUME NEW S, Timed(S), NEW v \in S
    PROVE  /\ Timed(S \ {v})
           /\ InOrder(S \ {v}) = List!RemoveAt(InOrder(S), Place(S, v))
<1> DEFINE T == S \ {v}
           k == Cardinality(S)
           p == Place(S, v)
           s == InOrder(S)
           t == InOrder(T)
<1>1. Timed(T)
  BY FS_RemoveElement DEF Timed
<1>2. k \in Nat /\ p \in 1..k /\ k >= 1 /\ Cardinality(T) = k - 1
  BY Places, FS_RemoveElement DEF Timed
<1>3. /\ s \in Seq(S) /\ Len(s) = k
      /\ t \in Seq(T) /\ Len(t) = k - 1
  BY <1>1, <1>2, Ordering
<1>4. ASSUME NEW u \in T
      PROVE  Place(T, u) = IF Place(S, u) > p THEN Place(S, u) - 1 ELSE Place(S, u)
  <2> DEFINE Upto == {x \in S : x.at <= u.at}
  <2>1. {x \in T : x.at <= u.at} = Upto \ {v}
    OBVIOUS
  <2>2. IsFiniteSet(Upto)
    BY FS_Subset DEF Timed
  <2>3. Cardinality(Upto \ {v}) = IF v \in Upto THEN Cardinality(Upto) - 1 ELSE Cardinality(Upto)
    BY <2>2, FS_RemoveElement
  <2>4. u.at \in Int /\ v.at \in Int /\ u.at # v.at
    BY DEF Timed, Row, Times
  <2>5. v \in Upto <=> v.at < u.at
    BY <2>4
  <2>6. v.at < u.at <=> Place(S, u) > p
    BY <2>4, Places
  <2> QED
    BY <2>1, <2>3, <2>5, <2>6 DEF Place
<1>5. ASSUME NEW i \in 1..(k - 1)
      PROVE  t[i] = IF i < p THEN s[i] ELSE s[i + 1]
  <2> DEFINE u == t[i]
  <2>1. u \in T /\ Place(T, u) = i
    BY <1>1, <1>2, <1>5, Ordering
  <2>2. Place(S, u) \in 1..k /\ Place(S, u) # p /\ s[Place(S, u)] = u
    BY <2>1, Places, Ordering
  <2>3. Place(T, u) = IF Place(S, u) > p THEN Place(S, u) - 1 ELSE Place(S, u)
    BY <1>4, <2>1
  <2> HIDE DEF u, k, p, T
  <2>4. Place(S, u) = IF i < p THEN i ELSE i + 1
    BY <1>2, <2>1, <2>2, <2>3
  <2> QED
    BY <2>2, <2>4 DEF u
<1> HIDE DEF T, k, p, s, t
<1>6. /\ List!RemoveAt(s, p) \in Seq(S) /\ Len(List!RemoveAt(s, p)) = k - 1
      /\ \A i \in 1..(k - 1) : List!RemoveAt(s, p)[i] = IF i < p THEN s[i] ELSE s[i + 1]
  BY <1>2, <1>3, WithoutElement
<1>7. t \in Seq(S)
  BY <1>3 DEF T
<1> QED
  <2>1. t = List!RemoveAt(s, p)
    BY <1>2, <1>3, <1>5, <1>6, <1>7, SeqEqual
  <2> QED
    BY <1>1, <2>1 DEF T, t, s, p

\* The list with one row on top.
LEMMA OneMore ==
    ASSUME NEW S, NEW v, Timed(S), v \in Row, \A u \in S : u.at < v.at
    PROVE  /\ Timed(S \cup {v})
           /\ InOrder(S \cup {v}) = Append(InOrder(S), v)
<1> DEFINE T == S \cup {v}
           k == Cardinality(S)
<1>1. v \notin S /\ v.at \in Int /\ \A u \in S : u.at \in Int
  BY DEF Timed, Row, Times
<1>2. Timed(T)
  BY <1>1, FS_AddElement DEF Timed
<1>3. k \in Nat /\ Cardinality(T) = k + 1
  BY <1>1, Places, FS_AddElement DEF Timed
<1>4. Place(T, v) = k + 1
  <2>1. {u \in T : u.at <= v.at} = T
    BY <1>1
  <2> QED
    BY <1>3, <2>1 DEF Place
<1>5. \A u \in S : Place(T, u) = Place(S, u)
  <2> TAKE u \in S
  <2>1. {x \in T : x.at <= u.at} = {x \in S : x.at <= u.at}
    BY <1>1
  <2> QED
    BY <2>1 DEF Place
<1> DEFINE s == InOrder(S)
           t == InOrder(T)
<1>6. /\ s \in Seq(S) /\ Len(s) = k /\ \A i \in 1..k : s[i] \in S /\ Place(S, s[i]) = i
      /\ t \in Seq(T) /\ Len(t) = k + 1
      /\ \A u \in T : t[Place(T, u)] = u
  BY <1>2, <1>3, Ordering
<1> HIDE DEF s, t, k
<1>7. t[k + 1] = v /\ \A i \in 1..k : t[i] = s[i]
  BY <1>3, <1>4, <1>5, <1>6
<1> HIDE DEF T
<1>8. s \in Seq(T) /\ v \in T
  BY <1>6, SeqMonotonic DEF T
<1>9. /\ Append(s, v) \in Seq(T) /\ Len(Append(s, v)) = k + 1
      /\ \A i \in 1..(k + 1) : Append(s, v)[i] = IF i <= k THEN s[i] ELSE v
  BY <1>3, <1>6, <1>8, AppendProperties
<1>10. t = Append(s, v)
  BY <1>3, <1>6, <1>7, <1>9, SeqEqual
<1> QED
  BY <1>2, <1>10 DEF s, t, T
-----------------------------------------------------------------------------
(* Lists of versions.                                                      *)

VersionRow == [id : Ids, body : Blobs \cup {Marker}]

\* The versions of rows.
LEMMA VersionsFacts ==
    ASSUME NEW s \in Seq(Row)
    PROVE  /\ VersionsOf(s) \in Seq(VersionRow) /\ Len(VersionsOf(s)) = Len(s)
           /\ \A i \in 1..Len(s) : VersionsOf(s)[i] = Version(s[i])
<1>1. Len(s) \in Nat /\ DOMAIN s = 1..Len(s) /\ \A i \in 1..Len(s) : s[i] \in Row
  BY LenProperties, ElementOfSeq
<1>2. \A i \in 1..Len(s) : Version(s[i]) \in VersionRow
  BY <1>1 DEF Version, VersionRow, Row
<1>3. VersionsOf(s) \in [1..Len(s) -> VersionRow]
  BY <1>1, <1>2 DEF VersionsOf
<1>4. VersionsOf(s) \in Seq(VersionRow) /\ Len(VersionsOf(s)) = Len(s)
  BY <1>1, <1>3, SeqDef, LenProperties
<1> QED
  BY <1>1, <1>4 DEF VersionsOf

\* They follow the rows.
LEMMA VersionsAppend ==
    ASSUME NEW s \in Seq(Row), NEW v \in Row
    PROVE  VersionsOf(Append(s, v)) = Append(VersionsOf(s), Version(v))
<1> DEFINE a == VersionsOf(s)
           t == Append(s, v)
           b == VersionsOf(t)
           c == Append(a, Version(v))
<1>1. /\ t \in Seq(Row) /\ Len(t) = Len(s) + 1 /\ Len(s) \in Nat
      /\ \A i \in 1..(Len(s) + 1) : t[i] = IF i <= Len(s) THEN s[i] ELSE v
  BY AppendProperties, LenProperties
<1>2. Version(v) \in VersionRow
  BY DEF Version, VersionRow, Row
<1>3. /\ a \in Seq(VersionRow) /\ Len(a) = Len(s) /\ \A i \in 1..Len(s) : a[i] = Version(s[i])
      /\ b \in Seq(VersionRow) /\ Len(b) = Len(t) /\ \A i \in 1..Len(t) : b[i] = Version(t[i])
  BY <1>1, VersionsFacts
<1> HIDE DEF a, b, t
<1>4. /\ c \in Seq(VersionRow) /\ Len(c) = Len(s) + 1
      /\ \A i \in 1..(Len(s) + 1) : c[i] = IF i <= Len(s) THEN a[i] ELSE Version(v)
  BY <1>2, <1>3, AppendProperties
<1> HIDE DEF c
<1>5. \A i \in 1..(Len(s) + 1) : b[i] = c[i]
  BY <1>1, <1>3, <1>4
<1>6. b = c
  BY <1>1, <1>3, <1>4, <1>5, SeqEqual
<1> QED
  BY <1>6 DEF a, b, c, t

\* Without an element, too.
LEMMA VersionsRemove ==
    ASSUME NEW s \in Seq(Row), NEW p \in 1..Len(s)
    PROVE  VersionsOf(List!RemoveAt(s, p)) = List!RemoveAt(VersionsOf(s), p)
<1> DEFINE a == VersionsOf(s)
           t == List!RemoveAt(s, p)
           b == VersionsOf(t)
           c == List!RemoveAt(a, p)
<1>1. /\ t \in Seq(Row) /\ Len(t) = Len(s) - 1 /\ Len(s) \in Nat
      /\ \A i \in 1..(Len(s) - 1) : t[i] = IF i < p THEN s[i] ELSE s[i + 1]
  BY WithoutElement, LenProperties
<1>2. /\ a \in Seq(VersionRow) /\ Len(a) = Len(s) /\ \A i \in 1..Len(s) : a[i] = Version(s[i])
      /\ b \in Seq(VersionRow) /\ Len(b) = Len(t) /\ \A i \in 1..Len(t) : b[i] = Version(t[i])
  BY <1>1, VersionsFacts
<1> HIDE DEF a, b, t
<1>3. /\ c \in Seq(VersionRow) /\ Len(c) = Len(s) - 1
      /\ \A i \in 1..(Len(s) - 1) : c[i] = IF i < p THEN a[i] ELSE a[i + 1]
  BY <1>2, WithoutElement
<1> HIDE DEF c
<1>4. \A i \in 1..(Len(s) - 1) : b[i] = c[i]
  BY <1>1, <1>2, <1>3
<1>5. b = c
  BY <1>1, <1>2, <1>3, <1>4, SeqEqual
<1> QED
  BY <1>5 DEF a, b, c, t

\* The list of rows.
Listed(S) == VersionsOf(InOrder(S))

\* What the list says of the rows.
LEMMA ListedFacts ==
    ASSUME NEW S, Timed(S)
    PROVE  /\ InOrder(S) \in Seq(Row) /\ Len(InOrder(S)) = Cardinality(S)
           /\ Cardinality(S) \in Nat /\ DOMAIN Listed(S) = 1..Cardinality(S)
           /\ Len(Listed(S)) = Cardinality(S)
           /\ \A v \in S : Place(S, v) \in 1..Cardinality(S) /\ Listed(S)[Place(S, v)] = Version(v)
           /\ \A i \in 1..Cardinality(S) :
                 \E v \in S : Place(S, v) = i /\ Listed(S)[i] = Version(v)
<1>1. /\ InOrder(S) \in Seq(Row) /\ Len(InOrder(S)) = Cardinality(S)
      /\ Cardinality(S) \in Nat
  BY Ordering, Places, SeqMonotonic DEF Timed
<1>2. /\ Listed(S) \in Seq(VersionRow) /\ Len(Listed(S)) = Cardinality(S)
      /\ \A i \in 1..Cardinality(S) : Listed(S)[i] = Version(InOrder(S)[i])
  BY <1>1, VersionsFacts DEF Listed
<1>3. DOMAIN Listed(S) = 1..Cardinality(S)
  BY <1>2, LenProperties
<1> QED
  BY <1>1, <1>2, <1>3, Places, Ordering

\* To delete a version is to take out its row.
LEMMA WithoutRow ==
    ASSUME NEW S, Timed(S), \A u, v \in S : u.id = v.id => u = v, NEW v \in S
    PROVE  v.id \in List!IdsOf(Listed(S)) /\ List!Without(Listed(S), v.id) = Listed(S \ {v})
<1> DEFINE l == Listed(S)
           k == Cardinality(S)
           p == Place(S, v)
<1>1. p \in 1..k /\ DOMAIN l = 1..k /\ l[p] = Version(v)
  BY ListedFacts
<1>2. \A i \in 1..k : \E u \in S : Place(S, u) = i /\ l[i] = Version(u)
  BY ListedFacts
<1> HIDE DEF l, k
<1>3. l[p].id = v.id /\ \A i \in 1..k : l[i].id = v.id => i = p
  BY <1>1, <1>2 DEF Version
<1> HIDE DEF p
<1>4. v.id \in List!IdsOf(l)
  BY <1>1, <1>3 DEF List!IdsOf
<1>5. (CHOOSE i \in DOMAIN l : l[i].id = v.id) = p
  BY <1>1, <1>3
<1>6. List!Without(l, v.id) = List!RemoveAt(l, p)
  BY <1>4, <1>5 DEF List!Without
<1>7. Listed(S \ {v}) = List!RemoveAt(l, p)
  <2>1. InOrder(S) \in Seq(Row) /\ Len(InOrder(S)) = k
    BY ListedFacts DEF k
  <2>2. InOrder(S \ {v}) = List!RemoveAt(InOrder(S), p)
    BY OneLess DEF p
  <2> QED
    BY <1>1, <2>1, <2>2, VersionsRemove DEF Listed, l
<1> QED
  BY <1>4, <1>6, <1>7 DEF l

\* What is not there cannot be taken out.
LEMMA WithoutNone ==
    ASSUME NEW S, Timed(S), NEW id, \A v \in S : v.id # id
    PROVE  id \notin List!IdsOf(Listed(S)) /\ List!Without(Listed(S), id) = Listed(S)
<1>1. id \notin List!IdsOf(Listed(S))
  <2>1. /\ DOMAIN Listed(S) = 1..Cardinality(S)
        /\ \A i \in 1..Cardinality(S) : \E v \in S : Listed(S)[i] = Version(v)
    BY ListedFacts
  <2> QED
    BY <2>1 DEF List!IdsOf, Version
<1> QED
  BY <1>1 DEF List!Without

\* A new version goes on top.
LEMMA OnTop ==
    ASSUME NEW S, Timed(S), NEW v \in Row, \A u \in S : u.at < v.at
    PROVE  Timed(S \cup {v}) /\ Listed(S \cup {v}) = Append(Listed(S), Version(v))
<1>1. InOrder(S) \in Seq(Row)
  BY ListedFacts
<1>2. Timed(S \cup {v}) /\ InOrder(S \cup {v}) = Append(InOrder(S), v)
  BY OneMore
<1> QED
  BY <1>1, <1>2, VersionsAppend DEF Listed

-----------------------------------------------------------------------------
(* Requests that come one at a time.                                       *)

\* The bucket is never suspended, nothing is restored and no read fails.
Plain == "suspended" \notin Modes /\ Operations \cap {"restore", "failedRead"} = {}

\* The rows h of history and c of objects are a stack, and a marker is on top if
\* and only if there is no current version.
Stack(h, c) ==
    /\ Timed(h)
    /\ c = NoObject \/ (c \in Row /\ c.body # Marker)
    /\ c # NoObject => \A v \in h : v.at < c.at
    /\ c = NoObject => \A v \in NewestOf(h) : v.body = Marker
RowsOf(h, c) == h \cup (IF c = NoObject THEN {} ELSE {c})

\* The request under way, if there is one, has begun last and knows the settings.
Alone ==
    \A w \in Writers : pc[w] # "idle" =>
        /\ \A x \in Writers : pc[x] # "idle" => x = w
        /\ InTx(w) => start[w] = clock
        /\ op[w].kind \in Operations
        /\ op[w].kind \in {"put", "delete"} => opts[w] = versioning

\* A promotion goes on with what it has read.
Picked ==
    \A w \in Writers : pc[w] = "promoting" =>
        removed[w] \in Rows /\ newest[w] \in NewestOf(history \ {removed[w]})

\* The stack has each id once, and before the bucket was versioned there was but
\* the null version.
Piled ==
    /\ versioning # "suspended"
    /\ Stack(history, current)
    /\ \A u, v \in Rows : u.id = v.id => u = v
    /\ versioning = "unversioned" => history = {} /\ \A v \in Rows : v.id = NullId

\* The inductive invariant of OrderedSpec.
OrderedInv == IInv /\ Alone /\ Picked /\ Piled

\* The tables listed, oldest first, as the rows are in order.
LEMMA OneList ==
    ASSUME NEW h, NEW c, Stack(h, c)
    PROVE  /\ Timed(RowsOf(h, c))
           /\ VersionsOf(InOrder(h) \o (IF c = NoObject THEN <<>> ELSE <<c>>))
                = Listed(RowsOf(h, c))
<1>1. InOrder(h) \in Seq(Row)
  BY ListedFacts DEF Stack
<1>2. CASE c = NoObject
  <2>1. RowsOf(h, c) = h
    BY <1>2 DEF RowsOf
  <2>2. InOrder(h) \o <<>> = InOrder(h)
    BY <1>1, ConcatEmptySeq
  <2> QED
    BY <1>2, <2>1, <2>2 DEF Stack, Listed
<1>3. CASE c # NoObject
  <2>1. RowsOf(h, c) = h \cup {c} /\ c \in Row
    BY <1>3 DEF RowsOf, Stack
  <2>2. Timed(h \cup {c}) /\ InOrder(h \cup {c}) = Append(InOrder(h), c)
    BY <1>3, <2>1, OneMore DEF Stack
  <2>3. InOrder(h) \o <<c>> = Append(InOrder(h), c)
    BY <1>1, <2>1, AppendIsConcat
  <2> QED
    BY <1>3, <2>1, <2>2, <2>3 DEF Listed
<1> QED
  BY <1>2, <1>3

\* Nothing is an empty list.
LEMMA EmptyList == Timed({}) /\ Listed({}) = <<>>
<1>1. Timed({}) /\ Cardinality({}) = 0
  BY FS_EmptySet DEF Timed
<1>2. InOrder({}) \in Seq(Row) /\ Len(InOrder({})) = 0
  BY <1>1, ListedFacts
<1>3. Listed({}) \in Seq(VersionRow) /\ Len(Listed({})) = 0
  BY <1>2, VersionsFacts DEF Listed
<1> QED
  BY <1>1, <1>3, EmptySeq, SeqEqual

\* What a GET shows is what is on top.
LEMMA OnTopShows ==
    ASSUME NEW h, NEW c, Stack(h, c)
    PROVE  List!Shown(Listed(RowsOf(h, c))) = IF c = NoObject THEN Nothing ELSE c.body
<1>1. CASE c # NoObject
  <2> DEFINE l == Listed(h)
             v == Version(c)
  <2>1. RowsOf(h, c) = h \cup {c} /\ c \in Row /\ c.body # Marker
    BY <1>1 DEF RowsOf, Stack
  <2>2. Listed(h \cup {c}) = Append(l, v)
    BY <1>1, <2>1, OnTop DEF Stack
  <2>3. v.body = c.body /\ v \in VersionRow
    BY <2>1 DEF Version, VersionRow, Row
  <2>4. l \in Seq(VersionRow)
    BY ListedFacts, VersionsFacts DEF Listed, Stack
  <2> HIDE DEF l, v
  <2>5. Len(Append(l, v)) = Len(l) + 1 /\ Append(l, v)[Len(l) + 1] = v /\ Append(l, v) # <<>>
    BY <2>3, <2>4, AppendProperties, LenProperties, EmptySeq
  <2> QED
    BY <1>1, <2>1, <2>2, <2>3, <2>5 DEF List!Shown, List!Last
<1>2. CASE c = NoObject
  <2>1. RowsOf(h, c) = h
    BY <1>2 DEF RowsOf
  <2>2. CASE h = {}
    BY <1>2, <2>1, <2>2, EmptyList DEF List!Shown
  <2>3. CASE h # {}
    <3> DEFINE k == Cardinality(h)
    <3>1. k \in Nat /\ Len(Listed(h)) = k /\ k # 0
      BY <2>3, ListedFacts, FS_EmptySet DEF Stack, Timed
    <3>2. PICK v \in h : Place(h, v) = k /\ Listed(h)[k] = Version(v)
      BY <3>1, ListedFacts DEF Stack
    <3>3. \A u \in h : u.at <= v.at
      <4>1. \A u \in h : Place(h, u) \in 1..k
        BY ListedFacts DEF Stack
      <4>2. \A u \in h : ~(v.at < u.at)
        BY <3>1, <3>2, <4>1, Places DEF Stack
      <4>3. \A u \in h : u.at \in Int
        BY DEF Stack, Timed, Row, Times
      <4> QED
        BY <4>2, <4>3
    <3>4. v.body = Marker
      BY <1>2, <3>3 DEF Stack, NewestOf
    <3>5. Listed(h) # <<>>
      BY <3>1, EmptySeq
    <3>6. List!Last(Listed(h)).body = Marker
      BY <3>1, <3>2, <3>4 DEF List!Last, Version
    <3> QED
      BY <1>2, <2>1, <3>6 DEF List!Shown
  <2> QED
    BY <2>2, <2>3
<1> QED
  BY <1>1, <1>2

\* The mapping of the tables, before a step and after it.
LEMMA Mapped ==
    ASSUME Piled
    PROVE  /\ VersionsOf(RowList) = Listed(Rows) /\ Timed(Rows)
           /\ Rows = RowsOf(history, current)
           /\ List!Shown(Listed(Rows)) = IF current = NoObject THEN Nothing ELSE current.body
<1>1. Rows = RowsOf(history, current)
  BY DEF Rows, RowsOf
<1> QED
  BY <1>1, OneList, OnTopShows DEF Piled, RowList

\* The next state of the list, from the rows after the step.
LEMMA MappedAfter ==
    ASSUME Stack(history', current'), versioning' = versioning, NEW l,
           Listed(RowsOf(history', current')) = l
    PROVE  List!Become(l)
<1>1. VersionsOf(RowList)' = l
  BY OneList DEF RowList, VersionsOf
<1>2. (IF current' = NoObject THEN Nothing ELSE current'.body) = List!Shown(l)
  BY OnTopShows
<1> QED
  BY <1>1, <1>2 DEF List!Become

\* A step that leaves the tables alone leaves the list alone.
LEMMA Stutters ==
    ASSUME UNCHANGED <<versioning, tables>>
    PROVE  UNCHANGED List!absVars
BY DEF List!absVars, tables, RowList, VersionsOf

-----------------------------------------------------------------------------
(* Each write does to the list what S3 says it does.                       *)

\* A row that a transaction writes is new to the stack and goes on top of it.
LEMMA NewOnTop ==
    ASSUME OrderedInv, NEW w \in Writers, InTx(w)
    PROVE  /\ start[w] \in Times /\ start[w] # NullId
           /\ \A v \in Rows : v \in Row /\ v.at < start[w] /\ v.id # start[w]
<1>1. /\ start[w] \in Times /\ start[w] # NullId
      /\ \A v \in Rows : v \in Row /\ v.at # start[w] /\ v.id # start[w] /\ Past(v.at)
  BY NewRows DEF OrderedInv
<1>2. start[w] = clock
  BY DEF OrderedInv, Alone, InTx
<1>3. \A v \in Rows : v.at \in Int /\ v.at <= clock
  BY <1>1 DEF Past, Row, Times
<1> QED
  BY <1>1, <1>2, <1>3 DEF Times

\* A request that ends leaves nobody under way.
LEMMA Ended ==
    ASSUME OrderedInv, NEW w \in Writers, pc[w] # "idle", Finish(w)
    PROVE  Alone' /\ Picked' /\ versioning' = versioning
<1>1. \A x \in Writers : pc'[x] = "idle"
  BY DEF OrderedInv, IInv, TypeOK, Alone, Finish
<1> QED
  BY <1>1 DEF Alone, Picked, Finish

\* The rows stay a stack when one goes on top of them.
LEMMA Grown ==
    ASSUME OrderedInv, Plain, NEW v \in Row, versioning = "enabled", versioning' = versioning,
           \A u \in Rows : u.at < v.at /\ u.id # v.id, v.id \in Times,
           history' \cup (IF current' = NoObject THEN {} ELSE {current'}) = Rows \cup {v},
           \/ history' = Rows /\ current' = v /\ v.body # Marker
           \/ history' = Rows \cup {v} /\ current' = NoObject /\ v.body = Marker
    PROVE  Piled' /\ \E id \in Times \ List!IdsOf(Listed(Rows)) :
                         List!Become(Append(Listed(Rows), [id |-> id, body |-> v.body]))
<1>1. Timed(Rows) /\ v # NoObject
  BY Mapped, NoRowAssumption DEF OrderedInv
<1>2. Timed(Rows \cup {v}) /\ Listed(Rows \cup {v}) = Append(Listed(Rows), Version(v))
  BY <1>1, OnTop
<1>3. Stack(history', current')
  <2>1. CASE history' = Rows /\ current' = v /\ v.body # Marker
    BY <1>1, <2>1 DEF Stack
  <2>2. CASE history' = Rows \cup {v} /\ current' = NoObject /\ v.body = Marker
    <3>1. \A u \in Rows : u.at \in Int /\ v.at \in Int
      BY <1>1 DEF Timed, Row, Times
    <3>2. \A u \in NewestOf(Rows \cup {v}) : u = v
      BY <3>1 DEF NewestOf
    <3> QED
      BY <1>2, <2>2, <3>2 DEF Stack
  <2> QED
    BY <2>1, <2>2
<1>4. RowsOf(history', current') = Rows \cup {v} /\ Rows' = Rows \cup {v}
  BY DEF RowsOf, Rows
<1>5. Piled'
  BY <1>3, <1>4 DEF Piled, OrderedInv
<1>6. List!Become(Append(Listed(Rows), Version(v)))
  BY <1>2, <1>3, <1>4, MappedAfter
<1>7. v.id \notin List!IdsOf(Listed(Rows))
  BY <1>1, WithoutNone
<1> QED
  BY <1>5, <1>6, <1>7 DEF Version

\* And when one is taken out.
LEMMA Shrunk ==
    ASSUME OrderedInv, NEW v \in Rows, versioning' = versioning,
           Stack(history', current'), Listed(Rows') = Listed(Rows \ {v}),
           \A u \in Rows' : \E x \in Rows : x.id = u.id,
           \A u, x \in Rows' : u.id = x.id => u = x,
           versioning = "unversioned" => history' = {}
    PROVE  Piled' /\ List!DeleteVersion
<1>1. Timed(Rows) /\ VersionsOf(RowList) = Listed(Rows)
  BY Mapped DEF OrderedInv
<1>2. v.id \in List!IdsOf(Listed(Rows)) /\ List!Without(Listed(Rows), v.id) = Listed(Rows \ {v})
  BY <1>1, WithoutRow DEF OrderedInv, Piled
<1>3. Rows' = RowsOf(history', current')
  BY DEF Rows, RowsOf
<1>4. List!Become(Listed(Rows \ {v}))
  BY <1>3, MappedAfter
<1>5. List!DeleteVersion
  BY <1>1, <1>2, <1>4 DEF List!DeleteVersion
<1>6. versioning' = "unversioned" => history' = {} /\ \A u \in Rows' : u.id = NullId
  BY DEF OrderedInv, Piled
<1> QED
  BY <1>5, <1>6 DEF Piled, OrderedInv

\* Before the bucket is versioned a put or a delete takes the place of what was there.
LEMMA Unversioned ==
    ASSUME OrderedInv, versioning = "unversioned"
    PROVE  List!Without(Listed(Rows), NullId) = <<>>
<1>1. Timed(Rows)
  BY Mapped DEF OrderedInv
<1>2. CASE Rows = {}
  BY <1>1, <1>2, WithoutNone, EmptyList
<1>3. CASE Rows # {}
  <2>1. PICK v \in Rows : TRUE
    BY <1>3
  <2>2. Rows = {v} /\ v.id = NullId
    BY <2>1 DEF OrderedInv, Piled, Rows
  <2>3. List!Without(Listed(Rows), v.id) = Listed(Rows \ {v})
    BY <1>1, WithoutRow DEF OrderedInv, Piled
  <2> QED
    BY <2>2, <2>3, EmptyList
<1> QED
  BY <1>2, <1>3

\* PutObject is Put.
LEMMA PutObjectPuts ==
    ASSUME OrderedInv, Plain, NEW w \in Writers, PutObject(w)
    PROVE  OrderedInv' /\ List!Put
<1> DEFINE v == [id |-> NewId(w), body |-> op[w].body, at |-> start[w]]
<1>1. /\ Locked(w) /\ op[w].kind = "put" /\ current' = v
      /\ history' = history \cup Superseded(w) /\ Finish(w)
  BY DEF PutObject
<1>2. InTx(w) /\ pc[w] # "idle" /\ opts[w] = versioning
  BY <1>1, LockedAlone DEF OrderedInv, Alone
<1>3. IInv'
  BY PutObjectStep DEF OrderedInv
<1>4. Alone' /\ Picked' /\ versioning' = versioning
  BY <1>1, <1>2, Ended
<1>5. op[w].body \in Blobs
  BY <1>1 DEF OrderedInv, IInv, TypeOK, Requests, NoRequest
<1>6. VersionsOf(RowList) = Listed(Rows)
  BY Mapped DEF OrderedInv
<1>7. versioning \in {"unversioned", "enabled"}
  BY DEF OrderedInv, Piled, IInv, TypeOK, States
<1>8. CASE versioning = "enabled"
  <2>1. v.id = start[w] /\ v.at = start[w] /\ v.body = op[w].body /\ v.body # Marker
    BY <1>2, <1>5, <1>8, NamesAssumption DEF NewId
  <2>2. v \in Row /\ v.id \in Times /\ \A u \in Rows : u.at < v.at /\ u.id # v.id
    BY <1>2, <1>5, <2>1, NewOnTop DEF Row, Ids
  <2>3. history' = Rows
    BY <1>1, <1>2, <1>8 DEF Superseded, Preserves, Rows
  <2> HIDE DEF v
  <2>4. v # NoObject
    BY <2>2, NoRowAssumption
  <2>5. history' \cup (IF current' = NoObject THEN {} ELSE {current'}) = Rows \cup {v}
    BY <1>1, <2>3, <2>4
  <2>6. Piled' /\ \E id \in Times \ List!IdsOf(Listed(Rows)) :
                      List!Become(Append(Listed(Rows), [id |-> id, body |-> v.body]))
    BY <1>1, <1>4, <1>8, <2>1, <2>2, <2>3, <2>5, Grown
  <2>7. List!Add(op[w].body)
    BY <1>6, <1>8, <2>1, <2>6 DEF List!Add
  <2> QED
    BY <1>3, <1>4, <1>5, <2>6, <2>7 DEF OrderedInv, List!Put
<1>9. CASE versioning = "unversioned"
  <2>1. v.id = NullId /\ v.at = start[w] /\ v.body = op[w].body /\ v.body # Marker
    BY <1>2, <1>5, <1>9, NamesAssumption DEF NewId
  <2>2. v \in Row
    BY <1>2, <1>5, <2>1, NewOnTop DEF Row, Ids
  <2>3. history' = {}
    BY <1>1, <1>2, <1>9 DEF Superseded, Preserves, OrderedInv, Piled
  <2> HIDE DEF v
  <2>4. v # NoObject
    BY <2>2, NoRowAssumption
  <2>5. Stack(history', current')
    BY <1>1, <2>1, <2>2, <2>3, <2>4, EmptyList DEF Stack
  <2>6. RowsOf(history', current') = {} \cup {v} /\ Rows' = {v}
    BY <1>1, <2>3, <2>4 DEF RowsOf, Rows
  <2>7. Listed({} \cup {v}) = Append(<<>>, Version(v))
    BY <2>2, EmptyList, OnTop
  <2>8. List!Become(Append(<<>>, Version(v)))
    BY <1>4, <2>5, <2>6, <2>7, MappedAfter
  <2>9. List!Add(op[w].body)
    BY <1>6, <1>9, <2>1, <2>8, Unversioned DEF List!Add, Version
  <2>10. Piled'
    BY <1>4, <1>9, <2>1, <2>3, <2>5, <2>6 DEF Piled
  <2> QED
    BY <1>3, <1>4, <1>5, <2>9, <2>10 DEF OrderedInv, List!Put
<1> QED
  BY <1>7, <1>8, <1>9

\* DeleteObject is Delete.
LEMMA DeleteObjectDeletes ==
    ASSUME OrderedInv, Plain, NEW w \in Writers, DeleteObject(w)
    PROVE  OrderedInv' /\ List!Delete
<1> DEFINE v == [id |-> NewId(w), body |-> Marker, at |-> start[w]]
<1>1. /\ Locked(w) /\ op[w].kind = "delete" /\ current' = NoObject /\ Finish(w)
      /\ IF opts[w] = "unversioned"
         THEN history' = history /\ count' = ReleaseCurrent(w, count)
         ELSE MarkDeleted(w)
  BY DEF DeleteObject
<1>2. InTx(w) /\ pc[w] # "idle" /\ opts[w] = versioning
  BY <1>1, LockedAlone DEF OrderedInv, Alone
<1>3. IInv'
  BY DeleteObjectStep DEF OrderedInv
<1>4. Alone' /\ Picked' /\ versioning' = versioning
  BY <1>1, <1>2, Ended
<1>5. VersionsOf(RowList) = Listed(Rows)
  BY Mapped DEF OrderedInv
<1>6. versioning \in {"unversioned", "enabled"}
  BY DEF OrderedInv, Piled, IInv, TypeOK, States
<1>7. CASE versioning = "enabled"
  <2>1. v.id = start[w] /\ v.at = start[w] /\ v.body = Marker
    BY <1>2, <1>7 DEF NewId
  <2>2. v \in Row /\ v.id \in Times /\ \A u \in Rows : u.at < v.at /\ u.id # v.id
    BY <1>2, <2>1, NewOnTop DEF Row, Ids
  <2>3. history' = Rows \cup {v}
    BY <1>1, <1>2, <1>7 DEF MarkDeleted, Superseded, Preserves, Rows
  <2> HIDE DEF v
  <2>4. history' \cup (IF current' = NoObject THEN {} ELSE {current'}) = Rows \cup {v}
    BY <1>1, <2>3
  <2>5. Piled' /\ \E id \in Times \ List!IdsOf(Listed(Rows)) :
                      List!Become(Append(Listed(Rows), [id |-> id, body |-> v.body]))
    BY <1>1, <1>4, <1>7, <2>1, <2>2, <2>3, <2>4, Grown
  <2>6. List!Add(Marker)
    BY <1>5, <1>7, <2>1, <2>5 DEF List!Add
  <2> QED
    BY <1>3, <1>4, <1>7, <2>5, <2>6 DEF OrderedInv, List!Delete
<1>8. CASE versioning = "unversioned"
  <2>1. history' = {}
    BY <1>1, <1>2, <1>8 DEF OrderedInv, Piled
  <2>2. Stack(history', current') /\ RowsOf(history', current') = {} /\ Rows' = {}
    BY <1>1, <2>1, EmptyList DEF Stack, RowsOf, Rows, NewestOf
  <2>3. List!Become(<<>>)
    BY <1>4, <2>2, MappedAfter, EmptyList
  <2>4. List!Delete
    BY <1>5, <1>8, <2>3, Unversioned DEF List!Delete
  <2>5. Piled'
    BY <1>4, <1>8, <2>1, <2>2 DEF Piled
  <2> QED
    BY <1>3, <1>4, <2>4, <2>5 DEF OrderedInv
<1> QED
  BY <1>6, <1>7, <1>8

\* DeleteObjectVersion is DeleteVersion.
LEMMA DeleteObjectVersionDeletes ==
    ASSUME OrderedInv, NEW w \in Writers, DeleteObjectVersion(w)
    PROVE  OrderedInv' /\ List!DeleteVersion
<1>1. PICK v \in Named(w) :
          /\ \/ current \notin {v, NoObject}
             \/ history \ {v} = {}
             \/ \E u \in NewestOf(history \ {v}) : u.body = Marker
          /\ current' = IF current = v THEN NoObject ELSE current
          /\ history' = history \ {v}
  BY DEF DeleteObjectVersion
<1>2. Locked(w) /\ Finish(w) /\ pc[w] # "idle"
  BY DEF DeleteObjectVersion, Locked
<1>3. IInv'
  BY DeleteObjectVersionStep DEF OrderedInv
<1>4. Alone' /\ Picked' /\ versioning' = versioning
  BY <1>2, Ended
<1>5. v \in Rows
  BY DEF Named, Rows
<1>6. Rows' = Rows \ {v}
  BY <1>1, <1>5 DEF Rows, OrderedInv, IInv, Disjoint
<1>7. Timed(history \ {v})
  BY FS_RemoveElement DEF OrderedInv, Piled, Stack, Timed
<1>8. Stack(history', current')
  <2>1. CASE current \notin {v, NoObject}
    BY <1>1, <1>7, <2>1 DEF Stack, OrderedInv, Piled
  <2>2. CASE history \ {v} = {}
    BY <1>1, <1>7, <2>2 DEF Stack, OrderedInv, Piled, NewestOf
  <2>3. CASE \E u \in NewestOf(history \ {v}) : u.body = Marker
    <3>1. \A x, y \in NewestOf(history \ {v}) : x = y
      BY <1>7 DEF NewestOf, Timed, Row, Times
    <3>2. \A x \in NewestOf(history \ {v}) : x.body = Marker
      BY <2>3, <3>1
    <3> QED
      BY <1>1, <1>7, <3>2 DEF Stack, OrderedInv, Piled
  <2> QED
    BY <1>1, <2>1, <2>2, <2>3
<1>9. /\ \A u \in Rows' : \E x \in Rows : x.id = u.id
      /\ \A u, x \in Rows' : u.id = x.id => u = x
      /\ versioning = "unversioned" => history' = {}
  BY <1>1, <1>6 DEF OrderedInv, Piled
<1>10. Listed(Rows') = Listed(Rows \ {v})
  BY <1>6
<1>11. Piled' /\ List!DeleteVersion
  BY <1>4, <1>5, <1>8, <1>9, <1>10, Shrunk
<1> QED
  BY <1>3, <1>4, <1>11 DEF OrderedInv

\* PromoteNewestVersion is DeleteVersion, too: what comes out on top was under it.
LEMMA PromoteNewestVersionDeletes ==
    ASSUME OrderedInv, NEW w \in Writers, PromoteNewestVersion(w)
    PROVE  OrderedInv' /\ List!DeleteVersion
<1> DEFINE v == removed[w]
           u == newest[w]
           c == [u EXCEPT !.at = start[w]]
           rest == history \ {v, u}
<1>1. /\ pc[w] = "promoting" /\ Finish(w) /\ current' = c /\ history' = rest
  BY DEF PromoteNewestVersion
<1>2. IInv'
  BY PromoteNewestVersionStep DEF OrderedInv
<1>3. Alone' /\ Picked' /\ versioning' = versioning
  BY <1>1, Ended
<1>4. v \in Rows /\ u \in NewestOf(history \ {v}) /\ u \in history /\ u # v
  BY <1>1 DEF OrderedInv, Picked, NewestOf
<1>5. u \in Row /\ u.body # Marker /\ current \in {v, NoObject}
  BY <1>1 DEF OrderedInv, IInv, PromotionOf
<1>6. /\ start[w] \in Times /\ \A x \in Rows : x \in Row /\ x.at < start[w]
  BY <1>1, NewOnTop DEF InTx
<1>7. c \in Row /\ c.id = u.id /\ c.body = u.body /\ c.at = start[w] /\ c # NoObject
  BY <1>5, <1>6, NoRowAssumption DEF Row
<1>8. history \ {v} = Rows \ {v} /\ rest \subseteq Rows
  BY <1>5 DEF Rows, OrderedInv, IInv, Disjoint
<1>9. Timed(history) /\ Timed(history \ {v}) /\ Timed(rest)
  <2>1. Timed(history)
    BY DEF OrderedInv, Piled, Stack
  <2>2. Timed(history \ {v})
    BY <2>1, FS_RemoveElement DEF Timed
  <2>3. (history \ {v}) \ {u} = rest
    OBVIOUS
  <2>4. Timed((history \ {v}) \ {u})
    BY <2>2, FS_RemoveElement DEF Timed
  <2> QED
    BY <2>1, <2>2, <2>3, <2>4
<1> HIDE DEF v, u, c, rest
<1>10. \A x \in rest : x.at < u.at /\ x.at < c.at
  <2>1. \A x \in rest : x \in history \ {v} /\ x # u
    BY DEF rest
  <2>2. \A x \in rest : x.at <= u.at /\ x.at # u.at /\ x.at \in Int /\ u.at \in Int
    BY <1>4, <1>5, <1>9, <2>1 DEF NewestOf, Timed, Row, Times
  <2> QED
    BY <1>6, <1>7, <1>8, <2>2
<1>11. Listed(rest \cup {c}) = Listed(rest \cup {u})
  <2>1. Version(c) = Version(u)
    BY <1>7 DEF Version
  <2>2. Listed(rest \cup {c}) = Append(Listed(rest), Version(c))
    BY <1>7, <1>9, <1>10, OnTop
  <2>3. Listed(rest \cup {u}) = Append(Listed(rest), Version(u))
    BY <1>5, <1>9, <1>10, OnTop
  <2> QED
    BY <2>1, <2>2, <2>3
<1>12. rest \cup {u} = Rows \ {v}
  BY <1>4, <1>8 DEF rest
<1>13. Rows' = rest \cup {c}
  BY <1>1, <1>7 DEF Rows
<1>14. Stack(history', current')
  BY <1>1, <1>5, <1>7, <1>9, <1>10 DEF Stack
<1>15. \A x, y \in Rows' : x.id = y.id => x = y
  <2>1. \A x \in rest : x \in Rows /\ x # u /\ x.id # u.id
    BY <1>4, <1>8 DEF rest, OrderedInv, Piled, Rows
  <2>2. \A x, y \in rest : x.id = y.id => x = y
    BY <2>1 DEF OrderedInv, Piled
  <2> QED
    BY <1>7, <1>13, <2>1, <2>2
<1>16. versioning = "unversioned" => history' = {}
  BY <1>4 DEF OrderedInv, Piled
<1>17. \A x \in Rows' : \E y \in Rows : y.id = x.id
  BY <1>4, <1>7, <1>8, <1>13 DEF Rows
<1>18. Listed(Rows') = Listed(Rows \ {v})
  BY <1>11, <1>12, <1>13
<1>19. Piled' /\ List!DeleteVersion
  BY <1>3, <1>4, <1>14, <1>15, <1>16, <1>17, <1>18, Shrunk
<1> QED
  BY <1>2, <1>3, <1>19 DEF OrderedInv

\* A request that fails or finds nothing, or a step of one that is under way, does
\* nothing to the list.
LEMMA OthersStutter ==
    ASSUME OrderedInv, Plain, NEW w \in Writers,
           \/ (Quiet /\ Arrive(w)) \/ Begin(w) \/ PickSuccessor(w)
           \/ NullClash(w) \/ VersionNotFound(w) \/ Rollback(w)
    PROVE  OrderedInv' /\ UNCHANGED <<versioning, tables>>
<1>1. UNCHANGED <<versioning, tables>>
  BY DEF Arrive, Begin, PickSuccessor, NullClash, VersionNotFound, Rollback, Finish
<1>2. IInv'
  BY ArriveStep, BeginStep, PickSuccessorStep, RollbackStep
     DEF OrderedInv, NullClash, VersionNotFound, Rollback
<1>3. Piled'
  BY <1>1 DEF OrderedInv, Piled, tables, Rows
<1>4. CASE Quiet /\ Arrive(w)
  <2>1. PICK r \in Requests :
            /\ r.kind \in Operations
            /\ op' = [op EXCEPT ![w] = r]
            /\ IF r.kind \in {"put", "delete"}
               THEN \E s \in Answers : opts' = [opts EXCEPT ![w] = s]
               ELSE UNCHANGED opts
    BY <1>4 DEF Arrive
  <2>2. Answers = {versioning}
    BY DEF Answers, Plain
  <2>3. /\ pc' = [pc EXCEPT ![w] = "ready"] /\ \A x \in Writers : pc[x] = "idle"
        /\ versioning' = versioning
    BY <1>4 DEF Arrive, Quiet
  <2>4. op'[w] = r /\ (r.kind \in {"put", "delete"} => opts'[w] = versioning)
    BY <2>1, <2>2 DEF OrderedInv, IInv, TypeOK
  <2>5. \A x \in Writers : pc'[x] # "idle" => x = w /\ pc'[x] = "ready"
    BY <2>3 DEF OrderedInv, IInv, TypeOK
  <2>6. Alone' /\ Picked'
    BY <2>1, <2>3, <2>4, <2>5 DEF Alone, Picked, InTx
  <2> QED
    BY <1>1, <1>2, <1>3, <2>6 DEF OrderedInv
<1>5. CASE Begin(w)
  <2>1. /\ pc[w] = "ready" /\ pc' = [pc EXCEPT ![w] = "begun"] /\ clock' = clock + 1
        /\ start' = [start EXCEPT ![w] = clock + 1] /\ UNCHANGED <<versioning, op, opts>>
    BY <1>5 DEF Begin
  <2>2. \A x \in Writers : pc[x] # "idle" => x = w
    BY <2>1 DEF OrderedInv, Alone
  <2>3. \A x \in Writers : pc'[x] # "idle" => x = w /\ pc'[x] = "begun"
    BY <2>1, <2>2 DEF OrderedInv, IInv, TypeOK
  <2>4. start'[w] = clock'
    BY <2>1 DEF OrderedInv, IInv, TypeOK
  <2>5. Alone' /\ Picked'
    BY <2>1, <2>3, <2>4 DEF OrderedInv, Alone, Picked
  <2> QED
    BY <1>1, <1>2, <1>3, <2>5 DEF OrderedInv
<1>6. CASE PickSuccessor(w)
  <2>1. /\ pc[w] = "begun" /\ pc' = [pc EXCEPT ![w] = "promoting"]
        /\ UNCHANGED <<versioning, clock, start, op, opts>>
    BY <1>6 DEF PickSuccessor, Locked
  <2>2. PICK v \in Named(w) :
            /\ \E u \in NewestOf(history \ {v}) : newest' = [newest EXCEPT ![w] = u]
            /\ removed' = [removed EXCEPT ![w] = v]
    BY <1>6 DEF PickSuccessor
  <2>3. removed'[w] = v /\ v \in Rows /\ newest'[w] \in NewestOf(history \ {v})
    BY <2>2 DEF OrderedInv, IInv, TypeOK, Named, Rows
  <2>4. \A x \in Writers : pc[x] # "idle" => x = w
    BY <2>1 DEF OrderedInv, Alone
  <2>5. \A x \in Writers : pc'[x] # "idle" => x = w
    BY <2>1, <2>4 DEF OrderedInv, IInv, TypeOK
  <2>6. Alone'
    BY <2>1, <2>5 DEF OrderedInv, Alone, InTx
  <2>7. Picked'
    BY <1>1, <2>3, <2>5 DEF Picked, Rows, tables, NewestOf
  <2> QED
    BY <1>1, <1>2, <1>3, <2>6, <2>7 DEF OrderedInv
<1>7. CASE NullClash(w) \/ VersionNotFound(w) \/ Rollback(w)
  <2>1. Finish(w) /\ pc[w] # "idle"
    BY <1>7 DEF NullClash, VersionNotFound, Rollback, Locked
  <2> QED
    BY <1>1, <1>2, <1>3, <2>1, Ended DEF OrderedInv
<1> QED
  BY <1>4, <1>5, <1>6, <1>7

\* The settings change between requests.
LEMMA PutVersioningSets ==
    ASSUME OrderedInv, Plain, Quiet, PutVersioning
    PROVE  OrderedInv' /\ List!SetMode
<1>1. versioning' = "enabled" /\ UNCHANGED <<tables, clock, pc, locals>>
  BY ModesAssumption DEF PutVersioning, Plain
<1>2. IInv'
  BY PutVersioningStep DEF OrderedInv
<1>3. Alone' /\ Picked' /\ Piled'
  BY <1>1 DEF OrderedInv, Alone, Quiet, Picked, Piled, Rows, tables
<1>4. List!SetMode
  BY <1>1 DEF List!SetMode, tables, RowList, VersionsOf
<1> QED
  BY <1>2, <1>3, <1>4 DEF OrderedInv

\* One step of the tables is one of the list, or none.
LEMMA OrderedStep ==
    ASSUME Plain, OrderedInv, [OrderedNext]_vars
    PROVE  OrderedInv' /\ [List!Next]_List!absVars
<1>1. ASSUME NEW w \in Writers,
             \/ (Quiet /\ Arrive(w)) \/ Begin(w) \/ PickSuccessor(w)
             \/ NullClash(w) \/ VersionNotFound(w) \/ Rollback(w)
      PROVE  OrderedInv' /\ [List!Next]_List!absVars
  BY <1>1, OthersStutter, Stutters
<1>2. ASSUME NEW w \in Writers, PutObject(w)
      PROVE  OrderedInv' /\ [List!Next]_List!absVars
  BY <1>2, PutObjectPuts DEF List!Next
<1>3. ASSUME NEW w \in Writers, DeleteObject(w)
      PROVE  OrderedInv' /\ [List!Next]_List!absVars
  BY <1>3, DeleteObjectDeletes DEF List!Next
<1>4. ASSUME NEW w \in Writers, DeleteObjectVersion(w) \/ PromoteNewestVersion(w)
      PROVE  OrderedInv' /\ [List!Next]_List!absVars
  BY <1>4, DeleteObjectVersionDeletes, PromoteNewestVersionDeletes DEF List!Next
<1>5. \A w \in Writers : ~RestoreVersion(w)
  BY DEF RestoreVersion, Locked, OrderedInv, Alone, Plain
<1>6. CASE Quiet /\ PutVersioning
  BY <1>6, PutVersioningSets DEF List!Next
<1>7. CASE UNCHANGED vars
  <2>1. IInv'
    BY <1>7, NextStep DEF OrderedInv
  <2>2. Alone' /\ Picked' /\ Piled'
    BY <1>7 DEF OrderedInv, Alone, InTx, Picked, Piled, Rows, vars, tables, locals
  <2>3. UNCHANGED <<versioning, tables>>
    BY <1>7 DEF vars
  <2> QED
    BY <2>1, <2>2, <2>3, Stutters DEF OrderedInv
<1> QED
  BY <1>1, <1>2, <1>3, <1>4, <1>5, <1>6, <1>7 DEF OrderedNext, Write

\* A key begins as an empty list.
LEMMA OrderedInit ==
    ASSUME Init
    PROVE  OrderedInv /\ List!Init
<1>1. IInv
  BY InitIInv
<1>2. Alone /\ Picked
  BY DEF Init, Alone, Picked
<1>3. Rows = {} /\ RowsOf(history, current) = {} /\ history = {} /\ current = NoObject
  BY DEF Init, Rows, RowsOf
<1>4. Stack(history, current)
  BY <1>3, EmptyList DEF Stack, NewestOf
<1>5. Piled
  BY <1>3, <1>4 DEF Init, Piled
<1>6. VersionsOf(RowList) = <<>>
  BY <1>3, <1>5, Mapped, EmptyList
<1>7. List!Init
  BY <1>3, <1>6 DEF Init, List!Init
<1> QED
  BY <1>1, <1>2, <1>5, <1>7 DEF OrderedInv

\* The two tables are the list that S3 promises: when the requests for a key come one
\* at a time, in a bucket that is never suspended, each does to the list what S3 says.
THEOREM TablesAreTheList ==
    ASSUME Plain
    PROVE  OrderedSpec => ImplementsVersionList
<1>1. Init => OrderedInv /\ List!Init
  BY OrderedInit
<1>2. OrderedInv /\ [OrderedNext]_vars => OrderedInv' /\ [List!Next]_List!absVars
  BY OrderedStep
<1> QED
  BY <1>1, <1>2, PTL DEF OrderedSpec, ImplementsVersionList, List!Spec
=============================================================================
