--------------------------- MODULE BucketsProofs ---------------------------
(***************************************************************************)
(* Proofs about Buckets.  A request works with the id it resolved and the  *)
(* name may get another one meanwhile: the invariant below ties both to    *)
(* the ids handed out so far, and says how far a listing has come.         *)
(***************************************************************************)
EXTENDS BucketsRaces, FiniteSetTheorems, TLAPS

\* Ids in use anywhere have been handed out, so the next id is new to everybody.
IdsKnown ==
    /\ bucket # None => bucket \in used
    /\ \A c \in Clients : pc[c] # "idle" => id[c] \in used

\* Without the bucket there are no rows.
NoBucketNoRows == bucket = None => \A k \in Keys : object[k] = NoRow

\* An upload knows its key, and inside its transaction its bucket is still there.
UploadsHeld ==
    \A c \in Clients :
        /\ pc[c] \in {"upload", "inserted"} => key[c] \in Keys
        /\ pc[c] = "inserted" => id[c] = bucket

\* A listing starts at the beginning.
CursorsReset == \A c \in Clients : pc[c] # "folder" => after[c] = 0

\* Up to the cursor, the keys of the folder are in hand.
PagesSoFar ==
    \A c \in Clients : pc[c] = "folder" /\ page[c] =>
        \A k \in there[c] \cap KeysOf(id[c]) : k <= after[c] => k \in doomed[c] \cup failed[c]

\* What the pass has listed and not deleted is still to be deleted.
PassSoFar ==
    wpc = "delete" => \A k \in there[None] : Has(wid, k) => k \in expired

\* The inductive invariant of Spec.
IInv ==
    /\ TypeOK
    /\ IdsKnown
    /\ UploadsHeld
    /\ NoBucketNoRows
    /\ RowsAreOfTheBucket
    /\ CursorsReset
    /\ PagesSoFar
    /\ FolderEmptied
    /\ PassSoFar

\* What a request that is about to save has read is what is stored, but for what it
\* has missed; or its bucket is gone.
SeenOrMissed ==
    \A c \in Clients : Saving(c) /\ id[c] = bucket =>
        \A f \in Columns \ missed[c] : seen[c][f] = settings[f]

-----------------------------------------------------------------------------
(* Least and greatest elements, and the first elements of a set.           *)

\* A set of naturals that is not empty has a least element.
LEMMA MinExists ==
    ASSUME NEW S, S \subseteq Nat, S # {}
    PROVE  Min(S) \in S
<1>1. PICK x \in S : \A y \in S : ~(<<y, x>> \in OpToRel(<, Nat))
  BY NatLessThanWellFounded, WFMin
<1>2. \A y \in S : ~(y < x)
  BY <1>1, Zenon DEF OpToRel
<1>3. \A y \in S : x =< y
  BY <1>2
<1> QED BY <1>3 DEF Min

\* One that is finite too has a greatest one: the one with fewest above it.
LEMMA MaxExists ==
    ASSUME NEW S, S \subseteq Nat, S # {}, IsFiniteSet(S)
    PROVE  Max(S) \in S
<1> DEFINE Above(x) == {i \in S : i > x}
           Counts == {Cardinality(Above(x)) : x \in S}
<1>1. \A x \in S : IsFiniteSet(Above(x)) /\ Cardinality(Above(x)) \in Nat
  BY FS_Subset, FS_CardinalityType
<1>2. Counts \subseteq Nat /\ Counts # {}
  BY <1>1
<1> HIDE DEF Counts
<1>3. PICK m \in Counts : \A n \in Counts : ~(<<n, m>> \in OpToRel(<, Nat))
  BY <1>2, NatLessThanWellFounded, WFMin
<1>4. PICK x \in S : m = Cardinality(Above(x))
  BY <1>3 DEF Counts
<1>5. ASSUME NEW y \in S, y > x
      PROVE  FALSE
  <2>1. \A z \in S : z > y => z > x
    BY <1>5
  <2>2. Above(y) \subseteq Above(x)
    BY <2>1
  <2>3. y \in Above(x) /\ y \notin Above(y)
    BY <1>5
  <2>4. Cardinality(Above(y)) < Cardinality(Above(x))
    <3>1. Above(y) # Above(x)
      BY <2>3
    <3> HIDE DEF Above
    <3> QED BY <1>1, <2>2, <3>1, FS_Subset
  <2>5. Cardinality(Above(y)) \in Counts
    BY DEF Counts
  <2>6. ~(Cardinality(Above(y)) < m)
    BY <1>2, <1>3, <2>5, Zenon DEF OpToRel
  <2> QED BY <1>4, <2>4, <2>6
<1>6. \A y \in S : x >= y
  BY <1>5
<1> QED BY <1>6 DEF Max

\* What is listed is a prefix: with a key go all the keys before it.
LEMMA FirstIsPrefix ==
    ASSUME NEW S, S \subseteq Nat, IsFiniteSet(S), NEW n \in Nat,
           NEW k \in First(n, S), NEW j \in S, j <= k
    PROVE  j \in First(n, S)
<1> DEFINE Upto(x) == {i \in S : i <= x}
<1> k \in S
  BY DEF First
<1>1. \A i \in S : i <= j => i <= k
  OBVIOUS
<1>2. Upto(j) \subseteq Upto(k) /\ IsFiniteSet(Upto(k)) /\ IsFiniteSet(Upto(j))
  BY <1>1, FS_Subset
<1>3. Cardinality(Upto(j)) <= Cardinality(Upto(k))
  BY <1>2, FS_Subset
<1>4. Cardinality(Upto(j)) \in Nat /\ Cardinality(Upto(k)) \in Nat
  BY <1>2, FS_CardinalityType
<1> QED BY <1>3, <1>4 DEF First

-----------------------------------------------------------------------------
(* Every action preserves the invariant.                                   *)

\* The defaults are settings, and the absent row is typed.
LEMMA DefaultsTyped == NoSettings \in Settings /\ NoRow \in Rows
BY RulesAssumption DEF NoSettings, Settings, States, NoRow, Rows

\* The next id is one that nobody holds.
LEMMA CreateBucketStep ==
    ASSUME IInv, CreateBucket
    PROVE  IInv'
<1> USE DEF CreateBucket, clientVars, folderVars, workerVars
<1>1. bucket' \in Ids \ used
  BY MinExists, IdsAssumption
<1>2. TypeOK'
  BY <1>1 DEF IInv, TypeOK
<1>3. IdsKnown' /\ CursorsReset'
  BY DEF IInv, IdsKnown, CursorsReset
<1>4. UploadsHeld'
  BY IdsAssumption DEF IInv, TypeOK, UploadsHeld, IdsKnown
<1>5. RowsAreOfTheBucket' /\ NoBucketNoRows'
  BY <1>1, IdsAssumption DEF IInv, NoBucketNoRows, RowsAreOfTheBucket
<1>6. PagesSoFar' /\ FolderEmptied' /\ PassSoFar'
  BY DEF IInv, PagesSoFar, FolderEmptied, PassSoFar, KeysOf, Has
<1> QED BY <1>2, <1>3, <1>4, <1>5, <1>6 DEF IInv

\* The statement that drops a bucket waits with nothing changed but itself.
LEMMA DeleteBucketStep ==
    ASSUME IInv, NEW c \in Clients, DeleteBucket(c)
    PROVE  IInv'
<1> USE DEF DeleteBucket, Goto, tables, folderVars, workerVars
<1>1. TypeOK'
  BY DEF IInv, TypeOK
<1>2. IdsKnown' /\ UploadsHeld' /\ CursorsReset' /\ NoBucketNoRows' /\ RowsAreOfTheBucket'
  BY DEF IInv, TypeOK, IdsKnown, UploadsHeld, CursorsReset, NoBucketNoRows, RowsAreOfTheBucket
<1>3. PagesSoFar' /\ FolderEmptied' /\ PassSoFar'
  BY DEF IInv, TypeOK, PagesSoFar, FolderEmptied, PassSoFar, KeysOf, Has
<1> QED BY <1>1, <1>2, <1>3 DEF IInv

\* No row outlives its bucket, and no insert is under way when it goes.
LEMMA DropBucketStep ==
    ASSUME IInv, NEW c \in Clients, DropBucket(c)
    PROVE  IInv'
<1> USE DEF DropBucket, Finish, Goto, workerVars
<1>1. TypeOK'
  BY DefaultsTyped DEF IInv, TypeOK
<1>2. IdsKnown' /\ UploadsHeld' /\ CursorsReset'
  BY DEF IInv, TypeOK, IdsKnown, UploadsHeld, CursorsReset
<1>3. NoBucketNoRows' /\ RowsAreOfTheBucket'
  BY IdsAssumption DEF IInv, TypeOK, IdsKnown, NoBucketNoRows, RowsAreOfTheBucket
<1>4. PagesSoFar' /\ FolderEmptied' /\ PassSoFar'
  <2>1. CASE bucket = id[c]
    BY <2>1 DEF IInv, TypeOK, PagesSoFar, FolderEmptied, PassSoFar
  <2>2. CASE bucket # id[c]
    BY <2>2 DEF IInv, TypeOK, PagesSoFar, FolderEmptied, PassSoFar, KeysOf, Has
  <2> QED BY <2>1, <2>2
<1> QED BY <1>1, <1>2, <1>3, <1>4 DEF IInv

\* A request that begins learns the id of the name.
LEMMA StartSettingsStep ==
    ASSUME IInv, NEW c \in Clients, StartSettings(c)
    PROVE  IInv'
<1> USE DEF StartSettings, Resolve, Goto, tables, workerVars
<1>1. TypeOK'
  BY DEF IInv, TypeOK
<1>2. IdsKnown' /\ UploadsHeld' /\ CursorsReset' /\ NoBucketNoRows' /\ RowsAreOfTheBucket'
  BY DEF IInv, TypeOK, IdsKnown, UploadsHeld, CursorsReset, NoBucketNoRows, RowsAreOfTheBucket
<1>3. PagesSoFar' /\ FolderEmptied' /\ PassSoFar'
  BY DEF IInv, TypeOK, PagesSoFar, FolderEmptied, PassSoFar, KeysOf, Has
<1> QED BY <1>1, <1>2, <1>3 DEF IInv

\* An upload has resolved the name and holds nothing yet.
LEMMA StartUploadStep ==
    ASSUME IInv, NEW c \in Clients, NEW k \in Keys, StartUpload(c, k)
    PROVE  IInv'
<1> USE DEF StartUpload, Resolve, Goto, tables, workerVars
<1>1. TypeOK'
  BY DEF IInv, TypeOK
<1>2. IdsKnown' /\ UploadsHeld' /\ CursorsReset' /\ NoBucketNoRows' /\ RowsAreOfTheBucket'
  BY DEF IInv, TypeOK, IdsKnown, UploadsHeld, CursorsReset, NoBucketNoRows, RowsAreOfTheBucket
<1>3. PagesSoFar' /\ FolderEmptied' /\ PassSoFar'
  BY DEF IInv, TypeOK, PagesSoFar, FolderEmptied, PassSoFar, KeysOf, Has
<1> QED BY <1>1, <1>2, <1>3 DEF IInv

\* What is in the folder when its deletion begins is beyond the cursor, or is
\* not asked for.
LEMMA StartDeletionStep ==
    ASSUME IInv, NEW c \in Clients, NEW ks \in SUBSET Keys, NEW prefix \in BOOLEAN,
           StartDeletion(c, ks, prefix)
    PROVE  IInv'
<1> USE DEF StartDeletion, Resolve, Goto, tables, workerVars
<1>1. TypeOK'
  BY DEF IInv, TypeOK, KeysOf
<1>2. IdsKnown' /\ UploadsHeld' /\ CursorsReset' /\ NoBucketNoRows' /\ RowsAreOfTheBucket'
  BY DEF IInv, TypeOK, IdsKnown, UploadsHeld, CursorsReset, NoBucketNoRows, RowsAreOfTheBucket
<1>3. PagesSoFar'
  BY KeysAssumption DEF IInv, TypeOK, CursorsReset, PagesSoFar, KeysOf, Has
<1>4. FolderEmptied'
  BY DEF IInv, TypeOK, FolderEmptied, KeysOf, Has
<1>5. PassSoFar'
  BY ClientsAssumption DEF IInv, TypeOK, PassSoFar, Has
<1> QED BY <1>1, <1>2, <1>3, <1>4, <1>5 DEF IInv

\* The foreign key lets a row in only while its bucket is there.
LEMMA InsertStep ==
    ASSUME IInv, NEW c \in Clients, Insert(c)
    PROVE  IInv'
<1> USE DEF Insert, Finish, Goto, tables, workerVars
<1>1. TypeOK'
  BY DefaultsTyped DEF IInv, TypeOK
<1>2. IdsKnown' /\ UploadsHeld' /\ CursorsReset' /\ NoBucketNoRows' /\ RowsAreOfTheBucket'
  BY DEF IInv, TypeOK, IdsKnown, UploadsHeld, CursorsReset, NoBucketNoRows, RowsAreOfTheBucket
<1>3. PagesSoFar' /\ FolderEmptied' /\ PassSoFar'
  BY DEF IInv, TypeOK, PagesSoFar, FolderEmptied, PassSoFar, KeysOf, Has
<1> QED BY <1>1, <1>2, <1>3 DEF IInv

\* The row that is committed is of the bucket, and nobody else counts on its key
\* any more.
LEMMA EndInsertStep ==
    ASSUME IInv, NEW c \in Clients, EndInsert(c)
    PROVE  IInv'
<1> USE DEF EndInsert, Finish, Goto, Touched, workerVars
<1>1. key[c] \in Keys /\ id[c] = bucket /\ bucket \in Ids
  BY DEF IInv, TypeOK, IdsKnown, UploadsHeld, CursorsReset
<1>2. TypeOK'
  BY <1>1, DefaultsTyped DEF IInv, TypeOK, Rows
<1>3. IdsKnown' /\ UploadsHeld' /\ CursorsReset'
  BY DEF IInv, TypeOK, IdsKnown, UploadsHeld, CursorsReset
<1>4. NoBucketNoRows' /\ RowsAreOfTheBucket'
  BY <1>1, IdsAssumption DEF IInv, TypeOK, NoBucketNoRows, RowsAreOfTheBucket
<1>5. \A k \in Keys, b \in Ids \cup {None}, x \in Clients \cup {None} :
        x # c /\ k \in there'[x] => k \in there[x] /\ (Has(b, k)' => Has(b, k))
  BY <1>1 DEF IInv, TypeOK, Has
<1>6. PagesSoFar'
  BY <1>5 DEF IInv, TypeOK, PagesSoFar, KeysOf
<1>7. FolderEmptied'
  BY <1>5 DEF IInv, TypeOK, FolderEmptied, KeysOf
<1>8. PassSoFar'
  BY <1>5, ClientsAssumption DEF IInv, TypeOK, PassSoFar
<1> QED BY <1>2, <1>3, <1>4, <1>6, <1>7, <1>8 DEF IInv

\* The page goes on from the cursor, and what it does not reach is beyond the
\* next cursor.
LEMMA ListFolderStep ==
    ASSUME IInv, NEW c \in Clients, ListFolder(c)
    PROVE  IInv'
<1> DEFINE rest == {k \in KeysOf(id[c]) : k > after[c]}
           now == First(PageSize, rest)
<1> USE DEF ListFolder, tables, workerVars
<1>1. rest \subseteq Keys /\ rest \subseteq Nat /\ IsFiniteSet(rest)
  BY KeysAssumption, FS_Subset DEF KeysOf
<1>2. now \subseteq rest /\ IsFiniteSet(now)
  BY <1>1, FS_Subset DEF First
<1>3. now # {} => Max(now) \in now
  BY <1>1, <1>2, MaxExists
<1>4. TypeOK'
  BY <1>1, <1>2, <1>3 DEF IInv, TypeOK
<1>5. IdsKnown' /\ UploadsHeld' /\ CursorsReset' /\ NoBucketNoRows' /\ RowsAreOfTheBucket'
  BY DEF IInv, TypeOK, IdsKnown, UploadsHeld, CursorsReset, NoBucketNoRows, RowsAreOfTheBucket
<1>6. ASSUME NEW k \in there[c] \cap KeysOf(id[c]),
             k <= after'[c] \/ now = rest
      PROVE  k \in doomed'[c] \cup failed[c]
  <2>1. CASE k <= after[c]
    BY <2>1 DEF IInv, TypeOK, PagesSoFar
  <2>2. CASE ~(k <= after[c])
    <3>1. k \in Nat /\ after[c] \in Nat
      <4>1. k \in Keys /\ after[c] \in Keys \cup {0}
        BY <1>6 DEF IInv, TypeOK, KeysOf
      <4> QED BY <4>1, KeysAssumption
    <3>2. k \in rest
      BY <1>6, <2>2, <3>1
    <3>3. CASE now = rest
      BY <3>2, <3>3 DEF IInv, TypeOK
    <3>4. CASE now # rest
      <4>1. now # {} /\ k <= Max(now)
        BY <1>6, <2>2, <3>4 DEF IInv, TypeOK
      <4>2. k \in now
        BY <1>1, <1>3, <3>2, <4>1, LimitsAssumption, FirstIsPrefix
      <4> QED BY <4>2 DEF IInv, TypeOK
    <3> QED BY <3>3, <3>4
  <2> QED BY <2>1, <2>2
<1>7. PagesSoFar'
  BY <1>6 DEF IInv, TypeOK, PagesSoFar, KeysOf, Has
<1>8. FolderEmptied'
  BY <1>6 DEF IInv, TypeOK, FolderEmptied, KeysOf, Has
<1>9. PassSoFar'
  BY DEF IInv, PassSoFar, Has
<1> QED BY <1>4, <1>5, <1>7, <1>8, <1>9 DEF IInv

\* Taking rows away, and keys from the histories of the others, leaves every
\* other request with no more to do than before.
LEMMA RemovedIsTouched ==
    ASSUME TypeOK, NEW c \in Clients \cup {None}, NEW b, NEW k,
           Remove(b, k), Touched(k, c)
    PROVE  /\ object' \in [Keys -> Rows]
           /\ there' \in [Clients \cup {None} -> SUBSET Keys]
           /\ \A x \in Clients \cup {None} : there'[x] \subseteq there[x]
           /\ \A j \in Keys : object'[j] # NoRow => object'[j] = object[j]
           /\ \A j \in Keys, a \in Ids \cup {None} : Has(a, j)' => Has(a, j)
           /\ k \in Keys => ~Has(b, k)'
<1> USE DEF Remove, Touched
<1>1. object' \in [Keys -> Rows]
  BY DefaultsTyped DEF TypeOK
<1>2. /\ there' \in [Clients \cup {None} -> SUBSET Keys]
      /\ \A x \in Clients \cup {None} : there'[x] \subseteq there[x]
  BY DEF TypeOK
<1>3. /\ \A j \in Keys : object'[j] # NoRow => object'[j] = object[j]
      /\ k \in Keys => ~Has(b, k)'
  BY DEF TypeOK, Has, NoRow
<1>4. \A j \in Keys, a \in Ids \cup {None} : Has(a, j)' => Has(a, j)
  BY DEF TypeOK, Has, NoRow
<1> QED BY <1>1, <1>2, <1>3, <1>4

\* A key leaves the list when it is gone or has been put down as failed.
LEMMA DeleteInFolderStep ==
    ASSUME IInv, NEW c \in Clients, DeleteInFolder(c)
    PROVE  IInv'
<1>1. PICK k, b : k = Min(doomed[c]) /\ b = id[c]
  OBVIOUS
<1>2. /\ pc[c] = "folder" /\ ~page[c] /\ b \in Ids \cup {None}
      /\ doomed' = [doomed EXCEPT ![c] = @ \ {k}]
      /\ k \in Keys
      /\ \/ UNCHANGED <<object, there>> /\ failed' = [failed EXCEPT ![c] = @ \cup {k}]
         \/ Remove(b, k) /\ Touched(k, c) /\ UNCHANGED failed
      /\ UNCHANGED <<bucket, used, settings, pc, id, seen, key, after, page, workerVars>>
  <2>1. doomed[c] \subseteq Keys /\ doomed[c] # {}
    BY DEF DeleteInFolder, IInv, TypeOK
  <2>2. k \in doomed[c]
    BY <1>1, <2>1, KeysAssumption, MinExists
  <2> QED BY <1>1, <2>1, <2>2 DEF DeleteInFolder, IInv, TypeOK
<1>3. CASE UNCHANGED <<object, there>> /\ failed' = [failed EXCEPT ![c] = @ \cup {k}]
  <2> USE DEF workerVars
  <2>1. TypeOK'
    BY <1>2, <1>3 DEF IInv, TypeOK
  <2>2. IdsKnown' /\ UploadsHeld' /\ CursorsReset' /\ NoBucketNoRows' /\ RowsAreOfTheBucket'
    BY <1>2, <1>3 DEF IInv, TypeOK, IdsKnown, UploadsHeld, CursorsReset, NoBucketNoRows, RowsAreOfTheBucket
  <2>3. PagesSoFar' /\ FolderEmptied' /\ PassSoFar'
    BY <1>2, <1>3 DEF IInv, TypeOK, PagesSoFar, FolderEmptied, PassSoFar, KeysOf, Has
  <2> QED BY <2>1, <2>2, <2>3 DEF IInv
<1>4. CASE Remove(b, k) /\ Touched(k, c) /\ UNCHANGED failed
  <2> USE DEF workerVars
  <2>1. /\ object' \in [Keys -> Rows]
        /\ there' \in [Clients \cup {None} -> SUBSET Keys]
        /\ \A x \in Clients \cup {None} : there'[x] \subseteq there[x]
        /\ \A j \in Keys : object'[j] # NoRow => object'[j] = object[j]
        /\ \A j \in Keys, a \in Ids \cup {None} : Has(a, j)' => Has(a, j)
        /\ k \in Keys => ~Has(b, k)'
    BY <1>4, RemovedIsTouched DEF IInv
  <2>2. TypeOK'
    BY <1>2, <1>4, <2>1 DEF IInv, TypeOK
  <2>3. IdsKnown' /\ UploadsHeld' /\ CursorsReset'
    BY <1>2 DEF IInv, IdsKnown, UploadsHeld, CursorsReset
  <2>4. NoBucketNoRows' /\ RowsAreOfTheBucket'
    BY <1>2, <2>1 DEF IInv, TypeOK, NoBucketNoRows, RowsAreOfTheBucket
  <2>5. PagesSoFar'
    BY <1>2, <1>4, <2>1 DEF IInv, TypeOK, PagesSoFar, KeysOf
  <2>6. FolderEmptied'
    <3> SUFFICES ASSUME NEW x \in Clients, pc'[x] = "folder", ~page'[x],
                        NEW j \in there'[x], j \in Keys, Has(id[x], j)'
                 PROVE  j \in doomed'[x] \cup failed'[x]
      BY <1>2 DEF FolderEmptied, KeysOf, Has
    <3>1. j \in doomed[x] \cup failed[x]
      BY <1>2, <1>4, <2>1 DEF IInv, TypeOK, FolderEmptied, KeysOf
    <3>2. x = c => j # k
      BY <1>1, <1>2, <2>1 DEF Has
    <3> QED BY <1>2, <1>4, <3>1, <3>2 DEF IInv, TypeOK
  <2>7. PassSoFar'
    BY <1>2, <2>1 DEF IInv, TypeOK, PassSoFar
  <2> QED BY <2>2, <2>3, <2>4, <2>5, <2>6, <2>7 DEF IInv
<1> QED BY <1>2, <1>3, <1>4

\* The answer ends the request.
LEMMA FolderDoneStep ==
    ASSUME IInv, NEW c \in Clients, FolderDone(c)
    PROVE  IInv'
<1> USE DEF FolderDone, Finish, Goto, tables, workerVars
<1>1. TypeOK'
  BY DefaultsTyped DEF IInv, TypeOK
<1>2. IdsKnown' /\ UploadsHeld' /\ CursorsReset' /\ NoBucketNoRows' /\ RowsAreOfTheBucket'
  BY DEF IInv, TypeOK, IdsKnown, UploadsHeld, CursorsReset, NoBucketNoRows, RowsAreOfTheBucket
<1>3. PagesSoFar' /\ FolderEmptied'
  BY DEF IInv, TypeOK, PagesSoFar, FolderEmptied, KeysOf, Has
<1>4. PassSoFar'
  BY ClientsAssumption DEF IInv, TypeOK, PassSoFar, Has
<1> QED BY <1>1, <1>2, <1>3, <1>4 DEF IInv

\* What a request has read is settings.
LEMMA ReadSettingsStep ==
    ASSUME IInv, NEW c \in Clients, ReadSettings(c)
    PROVE  IInv'
<1> USE DEF ReadSettings, Goto, tables, folderVars, workerVars
<1>1. TypeOK'
  BY DefaultsTyped DEF IInv, TypeOK, SettingsOf
<1>2. IdsKnown' /\ UploadsHeld' /\ CursorsReset' /\ NoBucketNoRows' /\ RowsAreOfTheBucket'
  BY DEF IInv, TypeOK, IdsKnown, UploadsHeld, CursorsReset, NoBucketNoRows, RowsAreOfTheBucket
<1>3. PagesSoFar' /\ FolderEmptied' /\ PassSoFar'
  BY DEF IInv, TypeOK, PagesSoFar, FolderEmptied, PassSoFar, KeysOf, Has
<1> QED BY <1>1, <1>2, <1>3 DEF IInv

\* Settings that are written leave the rows alone.
LEMMA SaveStepStep ==
    ASSUME IInv, NEW c \in Clients, SaveStep(c)
    PROVE  IInv'
<1>1. PICK new \in Settings : pc[c] \in {"save", "put"} /\ Save(c, new)
  BY DEF SaveStep, SaveSettings, PutVersioning, ConsoleVersioning, IInv, TypeOK, Settings, States
<1> USE DEF Save, Finish, Goto, workerVars
<1>2. TypeOK'
  BY <1>1, DefaultsTyped DEF IInv, TypeOK
<1>3. IdsKnown' /\ UploadsHeld' /\ CursorsReset' /\ NoBucketNoRows' /\ RowsAreOfTheBucket'
  BY <1>1 DEF IInv, TypeOK, IdsKnown, UploadsHeld, CursorsReset, NoBucketNoRows, RowsAreOfTheBucket
<1>4. PagesSoFar' /\ FolderEmptied' /\ PassSoFar'
  BY <1>1 DEF IInv, TypeOK, PagesSoFar, FolderEmptied, PassSoFar, KeysOf, Has
<1> QED BY <1>2, <1>3, <1>4 DEF IInv

\* A row that ages stays in its bucket.
LEMMA AgeStep ==
    ASSUME IInv, NEW k \in Keys, Age(k)
    PROVE  IInv'
<1> USE DEF Age, clientVars, folderVars, workerVars
<1>1. TypeOK'
  BY DEF IInv, TypeOK, Rows
<1>2. IdsKnown' /\ UploadsHeld' /\ CursorsReset'
  BY DEF IInv, IdsKnown, UploadsHeld, CursorsReset
<1>3. NoBucketNoRows' /\ RowsAreOfTheBucket'
  BY DEF IInv, TypeOK, Rows, NoRow, NoBucketNoRows, RowsAreOfTheBucket
<1>4. \A j \in Keys : object'[j].bucket = object[j].bucket
  BY DEF IInv, TypeOK, Rows
<1>5. PagesSoFar' /\ FolderEmptied'
  BY <1>4 DEF IInv, TypeOK, PagesSoFar, FolderEmptied, KeysOf, Has
<1>6. PassSoFar'
  BY <1>4 DEF IInv, TypeOK, PassSoFar, Has
<1> QED BY <1>1, <1>2, <1>3, <1>5, <1>6 DEF IInv

\* A pass that begins has listed nothing.
LEMMA TargetsStep ==
    ASSUME IInv, Targets
    PROVE  IInv'
<1> USE DEF Targets, tables, clientVars, folderVars
<1>1. TypeOK'
  BY DEF IInv, TypeOK, Settings
<1>2. IdsKnown' /\ UploadsHeld' /\ CursorsReset' /\ NoBucketNoRows' /\ RowsAreOfTheBucket'
  BY DEF IInv, IdsKnown, UploadsHeld, CursorsReset, NoBucketNoRows, RowsAreOfTheBucket
<1>3. PagesSoFar' /\ FolderEmptied' /\ PassSoFar'
  BY DEF IInv, PagesSoFar, FolderEmptied, PassSoFar, KeysOf, Has
<1> QED BY <1>1, <1>2, <1>3 DEF IInv

\* All it lists is to be deleted.
LEMMA ListExpiredStep ==
    ASSUME IInv, ListExpired
    PROVE  IInv'
<1> USE DEF ListExpired, tables, folderVars
<1>1. TypeOK'
  BY DEF IInv, TypeOK, First, KeysOf
<1>2. IdsKnown' /\ UploadsHeld' /\ CursorsReset' /\ NoBucketNoRows' /\ RowsAreOfTheBucket'
  BY DEF IInv, IdsKnown, UploadsHeld, CursorsReset, NoBucketNoRows, RowsAreOfTheBucket
<1>3. PagesSoFar' /\ FolderEmptied'
  BY ClientsAssumption DEF IInv, TypeOK, PagesSoFar, FolderEmptied, KeysOf, Has
<1>4. PassSoFar'
  BY DEF IInv, TypeOK, PassSoFar, Has
<1> QED BY <1>1, <1>2, <1>3, <1>4 DEF IInv

\* A key leaves the list when it is gone, or when its deletion fails.
LEMMA ExpireStep ==
    ASSUME IInv, Expire
    PROVE  IInv'
<1>1. PICK k, b : k = Min(expired) /\ b = wid
  OBVIOUS
<1>2. /\ wpc = "delete" /\ b \in Ids \cup {None}
      /\ expired' = expired \ {k}
      /\ \/ ExpireFails(k)
         \/ Remove(b, k) /\ Touched(k, None)
      /\ UNCHANGED <<bucket, used, settings, pc, id, seen, key, folderVars, wpc, wid, rule>>
  BY <1>1 DEF Expire, IInv, TypeOK
<1> USE DEF folderVars
<1>3. CASE ExpireFails(k)
  <2> USE DEF ExpireFails
  <2>1. TypeOK'
    BY <1>2, <1>3 DEF IInv, TypeOK
  <2>2. IdsKnown' /\ UploadsHeld' /\ CursorsReset' /\ NoBucketNoRows' /\ RowsAreOfTheBucket'
    BY <1>2, <1>3 DEF IInv, IdsKnown, UploadsHeld, CursorsReset, NoBucketNoRows, RowsAreOfTheBucket
  <2>3. PagesSoFar' /\ FolderEmptied'
    BY <1>2, <1>3, ClientsAssumption DEF IInv, TypeOK, PagesSoFar, FolderEmptied, KeysOf, Has
  <2>4. PassSoFar'
    BY <1>2, <1>3 DEF IInv, TypeOK, PassSoFar, Has
  <2> QED BY <2>1, <2>2, <2>3, <2>4 DEF IInv
<1>4. CASE Remove(b, k) /\ Touched(k, None)
  <2>1. /\ object' \in [Keys -> Rows]
        /\ there' \in [Clients \cup {None} -> SUBSET Keys]
        /\ \A x \in Clients \cup {None} : there'[x] \subseteq there[x]
        /\ \A j \in Keys : object'[j] # NoRow => object'[j] = object[j]
        /\ \A j \in Keys, a \in Ids \cup {None} : Has(a, j)' => Has(a, j)
        /\ k \in Keys => ~Has(b, k)'
    BY <1>4, RemovedIsTouched DEF IInv
  <2>2. TypeOK'
    BY <1>2, <2>1 DEF IInv, TypeOK
  <2>3. IdsKnown' /\ UploadsHeld' /\ CursorsReset'
    BY <1>2 DEF IInv, IdsKnown, UploadsHeld, CursorsReset
  <2>4. NoBucketNoRows' /\ RowsAreOfTheBucket'
    BY <1>2, <2>1 DEF IInv, TypeOK, NoBucketNoRows, RowsAreOfTheBucket
  <2>5. PagesSoFar' /\ FolderEmptied'
    BY <1>2, <2>1 DEF IInv, TypeOK, PagesSoFar, FolderEmptied, KeysOf
  <2>6. PassSoFar'
    <3> SUFFICES ASSUME NEW j \in there'[None], Has(b, j)'
                 PROVE  j \in expired'
      BY <1>1, <1>2 DEF PassSoFar, Has
    <3>1. j \in Keys /\ j \in expired
      BY <1>1, <1>2, <2>1 DEF IInv, TypeOK, PassSoFar
    <3> QED BY <1>2, <2>1, <3>1
  <2> QED BY <2>2, <2>3, <2>4, <2>5, <2>6 DEF IInv
<1> QED BY <1>2, <1>3, <1>4

\* The pass is forgotten.
LEMMA EndPassStep ==
    ASSUME IInv, EndPass
    PROVE  IInv'
<1> USE DEF EndPass, WorkerDone, tables, folderVars
<1>1. TypeOK'
  BY RulesAssumption DEF IInv, TypeOK
<1>2. IdsKnown' /\ UploadsHeld' /\ CursorsReset' /\ NoBucketNoRows' /\ RowsAreOfTheBucket'
  BY DEF IInv, IdsKnown, UploadsHeld, CursorsReset, NoBucketNoRows, RowsAreOfTheBucket
<1>3. PagesSoFar' /\ FolderEmptied' /\ PassSoFar'
  BY ClientsAssumption DEF IInv, TypeOK, PagesSoFar, FolderEmptied, PassSoFar, KeysOf, Has
<1> QED BY <1>1, <1>2, <1>3 DEF IInv

\* Nothing moves.
LEMMA StutterStep ==
    ASSUME IInv, UNCHANGED vars
    PROVE  IInv'
BY DEF IInv, TypeOK, IdsKnown, UploadsHeld, CursorsReset, NoBucketNoRows, RowsAreOfTheBucket,
       PagesSoFar, FolderEmptied, PassSoFar, KeysOf, Has, vars, tables, clientVars, folderVars,
       workerVars

\* One step, whatever it is.
LEMMA NextStep ==
    ASSUME IInv, [Next]_vars
    PROVE  IInv'
<1>1. CASE CreateBucket
  BY <1>1, CreateBucketStep
<1>2. CASE WorkerStep
  BY <1>2, TargetsStep, ListExpiredStep, ExpireStep, EndPassStep DEF WorkerStep
<1>3. CASE \E k \in Keys : Age(k)
  BY <1>3, AgeStep
<1>4. ASSUME NEW c \in Clients, ClientStep(c)
      PROVE  IInv'
  BY <1>4, DeleteBucketStep, DropBucketStep, StartUploadStep, StartDeletionStep, InsertStep,
     EndInsertStep, ListFolderStep, DeleteInFolderStep, FolderDoneStep, StartSettingsStep,
     ReadSettingsStep, SaveStepStep DEF ClientStep
<1>5. CASE UNCHANGED vars
  BY <1>5, StutterStep
<1> QED BY <1>1, <1>2, <1>3, <1>4, <1>5 DEF Next

\* At first there is no bucket, no row and no request.
LEMMA InitIInv ==
    ASSUME Init
    PROVE  IInv
<1> USE DEF Init
<1>1. TypeOK
  BY DefaultsTyped, RulesAssumption DEF TypeOK
<1>2. IdsKnown /\ UploadsHeld /\ CursorsReset /\ NoBucketNoRows /\ RowsAreOfTheBucket
  BY DEF IdsKnown, UploadsHeld, CursorsReset, NoBucketNoRows, RowsAreOfTheBucket
<1>3. PagesSoFar /\ FolderEmptied /\ PassSoFar
  BY DEF PagesSoFar, FolderEmptied, PassSoFar
<1> QED BY <1>1, <1>2, <1>3 DEF IInv

\* The invariant is one, for any keys, ids, clients and rules.
LEMMA Invariance == Spec => []IInv
<1>1. Init => IInv
  BY InitIInv
<1>2. IInv /\ [Next]_vars => IInv'
  BY NextStep
<1> QED BY <1>1, <1>2, PTL DEF Spec

\* Every variable keeps its type.
THEOREM TypeCorrect == Spec => []TypeOK
<1>1. IInv => TypeOK
  BY DEF IInv
<1> QED BY <1>1, Invariance, PTL

\* An upload, whenever it began, puts its row into the bucket that has the name
\* when the row is committed, and never into a bucket created later.
THEOREM RowsBelong == Spec => []RowsAreOfTheBucket
<1>1. IInv => RowsAreOfTheBucket
  BY DEF IInv
<1> QED BY <1>1, Invariance, PTL

\* However many pages the listing of a folder takes, and whatever the other
\* requests do meanwhile, it misses no key that only this request touches.
THEOREM FoldersAreEmptied == Spec => []FolderEmptied
<1>1. IInv => FolderEmptied
  BY DEF IInv
<1> QED BY <1>1, Invariance, PTL

\* Only the end of a pass ends it.
LEMMA OnlyEndPass ==
    ASSUME [Next]_vars, wpc = "delete", wpc' = "idle"
    PROVE  EndPass
BY DEF Next, CreateBucket, WorkerStep, Age, DeleteBucket, StartSettings, StartUpload,
       StartDeletion, Resolve, ClientStep, Insert, EndInsert, ListFolder, DeleteInFolder,
       FolderDone, DropBucket, SaveStep, SaveSettings, PutVersioning, Save, ReadSettings,
       Targets, ListExpired, Expire, vars, clientVars, workerVars

\* A pass that ends has expired what it listed, but for what it failed to
\* delete and what somebody else has changed.
THEOREM PassesExpire == Spec => PassExpires
<1>1. IInv /\ [Next]_vars =>
        [wpc = "delete" /\ wpc' = "idle" => \A k \in there[None] : ~Has(wid, k)]_vars
  BY OnlyEndPass DEF EndPass, IInv, PassSoFar
<1> QED BY <1>1, Invariance, PTL DEF Spec, PassExpires

-----------------------------------------------------------------------------
(* Settings.                                                               *)

\* A step with its history is a step.
LEMMA RaceIsNext ==
    ASSUME [RaceNext]_raceVars
    PROVE  [Next]_vars
BY DEF RaceNext, raceVars

\* So everything above holds with the history, too.
LEMMA RaceInvariance == RaceSpec => []IInv
<1>1. RaceInit => IInv
  BY InitIInv DEF RaceInit
<1>2. IInv /\ [RaceNext]_raceVars => IInv'
  BY NextStep, RaceIsNext
<1> QED BY <1>1, <1>2, PTL DEF RaceSpec

\* Steps that neither change the bucket or its settings nor bring a request to
\* the point of saving.
Quiet ==
    /\ UNCHANGED <<bucket, settings>>
    /\ \A d \in Clients : Saving(d)' => pc'[d] = pc[d] /\ id'[d] = id[d] /\ seen'[d] = seen[d]

\* All others are these.
LEMMA SettingsAlone ==
    ASSUME IInv, [Next]_vars
    PROVE  \/ CreateBucket
           \/ \E c \in Clients : DropBucket(c) \/ ReadSettings(c) \/ SaveStep(c)
           \/ Quiet
<1> USE DEF Quiet, Saving, Goto, Finish, Resolve, tables, clientVars, folderVars
<1>1. WorkerStep \/ (\E k \in Keys : Age(k)) => Quiet
  BY DEF WorkerStep, Targets, ListExpired, Expire, EndPass, Age
<1>2. ASSUME NEW c \in Clients, DeleteBucket(c) \/ StartSettings(c)
      PROVE  Quiet
  BY <1>2 DEF DeleteBucket, StartSettings, IInv, TypeOK
<1>3. ASSUME NEW c \in Clients, NEW k \in Keys, StartUpload(c, k)
      PROVE  Quiet
  BY <1>3 DEF StartUpload, IInv, TypeOK
<1>4. ASSUME NEW c \in Clients, NEW ks, NEW prefix, StartDeletion(c, ks, prefix)
      PROVE  Quiet
  BY <1>4 DEF StartDeletion, IInv, TypeOK
<1>5. ASSUME NEW c \in Clients, Insert(c) \/ EndInsert(c) \/ FolderDone(c)
      PROVE  Quiet
  BY <1>5 DEF Insert, EndInsert, FolderDone, IInv, TypeOK
<1>6. ASSUME NEW c \in Clients, ListFolder(c) \/ DeleteInFolder(c)
      PROVE  Quiet
  BY <1>6 DEF ListFolder, DeleteInFolder
<1>7. CASE UNCHANGED vars
  BY <1>7 DEF vars
<1> QED BY <1>1, <1>2, <1>3, <1>4, <1>5, <1>6, <1>7 DEF Next, ClientStep

\* What a step does to the history, said once for each request.
LEMMA MissedAfter ==
    ASSUME IInv, [RaceNext]_raceVars, NEW c \in Clients, Saving(c)'
    PROVE  \/ Saving(c) /\ missed[c] \cup Differing(settings, settings') \subseteq missed'[c]
           \/ ~Saving(c) /\ missed'[c] = Differing(seen'[c], SettingsOf(id[c]))
<1>1. CASE RaceNext
  BY <1>1 DEF RaceNext
<1>2. CASE UNCHANGED raceVars
  BY <1>2 DEF raceVars, vars, tables, clientVars, Saving, Differing
<1> QED BY <1>1, <1>2

\* A request that holds settings has them as they are stored, or has missed what
\* differs, or works for a bucket that is gone.
LEMMA SeenOrMissedStep ==
    ASSUME IInv, SeenOrMissed, [RaceNext]_raceVars
    PROVE  SeenOrMissed'
<1> SUFFICES ASSUME NEW c \in Clients, Saving(c)', id'[c] = bucket',
                    NEW f \in Columns, f \notin missed'[c]
             PROVE  seen'[c][f] = settings'[f]
  BY DEF SeenOrMissed
<1>1. [Next]_vars
  BY RaceIsNext
<1>2. CASE ~Saving(c)
  <2>1. seen'[c][f] = SettingsOf(id[c])[f]
    BY <1>2, MissedAfter DEF Differing
  <2>2. PICK d \in Clients : ReadSettings(d)
    <3>1. ~CreateBucket /\ ~Quiet
      BY <1>2 DEF CreateBucket, clientVars, Quiet, Saving
    <3>2. ASSUME NEW d \in Clients, DropBucket(d) \/ SaveStep(d)
          PROVE  FALSE
      BY <1>2, <3>2 DEF DropBucket, SaveStep, SaveSettings, PutVersioning, Save, Finish, Goto,
                        Saving, IInv, TypeOK
    <3> QED BY <1>1, <3>1, <3>2, SettingsAlone
  <2> QED BY <2>1, <2>2 DEF ReadSettings, tables, SettingsOf
<1>3. CASE Saving(c)
  <2>1. f \notin missed[c] /\ settings'[f] = settings[f]
    BY <1>3, MissedAfter DEF Differing
  <2>2. seen'[c] = seen[c] /\ id'[c] = id[c]
    <3>1. ASSUME NEW d \in Clients, DropBucket(d) \/ SaveStep(d)
          PROVE  seen'[c] = seen[c] /\ id'[c] = id[c]
      BY <3>1 DEF DropBucket, SaveStep, SaveSettings, PutVersioning, Save, Finish, Goto,
                  Saving, IInv, TypeOK
    <3>2. ASSUME NEW d \in Clients, ReadSettings(d)
          PROVE  seen'[c] = seen[c] /\ id'[c] = id[c]
      BY <1>3, <3>2 DEF ReadSettings, Goto, tables, Saving, IInv, TypeOK
    <3> QED BY <1>1, <3>1, <3>2, SettingsAlone DEF CreateBucket, clientVars, Quiet
  <2>3. id[c] = bucket
    <3>1. id[c] \in used /\ id[c] # None
      BY <1>3, IdsAssumption DEF IInv, TypeOK, IdsKnown, Saving
    <3>2. CASE CreateBucket
      <4>1. bucket' \in Ids \ used
        BY <3>2, MinExists, IdsAssumption DEF CreateBucket
      <4> QED BY <2>2, <3>1, <4>1
    <3>3. ASSUME NEW d \in Clients, DropBucket(d)
          PROVE  id[c] = bucket
      BY <2>2, <3>1, <3>3 DEF DropBucket
    <3>4. ASSUME NEW d \in Clients, ReadSettings(d) \/ SaveStep(d)
          PROVE  id[c] = bucket
      BY <2>2, <3>4 DEF ReadSettings, SaveStep, SaveSettings, PutVersioning, Save, tables
    <3> QED BY <1>1, <2>2, <3>2, <3>3, <3>4, SettingsAlone DEF Quiet
  <2> QED BY <1>3, <2>1, <2>2, <2>3 DEF SeenOrMissed
<1> QED BY <1>2, <1>3

\* It does so at any time.
LEMMA SettingsKnown == RaceSpec => []SeenOrMissed
<1>1. RaceInit => SeenOrMissed
  BY DEF RaceInit, Init, SeenOrMissed, Saving
<1>2. IInv /\ SeenOrMissed /\ [RaceNext]_raceVars => SeenOrMissed'
  BY SeenOrMissedStep
<1> QED BY <1>1, <1>2, RaceInvariance, PTL DEF RaceSpec

\* Every way to change the settings of a bucket that stays is a save for it.
LEMMA SettingsChange ==
    ASSUME IInv, [Next]_vars, bucket' = bucket, settings' # settings
    PROVE  \E c \in Clients : SaveStep(c) /\ id[c] = bucket
<1>1. ~CreateBucket
  BY DEF CreateBucket
<1>2. ASSUME NEW c \in Clients, DropBucket(c)
      PROVE  FALSE
  BY <1>2, IdsAssumption DEF DropBucket, IInv, TypeOK, IdsKnown
<1>3. ASSUME NEW c \in Clients, SaveStep(c)
      PROVE  id[c] = bucket
  BY <1>3 DEF SaveStep, SaveSettings, PutVersioning, Save
<1>4. ASSUME NEW c \in Clients, ReadSettings(c)
      PROVE  FALSE
  BY <1>4 DEF ReadSettings, tables
<1> QED BY <1>1, <1>2, <1>3, <1>4, SettingsAlone DEF Quiet

\* Whoever saves the settings of a bucket, in whatever order with others: one that
\* is versioned goes back to unversioned only through a switch of the console that
\* was worked out from a versioning state that was not read, or not any more the
\* one stored.
THEOREM StaysVersioned == RaceSpec => OnlyBlindSavesUnversion
<1>1. ASSUME IInv, SeenOrMissed, [RaceNext]_raceVars, bucket' = bucket,
             settings.versioning # "unversioned", settings'.versioning = "unversioned"
      PROVE  \E c \in Clients : pc[c] = "save" /\ pc'[c] = "idle" /\ "versioning" \in missed[c]
  <2>1. PICK c \in Clients : SaveStep(c) /\ id[c] = bucket
    BY <1>1, SettingsChange, RaceIsNext
  <2>2. PICK on \in BOOLEAN, covered \in Rules : SaveSettings(c, on, covered)
    BY <1>1, <2>1 DEF SaveStep, PutVersioning, Save, IInv, TypeOK, Settings
  <2>3. pc[c] = "save" /\ pc'[c] = "idle"
    BY <1>1, <2>2 DEF SaveSettings, Save, Finish, Goto, IInv, TypeOK
  <2>4. seen[c].versioning = "unversioned"
    BY <1>1, <2>1, <2>2 DEF SaveSettings, Save, ConsoleVersioning
  <2>5. "versioning" \in missed[c]
    <3> SUFFICES ASSUME "versioning" \notin missed[c]
                 PROVE  FALSE
      OBVIOUS
    <3>1. seen[c]["versioning"] = settings["versioning"]
      BY <1>1, <2>1, <2>3 DEF SeenOrMissed, Saving, Columns
    <3> QED BY <1>1, <2>4, <3>1
  <2> QED BY <2>3, <2>5
<1>2. IInv /\ SeenOrMissed /\ [RaceNext]_raceVars =>
        [bucket' = bucket /\ settings.versioning # "unversioned"
            /\ settings'.versioning = "unversioned"
          => \E c \in Clients : pc[c] = "save" /\ pc'[c] = "idle" /\ "versioning" \in missed[c]]_vars
  BY <1>1
<1> QED BY <1>2, RaceInvariance, SettingsKnown, PTL DEF RaceSpec, OnlyBlindSavesUnversion

\* In whatever order the settings are read and saved, PutBucketVersioning changes
\* the lifecycle rules only when it had not read those that are stored.
THEOREM VersioningKeepsRules == RaceSpec => OnlyBlindSavesLoseRules
<1>1. ASSUME IInv, SeenOrMissed, [RaceNext]_raceVars, NEW c \in Clients, pc[c] = "put",
             pc'[c] = "idle", settings'.rule # settings.rule
      PROVE  "rule" \in missed[c]
  <2>1. PICK requested \in {"enabled", "suspended"} : PutVersioning(c, requested)
    <3>1. ~CreateBucket /\ ~Quiet
      BY <1>1 DEF CreateBucket, clientVars, Quiet
    <3>2. ASSUME NEW d \in Clients, DropBucket(d) \/ ReadSettings(d)
          PROVE  FALSE
      BY <1>1, <3>2 DEF DropBucket, ReadSettings, Finish, Goto, tables, IInv, TypeOK
    <3>3. ASSUME NEW d \in Clients, SaveStep(d)
          PROVE  d = c
      BY <1>1, <3>3 DEF SaveStep, SaveSettings, PutVersioning, Save, Finish, Goto, IInv, TypeOK
    <3> QED BY <1>1, <3>1, <3>2, <3>3, SettingsAlone, RaceIsNext DEF SaveStep, SaveSettings
  <2>2. id[c] = bucket /\ settings'.rule = seen[c].rule
    BY <1>1, <2>1 DEF PutVersioning, Save, IInv, TypeOK, Settings
  <2> SUFFICES ASSUME "rule" \notin missed[c]
               PROVE  FALSE
    OBVIOUS
  <2>3. seen[c]["rule"] = settings["rule"]
    BY <1>1, <2>2 DEF SeenOrMissed, Saving, Columns
  <2> QED BY <1>1, <2>2, <2>3
<1>2. IInv /\ SeenOrMissed /\ [RaceNext]_raceVars =>
        [\A c \in Clients : pc[c] = "put" /\ pc'[c] = "idle" /\ settings'.rule # settings.rule
           => "rule" \in missed[c]]_vars
  BY <1>1
<1> QED BY <1>2, RaceInvariance, SettingsKnown, PTL DEF RaceSpec, OnlyBlindSavesLoseRules
=============================================================================
