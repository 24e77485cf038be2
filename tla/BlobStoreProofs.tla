-------------------------- MODULE BlobStoreProofs --------------------------
(***************************************************************************)
(* Proofs about BlobStore.  RefcountExact is not inductive: between the    *)
(* statements of a transaction the count it will commit lives in           *)
(* `pending', and the invariant below says how far along it is.  That a    *)
(* row has its file needs the advisory locks besides, and the one race     *)
(* that they leave open left out.                                          *)
(***************************************************************************)
EXTENDS BlobStoreRaces, FiniteSetTheorems, TLAPS

B(p) == IF p THEN 1 ELSE 0

\* What the transaction of w has done so far.
Retained(w) == new[w] # NoBlob /\ pc[w] \in {"keep", "keepUpsert", "release", "commit"}
Kept(w)     == keep[w] # NoRow /\ pc[w] \in {"release", "commit"}
Released(w) == old[w] # NoBlob /\ pc[w] = "commit"

Inc(w, d) == B(Retained(w) /\ new[w] = d) + B(Kept(w) /\ old[w] = d)
                                           - B(Released(w) /\ old[w] = d)

\* Inside its transaction a writer holds the lock of the row it writes, so
\* that what it read there is what is committed; the fresh row of a preserved
\* version is locked too, and still empty.
LocalsOf(w) ==
    /\ pc[w] = "idle" => new[w] = NoBlob /\ keep[w] = NoRow
    /\ pc[w] \in {"staged", "rename", "begin"} => row[w] \in Slots
    /\ pc[w] \in InTx =>
          /\ row[w] \in Slots
          /\ slotLock[row[w]] = w
          /\ old[w] = ref[row[w]]
          /\ keep[w] # NoRow => /\ slotLock[keep[w]] = w
                                /\ ref[keep[w]] = NoBlob
                                /\ old[w] # NoBlob
    /\ pc[w] \in {"retain", "upsert"} => new[w] # NoBlob
    /\ pc[w] \in {"keep", "keepUpsert"} => keep[w] # NoRow
    /\ pc[w] = "release" => old[w] # NoBlob

\* The blobs rows it has written are locked by it.
HoldsOf(w) ==
    /\ Retained(w) => rowLock[new[w]] = w
    /\ Kept(w) => rowLock[old[w]] = w
    /\ Released(w) => rowLock[old[w]] = w

PendingOf(w) == \A d \in Digests : rowLock[d] = w => pending[d] = count[d] + Inc(w, d)

\* A sweeper about to unlink has deleted a row with no reference left.
ClaimOf(k) ==
    spc[k] \in {"unlink", "reclaim"} =>
       target[k] \in Digests /\ rowLock[target[k]] = k /\ count[target[k]] = 0

NoRowNoCount == \A d \in Digests \ rows : count[d] = 0

IInv ==
    /\ TypeOK
    /\ \A w \in Writers : LocalsOf(w) /\ HoldsOf(w) /\ PendingOf(w)
    /\ \A k \in Sweepers : ClaimOf(k)
    /\ NoRowNoCount
    /\ RefcountExact

-----------------------------------------------------------------------------
(* Counting.                                                               *)

\* There are finitely many rows, so finitely many point at a blob.
LEMMA SlotsFinite == IsFiniteSet(Slots)
BY RowsAssumption, FS_Union DEF Slots

\* So the rows that point at one blob can be counted.
LEMMA RefsFinite ==
    ASSUME NEW d
    PROVE  IsFiniteSet(Refs(d)) /\ Cardinality(Refs(d)) \in Nat
BY SlotsFinite, FS_Subset, FS_CardinalityType DEF Refs

\* The members of S a function sends to d, counted with one of them set
\* apart.
Fibre(S, f, d) == {t \in S : f[t] = d}

\* One member contributes one or nothing to a fibre.
LEMMA CountSplit ==
    ASSUME NEW S, IsFiniteSet(S), NEW s \in S, NEW f, NEW d
    PROVE  /\ Cardinality(Fibre(S \ {s}, f, d)) \in Nat
           /\ Cardinality(Fibre(S, f, d)) = Cardinality(Fibre(S \ {s}, f, d)) + B(f[s] = d)
<1> DEFINE Rest == Fibre(S \ {s}, f, d)
<1>1. IsFiniteSet(Rest) /\ Cardinality(Rest) \in Nat
  BY FS_Subset, FS_CardinalityType DEF Fibre
<1>2. CASE f[s] = d
  <2>1. Fibre(S, f, d) = Rest \cup {s} /\ s \notin Rest
    BY <1>2 DEF Fibre
  <2>2. Cardinality(Rest \cup {s}) = Cardinality(Rest) + 1
    BY <1>1, <2>1, FS_AddElement
  <2> QED BY <1>1, <1>2, <2>1, <2>2 DEF B
<1>3. CASE f[s] # d
  <2>1. Fibre(S, f, d) = Rest
    BY <1>3 DEF Fibre
  <2> QED BY <1>1, <1>3, <2>1 DEF B
<1> QED BY <1>2, <1>3

\* Fibres depend on the function only where it is defined.
LEMMA SameFibre ==
    ASSUME NEW S, NEW f, NEW g, NEW d, \A t \in S : f[t] = g[t]
    PROVE  Fibre(S, f, d) = Fibre(S, g, d)
BY DEF Fibre

\* A blob some committed row points at has a row and a count above zero.
LEMMA ReferencedIsCounted ==
    ASSUME IInv, NEW s \in Slots, ref[s] # NoBlob
    PROVE  ref[s] \in rows /\ count[ref[s]] > 0
<1>1. ref[s] \in Digests /\ s \in Refs(ref[s])
  BY DEF IInv, TypeOK, Refs
<1>2. Cardinality(Refs(ref[s])) # 0
  BY <1>1, RefsFinite, FS_EmptySet
<1> QED BY <1>1, <1>2, RefsFinite DEF IInv, TypeOK, RefcountExact, NoRowNoCount

-----------------------------------------------------------------------------
(* Every action preserves the invariant.                                   *)

\* A staged upload touches no table and holds no lock.
LEMMA UploadStep ==
    ASSUME IInv, NEW w \in Writers, Upload(w)
    PROVE  IInv'
<1> USE DEF Upload, fileVars, tableVars, lockVars, writerVars, sweepVars
<1>1. TypeOK'
  BY RowsAssumption, ActorsAssumption DEF IInv, TypeOK, LocalsOf, Actors, Slots, WriterPc, SweepPc, InTx
<1>2. \A x \in Writers : LocalsOf(x)'
  BY RowsAssumption, ActorsAssumption DEF IInv, TypeOK, LocalsOf, InTx, Slots, WriterPc
<1>3. \A x \in Writers : HoldsOf(x)'
  BY ActorsAssumption DEF IInv, TypeOK, LocalsOf, InTx, HoldsOf, Retained, Kept, Released
<1>4. \A x \in Writers : PendingOf(x)'
  BY ActorsAssumption DEF IInv, TypeOK, LocalsOf, InTx, PendingOf, Inc, B, Retained, Kept, Released
<1>5. (\A y \in Sweepers : ClaimOf(y))'
  BY ActorsAssumption DEF IInv, TypeOK, ClaimOf
<1>6. NoRowNoCount' /\ RefcountExact'
  BY DEF IInv, NoRowNoCount, RefcountExact, Refs
<1> QED BY <1>1, <1>2, <1>3, <1>4, <1>5, <1>6 DEF IInv

\* Reading the source of a copy takes no lock.
LEMMA CopyStep ==
    ASSUME IInv, NEW w \in Writers, Copy(w)
    PROVE  IInv'
<1> USE DEF Copy, fileVars, tableVars, lockVars, writerVars, sweepVars
<1>1. TypeOK'
  BY RowsAssumption, ActorsAssumption DEF IInv, TypeOK, LocalsOf, Actors, Slots, WriterPc, SweepPc, InTx
<1>2. \A x \in Writers : LocalsOf(x)'
  BY RowsAssumption, ActorsAssumption DEF IInv, TypeOK, LocalsOf, InTx, Slots, WriterPc
<1>3. \A x \in Writers : HoldsOf(x)'
  BY ActorsAssumption DEF IInv, TypeOK, LocalsOf, InTx, HoldsOf, Retained, Kept, Released
<1>4. \A x \in Writers : PendingOf(x)'
  BY ActorsAssumption DEF IInv, TypeOK, LocalsOf, InTx, PendingOf, Inc, B, Retained, Kept, Released
<1>5. (\A y \in Sweepers : ClaimOf(y))'
  BY ActorsAssumption DEF IInv, TypeOK, ClaimOf
<1>6. NoRowNoCount' /\ RefcountExact'
  BY DEF IInv, NoRowNoCount, RefcountExact, Refs
<1> QED BY <1>1, <1>2, <1>3, <1>4, <1>5, <1>6 DEF IInv

\* A delete has only chosen its key.
LEMMA DeleteStep ==
    ASSUME IInv, NEW w \in Writers, Delete(w)
    PROVE  IInv'
<1> USE DEF Delete, fileVars, tableVars, lockVars, writerVars, sweepVars
<1>1. TypeOK'
  BY RowsAssumption, ActorsAssumption DEF IInv, TypeOK, LocalsOf, Actors, Slots, WriterPc, SweepPc, InTx
<1>2. \A x \in Writers : LocalsOf(x)'
  BY RowsAssumption, ActorsAssumption DEF IInv, TypeOK, LocalsOf, InTx, Slots, WriterPc
<1>3. \A x \in Writers : HoldsOf(x)'
  BY ActorsAssumption DEF IInv, TypeOK, LocalsOf, InTx, HoldsOf, Retained, Kept, Released
<1>4. \A x \in Writers : PendingOf(x)'
  BY ActorsAssumption DEF IInv, TypeOK, LocalsOf, InTx, PendingOf, Inc, B, Retained, Kept, Released
<1>5. (\A y \in Sweepers : ClaimOf(y))'
  BY ActorsAssumption DEF IInv, TypeOK, ClaimOf
<1>6. NoRowNoCount' /\ RefcountExact'
  BY DEF IInv, NoRowNoCount, RefcountExact, Refs
<1> QED BY <1>1, <1>2, <1>3, <1>4, <1>5, <1>6 DEF IInv

\* A purge starts by locking a version row it has read: what it will release
\* is what the row points at.
LEMMA PurgeStep ==
    ASSUME IInv, NEW w \in Writers, Purge(w)
    PROVE  IInv'
<1> USE DEF Purge, fileVars, tableVars, lockVars, writerVars, sweepVars
<1>1. TypeOK'
  BY RowsAssumption, ActorsAssumption DEF IInv, TypeOK, LocalsOf, Actors, Slots, WriterPc, SweepPc, InTx
<1>2. \A x \in Writers : LocalsOf(x)'
  BY RowsAssumption, ActorsAssumption DEF IInv, TypeOK, LocalsOf, InTx, Slots, WriterPc
<1>3. \A x \in Writers : HoldsOf(x)'
  BY ActorsAssumption DEF IInv, TypeOK, LocalsOf, InTx, HoldsOf, Retained, Kept, Released
<1>4. \A x \in Writers : PendingOf(x)'
  BY ActorsAssumption DEF IInv, TypeOK, LocalsOf, InTx, PendingOf, Inc, B, Retained, Kept, Released
<1>5. (\A y \in Sweepers : ClaimOf(y))'
  BY ActorsAssumption DEF IInv, TypeOK, ClaimOf
<1>6. NoRowNoCount' /\ RefcountExact'
  BY DEF IInv, NoRowNoCount, RefcountExact, Refs
<1> QED BY <1>1, <1>2, <1>3, <1>4, <1>5, <1>6 DEF IInv

\* The tables and the locks know nothing of the disk: Put's four outcomes.
LEMMA DedupeStep ==
    ASSUME IInv, NEW w \in Writers, Dedupe(w)
    PROVE  IInv'
<1> USE DEF Dedupe, fileVars, tableVars, lockVars, writerVars, sweepVars, Goto
<1>1. TypeOK'
  BY RowsAssumption, ActorsAssumption DEF IInv, TypeOK, LocalsOf, Actors, Slots, WriterPc, SweepPc, InTx
<1>2. \A x \in Writers : LocalsOf(x)'
  BY RowsAssumption, ActorsAssumption DEF IInv, TypeOK, LocalsOf, InTx, Slots, WriterPc
<1>3. \A x \in Writers : HoldsOf(x)'
  BY ActorsAssumption DEF IInv, TypeOK, LocalsOf, InTx, HoldsOf, Retained, Kept, Released
<1>4. \A x \in Writers : PendingOf(x)'
  BY ActorsAssumption DEF IInv, TypeOK, LocalsOf, InTx, PendingOf, Inc, B, Retained, Kept, Released
<1>5. (\A y \in Sweepers : ClaimOf(y))'
  BY ActorsAssumption DEF IInv, TypeOK, ClaimOf
<1>6. NoRowNoCount' /\ RefcountExact'
  BY DEF IInv, NoRowNoCount, RefcountExact, Refs
<1> QED BY <1>1, <1>2, <1>3, <1>4, <1>5, <1>6 DEF IInv

\* Looking for the file and not finding it changes nothing but the progress.
LEMMA FindAbsentStep ==
    ASSUME IInv, NEW w \in Writers, FindAbsent(w)
    PROVE  IInv'
<1> USE DEF FindAbsent, fileVars, tableVars, lockVars, writerVars, sweepVars, Goto
<1>1. TypeOK'
  BY RowsAssumption, ActorsAssumption DEF IInv, TypeOK, LocalsOf, Actors, Slots, WriterPc, SweepPc, InTx
<1>2. \A x \in Writers : LocalsOf(x)'
  BY RowsAssumption, ActorsAssumption DEF IInv, TypeOK, LocalsOf, InTx, Slots, WriterPc
<1>3. \A x \in Writers : HoldsOf(x)'
  BY ActorsAssumption DEF IInv, TypeOK, LocalsOf, InTx, HoldsOf, Retained, Kept, Released
<1>4. \A x \in Writers : PendingOf(x)'
  BY ActorsAssumption DEF IInv, TypeOK, LocalsOf, InTx, PendingOf, Inc, B, Retained, Kept, Released
<1>5. (\A y \in Sweepers : ClaimOf(y))'
  BY ActorsAssumption DEF IInv, TypeOK, ClaimOf
<1>6. NoRowNoCount' /\ RefcountExact'
  BY DEF IInv, NoRowNoCount, RefcountExact, Refs
<1> QED BY <1>1, <1>2, <1>3, <1>4, <1>5, <1>6 DEF IInv

\* A file appears: no table and no lock is concerned.
LEMMA RenameStep ==
    ASSUME IInv, NEW w \in Writers, Rename(w)
    PROVE  IInv'
<1> USE DEF Rename, fileVars, tableVars, lockVars, writerVars, sweepVars, Goto
<1>1. TypeOK'
  BY RowsAssumption, ActorsAssumption DEF IInv, TypeOK, LocalsOf, Actors, Slots, WriterPc, SweepPc, InTx
<1>2. \A x \in Writers : LocalsOf(x)'
  BY RowsAssumption, ActorsAssumption DEF IInv, TypeOK, LocalsOf, InTx, Slots, WriterPc
<1>3. \A x \in Writers : HoldsOf(x)'
  BY ActorsAssumption DEF IInv, TypeOK, LocalsOf, InTx, HoldsOf, Retained, Kept, Released
<1>4. \A x \in Writers : PendingOf(x)'
  BY ActorsAssumption DEF IInv, TypeOK, LocalsOf, InTx, PendingOf, Inc, B, Retained, Kept, Released
<1>5. (\A y \in Sweepers : ClaimOf(y))'
  BY ActorsAssumption DEF IInv, TypeOK, ClaimOf
<1>6. NoRowNoCount' /\ RefcountExact'
  BY DEF IInv, NoRowNoCount, RefcountExact, Refs
<1> QED BY <1>1, <1>2, <1>3, <1>4, <1>5, <1>6 DEF IInv

\* A request whose temporary file is gone goes on, or forgets what it was doing.
LEMMA RenameFailsStep ==
    ASSUME IInv, NEW w \in Writers, RenameFails(w)
    PROVE  IInv'
<1> USE DEF RenameFails, fileVars, tableVars, lockVars, writerVars, sweepVars, Goto, Forget
<1>1. TypeOK'
  BY RowsAssumption, ActorsAssumption DEF IInv, TypeOK, LocalsOf, Actors, Slots, WriterPc, SweepPc, InTx
<1>2. \A x \in Writers : LocalsOf(x)'
  BY RowsAssumption, ActorsAssumption DEF IInv, TypeOK, LocalsOf, InTx, Slots, WriterPc
<1>3. \A x \in Writers : HoldsOf(x)'
  BY ActorsAssumption DEF IInv, TypeOK, LocalsOf, InTx, HoldsOf, Retained, Kept, Released
<1>4. \A x \in Writers : PendingOf(x)'
  BY ActorsAssumption DEF IInv, TypeOK, LocalsOf, InTx, PendingOf, Inc, B, Retained, Kept, Released
<1>5. (\A y \in Sweepers : ClaimOf(y))'
  BY ActorsAssumption DEF IInv, TypeOK, ClaimOf
<1>6. NoRowNoCount' /\ RefcountExact'
  BY DEF IInv, NoRowNoCount, RefcountExact, Refs
<1> QED BY <1>1, <1>2, <1>3, <1>4, <1>5, <1>6 DEF IInv

\* An upload that fails before its transaction holds nothing to give back.
LEMMA UploadFailsStep ==
    ASSUME IInv, NEW w \in Writers, UploadFails(w)
    PROVE  IInv'
<1> USE DEF UploadFails, fileVars, tableVars, lockVars, writerVars, sweepVars, Forget
<1>1. TypeOK'
  BY RowsAssumption, ActorsAssumption DEF IInv, TypeOK, LocalsOf, Actors, Slots, WriterPc, SweepPc, InTx
<1>2. \A x \in Writers : LocalsOf(x)'
  BY RowsAssumption, ActorsAssumption DEF IInv, TypeOK, LocalsOf, InTx, Slots, WriterPc
<1>3. \A x \in Writers : HoldsOf(x)'
  BY ActorsAssumption DEF IInv, TypeOK, LocalsOf, InTx, HoldsOf, Retained, Kept, Released
<1>4. \A x \in Writers : PendingOf(x)'
  BY ActorsAssumption DEF IInv, TypeOK, LocalsOf, InTx, PendingOf, Inc, B, Retained, Kept, Released
<1>5. (\A y \in Sweepers : ClaimOf(y))'
  BY ActorsAssumption DEF IInv, TypeOK, ClaimOf
<1>6. NoRowNoCount' /\ RefcountExact'
  BY DEF IInv, NoRowNoCount, RefcountExact, Refs
<1> QED BY <1>1, <1>2, <1>3, <1>4, <1>5, <1>6 DEF IInv

\* What is read under the key's lock is the committed row, and the fresh
\* version row is empty: LocalsOf begins to hold here.
LEMMA LockKeyStep ==
    ASSUME IInv, NEW w \in Writers, LockKey(w)
    PROVE  IInv'
<1> USE DEF LockKey, fileVars, tableVars, lockVars, writerVars, sweepVars, AfterRead, AfterRetain, AfterKeep
<1>1. TypeOK'
  BY RowsAssumption, ActorsAssumption DEF IInv, TypeOK, LocalsOf, Actors, Slots, WriterPc, SweepPc, InTx
<1>2. \A x \in Writers : LocalsOf(x)'
  BY RowsAssumption, ActorsAssumption DEF IInv, TypeOK, LocalsOf, InTx, Slots, WriterPc
<1>3. \A x \in Writers : HoldsOf(x)'
  BY ActorsAssumption DEF IInv, TypeOK, LocalsOf, InTx, HoldsOf, Retained, Kept, Released
<1>4. \A x \in Writers : PendingOf(x)'
  <2>1. ~Retained(w) /\ ~Kept(w) /\ ~Released(w)
    BY DEF Retained, Kept, Released
  <2>2. ~Retained(w)' /\ ~Kept(w)' /\ ~Released(w)'
    BY DEF IInv, TypeOK, Retained, Kept, Released
  <2>3. \A x \in Writers \ {w}, d \in Digests : Inc(x, d)' = Inc(x, d)
    BY DEF IInv, TypeOK, Inc, B, Retained, Kept, Released
  <2> QED BY <2>1, <2>2, <2>3 DEF IInv, PendingOf, Inc, B
<1>5. (\A y \in Sweepers : ClaimOf(y))'
  BY ActorsAssumption DEF IInv, TypeOK, ClaimOf
<1>6. NoRowNoCount' /\ RefcountExact'
  BY DEF IInv, NoRowNoCount, RefcountExact, Refs
<1> QED BY <1>1, <1>2, <1>3, <1>4, <1>5, <1>6 DEF IInv

\* The advisory lock changes no count.
LEMMA RetainLockStep ==
    ASSUME IInv, NEW w \in Writers, RetainLock(w)
    PROVE  IInv'
<1> USE DEF RetainLock, fileVars, tableVars, lockVars, writerVars, sweepVars, Goto, LockBlob
<1>1. TypeOK'
  BY RowsAssumption, ActorsAssumption DEF IInv, TypeOK, LocalsOf, Actors, Slots, WriterPc, SweepPc, InTx
<1>2. \A x \in Writers : LocalsOf(x)'
  BY RowsAssumption, ActorsAssumption DEF IInv, TypeOK, LocalsOf, InTx, Slots, WriterPc
<1>3. \A x \in Writers : HoldsOf(x)'
  BY ActorsAssumption DEF IInv, TypeOK, LocalsOf, InTx, HoldsOf, Retained, Kept, Released
<1>4. \A x \in Writers : PendingOf(x)'
  BY ActorsAssumption DEF IInv, TypeOK, LocalsOf, InTx, PendingOf, Inc, B, Retained, Kept, Released
<1>5. (\A y \in Sweepers : ClaimOf(y))'
  BY ActorsAssumption DEF IInv, TypeOK, ClaimOf
<1>6. NoRowNoCount' /\ RefcountExact'
  BY DEF IInv, NoRowNoCount, RefcountExact, Refs
<1> QED BY <1>1, <1>2, <1>3, <1>4, <1>5, <1>6 DEF IInv

\* The first reference: one more than whatever was seen, which is either the
\* committed count or the transaction's own.
LEMMA RetainUpsertStep ==
    ASSUME IInv, NEW w \in Writers, RetainUpsert(w)
    PROVE  IInv'
<1> USE DEF RetainUpsert, fileVars, tableVars, lockVars, writerVars, sweepVars, Goto, UpsertBlob, Seen, AfterRead, AfterRetain, AfterKeep
<1>1. TypeOK'
  BY RowsAssumption, ActorsAssumption DEF IInv, TypeOK, LocalsOf, Actors, Slots, WriterPc, SweepPc, InTx
<1>2. \A x \in Writers : LocalsOf(x)'
  BY RowsAssumption, ActorsAssumption DEF IInv, TypeOK, LocalsOf, InTx, Slots, WriterPc
<1>3. \A x \in Writers : HoldsOf(x)'
  BY ActorsAssumption DEF IInv, TypeOK, LocalsOf, InTx, HoldsOf, Retained, Kept, Released
<1>4. \A x \in Writers : PendingOf(x)'
  BY ActorsAssumption DEF IInv, TypeOK, LocalsOf, InTx, PendingOf, Inc, B, Retained, Kept, Released
<1>5. (\A y \in Sweepers : ClaimOf(y))'
  BY ActorsAssumption DEF IInv, TypeOK, ClaimOf
<1>6. NoRowNoCount' /\ RefcountExact'
  BY DEF IInv, NoRowNoCount, RefcountExact, Refs
<1> QED BY <1>1, <1>2, <1>3, <1>4, <1>5, <1>6 DEF IInv

\* The advisory lock of the preserved blob changes no count either.
LEMMA KeepLockStep ==
    ASSUME IInv, NEW w \in Writers, KeepLock(w)
    PROVE  IInv'
<1> USE DEF KeepLock, fileVars, tableVars, lockVars, writerVars, sweepVars, Goto, LockBlob
<1>1. TypeOK'
  BY RowsAssumption, ActorsAssumption DEF IInv, TypeOK, LocalsOf, Actors, Slots, WriterPc, SweepPc, InTx
<1>2. \A x \in Writers : LocalsOf(x)'
  BY RowsAssumption, ActorsAssumption DEF IInv, TypeOK, LocalsOf, InTx, Slots, WriterPc
<1>3. \A x \in Writers : HoldsOf(x)'
  BY ActorsAssumption DEF IInv, TypeOK, LocalsOf, InTx, HoldsOf, Retained, Kept, Released
<1>4. \A x \in Writers : PendingOf(x)'
  BY ActorsAssumption DEF IInv, TypeOK, LocalsOf, InTx, PendingOf, Inc, B, Retained, Kept, Released
<1>5. (\A y \in Sweepers : ClaimOf(y))'
  BY ActorsAssumption DEF IInv, TypeOK, ClaimOf
<1>6. NoRowNoCount' /\ RefcountExact'
  BY DEF IInv, NoRowNoCount, RefcountExact, Refs
<1> QED BY <1>1, <1>2, <1>3, <1>4, <1>5, <1>6 DEF IInv

\* The reference of the preserved version, possibly of the very blob just
\* retained.
LEMMA KeepUpsertStep ==
    ASSUME IInv, NEW w \in Writers, KeepUpsert(w)
    PROVE  IInv'
<1> USE DEF KeepUpsert, fileVars, tableVars, lockVars, writerVars, sweepVars, Goto, UpsertBlob, Seen, AfterRead, AfterRetain, AfterKeep
<1>1. TypeOK'
  BY RowsAssumption, ActorsAssumption DEF IInv, TypeOK, LocalsOf, Actors, Slots, WriterPc, SweepPc, InTx
<1>2. \A x \in Writers : LocalsOf(x)'
  BY RowsAssumption, ActorsAssumption DEF IInv, TypeOK, LocalsOf, InTx, Slots, WriterPc
<1>3. \A x \in Writers : HoldsOf(x)'
  BY ActorsAssumption DEF IInv, TypeOK, LocalsOf, InTx, HoldsOf, Retained, Kept, Released
<1>4. \A x \in Writers : PendingOf(x)'
  BY ActorsAssumption DEF IInv, TypeOK, LocalsOf, InTx, HoldsOf, PendingOf, Inc, B, Retained, Kept, Released
<1>5. (\A y \in Sweepers : ClaimOf(y))'
  BY ActorsAssumption DEF IInv, TypeOK, ClaimOf
<1>6. NoRowNoCount' /\ RefcountExact'
  BY DEF IInv, NoRowNoCount, RefcountExact, Refs
<1> QED BY <1>1, <1>2, <1>3, <1>4, <1>5, <1>6 DEF IInv

\* GREATEST never has to clamp: the row being replaced is itself a counted
\* reference.
LEMMA ReleaseBlobStep ==
    ASSUME IInv, NEW w \in Writers, ReleaseBlob(w)
    PROVE  IInv'
<1> USE DEF ReleaseBlob, fileVars, tableVars, lockVars, writerVars, sweepVars, Goto, Seen
<1>1. TypeOK'
  BY RowsAssumption, ActorsAssumption DEF IInv, TypeOK, LocalsOf, Actors, Slots, WriterPc, SweepPc, InTx
<1>2. \A x \in Writers : LocalsOf(x)'
  BY RowsAssumption, ActorsAssumption DEF IInv, TypeOK, LocalsOf, InTx, Slots, WriterPc
<1>a. old[w] \in Digests /\ old[w] \in rows /\ count[old[w]] > 0
  BY ReferencedIsCounted DEF IInv, TypeOK, LocalsOf, InTx
<1>3. \A x \in Writers : HoldsOf(x)'
  BY <1>a, ActorsAssumption DEF IInv, TypeOK, LocalsOf, InTx, HoldsOf, Retained, Kept, Released
<1>4. \A x \in Writers : PendingOf(x)'
  BY <1>a, ActorsAssumption DEF IInv, TypeOK, LocalsOf, InTx, HoldsOf, PendingOf, Inc, B, Retained, Kept, Released
<1>5. (\A y \in Sweepers : ClaimOf(y))'
  BY ActorsAssumption DEF IInv, TypeOK, ClaimOf
<1>6. NoRowNoCount' /\ RefcountExact'
  BY DEF IInv, NoRowNoCount, RefcountExact, Refs
<1> QED BY <1>1, <1>2, <1>3, <1>4, <1>5, <1>6 DEF IInv

\* A rollback drops the locks and with them every claim of the invariant
\* about this writer.
LEMMA RollbackStep ==
    ASSUME IInv, NEW w \in Writers, Rollback(w)
    PROVE  IInv'
<1> USE DEF Rollback, fileVars, tableVars, lockVars, writerVars, sweepVars, Forget, EndTx, Free
<1>1. TypeOK'
  BY RowsAssumption, ActorsAssumption DEF IInv, TypeOK, LocalsOf, Actors, Slots, WriterPc, SweepPc, InTx
<1>2. \A x \in Writers : LocalsOf(x)'
  BY RowsAssumption, ActorsAssumption DEF IInv, TypeOK, LocalsOf, InTx, Slots, WriterPc
<1>3. \A x \in Writers : HoldsOf(x)'
  BY ActorsAssumption DEF IInv, TypeOK, LocalsOf, InTx, HoldsOf, Retained, Kept, Released
<1>4. \A x \in Writers : PendingOf(x)'
  BY ActorsAssumption DEF IInv, TypeOK, LocalsOf, InTx, PendingOf, Inc, B, Retained, Kept, Released
<1>5. (\A y \in Sweepers : ClaimOf(y))'
  BY ActorsAssumption DEF IInv, TypeOK, ClaimOf
<1>6. NoRowNoCount' /\ RefcountExact'
  BY DEF IInv, NoRowNoCount, RefcountExact, Refs
<1> QED BY <1>1, <1>2, <1>3, <1>4, <1>5, <1>6 DEF IInv

\* The counts and the rows change together, and by the same amount: at most
\* two slots change, the key and the preserved version.
LEMMA CommitStep ==
    ASSUME IInv, NEW w \in Writers, Commit(w)
    PROVE  IInv'
<1> USE DEF Commit, fileVars, tableVars, lockVars, writerVars, sweepVars, Forget, EndTx, Free, NewRef, NewCount
<1>1. TypeOK'
  BY RowsAssumption, ActorsAssumption DEF IInv, TypeOK, LocalsOf, Actors, Slots, WriterPc, SweepPc, InTx
<1>2. \A x \in Writers : LocalsOf(x)'
  BY RowsAssumption, ActorsAssumption DEF IInv, TypeOK, LocalsOf, InTx, Slots, WriterPc
<1>3. \A x \in Writers : HoldsOf(x)'
  BY ActorsAssumption DEF IInv, TypeOK, LocalsOf, InTx, HoldsOf, Retained, Kept, Released
<1>4. \A x \in Writers : PendingOf(x)'
  BY ActorsAssumption DEF IInv, TypeOK, LocalsOf, InTx, PendingOf, Inc, B, Retained, Kept, Released
<1>5. (\A y \in Sweepers : ClaimOf(y))'
  BY ActorsAssumption DEF IInv, TypeOK, ClaimOf
<1>6. NoRowNoCount'
  BY DEF IInv, TypeOK, NoRowNoCount
<1>7. \A d \in Digests : count'[d] = count[d] + Inc(w, d)
  BY DEF IInv, TypeOK, LocalsOf, InTx, HoldsOf, PendingOf, Inc, B, Retained, Kept, Released
<1>8. ASSUME NEW d \in Digests
      PROVE  Cardinality(Refs(d)') = Cardinality(Refs(d)) + Inc(w, d)
  <2> DEFINE r == row[w]
             v == keep[w]
             Rest == Slots \ {r}
             Rest2 == Rest \ {v}
  <2>1. /\ r \in Slots /\ v # r /\ (v = NoRow \/ v \in Rest)
        /\ old[w] = ref[r] /\ (v # NoRow => ref[v] = NoBlob /\ old[w] # NoBlob)
        /\ ref' = [s \in Slots |-> IF s = r THEN new[w] ELSE IF s = v THEN old[w] ELSE ref[s]]
    BY RowsAssumption DEF IInv, TypeOK, LocalsOf, InTx, Slots
  <2>2. Refs(d) = Fibre(Slots, ref, d) /\ Refs(d)' = Fibre(Slots, ref', d)
    BY DEF Refs, Fibre
  <2> HIDE DEF r, v
  <2>3. /\ Cardinality(Fibre(Rest, ref, d)) \in Nat
        /\ Cardinality(Fibre(Slots, ref, d)) = Cardinality(Fibre(Rest, ref, d)) + B(ref[r] = d)
    BY <2>1, SlotsFinite, CountSplit
  <2>4. Cardinality(Fibre(Slots, ref', d)) = Cardinality(Fibre(Rest, ref', d)) + B(ref'[r] = d)
    BY <2>1, SlotsFinite, CountSplit
  <2>5. CASE v = NoRow
    <3>1. Fibre(Rest, ref', d) = Fibre(Rest, ref, d)
      <4>1. \A t \in Rest : ref'[t] = ref[t]
        BY <2>1, <2>5, RowsAssumption DEF Slots
      <4> QED BY <4>1, SameFibre
    <3> QED BY <2>1, <2>2, <2>3, <2>4, <2>5, <3>1, RowsAssumption DEF r, v, Inc, B, Retained, Kept, Released
  <2>6. CASE v # NoRow
    <3>1. IsFiniteSet(Rest)
      BY SlotsFinite, FS_Subset
    <3>2. /\ Cardinality(Fibre(Rest2, ref, d)) \in Nat
          /\ Cardinality(Fibre(Rest, ref, d)) = Cardinality(Fibre(Rest2, ref, d)) + B(ref[v] = d)
      BY <2>1, <2>6, <3>1, CountSplit
    <3>3. Cardinality(Fibre(Rest, ref', d)) = Cardinality(Fibre(Rest2, ref', d)) + B(ref'[v] = d)
      BY <2>1, <2>6, <3>1, CountSplit
    <3>4. Fibre(Rest2, ref', d) = Fibre(Rest2, ref, d)
      <4>1. \A t \in Rest2 : ref'[t] = ref[t]
        BY <2>1
      <4> QED BY <4>1, SameFibre
    <3> QED BY <2>1, <2>2, <2>3, <2>4, <2>6, <3>2, <3>3, <3>4, RowsAssumption DEF r, v, Inc, B, Retained, Kept, Released
  <2> QED BY <2>5, <2>6
<1>9. RefcountExact'
  BY <1>7, <1>8, RefsFinite DEF IInv, TypeOK, RefcountExact
<1> QED BY <1>1, <1>2, <1>3, <1>4, <1>5, <1>6, <1>9 DEF IInv

\* A sweeper's steps before its claim.
LEMMA SweepListStep ==
    ASSUME IInv, NEW k \in Sweepers, SweepList(k)
    PROVE  IInv'
<1> USE DEF SweepList, fileVars, tableVars, lockVars, writerVars, sweepVars, SweepGoto
<1>1. TypeOK'
  BY DEF IInv, TypeOK, SweepPc, Eligible
<1>2. \A x \in Writers : LocalsOf(x)'
  BY RowsAssumption, ActorsAssumption DEF IInv, TypeOK, LocalsOf, InTx, Slots, WriterPc
<1>3. \A x \in Writers : HoldsOf(x)'
  BY ActorsAssumption DEF IInv, TypeOK, LocalsOf, InTx, HoldsOf, Retained, Kept, Released
<1>4. \A x \in Writers : PendingOf(x)'
  BY ActorsAssumption DEF IInv, TypeOK, LocalsOf, InTx, PendingOf, Inc, B, Retained, Kept, Released
<1>5. (\A y \in Sweepers : ClaimOf(y))'
  BY ActorsAssumption DEF IInv, TypeOK, ClaimOf
<1>6. NoRowNoCount' /\ RefcountExact'
  BY DEF IInv, NoRowNoCount, RefcountExact, Refs
<1> QED BY <1>1, <1>2, <1>3, <1>4, <1>5, <1>6 DEF IInv

\* Locking the next digest of the list claims nothing yet.
LEMMA SweepLockStep ==
    ASSUME IInv, NEW k \in Sweepers, SweepLock(k)
    PROVE  IInv'
<1> USE DEF SweepLock, fileVars, tableVars, lockVars, writerVars, sweepVars, SweepGoto
<1>1. TypeOK'
  BY RowsAssumption, ActorsAssumption DEF IInv, TypeOK, LocalsOf, Actors, Slots, WriterPc, SweepPc, InTx
<1>2. \A x \in Writers : LocalsOf(x)'
  BY RowsAssumption, ActorsAssumption DEF IInv, TypeOK, LocalsOf, InTx, Slots, WriterPc
<1>3. \A x \in Writers : HoldsOf(x)'
  BY ActorsAssumption DEF IInv, TypeOK, LocalsOf, InTx, HoldsOf, Retained, Kept, Released
<1>4. \A x \in Writers : PendingOf(x)'
  BY ActorsAssumption DEF IInv, TypeOK, LocalsOf, InTx, PendingOf, Inc, B, Retained, Kept, Released
<1>5. (\A y \in Sweepers : ClaimOf(y))'
  BY ActorsAssumption DEF IInv, TypeOK, ClaimOf
<1>6. NoRowNoCount' /\ RefcountExact'
  BY DEF IInv, NoRowNoCount, RefcountExact, Refs
<1> QED BY <1>1, <1>2, <1>3, <1>4, <1>5, <1>6 DEF IInv

\* The DELETE re-checks the count and takes the row lock, which keeps it at
\* zero.
LEMMA SweepClaimStep ==
    ASSUME IInv, NEW k \in Sweepers, SweepClaim(k)
    PROVE  IInv'
<1> USE DEF SweepClaim, fileVars, tableVars, lockVars, writerVars, sweepVars, SweepGoto, Claimable
<1>1. TypeOK'
  BY RowsAssumption, ActorsAssumption DEF IInv, TypeOK, LocalsOf, Actors, Slots, WriterPc, SweepPc, InTx
<1>2. \A x \in Writers : LocalsOf(x)'
  BY RowsAssumption, ActorsAssumption DEF IInv, TypeOK, LocalsOf, InTx, Slots, WriterPc
<1>3. \A x \in Writers : HoldsOf(x)'
  BY ActorsAssumption DEF IInv, TypeOK, LocalsOf, InTx, HoldsOf, Retained, Kept, Released
<1>4. \A x \in Writers : PendingOf(x)'
  BY ActorsAssumption DEF IInv, TypeOK, LocalsOf, InTx, PendingOf, Inc, B, Retained, Kept, Released
<1>5. (\A y \in Sweepers : ClaimOf(y))'
  BY ActorsAssumption DEF IInv, TypeOK, ClaimOf
<1>6. NoRowNoCount' /\ RefcountExact'
  BY DEF IInv, NoRowNoCount, RefcountExact, Refs
<1> QED BY <1>1, <1>2, <1>3, <1>4, <1>5, <1>6 DEF IInv

\* A blob that is in use again is left alone, and only locks are given back.
LEMMA SweepSkipStep ==
    ASSUME IInv, NEW k \in Sweepers, SweepSkip(k)
    PROVE  IInv'
<1> USE DEF SweepSkip, fileVars, tableVars, lockVars, writerVars, sweepVars, SweepNext, SweepGoto, EndTx, Free
<1>1. TypeOK'
  BY RowsAssumption, ActorsAssumption DEF IInv, TypeOK, LocalsOf, Actors, Slots, WriterPc, SweepPc, InTx
<1>2. \A x \in Writers : LocalsOf(x)'
  BY RowsAssumption, ActorsAssumption DEF IInv, TypeOK, LocalsOf, InTx, Slots, WriterPc
<1>3. \A x \in Writers : HoldsOf(x)'
  BY ActorsAssumption DEF IInv, TypeOK, LocalsOf, InTx, HoldsOf, Retained, Kept, Released
<1>4. \A x \in Writers : PendingOf(x)'
  BY ActorsAssumption DEF IInv, TypeOK, LocalsOf, InTx, PendingOf, Inc, B, Retained, Kept, Released
<1>5. (\A y \in Sweepers : ClaimOf(y))'
  BY ActorsAssumption DEF IInv, TypeOK, ClaimOf
<1>6. NoRowNoCount' /\ RefcountExact'
  BY DEF IInv, NoRowNoCount, RefcountExact, Refs
<1> QED BY <1>1, <1>2, <1>3, <1>4, <1>5, <1>6 DEF IInv

\* The file goes while the claim is held.
LEMMA SweepUnlinkStep ==
    ASSUME IInv, NEW k \in Sweepers, SweepUnlink(k)
    PROVE  IInv'
<1> USE DEF SweepUnlink, fileVars, tableVars, lockVars, writerVars, sweepVars, SweepGoto
<1>1. TypeOK'
  BY RowsAssumption, ActorsAssumption DEF IInv, TypeOK, LocalsOf, Actors, Slots, WriterPc, SweepPc, InTx
<1>2. \A x \in Writers : LocalsOf(x)'
  BY RowsAssumption, ActorsAssumption DEF IInv, TypeOK, LocalsOf, InTx, Slots, WriterPc
<1>3. \A x \in Writers : HoldsOf(x)'
  BY ActorsAssumption DEF IInv, TypeOK, LocalsOf, InTx, HoldsOf, Retained, Kept, Released
<1>4. \A x \in Writers : PendingOf(x)'
  BY ActorsAssumption DEF IInv, TypeOK, LocalsOf, InTx, PendingOf, Inc, B, Retained, Kept, Released
<1>5. (\A y \in Sweepers : ClaimOf(y))'
  BY ActorsAssumption DEF IInv, TypeOK, ClaimOf
<1>6. NoRowNoCount' /\ RefcountExact'
  BY DEF IInv, NoRowNoCount, RefcountExact, Refs
<1> QED BY <1>1, <1>2, <1>3, <1>4, <1>5, <1>6 DEF IInv

\* The row goes with its count at zero.
LEMMA SweepCommitStep ==
    ASSUME IInv, NEW k \in Sweepers, SweepCommit(k)
    PROVE  IInv'
<1> USE DEF SweepCommit, fileVars, tableVars, lockVars, writerVars, sweepVars, SweepNext, SweepGoto, EndTx, Free
<1>1. TypeOK'
  BY RowsAssumption, ActorsAssumption DEF IInv, TypeOK, LocalsOf, Actors, Slots, WriterPc, SweepPc, InTx
<1>2. \A x \in Writers : LocalsOf(x)'
  BY RowsAssumption, ActorsAssumption DEF IInv, TypeOK, LocalsOf, InTx, Slots, WriterPc
<1>3. \A x \in Writers : HoldsOf(x)'
  BY ActorsAssumption DEF IInv, TypeOK, LocalsOf, InTx, HoldsOf, Retained, Kept, Released
<1>4. \A x \in Writers : PendingOf(x)'
  BY ActorsAssumption DEF IInv, TypeOK, LocalsOf, InTx, PendingOf, Inc, B, Retained, Kept, Released
<1>5. (\A y \in Sweepers : ClaimOf(y))'
  BY ActorsAssumption DEF IInv, TypeOK, ClaimOf
<1>6. NoRowNoCount' /\ RefcountExact'
  BY DEF IInv, TypeOK, ClaimOf, NoRowNoCount, RefcountExact, Refs
<1> QED BY <1>1, <1>2, <1>3, <1>4, <1>5, <1>6 DEF IInv

\* A failed sweep leaves the tables alone.
LEMMA SweepFailsStep ==
    ASSUME IInv, NEW k \in Sweepers, SweepFails(k)
    PROVE  IInv'
<1> USE DEF SweepFails, fileVars, tableVars, lockVars, writerVars, sweepVars, SweepNext, SweepGoto, EndTx, Free
<1>1. TypeOK'
  BY RowsAssumption, ActorsAssumption DEF IInv, TypeOK, LocalsOf, Actors, Slots, WriterPc, SweepPc, InTx
<1>2. \A x \in Writers : LocalsOf(x)'
  BY RowsAssumption, ActorsAssumption DEF IInv, TypeOK, LocalsOf, InTx, Slots, WriterPc
<1>3. \A x \in Writers : HoldsOf(x)'
  BY ActorsAssumption DEF IInv, TypeOK, LocalsOf, InTx, HoldsOf, Retained, Kept, Released
<1>4. \A x \in Writers : PendingOf(x)'
  BY ActorsAssumption DEF IInv, TypeOK, LocalsOf, InTx, PendingOf, Inc, B, Retained, Kept, Released
<1>5. (\A y \in Sweepers : ClaimOf(y))'
  BY ActorsAssumption DEF IInv, TypeOK, ClaimOf
<1>6. NoRowNoCount' /\ RefcountExact'
  BY DEF IInv, NoRowNoCount, RefcountExact, Refs
<1> QED BY <1>1, <1>2, <1>3, <1>4, <1>5, <1>6 DEF IInv

\* Only the clock.
LEMMA AgeStep ==
    ASSUME IInv, NEW d \in Digests, Age(d)
    PROVE  IInv'
<1> USE DEF Age, fileVars, tableVars, lockVars, writerVars, sweepVars
<1>1. TypeOK'
  BY RowsAssumption, ActorsAssumption DEF IInv, TypeOK, LocalsOf, Actors, Slots, WriterPc, SweepPc, InTx
<1>2. \A x \in Writers : LocalsOf(x)'
  BY RowsAssumption, ActorsAssumption DEF IInv, TypeOK, LocalsOf, InTx, Slots, WriterPc
<1>3. \A x \in Writers : HoldsOf(x)'
  BY ActorsAssumption DEF IInv, TypeOK, LocalsOf, InTx, HoldsOf, Retained, Kept, Released
<1>4. \A x \in Writers : PendingOf(x)'
  BY ActorsAssumption DEF IInv, TypeOK, LocalsOf, InTx, PendingOf, Inc, B, Retained, Kept, Released
<1>5. (\A y \in Sweepers : ClaimOf(y))'
  BY ActorsAssumption DEF IInv, TypeOK, ClaimOf
<1>6. NoRowNoCount' /\ RefcountExact'
  BY DEF IInv, NoRowNoCount, RefcountExact, Refs
<1> QED BY <1>1, <1>2, <1>3, <1>4, <1>5, <1>6 DEF IInv

\* The transactions of one process end, those of the others are untouched.
LEMMA RestartStep ==
    ASSUME IInv, NEW p \in Procs, Restart(p)
    PROVE  IInv'
<1> USE DEF Restart, fileVars, tableVars, lockVars, writerVars, sweepVars, Forget, EndTx, Free
<1>1. TypeOK'
  BY RowsAssumption, ActorsAssumption DEF IInv, TypeOK, LocalsOf, Actors, Slots, WriterPc, SweepPc, InTx
<1>2. \A x \in Writers : LocalsOf(x)'
  BY RowsAssumption, ActorsAssumption DEF IInv, TypeOK, LocalsOf, InTx, Slots, WriterPc
<1>3. \A x \in Writers : HoldsOf(x)'
  BY ActorsAssumption DEF IInv, TypeOK, LocalsOf, InTx, HoldsOf, Retained, Kept, Released
<1>4. \A x \in Writers : PendingOf(x)'
  BY ActorsAssumption DEF IInv, TypeOK, LocalsOf, InTx, PendingOf, Inc, B, Retained, Kept, Released
<1>5. (\A y \in Sweepers : ClaimOf(y))'
  BY ActorsAssumption DEF IInv, TypeOK, ClaimOf
<1>6. NoRowNoCount' /\ RefcountExact'
  BY DEF IInv, NoRowNoCount, RefcountExact, Refs
<1> QED BY <1>1, <1>2, <1>3, <1>4, <1>5, <1>6 DEF IInv

-----------------------------------------------------------------------------
(* The theorems.                                                           *)

\* An empty database satisfies the invariant.
LEMMA InitIInv == Init => IInv
<1> SUFFICES ASSUME Init PROVE IInv
  OBVIOUS
<1> USE DEF Init
<1>1. TypeOK
  BY DEF TypeOK, Slots, Actors, WriterPc, SweepPc
<1>2. \A w \in Writers : LocalsOf(w) /\ HoldsOf(w) /\ PendingOf(w)
  BY ActorsAssumption DEF LocalsOf, HoldsOf, PendingOf, InTx, Retained, Kept, Released
<1>3. \A k \in Sweepers : ClaimOf(k)
  BY DEF ClaimOf
<1>4. NoRowNoCount
  BY DEF NoRowNoCount
<1>5. RefcountExact
  <2>1. \A d \in Digests : Refs(d) = {}
    BY RowsAssumption DEF Refs
  <2> QED BY <2>1, FS_EmptySet DEF RefcountExact
<1> QED BY <1>1, <1>2, <1>3, <1>4, <1>5 DEF IInv

\* So every step keeps it, a stuttering one included.
LEMMA StepIInv == IInv /\ [Next]_vars => IInv'
<1> SUFFICES ASSUME IInv, [Next]_vars PROVE IInv'
  OBVIOUS
<1>1. ASSUME NEW w \in Writers, Stage(w) PROVE IInv'
  BY <1>1, UploadStep, DedupeStep, FindAbsentStep, RenameStep, RenameFailsStep, UploadFailsStep DEF Stage
<1>2. ASSUME NEW w \in Writers, Transact(w) PROVE IInv'
  BY <1>2, CopyStep, DeleteStep, PurgeStep, LockKeyStep, RetainLockStep, RetainUpsertStep,
     KeepLockStep, KeepUpsertStep, ReleaseBlobStep, CommitStep, RollbackStep DEF Transact
<1>3. ASSUME NEW k \in Sweepers, Sweep(k) PROVE IInv'
  BY <1>3, SweepListStep, SweepLockStep, SweepClaimStep, SweepSkipStep, SweepUnlinkStep,
     SweepCommitStep, SweepFailsStep DEF Sweep
<1>4. CASE UNCHANGED vars
  <2> USE <1>4 DEF vars, fileVars, tableVars, lockVars, writerVars, sweepVars
  <2>1. TypeOK'
    BY DEF IInv, TypeOK
  <2>2. \A w \in Writers : LocalsOf(w)' /\ HoldsOf(w)' /\ PendingOf(w)'
    BY DEF IInv, LocalsOf, HoldsOf, PendingOf, Inc, Retained, Kept, Released
  <2>3. (\A k \in Sweepers : ClaimOf(k))'
    BY DEF IInv, ClaimOf
  <2>4. NoRowNoCount' /\ RefcountExact'
    BY DEF IInv, NoRowNoCount, RefcountExact, Refs
  <2> QED BY <2>1, <2>2, <2>3, <2>4 DEF IInv
<1> QED BY <1>1, <1>2, <1>3, <1>4, AgeStep, RestartStep DEF Next

\* The strengthened invariant holds of every behaviour.
THEOREM Invariance == Spec => []IInv
BY InitIInv, StepIInv, PTL DEF Spec

\* Every variable keeps its type, whatever the requests, the sweepers and the restarts
\* do.
THEOREM TypeCorrect == Spec => []TypeOK
<1>1. IInv => TypeOK
  BY DEF IInv
<1> QED BY <1>1, Invariance, PTL

\* The refcount of every blob is the number of committed rows that point at
\* it (db/blobs.go: "the count changes atomically with the object row"), for
\* any number of requests, sweepers, processes, keys and contents.
THEOREM RefcountIsExact == Spec => []RefcountExact
<1>1. IInv => RefcountExact
  BY DEF IInv
<1> QED BY <1>1, Invariance, PTL

\* Only the sweeper's unlink takes a file away.
LEMMA UnlinkedBySweep ==
    ASSUME IInv, Next, NEW d \in Digests, file[d], ~file'[d]
    PROVE  \E k \in Sweepers : SweepUnlink(k)
<1>1. ASSUME NEW w \in Writers, Stage(w) PROVE FALSE
  BY <1>1 DEF Stage, Upload, Dedupe, FindAbsent, Rename, RenameFails, UploadFails, fileVars, IInv, TypeOK
<1>2. ASSUME NEW w \in Writers, Transact(w) PROVE FALSE
  BY <1>2 DEF Transact, Copy, Delete, Purge, LockKey, RetainLock, RetainUpsert, KeepLock, KeepUpsert,
     LockBlob, UpsertBlob, ReleaseBlob, Commit, Rollback, fileVars
<1>3. ASSUME NEW k \in Sweepers, Sweep(k), ~SweepUnlink(k) PROVE FALSE
  BY <1>3 DEF Sweep, SweepList, SweepLock, SweepClaim, SweepSkip, SweepCommit, SweepFails, fileVars
<1>4. ~(\E e \in Digests : Age(e)) /\ ~(\E p \in Procs : Restart(p))
  BY DEF Age, Restart, fileVars
<1> QED BY <1>1, <1>2, <1>3, <1>4 DEF Next

\* Only the sweeper removes a file, and at that moment no committed row
\* points at it: the claim under the row lock and the exact count say so.
LEMMA UnlinkStep ==
    ASSUME IInv, Next, NEW d \in Digests, file[d], ~file'[d]
    PROVE  Refs(d) = {} /\ Refs(d)' = {}
<1>1. PICK k \in Sweepers : SweepUnlink(k)
  BY UnlinkedBySweep
<1>2. d = target[k] /\ count[d] = 0 /\ ref' = ref
  BY <1>1 DEF SweepUnlink, tableVars, IInv, TypeOK, ClaimOf
<1>3. Cardinality(Refs(d)) = 0
  BY <1>2 DEF IInv, RefcountExact
<1>4. Refs(d) = {}
  BY <1>3, RefsFinite, FS_EmptySet
<1> QED BY <1>2, <1>4 DEF Refs

\* Garbage collection never takes the file of a blob a committed row points
\* at.
THEOREM UnlinkSafe == Spec => UnlinkSparesReferenced
<1>1. IInv /\ [Next]_vars =>
        [\A d \in Digests : file[d] /\ ~file'[d] => Refs(d) = {} /\ Refs(d)' = {}]_vars
  BY UnlinkStep
<1> QED BY <1>1, Invariance, PTL DEF Spec, UnlinkSparesReferenced

-----------------------------------------------------------------------------
(* The bytes.                                                              *)

\* The advisory locks: of a sweeper, from the choice of its blob to the end; of a
\* request, from RetainBlob to the end.
Locking == {"claim", "unlink", "reclaim"}
LocksHeld ==
    /\ \A k \in Sweepers : spc[k] \in Locking => target[k] \in Digests /\ advisory[target[k]] = k
    /\ \A w \in Writers : pc[w] \in InTx \ {"retain"} /\ new[w] # NoBlob => advisory[new[w]] = w

Lost(d) == ~file[d] /\ d \notin raced

\* What a request is about to point at is there, or has raced.
NewIsThere == \A w \in Writers : pc[w] \in InTx \cup {"begin"} /\ new[w] # NoBlob => ~Lost(new[w])

BytesInv == IInv /\ LocksHeld /\ NewIsThere /\ OnlyRacesLoseBytes

\* A step keeps the locks.
LEMMA LocksStep ==
    ASSUME IInv, LocksHeld, [Next]_vars
    PROVE  LocksHeld'
<1> USE ActorsAssumption, RowsAssumption DEF LocksHeld, Locking, IInv, TypeOK, LocalsOf, InTx, Actors
<1>1. ASSUME NEW w \in Writers, Stage(w) PROVE LocksHeld'
  BY <1>1 DEF Stage, Upload, Dedupe, FindAbsent, Rename, RenameFails, UploadFails, Forget, Goto,
     lockVars, sweepVars, tableVars, fileVars
<1>2. ASSUME NEW w \in Writers, Copy(w) \/ Delete(w) \/ Purge(w) \/ LockKey(w) PROVE LocksHeld'
  BY <1>2 DEF Copy, Delete, Purge, LockKey, AfterRead, AfterRetain, AfterKeep, lockVars, sweepVars, tableVars
<1>3. ASSUME NEW w \in Writers, RetainLock(w) \/ KeepLock(w) PROVE LocksHeld'
  BY <1>3 DEF RetainLock, KeepLock, LockBlob, Goto, sweepVars
<1>4. ASSUME NEW w \in Writers, RetainUpsert(w) \/ KeepUpsert(w) \/ ReleaseBlob(w) PROVE LocksHeld'
  BY <1>4 DEF RetainUpsert, KeepUpsert, ReleaseBlob, UpsertBlob, AfterRetain, AfterKeep, Goto, sweepVars
<1>5. ASSUME NEW w \in Writers, Commit(w) \/ Rollback(w) PROVE LocksHeld'
  BY <1>5 DEF Commit, Rollback, EndTx, Free, Forget, sweepVars
<1>6. ASSUME NEW k \in Sweepers, SweepList(k) \/ SweepLock(k) \/ SweepClaim(k) \/ SweepUnlink(k)
      PROVE  LocksHeld'
  BY <1>6 DEF SweepList, SweepLock, SweepClaim, SweepUnlink, SweepGoto, lockVars, writerVars
<1>7. ASSUME NEW k \in Sweepers, SweepSkip(k) \/ SweepCommit(k) \/ SweepFails(k) PROVE LocksHeld'
  BY <1>7 DEF SweepSkip, SweepCommit, SweepFails, SweepNext, EndTx, Free, SweepGoto, writerVars
<1>8. ASSUME NEW p \in Procs, Restart(p) PROVE LocksHeld'
  BY <1>8 DEF Restart, EndTx, Free, Forget
<1>9. CASE UNCHANGED vars \/ \E d \in Digests : Age(d)
  BY <1>9 DEF Age, vars, lockVars, writerVars, sweepVars
<1> QED
  BY <1>1, <1>2, <1>3, <1>4, <1>5, <1>6, <1>7, <1>8, <1>9 DEF Next, Transact, Sweep

\* Only the sweeper takes a file away: that of a blob without a row, whose lock it has.
LEMMA Unlinked ==
    ASSUME IInv, LocksHeld, [Next]_vars, NEW d \in Digests, file[d], ~file'[d]
    PROVE  /\ Refs(d) = {} /\ UNCHANGED <<ref, pc, new>>
           /\ \E k \in Sweepers : advisory[d] = k
<1>1. Next
  BY DEF vars, fileVars
<1>2. PICK k \in Sweepers : SweepUnlink(k)
  BY <1>1, UnlinkedBySweep
<1>3. d = target[k] /\ spc[k] = "unlink"
  BY <1>2 DEF SweepUnlink, IInv, TypeOK
<1> QED
  BY <1>1, <1>2, <1>3, UnlinkStep DEF SweepUnlink, LocksHeld, Locking, tableVars, writerVars

\* So no blob is lost that a row points at, or that a request is about to point at:
\* one that does not have the lock makes it a race.
LEMMA StaysThere ==
    ASSUME BytesInv, RaceNext, NEW d \in Digests, ~Lost(d),
           Refs(d) # {} \/ \E w \in Writers : pc[w] \in InTx \cup {"begin"} /\ new[w] = d
    PROVE  ~Lost(d)'
<1> SUFFICES ASSUME ~file'[d] PROVE d \in raced'
  BY DEF Lost
<1>1. CASE ~file[d]
  BY <1>1 DEF RaceNext, Lost
<1>2. CASE file[d]
  <2>1. /\ Refs(d) = {} /\ \E k \in Sweepers : advisory[d] = k
    BY <1>2, Unlinked DEF BytesInv, RaceNext
  <2>2. PICK w \in Writers : pc[w] \in InTx \cup {"begin"} /\ new[w] = d
    BY <2>1
  <2>3. pc[w] \in {"begin", "retain"}
    BY <2>1, <2>2, RowsAssumption, ActorsAssumption DEF BytesInv, LocksHeld
  <2> QED
    BY <1>2, <2>2, <2>3 DEF RaceNext, InHand
<1> QED BY <1>1, <1>2

\* A request comes to have a digest in hand by finding or renaming the file, or by
\* reading a row.
LEMMA TakesInHand ==
    ASSUME IInv, Next, NEW w \in Writers, (pc[w] \in InTx \cup {"begin"})', new'[w] # NoBlob
    PROVE  \/ pc[w] \in InTx \cup {"begin"} /\ new'[w] = new[w]
           \/ pc[w] \in {"staged", "rename"} /\ new'[w] = new[w] /\ file'[new[w]]
           \/ Copy(w)
<1> USE RowsAssumption, ActorsAssumption DEF IInv, TypeOK, LocalsOf, InTx
<1>1. ASSUME NEW x \in Writers, Stage(x)
      PROVE  \/ pc[w] \in InTx \cup {"begin"} /\ new'[w] = new[w]
             \/ pc[w] \in {"staged", "rename"} /\ new'[w] = new[w] /\ file'[new[w]]
  BY <1>1 DEF Stage, Upload, Dedupe, FindAbsent, Rename, RenameFails, UploadFails, Forget, Goto, fileVars
<1>2. ASSUME NEW x \in Writers, Transact(x)
      PROVE  (pc[w] \in InTx \cup {"begin"} /\ new'[w] = new[w]) \/ Copy(w)
  <2>1. CASE Copy(x) \/ Delete(x) \/ Purge(x) \/ LockKey(x)
    BY <2>1 DEF Copy, Delete, Purge, LockKey
  <2>2. CASE RetainLock(x) \/ RetainUpsert(x) \/ KeepLock(x) \/ KeepUpsert(x) \/ ReleaseBlob(x)
    BY <2>2 DEF RetainLock, RetainUpsert, KeepLock, KeepUpsert, ReleaseBlob, Goto
  <2>3. CASE Commit(x) \/ Rollback(x)
    BY <2>3 DEF Commit, Rollback, Forget
  <2> QED BY <1>2, <2>1, <2>2, <2>3 DEF Transact
<1>3. ASSUME NEW k \in Sweepers, Sweep(k) PROVE UNCHANGED <<pc, new>>
  BY <1>3 DEF Sweep, SweepList, SweepLock, SweepClaim, SweepSkip, SweepUnlink, SweepCommit, SweepFails,
     SweepNext, writerVars
<1>4. ASSUME NEW d \in Digests, Age(d) PROVE UNCHANGED <<pc, new>>
  BY <1>4 DEF Age, writerVars
<1>5. ASSUME NEW p \in Procs, Restart(p) PROVE pc[w] \in InTx \cup {"begin"} /\ new'[w] = new[w]
  BY <1>5 DEF Restart, Forget
<1> QED BY <1>1, <1>2, <1>3, <1>4, <1>5 DEF Next

\* A row comes to point at a digest by a commit, whose writer had it in hand or had
\* read it from the row it replaces.
LEMMA RefFrom ==
    ASSUME IInv, Next, NEW s \in Slots, ref'[s] # NoBlob
    PROVE  \/ \E t \in Slots : ref[t] = ref'[s]
           \/ \E w \in Writers : pc[w] \in InTx \cup {"begin"} /\ new[w] = ref'[s]
<1>1. ASSUME NEW w \in Writers, Commit(w)
      PROVE  \/ ref'[s] = ref[s]
             \/ ref'[s] = ref[row[w]] /\ row[w] \in Slots
             \/ pc[w] \in InTx /\ new[w] = ref'[s]
  BY <1>1 DEF Commit, NewRef, IInv, TypeOK, LocalsOf, InTx
<1>2. ASSUME ~\E w \in Writers : Commit(w) PROVE ref' = ref
  BY <1>2 DEF Next, Stage, Upload, Dedupe, FindAbsent, Rename, RenameFails, UploadFails, Transact, Copy,
     Delete, Purge, LockKey, RetainLock, RetainUpsert, KeepLock, KeepUpsert, LockBlob, UpsertBlob,
     ReleaseBlob, Rollback, Sweep, SweepList, SweepLock, SweepClaim, SweepSkip, SweepUnlink, SweepCommit,
     SweepFails, Age, Restart, tableVars
<1> QED BY <1>1, <1>2

\* What a request takes in hand is there: it has found or renamed the file, or a row
\* points at it.
LEMMA NewIsThereStep ==
    ASSUME BytesInv, RaceNext
    PROVE  NewIsThere'
<1> SUFFICES ASSUME NEW w \in Writers, (pc[w] \in InTx \cup {"begin"})', new'[w] # NoBlob
             PROVE  ~Lost(new[w])'
  BY DEF NewIsThere
<1>1. new'[w] \in Digests
  BY StepIInv DEF BytesInv, RaceNext, IInv, TypeOK
<1>2. CASE pc[w] \in InTx \cup {"begin"} /\ new'[w] = new[w]
  BY <1>1, <1>2, StaysThere DEF BytesInv, NewIsThere, Lost
<1>3. CASE pc[w] \in {"staged", "rename"} /\ new'[w] = new[w] /\ file'[new[w]]
  BY <1>3 DEF Lost
<1>4. CASE Copy(w)
  <2>1. PICK s \in Slots : ref[s] # NoBlob /\ new'[w] = ref[s]
    BY <1>4 DEF Copy, BytesInv, IInv, TypeOK
  <2>2. ~Lost(ref[s]) /\ Refs(ref[s]) # {}
    BY <2>1 DEF BytesInv, OnlyRacesLoseBytes, Lost, Refs
  <2>3. ~Lost(new'[w]) /\ Refs(new'[w]) # {}
    BY <2>1, <2>2
  <2> DEFINE d == new'[w]
  <2>4. d \in Digests /\ ~Lost(d) /\ Refs(d) # {}
    BY <1>1, <2>3
  <2> HIDE DEF d
  <2>5. ~file'[d] => d \in raced'
    BY <2>4, StaysThere DEF Lost
  <2> QED BY <2>5 DEF d, Lost
<1>5. (pc[w] \in InTx \cup {"begin"} /\ new'[w] = new[w])
      \/ (pc[w] \in {"staged", "rename"} /\ new'[w] = new[w] /\ file'[new[w]]) \/ Copy(w)
  BY TakesInHand DEF BytesInv, RaceNext
<1> QED BY <1>2, <1>3, <1>4, <1>5

\* A row points at what it did, or at what its writer had read or taken in hand.
LEMMA RowsStep ==
    ASSUME BytesInv, RaceNext
    PROVE  OnlyRacesLoseBytes'
<1> SUFFICES ASSUME NEW s \in Slots, ref'[s] # NoBlob PROVE ~Lost(ref[s])'
  BY DEF OnlyRacesLoseBytes, Lost
<1> DEFINE d == ref'[s]
<1>1. d \in Digests
  BY StepIInv DEF BytesInv, RaceNext, IInv, TypeOK
<1>2. \/ \E t \in Slots : ref[t] = d
      \/ \E w \in Writers : pc[w] \in InTx \cup {"begin"} /\ new[w] = d
  BY RefFrom, <1>1 DEF BytesInv, RaceNext
<1>3. ~Lost(d)
  BY <1>1, <1>2, RowsAssumption DEF BytesInv, OnlyRacesLoseBytes, NewIsThere, Lost
<1>4. Refs(d) # {} \/ \E w \in Writers : pc[w] \in InTx \cup {"begin"} /\ new[w] = d
  BY <1>2 DEF Refs
<1> HIDE DEF d
<1>5. ~file'[d] => d \in raced'
  BY <1>1, <1>3, <1>4, StaysThere DEF Lost
<1> QED BY <1>5 DEF d, Lost

\* The one race the locks leave open is the one that loses bytes: a row points at no
\* missing file but one that was unlinked after its request had looked, and before it
\* had asked for the lock, for any number of requests, sweepers and processes.
THEOREM OnlyOneRaceLosesBytes == RaceSpec => []OnlyRacesLoseBytes
<1>1. RaceInit => BytesInv
  BY InitIInv, RowsAssumption DEF RaceInit, BytesInv, Init, LocksHeld, Locking, NewIsThere, InTx,
     OnlyRacesLoseBytes
<1>2. BytesInv /\ RaceNext => BytesInv'
  BY StepIInv, LocksStep, NewIsThereStep, RowsStep DEF BytesInv, RaceNext
<1>3. BytesInv /\ UNCHANGED raceVars => BytesInv'
  BY StepIInv, LocksStep DEF BytesInv, NewIsThere, OnlyRacesLoseBytes, Lost, raceVars, vars, fileVars,
     tableVars, writerVars
<1>4. BytesInv => OnlyRacesLoseBytes
  BY DEF BytesInv
<1> QED BY <1>1, <1>2, <1>3, <1>4, PTL DEF RaceSpec

\* Without that race every committed object, part and version has its bytes on disk
\* (RetainBlob: "a row here asserts the file exists").
THEOREM RowsHaveFiles == RaceSpec /\ [](raced = {}) => []ReferencedHasFile
<1>1. OnlyRacesLoseBytes /\ raced = {} => ReferencedHasFile
  BY DEF OnlyRacesLoseBytes, ReferencedHasFile
<1> QED BY <1>1, OnlyOneRaceLosesBytes, PTL
=============================================================================
