--------------------------- MODULE ReaderProofs ---------------------------
(***************************************************************************)
(* Proofs about Logs and Listing, where a reader goes on behind a cursor   *)
(* while others write.                                                     *)
(*                                                                         *)
(* Logs: what is missing from the log is counted, whatever meets; and the  *)
(* stream passes over nothing but what overlapping inserts and crowds hide *)
(* from it.                                                                *)
(*                                                                         *)
(* Listing: the pages of a listing are in order and repeat nothing,        *)
(* whatever is written; and they skip no object, and no version either     *)
(* when no query ends within the history of a key and the row that a page  *)
(* ends with stays.                                                        *)
(***************************************************************************)
EXTENDS LogsRaces, Listing, FiniteSetTheorems, SequenceTheorems, NaturalsInduction, TLAPS

\* What a sink holds: the requests in its buffer.
Waiting(n) == {buffer[n][i] : i \in DOMAIN buffer[n]}

\* The types of what the sinks hold.
LogsType ==
    /\ phase \in [Nodes -> {"up", "draining", "down"}]
    /\ served \in [Requests -> [node : Nodes \cup {Unserved.node}, status : {"none", "ok", "failed"}]]
    /\ buffer \in [Nodes -> Seq(Requests)] /\ events \in [Nodes -> Nat]
    /\ dropped \in [Nodes -> Nat] /\ droppedTotal \in [Nodes -> Nat] /\ reported \in [Nodes -> Nat]
    /\ flush \in [Nodes -> [pc : {"wait", "off", "insert", "commit", "events"}, last : BOOLEAN,
                            batch : Seq(Requests), events : Nat]]
    /\ row \in [Requests -> Nat] /\ visible \subseteq Requests /\ discarded \subseteq Requests
    /\ faults \in Nat

\* A flush has a batch in hand from the draining of the buffer to its end.
BatchInHand == \A n \in Nodes : flush[n].pc \in {"wait", "off", "events"} => flush[n].batch = <<>>

\* A process has entries of requests that were served, and the failed ones are its own.
OwnEntries ==
    \A n \in Nodes : \A r \in Waiting(n) \cup BatchOf(n) :
        served[r].status # "none" /\ (served[r].status = "failed" => served[r].node = n)

\* The failed requests of a process that are nowhere.
Lost(n) == {r \in Requests : served[r] = [node |-> n, status |-> "failed"] /\ ~Somewhere(r)}

\* The inductive invariant of Spec.
IInv ==
    /\ LogsType
    /\ BatchInHand
    /\ OwnEntries
    /\ HolesAreCounted

-----------------------------------------------------------------------------
(* Holes.                                                                  *)

\* Of fewer there are fewer.
LEMMA Fewer ==
    ASSUME NEW S \in SUBSET Requests, NEW T \in SUBSET S, NEW k \in Nat, NEW l \in Nat,
           Cardinality(S) <= k, k <= l
    PROVE  Cardinality(T) <= l
<1>1. IsFiniteSet(S) /\ IsFiniteSet(T)
  BY FiniteAssumption, FS_Subset
<1>2. Cardinality(T) <= Cardinality(S) /\ Cardinality(S) \in Nat /\ Cardinality(T) \in Nat
  BY <1>1, FS_Subset, FS_CardinalityType
<1> QED
  BY <1>2

\* And of one more there is one more.
LEMMA OneMore ==
    ASSUME NEW S \in SUBSET Requests, NEW x, NEW T \in SUBSET (S \cup {x}), NEW k \in Nat,
           Cardinality(S) <= k
    PROVE  Cardinality(T) <= k + 1
<1>1. IsFiniteSet(S)
  BY FiniteAssumption, FS_Subset
<1>2. IsFiniteSet(S \cup {x}) /\ Cardinality(S \cup {x}) <= Cardinality(S) + 1 /\ Cardinality(S) \in Nat
  BY <1>1, FS_AddElement, FS_CardinalityType
<1>3. Cardinality(T) <= Cardinality(S \cup {x}) /\ Cardinality(S \cup {x}) \in Nat /\ Cardinality(T) \in Nat
  BY <1>2, FS_Subset, FS_CardinalityType
<1> QED
  BY <1>2, <1>3

\* A step after which a process that runs has lost no more entries makes no hole.
LEMMA NoHoleIn ==
    ASSUME IInv, LogsType',
           \A n \in Nodes :
              /\ droppedTotal'[n] = reported'[n] + dropped'[n]
              /\ Running(n)' => Running(n) /\ Lost(n)' \subseteq Lost(n) /\ droppedTotal'[n] >= droppedTotal[n]
    PROVE  HolesAreCounted'
<1>1. ASSUME NEW n \in Nodes, Running(n)' PROVE Cardinality(Lost(n)') <= droppedTotal'[n]
  <2>1. Lost(n) \in SUBSET Requests /\ Cardinality(Lost(n)) <= droppedTotal[n]
    BY <1>1 DEF IInv, HolesAreCounted, Lost
  <2>2. Lost(n)' \in SUBSET Lost(n)
    BY <1>1
  <2>3. droppedTotal[n] \in Nat /\ droppedTotal'[n] \in Nat /\ droppedTotal[n] <= droppedTotal'[n]
    BY <1>1 DEF IInv, LogsType
  <2>4. PICK S, T : S = Lost(n) /\ T = Lost(n)'
    OBVIOUS
  <2>5. Cardinality(T) <= droppedTotal'[n]
    <3> HIDE DEF Lost
    <3>1. PICK k, l : k = droppedTotal[n] /\ l = droppedTotal'[n]
      OBVIOUS
    <3> QED
      BY <2>1, <2>2, <2>3, <2>4, <3>1, Fewer
  <2> QED
    BY <2>4, <2>5
<1> QED
  BY <1>1 DEF HolesAreCounted, Lost

\* In particular one that loses sight of no entry.
LEMMA NoHole ==
    ASSUME IInv, LogsType', served' = served,
           \A n \in Nodes : phase'[n] # "down" => phase[n] # "down",
           \A r \in Requests : Somewhere(r) => Somewhere(r)',
           \A n \in Nodes : droppedTotal'[n] = reported'[n] + dropped'[n] /\ droppedTotal'[n] >= droppedTotal[n]
    PROVE  HolesAreCounted'
<1>1. \A n \in Nodes : Lost(n)' \subseteq Lost(n)
  BY DEF Lost
<1>2. \A n \in Nodes : Running(n)' => Running(n)
  BY DEF Running
<1> QED
  BY <1>1, <1>2, NoHoleIn

\* What is in memory is in a buffer or in hand.
LEMMA Memory == \A r : InMemory(r) <=> \E n \in Nodes : r \in Waiting(n) \cup BatchOf(n)
  BY DEF InMemory, Waiting

\* Where nothing comes into the memory of a process, its entries are its own still.
LEMMA OwnStay ==
    ASSUME IInv, served' = served,
           \A n \in Nodes : Waiting(n)' \cup BatchOf(n)' \subseteq Waiting(n) \cup BatchOf(n)
    PROVE  OwnEntries'
<1> QED
  BY DEF IInv, OwnEntries

\* What a sink drops is counted twice, for its next flush and for good.
LEMMA DropCounts ==
    ASSUME LogsType, NEW n \in Nodes, Drop(n) \/ UNCHANGED counters
    PROVE  /\ dropped' \in [Nodes -> Nat] /\ droppedTotal' \in [Nodes -> Nat]
           /\ \A x \in Nodes : /\ droppedTotal'[x] >= droppedTotal[x]
                               /\ droppedTotal'[x] - dropped'[x] = droppedTotal[x] - dropped[x]
           /\ Drop(n) => droppedTotal'[n] = droppedTotal[n] + 1
<1>1. dropped \in [Nodes -> Nat] /\ droppedTotal \in [Nodes -> Nat]
  BY DEF LogsType
<1>2. CASE UNCHANGED counters /\ ~Drop(n)
  BY <1>1, <1>2 DEF counters
<1>3. CASE Drop(n)
  <2>1. /\ dropped' = [dropped EXCEPT ![n] = dropped[n] + 1]
        /\ droppedTotal' = [droppedTotal EXCEPT ![n] = droppedTotal[n] + 1]
    BY <1>3 DEF Drop
  <2>2. /\ dropped'[n] = dropped[n] + 1 /\ droppedTotal'[n] = droppedTotal[n] + 1
        /\ \A x \in Nodes \ {n} : dropped'[x] = dropped[x] /\ droppedTotal'[x] = droppedTotal[x]
    BY <1>1, <2>1
  <2>3. dropped' \in [Nodes -> Nat] /\ droppedTotal' \in [Nodes -> Nat]
    BY <1>1, <2>1
  <2>4. ASSUME NEW x \in Nodes
        PROVE  /\ droppedTotal'[x] >= droppedTotal[x]
               /\ droppedTotal'[x] - dropped'[x] = droppedTotal[x] - dropped[x]
    <3>1. dropped[x] \in Nat /\ droppedTotal[x] \in Nat
      BY <1>1
    <3> QED
      BY <2>2, <3>1
  <2> QED
    BY <2>2, <2>3, <2>4
<1> QED
  BY <1>2, <1>3

\* A server event goes to the buffer of events, or is dropped and counted.
LEMMA EventCounts ==
    ASSUME IInv, NEW n \in Nodes, RecordEvent(n), reported' = reported
    PROVE  /\ dropped' \in [Nodes -> Nat] /\ droppedTotal' \in [Nodes -> Nat] /\ events' \in [Nodes -> Nat]
           /\ \A x \in Nodes : droppedTotal'[x] = reported'[x] + dropped'[x] /\ droppedTotal'[x] >= droppedTotal[x]
<1>1. Drop(n) \/ UNCHANGED counters
  BY DEF RecordEvent
<1>2. events' \in [Nodes -> Nat]
  <2>1. events \in [Nodes -> Nat]
    BY DEF IInv, LogsType
  <2>2. events' = [events EXCEPT ![n] = events[n] + 1] \/ events' = events
    BY DEF RecordEvent
  <2> QED
    BY <2>1, <2>2
<1>3. /\ dropped' \in [Nodes -> Nat] /\ droppedTotal' \in [Nodes -> Nat]
      /\ \A x \in Nodes : /\ droppedTotal'[x] >= droppedTotal[x]
                          /\ droppedTotal'[x] - dropped'[x] = droppedTotal[x] - dropped[x]
  BY <1>1, DropCounts DEF IInv
<1>4. /\ dropped \in [Nodes -> Nat] /\ droppedTotal \in [Nodes -> Nat] /\ reported' \in [Nodes -> Nat]
      /\ \A x \in Nodes : droppedTotal[x] = reported'[x] + dropped[x]
  BY DEF IInv, LogsType, HolesAreCounted
<1>5. \A x \in Nodes : droppedTotal'[x] = reported'[x] + dropped'[x]
  BY <1>3, <1>4
<1> QED
  BY <1>2, <1>3, <1>5

\* A buffer with one more entry has that one behind those it had.
LEMMA Appended ==
    ASSUME buffer \in [Nodes -> Seq(Requests)], NEW m \in Nodes, NEW r \in Requests,
           buffer' = [buffer EXCEPT ![m] = Append(@, r)]
    PROVE  /\ buffer' \in [Nodes -> Seq(Requests)]
           /\ \A n \in Nodes : \A i \in DOMAIN buffer[n] : i \in DOMAIN buffer'[n] /\ buffer'[n][i] = buffer[n][i]
           /\ \E i \in DOMAIN buffer'[m] : buffer'[m][i] = r
           /\ \A i \in DOMAIN buffer'[m] : buffer'[m][i] = r \/ (i \in DOMAIN buffer[m] /\ buffer'[m][i] = buffer[m][i])
           /\ \A n \in Nodes \ {m} : buffer'[n] = buffer[n]
<1>1. PICK old, new : old = buffer[m] /\ new = Append(old, r)
  OBVIOUS
<1>2. old \in Seq(Requests) /\ new \in Seq(Requests) /\ DOMAIN old = 1..Len(old) /\ DOMAIN new = 1..(Len(old) + 1)
      /\ Len(old) \in Nat
  BY <1>1
<1>3. (\A i \in 1..Len(old) : new[i] = old[i]) /\ new[Len(old) + 1] = r
  BY <1>1, <1>2
<1>4. buffer' = [buffer EXCEPT ![m] = new]
  BY <1>1
<1>5. buffer'[m] = new /\ \A n \in Nodes \ {m} : buffer'[n] = buffer[n]
  BY <1>4
<1>6. buffer' \in [Nodes -> Seq(Requests)]
  BY <1>2, <1>4
<1>7. \A i \in DOMAIN new : new[i] = r \/ (i \in DOMAIN old /\ new[i] = old[i])
  BY <1>2, <1>3
<1>8. \A n \in Nodes : \A i \in DOMAIN buffer[n] : i \in DOMAIN buffer'[n] /\ buffer'[n][i] = buffer[n][i]
  <2>1. \A i \in DOMAIN old : i \in DOMAIN new /\ new[i] = old[i]
    BY <1>2, <1>3
  <2> QED
    BY <1>1, <1>5, <2>1
<1>9. \E i \in DOMAIN new : new[i] = r
  BY <1>2, <1>3
<1> QED
  BY <1>1, <1>5, <1>6, <1>7, <1>8, <1>9

\* A request is answered: it is kept or counted, and a success may be left out.
LEMMA RecordKeeps ==
    ASSUME IInv, NEW r \in Requests, NEW m \in Nodes, NEW status \in {"ok", "failed"},
           RecordRequest(r, m, status)
    PROVE  IInv'
<1>0. PICK k \in Nodes \cup {Unserved.node} :
        /\ served' = [served EXCEPT ![r] = [node |-> k, status |-> status]]
        /\ status = "failed" => k = m
  <2>1. served[r].node \in Nodes \cup {Unserved.node}
    BY DEF IInv, LogsType
  <2>2. served' = [served EXCEPT ![r] = [node |-> IF status = "failed" THEN m ELSE served[r].node, status |-> status]]
    BY DEF RecordRequest
  <2> QED
    BY <2>1, <2>2
<1>1. /\ served[r].status = "none"
      /\ UNCHANGED <<phase, events, reported, flush, row, visible, discarded, tail, shown, faults>>
      /\ Drop(m) \/ UNCHANGED counters
      /\ buffer' = [buffer EXCEPT ![m] = Append(@, r)] \/ buffer' = buffer
      /\ \/ buffer' = [buffer EXCEPT ![m] = Append(@, r)] \/ Drop(m) \/ status = "ok"
  BY DEF RecordRequest, Keep, logRows, stream
<1>2. /\ dropped' \in [Nodes -> Nat] /\ droppedTotal' \in [Nodes -> Nat]
      /\ \A x \in Nodes : /\ droppedTotal'[x] >= droppedTotal[x]
                          /\ droppedTotal'[x] - dropped'[x] = droppedTotal[x] - dropped[x]
      /\ Drop(m) => droppedTotal'[m] = droppedTotal[m] + 1
  BY <1>1, DropCounts DEF IInv
<1>3. buffer' \in [Nodes -> Seq(Requests)]
  BY <1>1, Appended DEF IInv, LogsType
<1>4. served' \in [Requests -> [node : Nodes \cup {Unserved.node}, status : {"none", "ok", "failed"}]]
  BY <1>0, <1>1 DEF IInv, LogsType
<1>5. LogsType'
  BY <1>1, <1>2, <1>3, <1>4 DEF IInv, LogsType
<1>6. \A n \in Nodes : \A i \in DOMAIN buffer[n] : i \in DOMAIN buffer'[n] /\ buffer'[n][i] = buffer[n][i]
  BY <1>1, Appended DEF IInv, LogsType
<1>7. \A x \in Requests : Somewhere(x) => Somewhere(x)'
  BY <1>1, <1>6 DEF Somewhere, InMemory, BatchOf
<1>8. ASSUME buffer' = [buffer EXCEPT ![m] = Append(@, r)] PROVE Somewhere(r)'
  <2>1. \E i \in DOMAIN buffer'[m] : buffer'[m][i] = r
    BY <1>8, Appended DEF IInv, LogsType
  <2> QED
    BY <2>1 DEF Somewhere, InMemory
<1>9. \A x \in Requests : x # r => served'[x] = served[x]
  BY <1>0 DEF IInv, LogsType
<1>10. served'[r] = [node |-> k, status |-> status]
  BY <1>0 DEF IInv, LogsType
<1>11. ASSUME NEW n \in Nodes, Running(n)' PROVE Cardinality(Lost(n)') <= droppedTotal'[n]
  <2>1. Lost(n) \in SUBSET Requests /\ Cardinality(Lost(n)) <= droppedTotal[n]
    BY <1>1, <1>11 DEF IInv, HolesAreCounted, Lost, Running
  <2>2. droppedTotal[n] \in Nat /\ droppedTotal'[n] \in Nat /\ droppedTotal[n] <= droppedTotal'[n]
    BY <1>2 DEF IInv, LogsType
  <2>3. PICK S, T : S = Lost(n) /\ T = Lost(n)'
    OBVIOUS
  <2>4. PICK d, l : d = droppedTotal[n] /\ l = droppedTotal'[n]
    OBVIOUS
  <2>5. CASE n = m /\ Drop(m)
    <3>1. Lost(n)' \subseteq Lost(n) \cup {r}
      BY <1>7, <1>9 DEF Lost
    <3>2. l = d + 1
      BY <1>2, <2>4, <2>5
    <3> QED
      BY <2>1, <2>2, <2>3, <2>4, <3>1, <3>2, OneMore
  <2>6. CASE ~(n = m /\ Drop(m))
    <3>1. r \notin Lost(n)'
      BY <1>0, <1>1, <1>8, <1>10, <2>6 DEF Lost
    <3>2. Lost(n)' \subseteq Lost(n)
      BY <1>7, <1>9, <3>1 DEF Lost
    <3> QED
      BY <2>1, <2>2, <2>3, <2>4, <3>2, Fewer
  <2> QED
    BY <2>5, <2>6
<1>12. \A n \in Nodes : droppedTotal'[n] = reported'[n] + dropped'[n]
  <2>1. /\ dropped \in [Nodes -> Nat] /\ droppedTotal \in [Nodes -> Nat] /\ reported' \in [Nodes -> Nat]
        /\ \A x \in Nodes : droppedTotal[x] = reported'[x] + dropped[x]
    BY <1>1 DEF IInv, LogsType, HolesAreCounted
  <2> QED
    BY <1>2, <2>1
<1>13. HolesAreCounted'
  BY <1>11, <1>12 DEF HolesAreCounted, Lost
<1>14. BatchInHand'
  BY <1>1 DEF IInv, BatchInHand
<1>15. OwnEntries'
  <2>1. ASSUME NEW n \in Nodes, NEW x \in Waiting(n) \cup BatchOf(n)
        PROVE  /\ x # r /\ served'[x] = served[x]
               /\ served[x].status # "none" /\ (served[x].status = "failed" => served[x].node = n)
    <3>1. x \in Requests
      BY DEF IInv, Waiting, BatchOf, LogsType
    <3>2. served[x].status # "none" /\ (served[x].status = "failed" => served[x].node = n)
      BY DEF IInv, OwnEntries
    <3> QED
      BY <1>1, <1>9, <3>1, <3>2
  <2>2. \A n \in Nodes : BatchOf(n)' = BatchOf(n)
    BY <1>1 DEF BatchOf
  <2>3. \A n \in Nodes : \A x \in Waiting(n)' : x \in Waiting(n) \/ (n = m /\ x = r)
    <3>1. CASE buffer' = buffer
      BY <3>1 DEF Waiting
    <3>2. CASE buffer' = [buffer EXCEPT ![m] = Append(@, r)]
      <4>1. /\ \A i \in DOMAIN buffer'[m] :
                  buffer'[m][i] = r \/ (i \in DOMAIN buffer[m] /\ buffer'[m][i] = buffer[m][i])
            /\ \A n \in Nodes \ {m} : buffer'[n] = buffer[n]
        BY <3>2, Appended DEF IInv, LogsType
      <4> QED
        BY <4>1 DEF Waiting
    <3> QED
      BY <1>1, <3>1, <3>2
  <2>4. served'[r].status # "none" /\ (served'[r].status = "failed" => served'[r].node = m)
    BY <1>0, <1>10
  <2> QED
    BY <2>1, <2>2, <2>3, <2>4 DEF OwnEntries
<1> QED
  BY <1>5, <1>13, <1>14, <1>15 DEF IInv

\* A warning: no entry is concerned.
LEMMA WarnKeeps ==
    ASSUME IInv, NEW n \in Nodes, Warn(n)
    PROVE  IInv'
<1>1. /\ RecordEvent(n) /\ reported' = reported
      /\ UNCHANGED <<phase, served, buffer, flush, row, visible, discarded, tail, shown>> /\ faults' = faults + 1
  BY DEF Warn, Fault, logRows, stream
<1>2. /\ dropped' \in [Nodes -> Nat] /\ droppedTotal' \in [Nodes -> Nat] /\ events' \in [Nodes -> Nat]
      /\ \A x \in Nodes : droppedTotal'[x] = reported'[x] + dropped'[x] /\ droppedTotal'[x] >= droppedTotal[x]
  BY <1>1, EventCounts
<1>3. LogsType'
  <2>1. faults' \in Nat
    BY <1>1 DEF IInv, LogsType
  <2> QED
    BY <1>1, <1>2, <2>1 DEF IInv, LogsType
<1>4. \A r \in Requests : Somewhere(r) => Somewhere(r)'
  BY <1>1 DEF Somewhere, InMemory, BatchOf
<1>5. BatchInHand'
  BY <1>1 DEF IInv, BatchInHand
<1>6. OwnEntries'
  BY <1>1, OwnStay DEF Waiting, BatchOf
<1> QED
  BY <1>1, <1>2, <1>3, <1>4, <1>5, <1>6, NoHole DEF IInv

\* A flush takes what is in the buffer in hand, and reports what was dropped.
LEMMA DrainKeeps ==
    ASSUME IInv, NEW n \in Nodes, Drain(n)
    PROVE  IInv'
<1>1. /\ UNCHANGED <<phase, served, droppedTotal, row, visible, discarded, tail, shown, faults>>
      /\ flush[n].pc = "wait" /\ buffer' = [buffer EXCEPT ![n] = <<>>]
      /\ flush' = [flush EXCEPT ![n] = [pc |-> "insert", last |-> phase[n] = "draining",
                                        batch |-> buffer[n], events |-> events[n]]]
  BY DEF Drain, logRows, stream
<1>2. reported' \in [Nodes -> Nat] /\ dropped' \in [Nodes -> Nat] /\ events' \in [Nodes -> Nat]
  <2>1. reported' = [reported EXCEPT ![n] = reported[n] + dropped[n]] /\ dropped' = [dropped EXCEPT ![n] = 0]
        /\ \E k \in {0, 1} : events' = [events EXCEPT ![n] = k]
    BY DEF Drain
  <2> QED
    BY <2>1 DEF IInv, LogsType
<1>3. \A x \in Nodes : droppedTotal'[x] = reported'[x] + dropped'[x] /\ droppedTotal'[x] >= droppedTotal[x]
  <2>1. /\ reported'[n] = reported[n] + dropped[n] /\ dropped'[n] = 0
        /\ \A x \in Nodes \ {n} : reported'[x] = reported[x] /\ dropped'[x] = dropped[x]
    BY DEF Drain, IInv, LogsType
  <2>2. ASSUME NEW x \in Nodes
        PROVE  /\ droppedTotal[x] = reported[x] + dropped[x] /\ droppedTotal'[x] = droppedTotal[x]
               /\ droppedTotal[x] \in Nat /\ reported[x] \in Nat /\ dropped[x] \in Nat
    BY <1>1 DEF IInv, LogsType, HolesAreCounted
  <2> QED
    BY <2>1, <2>2
<1>4. buffer' \in [Nodes -> Seq(Requests)]
  BY <1>1 DEF IInv, LogsType
<1>5. flush' \in [Nodes -> [pc : {"wait", "off", "insert", "commit", "events"}, last : BOOLEAN,
                            batch : Seq(Requests), events : Nat]]
  BY <1>1 DEF IInv, LogsType
<1>6. LogsType'
  BY <1>1, <1>2, <1>4, <1>5 DEF IInv, LogsType
<1>7. /\ flush'[n].batch = buffer[n] /\ flush'[n].pc = "insert" /\ flush[n].batch = <<>>
      /\ \A x \in Nodes \ {n} : flush'[x] = flush[x] /\ buffer'[x] = buffer[x]
  BY <1>1 DEF IInv, LogsType, BatchInHand
<1>8. ASSUME NEW r \in Requests, Somewhere(r) PROVE Somewhere(r)'
  <2>1. CASE r \in visible \cup discarded
    BY <1>1, <2>1 DEF Somewhere
  <2>2. CASE \E x \in Nodes : r \in BatchOf(x)
    <3>1. PICK x \in Nodes : r \in BatchOf(x)
      BY <2>2
    <3>2. x # n
      BY <1>7, <3>1 DEF BatchOf
    <3>3. r \in BatchOf(x)'
      BY <1>7, <3>1, <3>2 DEF BatchOf
    <3> QED
      BY <3>3 DEF Somewhere, InMemory
  <2>3. CASE \E x \in Nodes : \E i \in DOMAIN buffer[x] : buffer[x][i] = r
    <3>1. PICK x \in Nodes : \E i \in DOMAIN buffer[x] : buffer[x][i] = r
      BY <2>3
    <3>2. CASE x = n
      <4>1. r \in BatchOf(n)'
        BY <1>7, <3>1, <3>2 DEF BatchOf
      <4> QED
        BY <4>1 DEF Somewhere, InMemory
    <3>3. CASE x # n
      BY <1>7, <3>1, <3>3 DEF Somewhere, InMemory
    <3> QED
      BY <3>2, <3>3
  <2> QED
    BY <1>8, <2>1, <2>2, <2>3 DEF Somewhere, InMemory
<1>9. BatchInHand'
  BY <1>7 DEF IInv, BatchInHand
<1>10. OwnEntries'
  <2>1. /\ Waiting(n)' = {} /\ BatchOf(n)' = Waiting(n)
        /\ \A x \in Nodes \ {n} : Waiting(x)' = Waiting(x) /\ BatchOf(x)' = BatchOf(x)
    <3>1. buffer'[n] = <<>>
      BY <1>1 DEF IInv, LogsType
    <3> QED
      BY <1>7, <3>1 DEF Waiting, BatchOf
  <2> QED
    BY <1>1, <2>1, OwnStay
<1> QED
  BY <1>1, <1>3, <1>6, <1>8, <1>9, <1>10, NoHole DEF IInv

\* Where nothing is dropped the counts stay.
LEMMA CountsStay ==
    ASSUME IInv, UNCHANGED <<dropped, droppedTotal, reported>>
    PROVE  /\ dropped' \in [Nodes -> Nat] /\ droppedTotal' \in [Nodes -> Nat]
           /\ \A x \in Nodes : droppedTotal'[x] = reported'[x] + dropped'[x] /\ droppedTotal'[x] >= droppedTotal[x]
<1>1. ASSUME NEW x \in Nodes
      PROVE  droppedTotal'[x] = reported'[x] + dropped'[x] /\ droppedTotal'[x] >= droppedTotal[x]
  <2>1. droppedTotal[x] \in Nat /\ droppedTotal[x] = reported[x] + dropped[x] /\ droppedTotal'[x] = droppedTotal[x]
    BY DEF IInv, LogsType, HolesAreCounted
  <2> QED
    BY <2>1
<1> QED
  BY <1>1 DEF IInv, LogsType

\* A flush moves on, and has nothing in hand.
LEMMA HandsEmpty ==
    ASSUME IInv, NEW n \in Nodes,
           \/ flush' = [flush EXCEPT ![n].pc = "events", ![n].batch = <<>>]
           \/ Flushed(n)
    PROVE  /\ flush' \in [Nodes -> [pc : {"wait", "off", "insert", "commit", "events"}, last : BOOLEAN,
                                    batch : Seq(Requests), events : Nat]]
           /\ flush'[n].batch = <<>> /\ flush'[n].pc \in {"wait", "off", "events"}
           /\ \A x \in Nodes \ {n} : flush'[x] = flush[x]
<1> DEFINE Flush == [pc : {"wait", "off", "insert", "commit", "events"}, last : BOOLEAN,
                     batch : Seq(Requests), events : Nat]
           next == [flush[n] EXCEPT !.pc = "events", !.batch = <<>>]
<1>1. flush \in [Nodes -> Flush] /\ <<>> \in Seq(Requests)
  BY DEF IInv, LogsType
<1>2. next \in Flush /\ next.batch = <<>> /\ next.pc = "events"
  BY <1>1
<1>3. /\ Idle \in Flush /\ Idle.batch = <<>> /\ Idle.pc = "wait"
      /\ Off \in Flush /\ Off.batch = <<>> /\ Off.pc = "off"
  BY <1>1 DEF Idle, Off
<1>4. PICK r : r \in {next, Idle, Off} /\ flush' = [flush EXCEPT ![n] = r]
  BY <1>1 DEF Flushed
<1>5. r \in Flush /\ r.batch = <<>> /\ r.pc \in {"wait", "off", "events"}
  BY <1>2, <1>3, <1>4
<1> HIDE DEF next, Flush
<1>6. flush' \in [Nodes -> Flush] /\ flush'[n] = r /\ \A x \in Nodes \ {n} : flush'[x] = flush[x]
  BY <1>1, <1>4, <1>5
<1> QED
  BY <1>5, <1>6 DEF Flush

\* Entries get their ids.
LEMMA InsertKeeps ==
    ASSUME IInv, NEW n \in Nodes, InsertLogs(n), row' \in [Requests -> Nat]
    PROVE  IInv'
<1>1. /\ UNCHANGED <<phase, served, buffer, events, dropped, droppedTotal, reported, visible, discarded,
                     tail, shown, faults>>
      /\ flush' = [flush EXCEPT ![n].pc = "commit"]
  BY DEF InsertLogs, counters, stream
<1>2. /\ flush' \in [Nodes -> [pc : {"wait", "off", "insert", "commit", "events"}, last : BOOLEAN,
                               batch : Seq(Requests), events : Nat]]
      /\ \A x \in Nodes : flush'[x].batch = flush[x].batch
      /\ flush'[n].pc = "commit" /\ \A x \in Nodes \ {n} : flush'[x] = flush[x]
  BY <1>1 DEF IInv, LogsType
<1>3. LogsType'
  BY <1>1, <1>2 DEF IInv, LogsType
<1>4. \A r \in Requests : Somewhere(r) => Somewhere(r)'
  BY <1>1, <1>2 DEF Somewhere, InMemory, BatchOf
<1>5. BatchInHand'
  BY <1>2 DEF IInv, BatchInHand
<1>7. OwnEntries'
  BY <1>1, <1>2, OwnStay DEF Waiting, BatchOf
<1>6. \A x \in Nodes : droppedTotal'[x] = reported'[x] + dropped'[x] /\ droppedTotal'[x] >= droppedTotal[x]
  BY <1>1, CountsStay
<1> QED
  BY <1>1, <1>3, <1>4, <1>5, <1>6, <1>7, NoHole DEF IInv

\* A batch gets into the log, or is discarded: it is somewhere still.
LEMMA BatchGone ==
    ASSUME IInv, NEW n \in Nodes, flush[n].pc \in {"insert", "commit"},
           flush' = [flush EXCEPT ![n].pc = "events", ![n].batch = <<>>],
           \/ visible' = visible \cup BatchOf(n) /\ discarded' = discarded
           \/ discarded' = discarded \cup BatchOf(n) /\ visible' = visible,
           UNCHANGED <<phase, served, buffer, reported, row, tail, shown>>, faults' \in Nat,
           dropped' \in [Nodes -> Nat], droppedTotal' \in [Nodes -> Nat], events' \in [Nodes -> Nat],
           \A x \in Nodes : droppedTotal'[x] = reported'[x] + dropped'[x] /\ droppedTotal'[x] >= droppedTotal[x]
    PROVE  IInv'
<1>1. /\ flush' \in [Nodes -> [pc : {"wait", "off", "insert", "commit", "events"}, last : BOOLEAN,
                               batch : Seq(Requests), events : Nat]]
      /\ flush'[n].batch = <<>> /\ \A x \in Nodes \ {n} : flush'[x] = flush[x]
  BY HandsEmpty
<1>2. BatchOf(n) \subseteq Requests
  BY DEF IInv, LogsType, BatchOf
<1>3. visible' \subseteq Requests /\ discarded' \subseteq Requests
  BY <1>2 DEF IInv, LogsType
<1>4. LogsType'
  BY <1>1, <1>3 DEF IInv, LogsType
<1>5. ASSUME NEW r \in Requests, Somewhere(r) PROVE Somewhere(r)'
  <2>1. CASE r \in visible \cup discarded \cup BatchOf(n)
    BY <2>1 DEF Somewhere
  <2>2. CASE \E x \in Nodes \ {n} : r \in BatchOf(x)
    <3>1. PICK x \in Nodes \ {n} : r \in BatchOf(x)
      BY <2>2
    <3>2. r \in BatchOf(x)'
      BY <1>1, <3>1 DEF BatchOf
    <3> QED
      BY <3>2 DEF Somewhere, InMemory
  <2>3. CASE \E x \in Nodes : \E i \in DOMAIN buffer[x] : buffer[x][i] = r
    BY <2>3 DEF Somewhere, InMemory
  <2> QED
    BY <1>5, <2>1, <2>2, <2>3 DEF Somewhere, InMemory
<1>6. BatchInHand'
  BY <1>1 DEF IInv, BatchInHand
<1>7. OwnEntries'
  BY <1>1, OwnStay DEF Waiting, BatchOf
<1> QED
  BY <1>4, <1>5, <1>6, <1>7, NoHole DEF IInv

\* It is committed.
LEMMA CommitKeeps ==
    ASSUME IInv, NEW n \in Nodes, CommitLogs(n)
    PROVE  IInv'
<1>1. /\ UNCHANGED <<phase, served, buffer, reported, row, tail, shown, faults, dropped, droppedTotal, events,
                     discarded>>
      /\ visible' = visible \cup BatchOf(n) /\ flush[n].pc = "commit"
      /\ flush' = [flush EXCEPT ![n].pc = "events", ![n].batch = <<>>]
  BY DEF CommitLogs, counters, stream
<1>2. /\ faults' \in Nat
      /\ dropped' \in [Nodes -> Nat] /\ droppedTotal' \in [Nodes -> Nat] /\ events' \in [Nodes -> Nat]
      /\ \A x \in Nodes : droppedTotal'[x] = reported'[x] + dropped'[x] /\ droppedTotal'[x] >= droppedTotal[x]
  BY <1>1, CountsStay DEF IInv, LogsType
<1> QED
  BY <1>1, <1>2, BatchGone

\* It fails, and so does nothing but count.
LEMMA FailKeeps ==
    ASSUME IInv, NEW n \in Nodes, InsertFails(n)
    PROVE  IInv'
<1>1. /\ UNCHANGED <<phase, served, buffer, reported, row, tail, shown, visible>>
      /\ discarded' = discarded \cup BatchOf(n) /\ flush[n].pc \in {"insert", "commit"} /\ RecordEvent(n)
      /\ flush' = [flush EXCEPT ![n].pc = "events", ![n].batch = <<>>]
      /\ faults' \in {faults, faults + 1}
  BY DEF InsertFails, Fault, stream
<1>2. faults' \in Nat
  BY <1>1 DEF IInv, LogsType
<1>3. /\ dropped' \in [Nodes -> Nat] /\ droppedTotal' \in [Nodes -> Nat] /\ events' \in [Nodes -> Nat]
      /\ \A x \in Nodes : droppedTotal'[x] = reported'[x] + dropped'[x] /\ droppedTotal'[x] >= droppedTotal[x]
  BY <1>1, EventCounts
<1> QED
  BY <1>1, <1>2, <1>3, BatchGone

\* The end of a flush: the batch is not in hand any more.
LEMMA EndKeeps ==
    ASSUME IInv, NEW n \in Nodes, InsertEvents(n) \/ InsertEventsFails(n)
    PROVE  IInv'
<1>1. /\ UNCHANGED <<phase, served, buffer, reported, row, visible, discarded, tail, shown>>
      /\ Flushed(n) /\ AtEvents(n) /\ faults' \in {faults, faults + 1}
      /\ RecordEvent(n) \/ UNCHANGED <<events, dropped, droppedTotal>>
  BY DEF InsertEvents, InsertEventsFails, Fault, stream, logRows, counters
<1>2. /\ dropped' \in [Nodes -> Nat] /\ droppedTotal' \in [Nodes -> Nat] /\ events' \in [Nodes -> Nat]
      /\ \A x \in Nodes : droppedTotal'[x] = reported'[x] + dropped'[x] /\ droppedTotal'[x] >= droppedTotal[x]
  <2>1. CASE RecordEvent(n)
    BY <1>1, <2>1, EventCounts
  <2>2. CASE UNCHANGED <<events, dropped, droppedTotal>>
    BY <1>1, <2>2, CountsStay DEF IInv, LogsType
  <2> QED
    BY <1>1, <2>1, <2>2
<1>3. flush[n].batch = <<>>
  BY <1>1 DEF AtEvents, IInv, BatchInHand
<1>4. /\ flush' \in [Nodes -> [pc : {"wait", "off", "insert", "commit", "events"}, last : BOOLEAN,
                               batch : Seq(Requests), events : Nat]]
      /\ flush'[n].batch = <<>> /\ \A x \in Nodes \ {n} : flush'[x] = flush[x]
  BY <1>1, HandsEmpty
<1>5. LogsType'
  <2>1. faults' \in Nat
    BY <1>1 DEF IInv, LogsType
  <2> QED
    BY <1>1, <1>2, <1>4, <2>1 DEF IInv, LogsType
<1>6. \A x \in Nodes : flush'[x].batch = flush[x].batch
  BY <1>3, <1>4
<1>7. \A r \in Requests : Somewhere(r) => Somewhere(r)'
  BY <1>1, <1>6 DEF Somewhere, InMemory, BatchOf
<1>8. BatchInHand'
  BY <1>4 DEF IInv, BatchInHand
<1>9. OwnEntries'
  BY <1>1, <1>6, OwnStay DEF Waiting, BatchOf
<1> QED
  BY <1>1, <1>2, <1>5, <1>7, <1>8, <1>9, NoHole DEF IInv

\* The end of a process: what it has in memory is its own, and nobody else's loss.
LEMMA ExitKeeps ==
    ASSUME IInv, NEW n \in Nodes, Exit(n)
    PROVE  IInv'
<1>1. /\ UNCHANGED <<served, row, visible, discarded, tail, shown, faults>>
      /\ phase' = [phase EXCEPT ![n] = "down"] /\ flush' = [flush EXCEPT ![n] = Off]
      /\ buffer' = [buffer EXCEPT ![n] = <<>>] /\ events' = [events EXCEPT ![n] = 0]
      /\ dropped' = [dropped EXCEPT ![n] = 0] /\ droppedTotal' = [droppedTotal EXCEPT ![n] = 0]
      /\ reported' = [reported EXCEPT ![n] = 0]
  BY DEF Exit, logRows, stream
<1>2. Off \in [pc : {"wait", "off", "insert", "commit", "events"}, last : BOOLEAN,
               batch : Seq(Requests), events : Nat] /\ Off.batch = <<>>
  <2>1. <<>> \in Seq(Requests)
    OBVIOUS
  <2> QED
    BY <2>1 DEF Off, Idle
<1>3. LogsType'
  BY <1>1, <1>2 DEF IInv, LogsType
<1>4. /\ flush'[n].batch = <<>> /\ buffer'[n] = <<>> /\ phase'[n] = "down"
      /\ \A x \in Nodes \ {n} : flush'[x] = flush[x] /\ buffer'[x] = buffer[x] /\ phase'[x] = phase[x]
  BY <1>1, <1>2 DEF IInv, LogsType
<1>5. BatchInHand'
  BY <1>4 DEF IInv, BatchInHand
<1>6. /\ Waiting(n)' = {} /\ BatchOf(n)' = {}
      /\ \A x \in Nodes \ {n} : Waiting(x)' = Waiting(x) /\ BatchOf(x)' = BatchOf(x)
  BY <1>4 DEF Waiting, BatchOf
<1>7. OwnEntries'
  BY <1>1, <1>6, OwnStay
<1>8. ASSUME NEW x \in Nodes, x # n PROVE Lost(x)' \subseteq Lost(x)
  <2>1. SUFFICES ASSUME NEW r \in Requests, served[r] = [node |-> x, status |-> "failed"], Somewhere(r)
                 PROVE  Somewhere(r)'
    BY <1>1 DEF Lost
  <2>2. CASE r \in visible \cup discarded
    BY <1>1, <2>2 DEF Somewhere
  <2>3. CASE InMemory(r)
    <3>1. PICK y \in Nodes : r \in Waiting(y) \cup BatchOf(y)
      BY <2>3, Memory
    <3>2. y = x
      BY <2>1, <3>1 DEF IInv, OwnEntries
    <3>3. r \in Waiting(x)' \cup BatchOf(x)'
      BY <1>6, <1>8, <3>1, <3>2
    <3>4. InMemory(r)'
      BY <3>3 DEF InMemory, Waiting
    <3> QED
      BY <3>4 DEF Somewhere
  <2> QED
    BY <2>1, <2>2, <2>3 DEF Somewhere
<1>9. ASSUME NEW x \in Nodes
      PROVE  /\ droppedTotal'[x] = reported'[x] + dropped'[x]
             /\ Running(x)' => Running(x) /\ Lost(x)' \subseteq Lost(x) /\ droppedTotal'[x] >= droppedTotal[x]
  <2>1. CASE x = n
    BY <1>1, <1>4, <2>1 DEF IInv, LogsType, Running
  <2>2. CASE x # n
    <3>1. /\ dropped'[x] = dropped[x] /\ droppedTotal'[x] = droppedTotal[x] /\ reported'[x] = reported[x]
          /\ droppedTotal[x] = reported[x] + dropped[x] /\ droppedTotal[x] \in Nat
      BY <1>1, <2>2 DEF IInv, LogsType, HolesAreCounted
    <3>2. Running(x)' => Running(x)
      BY <1>4, <2>2 DEF Running
    <3> QED
      BY <1>8, <2>2, <3>1, <3>2
  <2> QED
    BY <2>1, <2>2
<1> QED
  BY <1>3, <1>5, <1>7, <1>9, NoHoleIn DEF IInv

-----------------------------------------------------------------------------
(* Ids.                                                                    *)

\* A finite set of naturals has a greatest element: the one with fewest above it.
LEMMA MaxExists ==
    ASSUME NEW S, S \subseteq Nat, S # {}, IsFiniteSet(S)
    PROVE  MaxOf(S) \in S /\ \A j \in S : j <= MaxOf(S)
<1> DEFINE Above(x) == {i \in S : i > x}
           Counts == {Cardinality(Above(x)) : x \in S}
<1>1. \A x \in S : IsFiniteSet(Above(x)) /\ Cardinality(Above(x)) \in Nat
  BY FS_Subset, FS_CardinalityType
<1>2. Counts \subseteq Nat /\ Counts # {}
  BY <1>1
<1> HIDE DEF Counts
<1>3. PICK m \in Counts : \A n \in Counts : ~(<<n, m>> \in OpToRel(<, Nat))
  BY <1>2, NatLessThanWellFounded, WFMin
<1>4. PICK x \in S : m = Cardinality(Above(x))
  BY <1>3 DEF Counts
<1>5. ASSUME NEW y \in S, y > x
      PROVE  FALSE
  <2>1. Above(y) \subseteq Above(x)
    <3>1. \A z \in S : z > y => z > x
      BY <1>5
    <3> QED
      BY <3>1
  <2>2. x \in S /\ y \in Above(x) /\ y \notin Above(y)
    BY <1>5
  <2>3. Cardinality(Above(y)) < Cardinality(Above(x))
    <3>1. Above(y) # Above(x)
      BY <2>2
    <3> HIDE DEF Above
    <3> QED
      BY <1>1, <2>1, <3>1, FS_Subset
  <2>4. Cardinality(Above(y)) \in Counts
    BY DEF Counts
  <2>5. ~(Cardinality(Above(y)) < m)
    BY <1>2, <1>3, <2>4, Zenon DEF OpToRel
  <2> QED
    BY <1>4, <2>3, <2>5
<1>6. \A y \in S : y <= x
  BY <1>5
<1> QED
  BY <1>6 DEF MaxOf

\* The ids of some entries.
LEMMA IdsFinite ==
    ASSUME NEW f \in [Requests -> Nat], NEW R \in SUBSET Requests
    PROVE  {f[r] : r \in R} \subseteq Nat /\ IsFiniteSet({f[r] : r \in R})
<1> DEFINE g == [r \in R |-> f[r]]
           T == {f[r] : r \in R}
<1>1. g \in Surjection(R, T)
  BY DEF Surjection
<1>2. IsFiniteSet(R)
  BY FiniteAssumption, FS_Subset
<1> QED
  BY <1>1, <1>2, FS_Surjection

\* The greatest id is none of a later one.
LEMMA LastIdLast ==
    ASSUME row \in [Requests -> Nat]
    PROVE  LastId \in Nat /\ \A r \in Requests : row[r] <= LastId
<1> DEFINE S == {row[r] : r \in Requests}
<1>1. S \subseteq Nat /\ IsFiniteSet(S)
  BY IdsFinite
<1>2. LastId = MaxOf(S)
  BY DEF LastId
<1>3. CASE Requests = {}
  BY <1>2, <1>3 DEF MaxOf
<1>4. CASE Requests # {}
  <2>1. S # {}
    BY <1>4
  <2> HIDE DEF S
  <2>2. MaxOf(S) \in S /\ \A j \in S : j <= MaxOf(S)
    BY <1>1, <2>1, MaxExists
  <2>3. \A r \in Requests : row[r] \in S
    BY DEF S
  <2> QED
    BY <1>1, <1>2, <2>2, <2>3
<1> QED
  BY <1>3, <1>4

\* A batch gets ids that are behind all others, one for each entry.
LEMMA NewIds ==
    ASSUME IInv, NEW n \in Nodes, InsertLogs(n)
    PROVE  /\ row' \in [Requests -> Nat]
           /\ \A r \in Requests \ BatchOf(n) : row'[r] = row[r]
           /\ \A r \in BatchOf(n) : row'[r] > LastId
           /\ \A r, x \in BatchOf(n) : row'[r] = row'[x] => r = x
<1> DEFINE place(r) == CHOOSE i \in DOMAIN flush[n].batch : flush[n].batch[i] = r
<1>1. row' = [r \in Requests |-> IF r \in BatchOf(n) THEN LastId + place(r) ELSE row[r]]
  BY DEF InsertLogs
<1>2. DOMAIN flush[n].batch = 1..Len(flush[n].batch) /\ Len(flush[n].batch) \in Nat /\ row \in [Requests -> Nat]
      /\ BatchOf(n) \subseteq Requests
  BY DEF IInv, LogsType, BatchOf
<1>3. \A r \in BatchOf(n) : place(r) \in DOMAIN flush[n].batch /\ flush[n].batch[place(r)] = r
  BY DEF BatchOf
<1> HIDE DEF place
<1>4. \A r \in BatchOf(n) : place(r) \in Nat /\ place(r) > 0
  BY <1>2, <1>3
<1>5. LastId \in Nat
  BY <1>2, LastIdLast
<1>6. \A r \in BatchOf(n) : row'[r] = LastId + place(r) /\ r \in Requests
  BY <1>1, <1>2
<1>7. ASSUME NEW r \in BatchOf(n), NEW x \in BatchOf(n), row'[r] = row'[x] PROVE r = x
  <2>1. place(r) = place(x)
    BY <1>4, <1>5, <1>6, <1>7
  <2> QED
    BY <1>3, <2>1
<1>8. \A r \in Requests \ BatchOf(n) : row'[r] = row[r]
  BY <1>1
<1>9. \A r \in BatchOf(n) : row'[r] > LastId
  BY <1>4, <1>5, <1>6
<1>10. row' \in [Requests -> Nat]
  <2>1. \A r \in Requests : row'[r] \in Nat
    BY <1>2, <1>4, <1>5, <1>6, <1>8
  <2> QED
    BY <1>1, <2>1
<1> QED
  BY <1>7, <1>8, <1>9, <1>10

\* At the start nothing is served.
LEMMA Initially == Init => IInv
<1> SUFFICES ASSUME Init PROVE IInv
  OBVIOUS
<1>1. LogsType
  BY LogBoundsAssumption DEF Init, LogsType, Idle, Unserved
<1>2. BatchInHand
  BY DEF Init, BatchInHand, Idle
<1>4. OwnEntries
  BY DEF Init, OwnEntries, Waiting, BatchOf, Idle
<1>3. ASSUME NEW n \in Nodes PROVE Cardinality(Lost(n)) <= droppedTotal[n]
  <2>1. Lost(n) = {}
    BY DEF Lost, Init, Unserved
  <2> QED
    BY <2>1, FS_EmptySet DEF Init
<1> QED
  BY <1>1, <1>2, <1>3, <1>4 DEF IInv, HolesAreCounted, Lost, Init

\* Every step keeps the invariant.
LEMMA NextKeeps == IInv /\ [Next]_vars => IInv'
<1> SUFFICES ASSUME IInv, [Next]_vars PROVE IInv'
  OBVIOUS
<1>1. ASSUME UNCHANGED <<served, buffer, events, dropped, droppedTotal, reported, flush, row, visible, discarded>>,
             phase' \in [Nodes -> {"up", "draining", "down"}],
             \A n \in Nodes : phase'[n] # "down" => phase[n] # "down", faults' \in Nat
      PROVE  IInv'
  <2>1. LogsType' /\ BatchInHand'
    BY <1>1 DEF IInv, LogsType, BatchInHand
  <2>2. \A r \in Requests : Somewhere(r) => Somewhere(r)'
    BY <1>1 DEF Somewhere, InMemory, BatchOf
  <2>3. OwnEntries'
    BY <1>1, OwnStay DEF Waiting, BatchOf
  <2> QED
    BY <1>1, <2>1, <2>2, <2>3, CountsStay, NoHole DEF IInv
<1>2. CASE UNCHANGED vars
  BY <1>1, <1>2 DEF vars, logRows, counters, IInv, LogsType
<1>3. ASSUME OpenStream \/ Poll PROVE IInv'
  <2>1. /\ UNCHANGED <<served, buffer, events, dropped, droppedTotal, reported, flush, row, visible, discarded, phase>>
        /\ faults' \in {faults, faults + 1}
    BY <1>3 DEF OpenStream, Poll, Fault, logRows, counters
  <2> QED
    BY <1>1, <2>1 DEF IInv, LogsType
<1>4. ASSUME NEW n \in Nodes, Signal(n) PROVE IInv'
  <2>1. /\ UNCHANGED <<served, buffer, events, dropped, droppedTotal, reported, flush, row, visible, discarded, faults>>
        /\ phase[n] = "up" /\ phase' = [phase EXCEPT ![n] = "draining"]
    BY <1>4 DEF Signal, logRows, counters
  <2> QED
    BY <1>1, <2>1 DEF IInv, LogsType
<1>5. ASSUME NEW n \in Nodes, InsertLogs(n) PROVE IInv'
  BY <1>5, NewIds, InsertKeeps
<1>6. ASSUME NEW n \in Nodes, Flushing(n) PROVE IInv'
  BY <1>5, <1>6, DrainKeeps, CommitKeeps, FailKeeps, EndKeeps DEF Flushing
<1> QED
  BY <1>2, <1>3, <1>4, <1>6, RecordKeeps, WarnKeeps, ExitKeeps DEF Next

\* HolesAreCounted: whatever fails and whatever is full, the log says of itself how many
\* failed requests it does not have.
THEOREM HolesAreKnown == Spec => []HolesAreCounted
<1>1. IInv => HolesAreCounted
  BY DEF IInv
<1> QED
  BY <1>1, Initially, NextKeeps, PTL DEF Spec

-----------------------------------------------------------------------------
(* The stream.                                                             *)

\* An entry is in one place: in the log, or with one process, waiting or in hand.
OnePlace ==
    /\ \A n \in Nodes : Waiting(n) \cap BatchOf(n) = {}
    /\ \A n \in Nodes : \A r \in Waiting(n) \cup BatchOf(n) :
          r \notin visible /\ \A m \in Nodes : r \in Waiting(m) \cup BatchOf(m) => m = n

\* Nobody has an entry before it is served.
ServedFirst == \A r \in visible : served[r].status # "none"

\* No two entries that have ids, committed or about to be, have the same.
HasId(r) == r \in visible \/ \E n \in Nodes : flush[n].pc = "commit" /\ r \in BatchOf(n)
OwnIds == \A r, x \in Requests : HasId(r) /\ HasId(x) /\ row[r] = row[x] => r = x

\* Where the stream is, there is an entry; and what it has shown is not behind that.
StreamInv ==
    /\ tail \in [from : Nat \cup {-1}, last : Nat] /\ shown \in Seq(Requests)
    /\ tail.last = 0 \/ \E r \in visible : tail.last = row[r]
    /\ tail.from = -1 => shown = <<>>
    /\ \A i \in DOMAIN shown : shown[i] \in visible /\ row[shown[i]] <= tail.last

\* The inductive invariant of RaceSpec.
RaceInv ==
    /\ IInv /\ OnePlace /\ ServedFirst /\ OwnIds /\ StreamInv
    /\ OnlyRacesHideEntries

\* In the order of their ids, entries have the places from 1 to their number.
Rank(f, S, r) == Cardinality({x \in S : f[x] <= f[r]})

\* Each place is taken, by one entry.
LEMMA Ranked ==
    ASSUME NEW f \in [Requests -> Nat], NEW S \in SUBSET Requests,
           \A r, x \in S : f[r] = f[x] => r = x
    PROVE  /\ IsFiniteSet(S) /\ Cardinality(S) \in Nat
           /\ \A r \in S : Rank(f, S, r) \in 1..Cardinality(S)
           /\ \A i \in 1..Cardinality(S) : \E r \in S : Rank(f, S, r) = i
           /\ \A r, x \in S : f[r] < f[x] <=> Rank(f, S, r) < Rank(f, S, x)
<1> DEFINE Upto(r) == {x \in S : f[x] <= f[r]}
           k == Cardinality(S)
           rank(r) == Cardinality(Upto(r))
<1>1. IsFiniteSet(S) /\ k \in Nat
  BY FiniteAssumption, FS_Subset, FS_CardinalityType
<1>2. \A r \in S : IsFiniteSet(Upto(r)) /\ rank(r) \in Nat /\ rank(r) <= k
  BY <1>1, FS_Subset, FS_CardinalityType
<1>3. \A r \in S : rank(r) \in 1..k
  <2>1. SUFFICES ASSUME NEW r \in S PROVE rank(r) # 0
    BY <1>1, <1>2
  <2>2. r \in Upto(r)
    OBVIOUS
  <2> QED
    BY <1>2, <2>2, FS_EmptySet
<1>4. ASSUME NEW r \in S, NEW x \in S, f[r] < f[x] PROVE rank(r) < rank(x)
  <2>1. \A y \in S : f[y] <= f[r] => f[y] <= f[x]
    BY <1>4
  <2>2. Upto(r) \subseteq Upto(x)
    BY <2>1
  <2>3. x \in Upto(x) /\ x \notin Upto(r)
    BY <1>4
  <2>4. Upto(r) # Upto(x)
    BY <2>3
  <2> HIDE DEF Upto
  <2> QED
    BY <1>2, <2>2, <2>4, FS_Subset
<1>5. \A r, x \in S : f[r] < f[x] \/ f[x] < f[r] \/ r = x
  OBVIOUS
<1> HIDE DEF Upto, k
<1>6. \A r, x \in S : f[r] < f[x] <=> rank(r) < rank(x)
  <2>1. ASSUME NEW r \in S, NEW x \in S, rank(r) < rank(x) PROVE f[r] < f[x]
    <3>1. ~(f[x] < f[r])
      BY <1>2, <1>4, <2>1
    <3>2. r # x
      BY <1>2, <2>1
    <3> QED
      BY <1>5, <3>1, <3>2
  <2> QED
    BY <1>4, <2>1
<1>7. \A i \in 1..k : \E r \in S : rank(r) = i
  <2> DEFINE g == [r \in S |-> rank(r)]
  <2>1. \A r, x \in S : rank(r) = rank(x) => r = x
    BY <1>2, <1>4, <1>5
  <2>2. g \in [S -> 1..k] /\ \A r, x \in S : g[r] = g[x] => r = x
    BY <1>3, <2>1
  <2>3. g \in Injection(S, 1..k)
    <3> HIDE DEF g
    <3> QED
      BY <2>2 DEF Injection, IsInjective
  <2>4. IsFiniteSet(1..k) /\ Cardinality(1..k) = k
    BY <1>1, FS_Interval
  <2>5. g \in Surjection(S, 1..k)
    BY <2>3, <2>4, FS_Injection DEF k
  <2>6. \A i \in 1..k : \E r \in S : g[r] = i
    BY <2>5 DEF Surjection
  <2> QED
    BY <2>6
<1> QED
  BY <1>1, <1>3, <1>6, <1>7 DEF k, Upto, Rank

\* Entries that stay or leave are in one place still.
LEMMA PlacesKept ==
    ASSUME OnePlace, ServedFirst, UNCHANGED <<served, visible>>,
           \A n \in Nodes : Waiting(n)' \subseteq Waiting(n) /\ BatchOf(n)' \subseteq BatchOf(n)
    PROVE  OnePlace' /\ ServedFirst'
<1>1. \A n \in Nodes : Waiting(n)' \cap BatchOf(n)' = {}
  BY DEF OnePlace
<1>2. ASSUME NEW n \in Nodes, NEW r \in Waiting(n)' \cup BatchOf(n)'
      PROVE  r \notin visible' /\ \A m \in Nodes : r \in Waiting(m)' \cup BatchOf(m)' => m = n
  BY DEF OnePlace
<1>3. OnePlace'
  BY <1>1, <1>2 DEF OnePlace
<1>4. ServedFirst'
  BY DEF ServedFirst
<1> QED
  BY <1>3, <1>4

\* Where the log and the stream stay, and nothing gets an id, so does what is known of them.
LEMMA StreamKept ==
    ASSUME RaceInv, UNCHANGED <<row, visible, tail, shown>>,
           late \subseteq late', crowded \subseteq crowded',
           \A r \in Requests : HasId(r)' => HasId(r)
    PROVE  OwnIds' /\ StreamInv' /\ OnlyRacesHideEntries'
<1>1. OwnIds' /\ StreamInv'
  BY DEF RaceInv, OwnIds, StreamInv
<1>2. \A r : Sent(r)' <=> Sent(r)
  BY DEF Sent
<1>3. OnlyRacesHideEntries'
  BY <1>2 DEF RaceInv, OnlyRacesHideEntries
<1> QED
  BY <1>1, <1>3

\* A request is answered: nobody has had its entry before.
LEMMA RecordInPlace ==
    ASSUME RaceInv, NEW r \in Requests, NEW m \in Nodes, NEW status \in {"ok", "failed"},
           RecordRequest(r, m, status)
    PROVE  OnePlace' /\ ServedFirst'
<1>1. /\ served[r].status = "none" /\ UNCHANGED <<flush, visible>>
      /\ \A x \in Requests \ {r} : served'[x] = served[x]
      /\ buffer' = [buffer EXCEPT ![m] = Append(@, r)] \/ buffer' = buffer
  BY DEF RecordRequest, Keep, logRows, RaceInv, IInv, LogsType
<1>2. r \notin visible /\ \A n \in Nodes : r \notin Waiting(n) \cup BatchOf(n)
  BY <1>1 DEF RaceInv, IInv, OwnEntries, ServedFirst
<1>3. \A n \in Nodes : BatchOf(n)' = BatchOf(n)
  BY <1>1 DEF BatchOf
<1>4. Waiting(m)' \subseteq Waiting(m) \cup {r} /\ \A n \in Nodes \ {m} : Waiting(n)' = Waiting(n)
  <2>1. CASE buffer' = buffer
    BY <2>1 DEF Waiting
  <2>2. CASE buffer' = [buffer EXCEPT ![m] = Append(@, r)]
    <3>1. /\ \A i \in DOMAIN buffer'[m] :
                buffer'[m][i] = r \/ (i \in DOMAIN buffer[m] /\ buffer'[m][i] = buffer[m][i])
          /\ \A n \in Nodes \ {m} : buffer'[n] = buffer[n]
      BY <2>2, Appended DEF RaceInv, IInv, LogsType
    <3> QED
      BY <3>1 DEF Waiting
  <2> QED
    BY <1>1, <2>1, <2>2
<1>5. \A n \in Nodes : Waiting(n)' \cap BatchOf(n)' = {}
  BY <1>2, <1>3, <1>4 DEF RaceInv, OnePlace
<1>6. ASSUME NEW n \in Nodes, NEW x \in Waiting(n)' \cup BatchOf(n)'
      PROVE  x \notin visible' /\ \A k \in Nodes : x \in Waiting(k)' \cup BatchOf(k)' => k = n
  <2>1. \A k \in Nodes : x \in Waiting(k)' \cup BatchOf(k)' => x \in Waiting(k) \cup BatchOf(k) \/ (x = r /\ k = m)
    BY <1>3, <1>4
  <2>2. CASE x = r
    BY <1>1, <1>2, <1>6, <2>1, <2>2
  <2>3. CASE x # r
    BY <1>1, <1>6, <2>1, <2>3 DEF RaceInv, OnePlace
  <2> QED
    BY <2>2, <2>3
<1>7. OnePlace'
  BY <1>5, <1>6 DEF OnePlace
<1>8. visible \subseteq Requests
  BY DEF RaceInv, IInv, LogsType
<1>9. ServedFirst'
  BY <1>1, <1>2, <1>8 DEF RaceInv, ServedFirst
<1> QED
  BY <1>7, <1>9

\* A flush moves the entries of the buffer.
LEMMA DrainInPlace ==
    ASSUME RaceInv, NEW n \in Nodes, Drain(n)
    PROVE  OnePlace' /\ ServedFirst' /\ \A r \in Requests : HasId(r)' => HasId(r)
<1>1. /\ UNCHANGED <<served, visible>> /\ buffer' = [buffer EXCEPT ![n] = <<>>] /\ flush[n].pc = "wait"
      /\ flush' = [flush EXCEPT ![n] = [pc |-> "insert", last |-> phase[n] = "draining",
                                        batch |-> buffer[n], events |-> events[n]]]
  BY DEF Drain, logRows
<1>2. /\ flush'[n].batch = buffer[n] /\ flush'[n].pc = "insert" /\ buffer'[n] = <<>>
      /\ \A x \in Nodes \ {n} : flush'[x] = flush[x] /\ buffer'[x] = buffer[x]
  BY <1>1 DEF RaceInv, IInv, LogsType
<1>3. /\ Waiting(n)' = {} /\ BatchOf(n)' = Waiting(n)
      /\ \A x \in Nodes \ {n} : Waiting(x)' = Waiting(x) /\ BatchOf(x)' = BatchOf(x)
  BY <1>2 DEF Waiting, BatchOf
<1>4. \A x \in Nodes : Waiting(x)' \cap BatchOf(x)' = {}
  BY <1>3 DEF RaceInv, OnePlace
<1>5. ASSUME NEW x \in Nodes, NEW r \in Waiting(x)' \cup BatchOf(x)'
      PROVE  r \notin visible' /\ \A k \in Nodes : r \in Waiting(k)' \cup BatchOf(k)' => k = x
  <2>1. \A k \in Nodes : Waiting(k)' \cup BatchOf(k)' \subseteq Waiting(k) \cup BatchOf(k)
    BY <1>3
  <2> QED
    BY <1>1, <1>5, <2>1 DEF RaceInv, OnePlace
<1>6. OnePlace' /\ ServedFirst'
  BY <1>1, <1>4, <1>5 DEF OnePlace, RaceInv, ServedFirst
<1>7. \A r \in Requests : HasId(r)' => HasId(r)
  BY <1>1, <1>2, <1>3 DEF HasId
<1> QED
  BY <1>6, <1>7

\* A failure, the end of a flush, and the end of a process.
LEMMA EndInPlace ==
    ASSUME RaceInv, NEW n \in Nodes,
           InsertFails(n) \/ InsertEvents(n) \/ InsertEventsFails(n) \/ Exit(n)
    PROVE  OnePlace' /\ ServedFirst' /\ \A r \in Requests : HasId(r)' => HasId(r)
<1>1. /\ UNCHANGED <<served, visible>>
      /\ buffer' \in {buffer, [buffer EXCEPT ![n] = <<>>]}
      /\ \/ flush' = [flush EXCEPT ![n].pc = "events", ![n].batch = <<>>]
         \/ Flushed(n)
         \/ flush' = [flush EXCEPT ![n] = Off]
  BY DEF InsertFails, InsertEvents, InsertEventsFails, Exit, logRows
<1>2. /\ flush'[n].batch = <<>> /\ flush'[n].pc # "commit"
      /\ \A x \in Nodes \ {n} : flush'[x] = flush[x]
  <2>1. CASE flush' = [flush EXCEPT ![n] = Off]
    BY <2>1 DEF Off, Idle, RaceInv, IInv, LogsType
  <2> QED
    BY <1>1, <2>1, HandsEmpty DEF RaceInv
<1>3. BatchOf(n)' = {} /\ \A x \in Nodes \ {n} : BatchOf(x)' = BatchOf(x)
  BY <1>2 DEF BatchOf
<1>4. \A x \in Nodes : Waiting(x)' \subseteq Waiting(x)
  <2>1. \A x \in Nodes : buffer'[x] = buffer[x] \/ buffer'[x] = <<>>
    BY <1>1 DEF RaceInv, IInv, LogsType
  <2> QED
    BY <2>1 DEF Waiting
<1>5. \A x \in Nodes : Waiting(x)' \subseteq Waiting(x) /\ BatchOf(x)' \subseteq BatchOf(x)
  BY <1>3, <1>4
<1>6. OnePlace' /\ ServedFirst'
  BY <1>1, <1>5, PlacesKept DEF RaceInv
<1>7. \A r \in Requests : HasId(r)' => HasId(r)
  BY <1>1, <1>2, <1>3 DEF HasId
<1> QED
  BY <1>6, <1>7

\* A batch gets ids that nobody has.
LEMMA InsertInPlace ==
    ASSUME RaceInv, NEW n \in Nodes, InsertLogs(n), late \subseteq late', crowded \subseteq crowded'
    PROVE  OnePlace' /\ ServedFirst' /\ OwnIds' /\ StreamInv' /\ OnlyRacesHideEntries'
<1>1. /\ UNCHANGED <<served, buffer, visible, tail, shown>> /\ flush' = [flush EXCEPT ![n].pc = "commit"]
      /\ flush[n].pc = "insert"
  BY DEF InsertLogs, stream
<1>2. /\ row' \in [Requests -> Nat]
      /\ \A r \in Requests \ BatchOf(n) : row'[r] = row[r]
      /\ \A r \in BatchOf(n) : row'[r] > LastId
      /\ \A r, x \in BatchOf(n) : row'[r] = row'[x] => r = x
  BY NewIds DEF RaceInv
<1>3. row \in [Requests -> Nat] /\ visible \subseteq Requests /\ BatchOf(n) \subseteq Requests
  BY DEF RaceInv, IInv, LogsType, BatchOf
<1>4. LastId \in Nat /\ \A r \in Requests : row[r] <= LastId
  BY <1>3, LastIdLast
<1>5. \A r \in visible : row'[r] = row[r]
  BY <1>2, <1>3 DEF RaceInv, OnePlace
<1>6. /\ flush'[n].pc = "commit" /\ flush'[n].batch = flush[n].batch
      /\ \A x \in Nodes \ {n} : flush'[x] = flush[x]
  BY <1>1 DEF RaceInv, IInv, LogsType
<1>7. \A x \in Nodes : BatchOf(x)' = BatchOf(x) /\ Waiting(x)' = Waiting(x)
  BY <1>1, <1>6 DEF BatchOf, Waiting
<1>8. OnePlace' /\ ServedFirst'
  BY <1>1, <1>7, PlacesKept DEF RaceInv
<1>9. ASSUME NEW r \in Requests, HasId(r)' PROVE r \in BatchOf(n) \/ (HasId(r) /\ r \notin BatchOf(n))
  <2>1. HasId(r) => r \notin BatchOf(n)
    <3>1. r \in visible => r \notin BatchOf(n)
      BY DEF RaceInv, OnePlace
    <3>2. \A x \in Nodes : flush[x].pc = "commit" /\ r \in BatchOf(x) => r \notin BatchOf(n)
      BY <1>1 DEF RaceInv, OnePlace
    <3> QED
      BY <3>1, <3>2 DEF HasId
  <2> QED
    BY <1>1, <1>6, <1>7, <1>9, <2>1 DEF HasId
<1>10. ASSUME NEW r \in Requests, NEW x \in Requests, HasId(r)', HasId(x)', row'[r] = row'[x] PROVE r = x
  <2>1. \A y \in Requests : HasId(y) /\ y \notin BatchOf(n) => row'[y] = row[y] /\ row'[y] <= LastId
    BY <1>2, <1>4
  <2>2. \A y \in BatchOf(n) : row'[y] \in Nat /\ row'[y] > LastId
    BY <1>2, <1>3
  <2>3. CASE r \in BatchOf(n) /\ x \in BatchOf(n)
    BY <1>2, <1>10, <2>3
  <2>4. CASE r \notin BatchOf(n) /\ x \notin BatchOf(n)
    BY <1>9, <1>10, <2>1, <2>4 DEF RaceInv, OwnIds
  <2>5. ASSUME NEW p \in Requests, NEW q \in BatchOf(n), HasId(p), p \notin BatchOf(n), row'[p] = row'[q] PROVE FALSE
    BY <1>4, <2>1, <2>2, <2>5
  <2> QED
    BY <1>9, <1>10, <2>3, <2>4, <2>5
<1>11. OwnIds'
  BY <1>10 DEF OwnIds
<1>12. \A i \in DOMAIN shown : shown[i] \in visible /\ row'[shown[i]] = row[shown[i]]
  BY <1>5 DEF RaceInv, StreamInv
<1>13. StreamInv'
  BY <1>1, <1>5, <1>12 DEF RaceInv, StreamInv
<1>14. \A r : Sent(r)' <=> Sent(r)
  BY <1>1 DEF Sent
<1>15. OnlyRacesHideEntries'
  BY <1>1, <1>5, <1>12, <1>14 DEF RaceInv, OnlyRacesHideEntries
<1> QED
  BY <1>8, <1>11, <1>13, <1>15

\* A batch is committed: what the stream is past already is late.
LEMMA CommitInPlace ==
    ASSUME RaceInv, NEW n \in Nodes, CommitLogs(n),
           late' = late \cup {r \in visible' \ visible : Newer(r) # {}}, crowded \subseteq crowded'
    PROVE  OnePlace' /\ ServedFirst' /\ OwnIds' /\ StreamInv' /\ OnlyRacesHideEntries'
<1>1. /\ UNCHANGED <<served, buffer, row, tail, shown>> /\ flush[n].pc = "commit"
      /\ visible' = visible \cup BatchOf(n)
      /\ flush' = [flush EXCEPT ![n].pc = "events", ![n].batch = <<>>]
  BY DEF CommitLogs, stream
<1>2. /\ flush'[n].batch = <<>> /\ flush'[n].pc # "commit"
      /\ \A x \in Nodes \ {n} : flush'[x] = flush[x]
  BY <1>1, HandsEmpty DEF RaceInv
<1>3. BatchOf(n)' = {} /\ \A x \in Nodes \ {n} : BatchOf(x)' = BatchOf(x)
  BY <1>2 DEF BatchOf
<1>4. \A x \in Nodes : Waiting(x)' = Waiting(x)
  BY <1>1 DEF Waiting
<1>5. /\ BatchOf(n) \subseteq Requests /\ row \in [Requests -> Nat] /\ visible \subseteq Requests
      /\ tail \in [from : Nat \cup {-1}, last : Nat] /\ tail.last \in Nat /\ tail.from \in Nat \cup {-1}
  BY DEF RaceInv, IInv, LogsType, StreamInv, BatchOf
<1>6. \A x \in Nodes : Waiting(x)' \cap BatchOf(x)' = {}
  BY <1>3, <1>4 DEF RaceInv, OnePlace
<1>7. ASSUME NEW x \in Nodes, NEW r \in Waiting(x)' \cup BatchOf(x)'
      PROVE  r \notin visible' /\ \A k \in Nodes : r \in Waiting(k)' \cup BatchOf(k)' => k = x
  <2>1. \A k \in Nodes : Waiting(k)' \cup BatchOf(k)' \subseteq Waiting(k) \cup BatchOf(k)
    BY <1>3, <1>4
  <2>2. r \notin visible /\ \A k \in Nodes : r \in Waiting(k) \cup BatchOf(k) => k = x
    BY <1>7, <2>1 DEF RaceInv, OnePlace
  <2>3. r \notin BatchOf(n)
    <3>1. CASE x = n
      BY <1>3, <1>4, <1>7, <3>1 DEF RaceInv, OnePlace
    <3>2. CASE x # n
      BY <2>2, <3>2
    <3> QED
      BY <3>1, <3>2
  <2> QED
    BY <1>1, <2>1, <2>2, <2>3
<1>8. OnePlace'
  BY <1>6, <1>7 DEF OnePlace
<1>9. ServedFirst'
  BY <1>1 DEF RaceInv, IInv, OwnEntries, ServedFirst
<1>10. \A r \in Requests : HasId(r)' => HasId(r)
  BY <1>1, <1>2, <1>3 DEF HasId
<1>11. OwnIds'
  BY <1>1, <1>10 DEF RaceInv, OwnIds
<1>12. StreamInv'
  BY <1>1 DEF RaceInv, StreamInv
<1>13. ASSUME NEW r \in BatchOf(n), tail.from >= 0, row[r] > tail.from, row[r] <= tail.last PROVE r \in late'
  <2>1. r \in Requests /\ r \notin visible /\ row[r] \in Nat
    BY <1>5 DEF RaceInv, OnePlace
  <2>2. tail.last # 0
    BY <1>5, <1>13, <2>1
  <2>3. PICK x \in visible : row[x] = tail.last
    BY <2>2 DEF RaceInv, StreamInv
  <2>4. row[x] # row[r]
    <3>1. HasId(r) /\ HasId(x)
      BY <1>1, <2>3 DEF HasId
    <3> QED
      BY <1>5, <2>1, <2>3, <3>1 DEF RaceInv, OwnIds
  <2>5. row[x] > row[r]
    BY <1>5, <1>13, <2>1, <2>3, <2>4
  <2>6. x \in Newer(r)
    BY <2>3, <2>5 DEF Newer
  <2> QED
    BY <1>1, <2>1, <2>6
<1>14. \A r : Sent(r)' <=> Sent(r)
  BY <1>1 DEF Sent
<1>15. OnlyRacesHideEntries'
  BY <1>1, <1>13, <1>14 DEF RaceInv, OnlyRacesHideEntries
<1> QED
  BY <1>8, <1>9, <1>11, <1>12, <1>15

\* A stream begins with nothing to show for.
LEMMA OpenInPlace ==
    ASSUME RaceInv, OpenStream
    PROVE  OwnIds' /\ StreamInv' /\ OnlyRacesHideEntries'
<1> DEFINE S == {row[r] : r \in visible}
           newest == MaxOf(S)
<1>1. /\ UNCHANGED <<row, visible, shown, flush>> /\ tail.from = -1
      /\ \E first \in {0, newest} : tail' = [from |-> first, last |-> first]
  BY DEF OpenStream, logRows
<1>2. row \in [Requests -> Nat] /\ visible \in SUBSET Requests
  BY DEF RaceInv, IInv, LogsType
<1>3. S \subseteq Nat /\ IsFiniteSet(S)
  BY <1>2, IdsFinite
<1>4. newest \in Nat /\ (newest = 0 \/ \E r \in visible : newest = row[r])
  <2>1. CASE visible = {}
    <3>1. newest = 0
      BY <2>1 DEF MaxOf
    <3> QED
      BY <3>1
  <2>2. CASE visible # {}
    <3>1. S # {}
      BY <2>2
    <3>2. \A i \in S : \E r \in visible : i = row[r]
      OBVIOUS
    <3> HIDE DEF S
    <3>3. newest \in S
      BY <1>3, <3>1, MaxExists
    <3> QED
      BY <1>3, <3>2, <3>3
  <2> QED
    BY <2>1, <2>2
<1> HIDE DEF newest
<1>5. PICK f : /\ f \in Nat /\ (f = 0 \/ \E r \in visible : f = row[r])
               /\ tail' = [from |-> f, last |-> f]
  BY <1>1, <1>4
<1>6. tail'.from = f /\ tail'.last = f /\ tail' \in [from : Nat \cup {-1}, last : Nat]
  BY <1>5
<1>7. shown' = <<>> /\ DOMAIN shown' = {} /\ shown' \in Seq(Requests)
  BY <1>1 DEF RaceInv, StreamInv
<1>8. OwnIds'
  BY <1>1 DEF RaceInv, OwnIds, HasId, BatchOf
<1>9. StreamInv'
  BY <1>1, <1>5, <1>6, <1>7 DEF StreamInv
<1>10. OnlyRacesHideEntries'
  <2>1. \A r \in visible : ~(row[r] > f /\ row[r] <= f)
    BY <1>2, <1>5
  <2> QED
    BY <1>1, <1>6, <1>7, <2>1 DEF OnlyRacesHideEntries
<1> QED
  BY <1>8, <1>9, <1>10

\* What a poll does not get of what is to be shown is crowded out.
LEMMA NotFresh ==
    ASSUME RaceInv, NEW r \in Unseen, r \notin Fresh
    PROVE  Cardinality(Newer(r)) >= TailLimit
<1>1. Newer(r) \in SUBSET Requests
  BY DEF Newer, RaceInv, IInv, LogsType
<1>2. Cardinality(Newer(r)) \in Nat /\ TailLimit \in Nat
  BY <1>1, FiniteAssumption, LogSizesAssumption, FS_Subset, FS_CardinalityType
<1>3. ~(Cardinality(Newer(r)) < TailLimit)
  BY DEF Fresh, Newer
<1> QED
  BY <1>2, <1>3

\* A poll shows what there is behind what it has shown, in order.
LEMMA PollInPlace ==
    ASSUME RaceInv, Poll, late \subseteq late',
           crowded' = crowded \cup {r \in visible :
               tail.from >= 0 /\ row[r] > tail.last /\ Cardinality(Newer(r)) >= TailLimit}
    PROVE  OwnIds' /\ StreamInv' /\ OnlyRacesHideEntries'
<1> DEFINE S == {row[r] : r \in Fresh} \cup {tail.last}
           K == Cardinality(Fresh)
           choice(i) == CHOOSE r \in Fresh : Cardinality({x \in Fresh : row[x] <= row[r]}) = i
           polled == [i \in 1..K |-> choice(i)]
           newest == MaxOf(S)
<1>1. tail.from >= 0 /\ Fresh \subseteq Unseen
  BY DEF Poll, Fresh
<1>2. /\ UNCHANGED <<row, visible, flush>> /\ shown' = shown \o polled
      /\ tail' = [tail EXCEPT !.last = newest]
  BY <1>1 DEF Poll, logRows
<1>3. /\ row \in [Requests -> Nat] /\ visible \in SUBSET Requests /\ Fresh \in SUBSET Requests
      /\ Fresh \subseteq visible /\ \A r \in Fresh : row[r] > tail.last
      /\ tail \in [from : Nat \cup {-1}, last : Nat] /\ tail.last \in Nat /\ shown \in Seq(Requests)
  BY DEF RaceInv, IInv, LogsType, StreamInv, Fresh, Unseen
<1>4. \A r, x \in Fresh : row[r] = row[x] => r = x
  BY <1>3 DEF RaceInv, OwnIds, HasId
<1>5. /\ K \in Nat
      /\ \A r \in Fresh : Rank(row, Fresh, r) \in 1..K
      /\ \A i \in 1..K : \E r \in Fresh : Rank(row, Fresh, r) = i
      /\ \A r, x \in Fresh : row[r] < row[x] <=> Rank(row, Fresh, r) < Rank(row, Fresh, x)
  BY <1>3, <1>4, Ranked
<1>6. newest \in Nat /\ tail.last <= newest /\ (\A r \in Fresh : row[r] <= newest)
      /\ (newest = tail.last \/ \E r \in Fresh : newest = row[r])
  <2>1. {row[r] : r \in Fresh} \subseteq Nat /\ IsFiniteSet({row[r] : r \in Fresh})
    BY <1>3, IdsFinite
  <2>2. S \subseteq Nat /\ IsFiniteSet(S) /\ S # {}
    BY <1>3, <2>1, FS_AddElement
  <2>3. /\ tail.last \in S /\ \A r \in Fresh : row[r] \in S
        /\ \A i \in S : i = tail.last \/ \E r \in Fresh : i = row[r]
    OBVIOUS
  <2> HIDE DEF S
  <2>4. newest \in S /\ \A j \in S : j <= newest
    BY <2>2, MaxExists
  <2> QED
    BY <2>2, <2>3, <2>4
<1>7. \A i \in 1..K : choice(i) \in Fresh /\ Rank(row, Fresh, choice(i)) = i
  BY <1>5 DEF Rank
<1> HIDE DEF choice
<1>8. polled \in Seq(Requests) /\ Len(polled) = K /\ DOMAIN polled = 1..K
  <2>1. polled \in [1..K -> Requests]
    BY <1>3, <1>7
  <2> QED
    BY <1>5, <2>1
<1>9. \A i \in 1..K : polled[i] \in Fresh /\ Rank(row, Fresh, polled[i]) = i
  BY <1>7
<1> HIDE DEF newest, polled, K
<1>10. ASSUME NEW r \in Fresh PROVE \E i \in 1..K : polled[i] = r
  <2>1. PICK i \in 1..K : i = Rank(row, Fresh, r)
    BY <1>5
  <2>2. polled[i] \in Fresh /\ Rank(row, Fresh, polled[i]) = Rank(row, Fresh, r)
    BY <1>9, <2>1
  <2>3. ~(row[polled[i]] < row[r]) /\ ~(row[r] < row[polled[i]])
    BY <1>5, <2>1, <2>2
  <2>4. row[polled[i]] \in Nat /\ row[r] \in Nat
    BY <1>3, <2>2
  <2>5. polled[i] = r
    BY <1>4, <2>2, <2>3, <2>4
  <2> QED
    BY <2>5
<1>11. tail'.from = tail.from /\ tail'.last = newest /\ tail' \in [from : Nat \cup {-1}, last : Nat]
  BY <1>2, <1>3, <1>6
<1>14. shown' \in Seq(Requests) /\ DOMAIN shown = 1..Len(shown) /\ Len(shown) \in Nat
       /\ DOMAIN shown' = 1..(Len(shown) + K)
  BY <1>2, <1>3, <1>5, <1>8
<1>15. /\ \A i \in 1..Len(shown) : shown'[i] = shown[i]
       /\ \A i \in 1..K : shown'[Len(shown) + i] = polled[i]
  BY <1>2, <1>3, <1>5, <1>8
<1>16. \A i \in 1..Len(shown) : shown'[i] \in visible /\ row[shown'[i]] <= tail.last
  BY <1>14, <1>15 DEF RaceInv, StreamInv
<1>17. \A i \in 1..K : shown'[Len(shown) + i] \in Fresh
  BY <1>9, <1>15
<1>18. \A i \in DOMAIN shown' : i \in 1..Len(shown) \/ \E k \in 1..K : i = Len(shown) + k
  <2>1. ASSUME NEW i \in DOMAIN shown', i \notin 1..Len(shown) PROVE i - Len(shown) \in 1..K /\ i = Len(shown) + (i - Len(shown))
    BY <1>5, <1>14, <2>1
  <2> QED
    BY <2>1
<1>19. OwnIds'
  BY <1>2 DEF RaceInv, OwnIds, HasId, BatchOf
<1>20. ASSUME NEW i \in DOMAIN shown' PROVE shown'[i] \in visible /\ row[shown'[i]] <= newest
  <2>1. CASE i \in 1..Len(shown)
    <3>1. shown'[i] \in Requests /\ row[shown'[i]] \in Nat /\ row[shown'[i]] <= tail.last
      BY <1>3, <1>16, <2>1
    <3> QED
      BY <1>3, <1>6, <1>16, <2>1, <3>1
  <2>2. CASE \E k \in 1..K : i = Len(shown) + k
    BY <1>3, <1>6, <1>17, <2>2
  <2> QED
    BY <1>18, <2>1, <2>2
<1>21. StreamInv'
  <2>1. newest = 0 \/ \E r \in visible : newest = row[r]
    BY <1>3, <1>6 DEF RaceInv, StreamInv
  <2>2. tail'.from # -1
    BY <1>1, <1>11
  <2> QED
    BY <1>2, <1>11, <1>14, <1>20, <2>1, <2>2 DEF StreamInv
<1>22. ASSUME NEW i \in DOMAIN shown', NEW j \in DOMAIN shown', i < j
       PROVE  row[shown'[i]] < row[shown'[j]]
  <2>1. CASE j \in 1..Len(shown)
    <3>1. i \in 1..Len(shown)
      BY <1>14, <1>22, <2>1
    <3> QED
      BY <1>14, <1>15, <1>22, <2>1, <3>1 DEF RaceInv, OnlyRacesHideEntries
  <2>2. CASE i \in 1..Len(shown) /\ \E k \in 1..K : j = Len(shown) + k
    <3>1. row[shown'[i]] <= tail.last /\ shown'[i] \in Requests
      BY <1>3, <1>16, <2>2
    <3>2. shown'[j] \in Fresh /\ row[shown'[j]] > tail.last
      BY <1>3, <1>17, <2>2
    <3> QED
      BY <1>3, <3>1, <3>2
  <2>3. CASE (\E k \in 1..K : i = Len(shown) + k) /\ \E k \in 1..K : j = Len(shown) + k
    <3>1. PICK p \in 1..K : i = Len(shown) + p
      BY <2>3
    <3>2. PICK q \in 1..K : j = Len(shown) + q
      BY <2>3
    <3>3. p < q
      BY <1>14, <1>5, <1>22, <3>1, <3>2
    <3>4. polled[p] \in Fresh /\ polled[q] \in Fresh /\ Rank(row, Fresh, polled[p]) < Rank(row, Fresh, polled[q])
      BY <1>9, <3>3
    <3>5. row[polled[p]] < row[polled[q]]
      BY <1>5, <3>4
    <3> QED
      BY <1>15, <3>1, <3>2, <3>5
  <2> QED
    BY <1>18, <2>1, <2>2, <2>3
<1>23. ASSUME NEW r \in visible, row[r] > tail.from, row[r] <= newest
       PROVE  Sent(r)' \/ r \in late' \cup crowded'
  <2>1. CASE r \in Fresh
    <3>1. PICK i \in 1..K : polled[i] = r
      BY <1>10, <2>1
    <3>2. Len(shown) + i \in DOMAIN shown' /\ shown'[Len(shown) + i] = r
      BY <1>5, <1>14, <1>15, <3>1
    <3> QED
      BY <3>2 DEF Sent
  <2>2. CASE r \in Unseen \ Fresh
    <3>1. Cardinality(Newer(r)) >= TailLimit
      BY <2>2, NotFresh
    <3> QED
      BY <1>1, <2>2, <3>1 DEF Unseen
  <2>3. CASE r \notin Unseen
    <3>1. ~(row[r] > tail.last)
      BY <2>3 DEF Unseen
    <3>2. row[r] <= tail.last
      BY <1>3, <3>1
    <3>3. Sent(r) \/ r \in late \cup crowded
      BY <1>1, <1>23, <3>2 DEF RaceInv, OnlyRacesHideEntries
    <3>4. Sent(r) => Sent(r)'
      BY <1>5, <1>14, <1>15 DEF Sent
    <3> QED
      BY <3>3, <3>4
  <2> QED
    BY <2>1, <2>2, <2>3
<1>24. OnlyRacesHideEntries'
  BY <1>2, <1>11, <1>22, <1>23 DEF OnlyRacesHideEntries
<1> QED
  BY <1>19, <1>21, <1>24

\* At the start there is nothing to see and nobody to see it.
LEMMA RaceInitially == RaceInit => RaceInv
<1> SUFFICES ASSUME RaceInit PROVE RaceInv
  OBVIOUS
<1>1. Init /\ IInv
  BY Initially DEF RaceInit
<1>2. OnePlace /\ ServedFirst /\ OwnIds
  BY <1>1 DEF Init, OnePlace, ServedFirst, OwnIds, HasId, Waiting, BatchOf, Idle
<1>3. StreamInv /\ OnlyRacesHideEntries
  BY <1>1 DEF Init, StreamInv, OnlyRacesHideEntries
<1> QED
  BY <1>1, <1>2, <1>3 DEF RaceInv

\* Every step keeps the invariant.
LEMMA RaceKeeps == RaceInv /\ [RaceNext]_raceVars => RaceInv'
<1> SUFFICES ASSUME RaceInv, [RaceNext]_raceVars PROVE RaceInv'
  OBVIOUS
<1> DEFINE Places == OnePlace /\ ServedFirst
           Stream == OwnIds /\ StreamInv /\ OnlyRacesHideEntries
<1>1. IInv' /\ late \subseteq late' /\ crowded \subseteq crowded'
  BY NextKeeps DEF RaceInv, RaceNext, raceVars
<1>2. ASSUME UNCHANGED <<served, buffer, flush, visible>> PROVE Places'
  BY <1>2, PlacesKept DEF RaceInv, Waiting, BatchOf
<1>3. ASSUME UNCHANGED <<flush, row, visible, tail, shown>> PROVE Stream'
  BY <1>1, <1>3, StreamKept DEF HasId, BatchOf
<1>4. CASE UNCHANGED raceVars
  BY <1>1, <1>2, <1>3, <1>4 DEF raceVars, vars, logRows, stream, RaceInv
<1>5. CASE RaceNext
  <2>1. /\ Next /\ late' = late \cup {r \in visible' \ visible : Newer(r) # {}}
        /\ crowded' = crowded \cup {r \in visible :
               tail.from >= 0 /\ row[r] > tail.last /\ Cardinality(Newer(r)) >= TailLimit}
    BY <1>5 DEF RaceNext
  <2>2. ASSUME NEW n \in Nodes, Warn(n) \/ Signal(n) PROVE Places' /\ Stream'
    BY <1>2, <1>3, <2>2 DEF Warn, Signal, logRows, stream
  <2>3. ASSUME NEW n \in Nodes, Flushing(n) \/ Exit(n) PROVE Places' /\ Stream'
    <3>1. CASE Drain(n)
      BY <1>1, <3>1, DrainInPlace, StreamKept DEF Drain, logRows, stream
    <3>2. CASE InsertLogs(n)
      BY <1>1, <3>2, InsertInPlace
    <3>3. CASE CommitLogs(n)
      BY <1>1, <2>1, <3>3, CommitInPlace
    <3>4. CASE InsertFails(n) \/ InsertEvents(n) \/ InsertEventsFails(n) \/ Exit(n)
      BY <1>1, <3>4, EndInPlace, StreamKept
         DEF InsertFails, InsertEvents, InsertEventsFails, Exit, logRows, stream
    <3> QED
      BY <2>3, <3>1, <3>2, <3>3, <3>4 DEF Flushing
  <2>4. ASSUME NEW r \in Requests, NEW n \in Nodes, NEW status \in {"ok", "failed"}, RecordRequest(r, n, status)
        PROVE  Places' /\ Stream'
    BY <1>3, <2>4, RecordInPlace DEF RecordRequest, logRows, stream
  <2>5. ASSUME OpenStream PROVE Places' /\ Stream'
    BY <1>2, <2>5, OpenInPlace DEF OpenStream, logRows
  <2>6. ASSUME Poll PROVE Places' /\ Stream'
    BY <1>1, <1>2, <2>1, <2>6, PollInPlace DEF Poll, logRows
  <2> QED
    BY <1>1, <2>1, <2>2, <2>3, <2>4, <2>5, <2>6 DEF Next, RaceInv
<1> QED
  BY <1>4, <1>5

\* OnlyRacesHideEntries: what gets into the log while it is watched is shown, once and in
\* the order of the ids; but for what was committed behind an entry with a greater id, by a
\* process beside, and what was pushed off the page by newer entries.  Nothing else is
\* missed, whatever fails and whoever inserts.
THEOREM NothingIsMissed == RaceSpec => []OnlyRacesHideEntries
<1>1. RaceInv => OnlyRacesHideEntries
  BY DEF RaceInv
<1> QED
  BY <1>1, RaceInitially, RaceKeeps, PTL DEF RaceSpec

-----------------------------------------------------------------------------
(* Listing.                                                                *)

\* An entry is on the page; it has been received, or is on the page.
OnPage(e) == \E i \in DOMAIN page : page[i] = e
Entered(e) == Received(e) \/ OnPage(e)

\* An entry does not come after a row: not a later key, and a row not after this one.
NotAfter(e, r) == e.key <= r.key /\ (e.id # None => e = r \/ Before(e, r))

\* A common prefix is that of a group; a row of a group is no entry.
Proper(e) == IF e.id = None THEN delimiter /\ GroupOf[e.key] = e.key ELSE GroupIn(e) = None

\* What the steps of the two listings leave alone.
Shape ==
    /\ TypeOK
    /\ call = "objects" =>
        /\ skipping = NoRow /\ last = NoRow
        /\ \A r \in rows : r.id = 1
        /\ \A i \in DOMAIN batch : batch[i].id = 1
    /\ call = "versions" => (page = <<>> <=> last = NoRow) /\ pc # "more"
    /\ pc # "take" => batch = <<>>
    /\ pc = "more" => page # <<>>
    /\ pc = "done" => page = <<>>
    /\ skipping # NoRow => page = <<>> /\ pc # "done"

\* The rows of a batch are in order, and behind the cursor.
Sorted ==
    /\ \A i, j \in DOMAIN batch : i < j => Before(batch[i], batch[j])
    /\ \A i \in DOMAIN batch :
        /\ batch[i].key \in Wanted
        /\ skipping = NoRow => batch[i].key >= cursor
        /\ call = "objects" => batch[i].key > cursor

\* No entry is beyond the place where the listing stands: the row it looks for, the
\* row the page ends with, the cursor with the batch that lies before it.
Passed ==
    /\ \A e \in Entry : Entered(e) => Proper(e)
    /\ skipping # NoRow => \A e \in Entry : Entered(e) => NotAfter(e, skipping)
    /\ last # NoRow =>
        /\ last.key <= cursor
        /\ \A i \in DOMAIN batch : Before(last, batch[i])
        /\ \A e \in Entry : Entered(e) => NotAfter(e, last)
    /\ skipping = NoRow /\ pc # "done" =>
        \A e \in Entry : Entered(e) =>
            /\ e.key <= cursor
            /\ call = "objects" /\ e.id = None => EndOfGroup(e.key) <= cursor
            /\ e.id # None => \A i \in DOMAIN batch : Before(e, batch[i])
    /\ call = "objects" /\ page # <<>> => cursor = PreviousCursor

\* What has been received and the page behind it are in order; the page repeats none.
Ordered ==
    /\ InOrder
    /\ \A i \in DOMAIN got, j \in DOMAIN page : got[i].key <= page[j].key
    /\ \A i, j \in DOMAIN page : i < j => page[i].key <= page[j].key
    /\ \A j \in DOMAIN page : call = "objects" \/ page[j].id # None => ~Received(page[j])

\* The inductive invariant of ListSpec.
OrderInv == Shape /\ Sorted /\ Passed /\ Ordered

\* An entry stands for a row: itself, or its group.
Shows(e, s) == e = s \/ (GroupIn(s) # None /\ e = Group(GroupIn(s)))

\* A row has been entered, is in the batch, or is still ahead of the listing.
Covered(s) == \E e \in Entry : Entered(e) /\ Shows(e, s)
InBatch(s) == \E i \in DOMAIN batch : batch[i] = s
Ahead(s) ==
    /\ pc # "done"
    /\ s.key > cursor /\ \A i \in DOMAIN batch : batch[i].key < s.key
    /\ pc = "take" => ~short \/ (call = "objects" /\ Jumped /\ batch = <<>>)

\* The rows that a listing owes its client.
Due == {s \in stable : s.key \in Wanted \cap Shown}

\* Each of them is covered or to come, and those up to the row that is looked for are.
Coverage ==
    /\ \A s \in Due : Covered(s) \/ InBatch(s) \/ Ahead(s)
    /\ skipping # NoRow => \A s \in Due : s = skipping \/ Before(s, skipping) => Covered(s)

\* Versions: the row that is looked for exists, and the query for it finds it.
MarkerKept ==
    call = "versions" =>
        /\ \A i \in DOMAIN batch : batch[i] \in rows
        /\ {last, skipping} \subseteq {r \in rows : r.key \in Wanted} \cup {NoRow}
        /\ skipping # NoRow => /\ pc = "fetch" => cursor = skipping.key - 1
                               /\ pc = "take" => InBatch(skipping)

\* A query of versions does not end within the history of a key.
HistoriesWhole ==
    call = "versions" /\ pc = "fetch" =>
        LET found == Query(VersionBatch)
        IN  \A i \in DOMAIN found, s \in Behind(cursor) :
                found[i].key = s.key => \E j \in DOMAIN found : found[j] = s

\* The inductive invariants of what is skipped: of objects, and of both listings when
\* the marker stays.
ObjectsInv == OrderInv /\ (call = "objects" => Coverage)
CoverInv == OrderInv /\ Coverage /\ MarkerKept

-----------------------------------------------------------------------------
(* Places in an order, the batch of a query, the visible entries of a page. *)

\* In a finite set that an order orders, each place is taken, by one element.
LEMMA Places ==
    ASSUME NEW S, IsFiniteSet(S), NEW R,
           \A u, v \in S : <<u, v>> \in R \/ <<v, u>> \in R,
           \A u, v \in S : <<u, v>> \in R /\ <<v, u>> \in R => u = v,
           \A u, v, w \in S : <<u, v>> \in R /\ <<v, w>> \in R => <<u, w>> \in R
    PROVE  LET place(v) == Cardinality({u \in S : <<u, v>> \in R})
           IN  /\ Cardinality(S) \in Nat
               /\ \A v \in S : place(v) \in 1..Cardinality(S)
               /\ \A i \in 1..Cardinality(S) : \E v \in S : place(v) = i
               /\ \A u, v \in S : place(u) = place(v) => u = v
               /\ \A u, v \in S : <<u, v>> \in R /\ u # v => place(u) < place(v)
<1> DEFINE Upto(v) == {u \in S : <<u, v>> \in R}
           k == Cardinality(S)
           place(v) == Cardinality(Upto(v))
<1>1. IsFiniteSet(S) /\ k \in Nat
  BY FS_CardinalityType
<1>2. \A v \in S : IsFiniteSet(Upto(v)) /\ place(v) \in Nat /\ place(v) <= k
  BY <1>1, FS_Subset, FS_CardinalityType
<1>3. \A v \in S : v \in Upto(v)
  OBVIOUS
<1>4. \A v \in S : place(v) \in 1..k
  <2>1. SUFFICES ASSUME NEW v \in S PROVE place(v) # 0
    BY <1>1, <1>2
  <2> QED
    BY <1>2, <1>3, FS_EmptySet
<1>5. ASSUME NEW u \in S, NEW v \in S, <<u, v>> \in R, u # v PROVE place(u) < place(v)
  <2>1. Upto(u) \subseteq Upto(v)
    BY <1>5
  <2>2. v \in Upto(v) /\ v \notin Upto(u)
    BY <1>3, <1>5
  <2>3. Upto(u) # Upto(v)
    BY <2>2
  <2> HIDE DEF Upto
  <2> QED
    BY <1>2, <2>1, <2>3, FS_Subset
<1> HIDE DEF Upto, k
<1> HIDE DEF place
<1>6. \A u, v \in S : place(u) = place(v) => u = v
  <2>1. ASSUME NEW u \in S, NEW v \in S, u # v PROVE place(u) < place(v) \/ place(v) < place(u)
    BY <1>5, <2>1
  <2>2. \A v \in S : place(v) \in Int
    BY <1>2
  <2> QED
    BY <2>1, <2>2
<1>7. \A i \in 1..k : \E v \in S : place(v) = i
  <2> DEFINE g == [v \in S |-> place(v)]
  <2>1. g \in [S -> 1..k] /\ \A u, v \in S : g[u] = g[v] => u = v
    BY <1>4, <1>6
  <2>2. g \in Injection(S, 1..k)
    <3> HIDE DEF g
    <3> QED
      BY <2>1 DEF Injection, IsInjective
  <2>3. IsFiniteSet(1..k) /\ Cardinality(1..k) = k
    BY <1>1, FS_Interval
  <2>4. g \in Surjection(S, 1..k)
    BY <2>2, <2>3, FS_Injection, <1>1 DEF k
  <2>5. \A i \in 1..k : \E v \in S : g[v] = i
    BY <2>4 DEF Surjection
  <2> QED
    BY <2>5
<1>8. \A u, v \in S : <<u, v>> \in R /\ u # v => place(u) < place(v)
  BY <1>5
<1> QED
  BY <1>1, <1>4, <1>6, <1>7, <1>8 DEF k, Upto, place

\* The constants are sizes, and a group is a range of keys.
LEMMA Sizes ==
    /\ N \in Nat \ {0} /\ Versions \in Nat \ {0} /\ MaxKeys \in Nat \ {0} /\ MaxWrites \in Nat
    /\ ListBatch \in Nat \ {0} /\ VersionBatch \in Nat \ {0}
    /\ Keys = 1..N /\ None = 0 /\ NoRow = [key |-> 0, id |-> 0]
  BY SizesAssumption DEF Keys, None, NoRow, Group

\* Where a group begins and ends.
LEMMA GroupRange ==
    ASSUME NEW k \in Keys, NEW g, g = GroupOf[k], g # None
    PROVE  /\ g \in Keys /\ g <= k /\ GroupOf[g] = g
           /\ EndOfGroup(g) \in Keys /\ k <= EndOfGroup(g)
           /\ \A j \in Keys : g <= j /\ j <= EndOfGroup(g) => GroupOf[j] = g
<1> DEFINE S == {j \in Keys : GroupOf[j] = g}
           e == EndOfGroup(g)
<1>1. g \in Keys /\ g <= k
  BY KeysAssumption DEF None
<1>2. \A x \in S : x \in 1..N /\ x \in Nat
  BY Sizes
<1>3. \E m \in S : \A j \in S : j <= m
  <2> DEFINE T == {N - j : j \in S}
  <2>1. T \subseteq Nat /\ T # {}
    BY <1>2, Sizes
  <2> HIDE DEF T
  <2>2. PICK t \in T : \A s \in T : ~(<<s, t>> \in OpToRel(<, Nat))
    BY <2>1, NatLessThanWellFounded, WFMin
  <2>3. \A s \in T : t <= s
    <3>1. \A s \in T : ~(s < t)
      BY <2>1, <2>2, Zenon DEF OpToRel
    <3> QED
      BY <2>1, <3>1
  <2>4. PICK m \in S : t = N - m
    BY DEF T
  <2>5. \A j \in S : N - m <= N - j
    BY <2>3, <2>4 DEF T
  <2> QED
    BY <2>5, <1>2, Sizes
<1>4. e \in Keys /\ GroupOf[e] = g /\ \A j \in S : j <= e
  BY <1>3 DEF EndOfGroup
<1>5. \A j \in g..e : GroupOf[j] = g
  BY <1>1, <1>4, KeysAssumption
<1>6. k \in Int /\ g \in Int /\ e \in Int /\ k <= e
  BY <1>1, <1>4, Sizes
<1>7. \A j \in Keys : g <= j /\ j <= e => GroupOf[j] = g
  BY <1>5, <1>6, Sizes
<1>8. GroupOf[g] = g
  BY <1>1, <1>6, <1>7
<1> HIDE DEF S, e
<1> QED
  BY <1>1, <1>4, <1>6, <1>7, <1>8 DEF e

\* The order of the rows.
LEMMA Sequence ==
    /\ \A a, b \in Row : a = b \/ Before(a, b) \/ Before(b, a)
    /\ \A a, b \in Row : ~(Before(a, b) /\ Before(b, a)) /\ ~Before(a, a)
    /\ \A a, b, c \in Row : Before(a, b) /\ Before(b, c) => Before(a, c)
    /\ \A a, b, c \in Row : ~Before(b, a) /\ ~Before(c, b) => ~Before(c, a)
<1>1. \A a \in Row : a.key \in Int /\ a.id \in Int
  BY Sizes DEF Row
<1>2. \A a, b \in Row : a.key = b.key /\ a.id = b.id => a = b
  BY DEF Row
<1> QED
  BY <1>1, <1>2 DEF Before

\* There are finitely many rows.
LEMMA RowsFinite == IsFiniteSet(Row) /\ Cardinality(Row) = N * Versions
<1> DEFINE P == (1..N) \X (1..Versions)
           f == [p \in P |-> [key |-> p[1], id |-> p[2]]]
<1>1. /\ IsFiniteSet(1..N) /\ Cardinality(1..N) = N
      /\ IsFiniteSet(1..Versions) /\ Cardinality(1..Versions) = Versions
  BY Sizes, FS_Interval
<1>2. IsFiniteSet(P) /\ Cardinality(P) = N * Versions
  <2>1. IsFiniteSet(P) /\ Cardinality(P) = Cardinality(1..N) * Cardinality(1..Versions)
    BY <1>1, FS_Product, Zenon
  <2> QED
    BY <1>1, <2>1, Zenon
<1>3. f \in [P -> Row]
  BY Sizes DEF Row
<1>4. \A p, q \in P : f[p] = f[q] => p = q
  OBVIOUS
<1>5. \A r \in Row : \E p \in P : f[p] = r
  <2>1. TAKE r \in Row
  <2>2. <<r.key, r.id>> \in P /\ f[<<r.key, r.id>>] = r
    BY Sizes DEF Row
  <2> QED
    BY <2>2
<1> HIDE DEF f, P
<1>6. f \in Bijection(P, Row)
  BY <1>3, <1>4, <1>5 DEF Bijection, Injection, Surjection, IsInjective
<1> QED
  BY <1>2, <1>6, FS_Bijection, Zenon DEF ExistsBijection

\* Each place among some rows is taken, by one of them.
LEMMA PlaceFacts ==
    ASSUME NEW S, S \subseteq Row
    PROVE  /\ IsFiniteSet(S) /\ Cardinality(S) \in Nat
           /\ \A v \in S : PlaceOf(v, S) \in 1..Cardinality(S)
           /\ \A i \in 1..Cardinality(S) : \E v \in S : PlaceOf(v, S) = i
           /\ \A u, v \in S : PlaceOf(u, S) = PlaceOf(v, S) => u = v
           /\ \A u, v \in S : Before(u, v) <=> PlaceOf(u, S) < PlaceOf(v, S)
<1> DEFINE R == {p \in S \X S : ~Before(p[2], p[1])}
<1>1. IsFiniteSet(S)
  BY RowsFinite, FS_Subset
<1>2. \A u, v \in S : <<u, v>> \in R <=> ~Before(v, u)
  OBVIOUS
<1> HIDE DEF R
<1>3. \A u, v \in S : <<u, v>> \in R \/ <<v, u>> \in R
  BY <1>2, Sequence
<1>4. \A u, v \in S : <<u, v>> \in R /\ <<v, u>> \in R => u = v
  BY <1>2, Sequence
<1>5. \A u, v, w \in S : <<u, v>> \in R /\ <<v, w>> \in R => <<u, w>> \in R
  BY <1>2, Sequence
<1>6. \A v \in S : {u \in S : <<u, v>> \in R} = {u \in S : ~Before(v, u)}
  BY <1>2
<1> DEFINE place(v) == Cardinality({u \in S : <<u, v>> \in R})
<1>7. \A v \in S : place(v) = PlaceOf(v, S)
  BY <1>6 DEF PlaceOf
<1>8. /\ Cardinality(S) \in Nat
      /\ \A v \in S : place(v) \in 1..Cardinality(S)
      /\ \A i \in 1..Cardinality(S) : \E v \in S : place(v) = i
      /\ \A u, v \in S : place(u) = place(v) => u = v
      /\ \A u, v \in S : <<u, v>> \in R /\ u # v => place(u) < place(v)
  BY <1>1, <1>3, <1>4, <1>5, Places
<1> HIDE DEF place
<1>9. ASSUME NEW u \in S, NEW v \in S
      PROVE  Before(u, v) <=> PlaceOf(u, S) < PlaceOf(v, S)
  <2>1. PlaceOf(u, S) \in Int /\ PlaceOf(v, S) \in Int
    BY <1>7, <1>8
  <2>2. \A x, y \in S : Before(x, y) => PlaceOf(x, S) < PlaceOf(y, S)
    <3>1. SUFFICES ASSUME NEW x \in S, NEW y \in S, Before(x, y) PROVE PlaceOf(x, S) < PlaceOf(y, S)
      OBVIOUS
    <3>2. x # y /\ ~Before(y, x)
      BY <3>1, Sequence
    <3>3. place(x) < place(y)
      BY <1>2, <1>8, <3>2
    <3> QED
      BY <1>7, <3>3
  <2>3. Before(v, u) => PlaceOf(v, S) < PlaceOf(u, S)
    BY <2>2
  <2> QED
    BY <2>1, <2>2, <2>3, Sequence
<1> QED
  BY <1>1, <1>7, <1>8, <1>9

\* A query returns rows behind the cursor, in order and no more than the limit, and
\* what it leaves out is behind all that it returns.
LEMMA QueryFacts ==
    ASSUME rows \subseteq Row, NEW limit \in Nat \ {0}
    PROVE  LET q == Query(limit) IN
           /\ q \in Seq(Behind(cursor)) /\ Len(q) <= limit
           /\ \A i, j \in DOMAIN q : i < j => Before(q[i], q[j])
           /\ q = <<>> <=> Behind(cursor) = {}
           /\ \A s \in Behind(cursor) :
                 \/ \E i \in DOMAIN q : q[i] = s
                 \/ Len(q) = limit /\ \A i \in DOMAIN q : Before(q[i], s)
           /\ Cardinality(Behind(cursor)) <= limit => \A s \in Behind(cursor) : \E i \in DOMAIN q : q[i] = s
<1> DEFINE all == Behind(cursor)
           first == {r \in all : PlaceOf(r, all) <= limit}
           k == Cardinality(first)
           q == Query(limit)
<1>1. all \subseteq Row /\ first \subseteq all
  BY DEF Behind
<1>2. q = [i \in 1..k |-> CHOOSE r \in first : PlaceOf(r, first) = i]
  BY DEF Query
<1> HIDE DEF q
<1>3. ASSUME NEW r \in first PROVE PlaceOf(r, first) = PlaceOf(r, all)
  <2>1. \A x \in all : ~Before(r, x) => PlaceOf(x, all) <= PlaceOf(r, all)
    <3>1. \A x \in all : PlaceOf(x, all) \in Int
      BY <1>1, PlaceFacts
    <3> QED
      BY <1>1, PlaceFacts, <3>1
  <2>2. \A x \in all : PlaceOf(x, all) \in Int
    BY <1>1, PlaceFacts
  <2>3. {x \in first : ~Before(r, x)} = {x \in all : ~Before(r, x)}
    BY <2>1, <2>2
  <2> QED
    BY <2>3 DEF PlaceOf
<1>4. /\ k \in Nat
      /\ \A v \in first : PlaceOf(v, first) \in 1..k
      /\ \A i \in 1..k : \E v \in first : PlaceOf(v, first) = i
      /\ \A u, v \in first : PlaceOf(u, first) = PlaceOf(v, first) => u = v
      /\ \A u, v \in first : Before(u, v) <=> PlaceOf(u, first) < PlaceOf(v, first)
  BY <1>1, PlaceFacts
<1>5. /\ Cardinality(all) \in Nat
      /\ \A v \in all : PlaceOf(v, all) \in 1..Cardinality(all)
      /\ \A i \in 1..Cardinality(all) : \E v \in all : PlaceOf(v, all) = i
      /\ \A u, v \in all : Before(u, v) <=> PlaceOf(u, all) < PlaceOf(v, all)
  BY <1>1, PlaceFacts
<1>15. first = {} <=> k = 0
  BY <1>1, PlaceFacts, FS_EmptySet
<1> HIDE DEF all, k
<1>6. \A i \in 1..k : q[i] \in first /\ PlaceOf(q[i], first) = i
  BY <1>2, <1>4
<1>7. \A r \in first : q[PlaceOf(r, first)] = r
  BY <1>4, <1>6
<1>8. q \in Seq(all) /\ Len(q) = k /\ DOMAIN q = 1..k
  <2>1. q \in [1..k -> all]
    BY <1>1, <1>2, <1>6
  <2> HIDE DEF first
  <2> QED
    BY <1>4, <2>1
<1>9. k <= limit
  <2>1. SUFFICES ASSUME k # 0 PROVE k <= limit
    BY <1>4
  <2>2. PICK v \in first : PlaceOf(v, first) = k
    BY <1>4, <2>1
  <2> QED
    BY <2>2, <1>3
<1>10. \A i, j \in 1..k : i < j => Before(q[i], q[j])
  BY <1>4, <1>6
<1>11. ASSUME NEW s \in all, s \notin first
       PROVE  Len(q) = limit /\ \A i \in 1..k : Before(q[i], s)
  <2>1. PlaceOf(s, all) > limit /\ Cardinality(all) > limit
    BY <1>5, <1>11
  <2>2. PICK v \in all : PlaceOf(v, all) = limit
    BY <1>5, <2>1
  <2>3. v \in first
    BY <2>2
  <2>4. limit <= k
    <3>1. PlaceOf(v, first) = limit
      BY <2>2, <2>3, <1>3
    <3> HIDE DEF first
    <3> QED
      BY <2>3, <3>1, <1>4
  <2>5. \A r \in first : PlaceOf(r, all) <= limit /\ PlaceOf(r, all) \in Int /\ PlaceOf(s, all) \in Int
    BY <1>5, <1>1, <1>11
  <2>6. \A r \in first : Before(r, s)
    BY <2>1, <2>5, <1>1, <1>5, <1>11
  <2> HIDE DEF first
  <2>7. \A i \in 1..k : Before(q[i], s)
    BY <1>6, <2>6
  <2>8. k = limit
    BY <1>4, <1>9, <2>4
  <2> QED
    BY <1>8, <2>7, <2>8
<1>12. q = <<>> <=> all = {}
  <2>1. all # {} => first # {}
    <3>1. SUFFICES ASSUME all # {} PROVE first # {}
      OBVIOUS
    <3>2. \E v \in all : PlaceOf(v, all) = 1
      BY <3>1, <1>5
    <3> QED
      BY <3>2
  <2>3. q = <<>> <=> k = 0
    BY <1>4, <1>8
  <2> QED
    BY <1>1, <1>15, <2>1, <2>3
<1>13. Cardinality(all) <= limit => first = all
  BY <1>5
<1>14. \A r \in first : \E i \in 1..k : q[i] = r
  BY <1>4, <1>7
<1> QED
  BY <1>8, <1>9, <1>10, <1>11, <1>12, <1>13, <1>14 DEF all, q

\* The entries at some places of the page: those, in the order of the page.
LEMMA EntriesFacts ==
    ASSUME page \in Seq(Entry), NEW S, S \subseteq DOMAIN page
    PROVE  /\ EntriesAt(S) \in Seq(Entry)
           /\ \A n \in DOMAIN EntriesAt(S) : \E i \in S : EntriesAt(S)[n] = page[i]
           /\ \A i \in S : \E n \in DOMAIN EntriesAt(S) : EntriesAt(S)[n] = page[i]
           /\ \A n, m \in DOMAIN EntriesAt(S) : n < m =>
                 \E i, j \in S : i < j /\ EntriesAt(S)[n] = page[i] /\ EntriesAt(S)[m] = page[j]
<1> DEFINE R == {p \in S \X S : p[1] <= p[2]}
           k == Cardinality(S)
           place(i) == Cardinality({j \in S : j <= i})
           at(n) == CHOOSE i \in S : place(i) = n
           e == EntriesAt(S)
<1>1. DOMAIN page = 1..Len(page) /\ Len(page) \in Nat
  OBVIOUS
<1>2. IsFiniteSet(S) /\ S \subseteq Nat
  <2>1. IsFiniteSet(1..Len(page))
    BY <1>1, FS_Interval
  <2>2. IsFiniteSet(S)
    BY <1>1, <2>1, FS_Subset
  <2>3. \A i \in S : i \in 1..Len(page)
    BY <1>1
  <2> QED
    BY <1>1, <2>2, <2>3
<1>3. \A i, j \in S : <<i, j>> \in R <=> i <= j
  OBVIOUS
<1> HIDE DEF R
<1>4. /\ \A i, j \in S : <<i, j>> \in R \/ <<j, i>> \in R
      /\ \A i, j \in S : <<i, j>> \in R /\ <<j, i>> \in R => i = j
      /\ \A i, j, l \in S : <<i, j>> \in R /\ <<j, l>> \in R => <<i, l>> \in R
  BY <1>2, <1>3
<1>5. \A i \in S : {j \in S : <<j, i>> \in R} = {j \in S : j <= i}
  BY <1>3
<1> DEFINE rank(i) == Cardinality({j \in S : <<j, i>> \in R})
<1>6. \A i \in S : rank(i) = place(i)
  BY <1>5
<1>7. /\ k \in Nat
      /\ \A i \in S : rank(i) \in 1..k
      /\ \A n \in 1..k : \E i \in S : rank(i) = n
      /\ \A i, j \in S : rank(i) = rank(j) => i = j
      /\ \A i, j \in S : <<i, j>> \in R /\ i # j => rank(i) < rank(j)
  BY <1>2, <1>4, Places
<1> HIDE DEF rank, place, k
<1>8. /\ \A i \in S : place(i) \in 1..k
      /\ \A n \in 1..k : \E i \in S : place(i) = n
      /\ \A i, j \in S : place(i) = place(j) => i = j
      /\ \A i, j \in S : i < j => place(i) < place(j)
  <2>1. \A i, j \in S : i < j => <<i, j>> \in R /\ i # j
    BY <1>2, <1>3
  <2>2. \A i \in S : place(i) \in 1..k
    BY <1>6, <1>7
  <2>3. \A n \in 1..k : \E i \in S : place(i) = n
    BY <1>6, <1>7
  <2>4. \A i, j \in S : place(i) = place(j) => i = j
    BY <1>6, <1>7
  <2>5. \A i, j \in S : i < j => place(i) < place(j)
    <3>1. SUFFICES ASSUME NEW i \in S, NEW j \in S, i < j PROVE place(i) < place(j)
      OBVIOUS
    <3>2. rank(i) < rank(j)
      BY <1>7, <2>1, <3>1
    <3> QED
      BY <1>6, <3>2
  <2> QED
    BY <2>2, <2>3, <2>4, <2>5
<1>9. e = [n \in 1..k |-> page[at(n)]]
  BY DEF EntriesAt, k, place
<1>10. \A n \in 1..k : at(n) \in S /\ place(at(n)) = n
  BY <1>8
<1>11. \A i \in S : at(place(i)) = i
  BY <1>8
<1> HIDE DEF at, e
<1>12. e \in Seq(Entry) /\ DOMAIN e = 1..k
  <2>1. \A n \in 1..k : page[at(n)] \in Entry
    BY <1>10
  <2> QED
    BY <1>7, <1>9, <2>1
<1>13. \A n, m \in 1..k : n < m => at(n) < at(m)
  <2>1. SUFFICES ASSUME NEW n \in 1..k, NEW m \in 1..k, n < m PROVE at(n) < at(m)
    OBVIOUS
  <2>2. at(n) \in S /\ at(m) \in S /\ place(at(n)) = n /\ place(at(m)) = m
    BY <1>10
  <2>3. at(n) \in Int /\ at(m) \in Int /\ n \in Int /\ m \in Int
    BY <1>2, <1>7, <2>2
  <2> QED
    BY <1>8, <2>1, <2>2, <2>3
<1>14. \A n \in 1..k : e[n] = page[at(n)]
  BY <1>9
<1>15. \A i \in S : place(i) \in 1..k /\ e[place(i)] = page[i]
  BY <1>8, <1>11, <1>14
<1> QED
  BY <1>10, <1>12, <1>13, <1>14, <1>15 DEF e

\* What a client receives with a page: the entries that it may see.
LEMMA Delivered ==
    ASSUME page \in Seq(Entry), got \in Seq(Entry), again \in BOOLEAN, Deliver
    PROVE  /\ got' \in Seq(Entry) /\ again' \in BOOLEAN
           /\ \A e \in Entry : Received(e)' <=> Received(e) \/ (OnPage(e) /\ Allowed(e))
           /\ Ordered => InOrder'
<1> DEFINE allowed == {i \in DOMAIN page : Allowed(page[i])}
           known == {i \in allowed : Received(page[i])}
           new == EntriesAt(allowed \ known)
<1>1. got' = got \o new /\ again' = (again \/ \E i \in known : call = "objects" \/ page[i].id # None)
  BY DEF Deliver
<1>2. allowed \ known \subseteq DOMAIN page
  OBVIOUS
<1>3. /\ new \in Seq(Entry)
      /\ \A n \in DOMAIN new : \E i \in allowed \ known : new[n] = page[i]
      /\ \A i \in allowed \ known : \E n \in DOMAIN new : new[n] = page[i]
      /\ \A n, m \in DOMAIN new : n < m =>
            \E i, j \in allowed \ known : i < j /\ new[n] = page[i] /\ new[m] = page[j]
  BY <1>2, EntriesFacts
<1> HIDE DEF new
<1>4. /\ got' \in Seq(Entry) /\ Len(got') = Len(got) + Len(new)
      /\ DOMAIN got = 1..Len(got) /\ DOMAIN new = 1..Len(new) /\ DOMAIN got' = 1..Len(got')
      /\ Len(got) \in Nat /\ Len(new) \in Nat
  BY <1>1, <1>3
<1>5. \A i \in DOMAIN got : i \in DOMAIN got' /\ got'[i] = got[i]
  BY <1>1, <1>3, <1>4
<1>6. \A n \in DOMAIN new : Len(got) + n \in DOMAIN got' /\ got'[Len(got) + n] = new[n]
  BY <1>1, <1>3, <1>4
<1>7. \A i \in DOMAIN got' : i \in DOMAIN got \/ (i - Len(got) \in DOMAIN new /\ got'[i] = new[i - Len(got)])
  <2>1. SUFFICES ASSUME NEW i \in DOMAIN got', i \notin DOMAIN got
                 PROVE  i - Len(got) \in DOMAIN new /\ got'[i] = new[i - Len(got)]
    OBVIOUS
  <2>2. i - Len(got) \in DOMAIN new /\ Len(got) + (i - Len(got)) = i
    BY <1>4, <2>1
  <2> QED
    BY <1>6, <2>2
<1>8. again' \in BOOLEAN
  BY <1>1
<1>9. ASSUME NEW e \in Entry
      PROVE  Received(e)' <=> Received(e) \/ (OnPage(e) /\ Allowed(e))
  <2>1. Received(e)' <=> \E i \in DOMAIN got' : got'[i] = e
    BY DEF Received
  <2>2. ASSUME Received(e) PROVE \E i \in DOMAIN got' : got'[i] = e
    BY <1>5, <2>2 DEF Received
  <2>3. ASSUME OnPage(e), Allowed(e), ~Received(e) PROVE \E i \in DOMAIN got' : got'[i] = e
    <3>1. PICK i \in DOMAIN page : page[i] = e
      BY <2>3 DEF OnPage
    <3>2. i \in allowed \ known
      BY <2>3, <3>1
    <3> QED
      BY <1>3, <1>6, <3>1, <3>2
  <2>4. ASSUME NEW i \in DOMAIN got', got'[i] = e PROVE Received(e) \/ (OnPage(e) /\ Allowed(e))
    <3>1. CASE i \in DOMAIN got
      BY <1>5, <2>4, <3>1 DEF Received
    <3>2. CASE i \notin DOMAIN got
      <4>1. PICK j \in allowed \ known : e = page[j]
        BY <1>3, <1>7, <2>4, <3>2
      <4> QED
        BY <4>1 DEF OnPage
    <3> QED
      BY <3>1, <3>2
  <2> QED
    BY <2>1, <2>2, <2>3, <2>4
<1>10. ASSUME Ordered PROVE InOrder'
  <2>1. ~again'
    BY <1>1, <1>10 DEF Ordered, InOrder
  <2>2. ASSUME NEW i \in DOMAIN got', NEW j \in DOMAIN got', i < j
        PROVE  got'[i].key <= got'[j].key
    <3>1. CASE j \in DOMAIN got
      <4>1. i \in DOMAIN got
        BY <1>4, <2>2, <3>1
      <4> QED
        BY <1>5, <1>10, <2>2, <3>1, <4>1 DEF Ordered, InOrder
    <3>2. CASE j \notin DOMAIN got /\ i \in DOMAIN got
      <4>1. PICK m \in allowed \ known : got'[j] = page[m]
        BY <1>3, <1>7, <3>2
      <4> QED
        BY <1>5, <1>10, <3>2, <4>1 DEF Ordered
    <3>3. CASE j \notin DOMAIN got /\ i \notin DOMAIN got
      <4> DEFINE x == i - Len(got)
                 y == j - Len(got)
      <4>1. x \in DOMAIN new /\ y \in DOMAIN new /\ x < y /\ got'[i] = new[x] /\ got'[j] = new[y]
        BY <1>4, <1>7, <2>2, <3>3
      <4> HIDE DEF x, y
      <4>2. \E u, v \in allowed \ known : u < v /\ new[x] = page[u] /\ new[y] = page[v]
        BY <1>3, <4>1
      <4> QED
        BY <1>10, <4>1, <4>2 DEF Ordered
    <3> QED
      BY <3>1, <3>2, <3>3
  <2> QED
    BY <2>1, <2>2 DEF InOrder
<1> QED
  BY <1>4, <1>8, <1>9, <1>10

-----------------------------------------------------------------------------
(* A listing is in order.                                                  *)

\* Entries are rows and groups.
LEMMA Entries ==
    /\ \A e \in Entry : e.key \in Keys /\ e.key \in Int /\ e.id \in Int
    /\ \A e \in Entry : e.id # None <=> e \in Row
    /\ \A r \in Row : r \in Entry /\ r.id # None /\ r # NoRow /\ r.key \in 1..N /\ r.id \in Int
    /\ \A g \in Keys : Group(g) \in Entry /\ Group(g).key = g /\ Group(g).id = None
    /\ \A e \in Entry : e.id = None => e = Group(e.key)
<1>1. \A r \in Row : r.key \in 1..N /\ r.id \in 1..Versions
  BY Sizes DEF Row
<1>2. \A r \in Row : r.key \in Int /\ r.id \in Int /\ r.id # 0 /\ r # NoRow
  BY <1>1, Sizes
<1>3. \A g \in Keys : Group(g).key = g /\ Group(g).id = 0 /\ g \in Int
  BY Sizes DEF Group
<1>4. \A e \in Entry : e \in Row \/ \E g \in Keys : e = Group(g)
  BY DEF Entry
<1> QED
  BY <1>1, <1>2, <1>3, <1>4, Sizes DEF Entry

\* What comes no later than a row of a group comes no later than the group.
LEMMA BeforeGroup ==
    ASSUME NEW r \in Row, GroupIn(r) # None, NEW e \in Entry, Proper(e), e.key <= r.key
    PROVE  e.key <= GroupIn(r)
<1> DEFINE g == GroupIn(r)
<1>1. delimiter /\ g = GroupOf[r.key] /\ r.key \in Keys /\ g # None
  BY Entries, Sizes DEF GroupIn
<1> HIDE DEF g
<1>2. /\ g \in Keys /\ r.key <= EndOfGroup(g) /\ EndOfGroup(g) \in Keys
      /\ \A j \in Keys : g <= j /\ j <= EndOfGroup(g) => GroupOf[j] = g
  BY <1>1, GroupRange
<1>3. g \in Int /\ r.key \in Int /\ EndOfGroup(g) \in Int /\ e.key \in Int /\ e.key \in Keys
  BY <1>1, <1>2, Entries, Sizes
<1>4. SUFFICES ASSUME e.key > g PROVE FALSE
  BY <1>3 DEF g
<1>5. GroupOf[e.key] = g
  BY <1>2, <1>3, <1>4
<1> QED
  BY <1>1, <1>3, <1>4, <1>5 DEF Proper, GroupIn

\* The client has a page, and the listing goes on from a place behind all of it.
LEMMA PageEnds ==
    ASSUME OrderInv, Deliver, UNCHANGED <<rows, call, delimiter, stable, writes>>,
           NEW from \in 0..N, NEW marker \in Row \cup {NoRow},
           pc' \in {"fetch", "done"}, cursor' = from, skipping' = marker,
           batch' = <<>>, short' = FALSE, page' = <<>>, last' = NoRow,
           marker # NoRow => /\ call = "versions" /\ pc' = "fetch"
                             /\ \A e \in Entry : Entered(e) => NotAfter(e, marker),
           marker = NoRow /\ pc' # "done" =>
               \A e \in Entry : Entered(e) =>
                   e.key <= from /\ (call = "objects" /\ e.id = None => EndOfGroup(e.key) <= from)
    PROVE  OrderInv'
<1>1. /\ got' \in Seq(Entry) /\ again' \in BOOLEAN /\ InOrder'
      /\ \A e \in Entry : Received(e)' <=> Received(e) \/ (OnPage(e) /\ Allowed(e))
  BY Delivered DEF OrderInv, Shape, TypeOK
<1>2. DOMAIN batch' = {} /\ DOMAIN page' = {} /\ batch' \in Seq(Row) /\ page' \in Seq(Entry) /\ Len(page') = 0
  OBVIOUS
<1>3. TypeOK'
  <2>1. rows' \subseteq Row /\ call' \in {"objects", "versions"} /\ delimiter' \in BOOLEAN
        /\ stable' \subseteq rows' /\ writes' \in 0..MaxWrites
    BY DEF OrderInv, Shape, TypeOK
  <2>2. pc' \in {"fetch", "take", "more", "done"} /\ short' \in BOOLEAN /\ cursor' \in 0..N
        /\ skipping' \in Row \cup {NoRow} /\ last' \in Row \cup {NoRow}
    OBVIOUS
  <2>3. Len(page') <= MaxKeys
    BY <1>2, Sizes
  <2> QED
    BY <1>1, <1>2, <2>1, <2>2, <2>3 DEF TypeOK
<1>4. Shape'
  BY <1>2, <1>3 DEF OrderInv, Shape
<1>5. Sorted'
  BY <1>2 DEF Sorted
<1>6. \A e \in Entry : Entered(e)' => Entered(e)
  BY <1>1, <1>2 DEF Entered, OnPage
<1>7. \A e \in Entry : Proper(e)' <=> Proper(e)
  BY DEF Proper, GroupIn
<1>8. \A e \in Entry : Entered(e)' => Proper(e)'
  BY <1>6, <1>7 DEF OrderInv, Passed
<1>9. Passed'
  BY <1>2, <1>6, <1>8 DEF Passed
<1>10. Ordered'
  BY <1>1, <1>2 DEF Ordered
<1> QED
  BY <1>4, <1>5, <1>9, <1>10 DEF OrderInv

\* The last page.
LEMMA FinishOrder ==
    ASSUME OrderInv, Finish, UNCHANGED <<rows, call, delimiter, stable, writes>>
    PROVE  OrderInv'
<1>1. 0 \in 0..N /\ NoRow \in Row \cup {NoRow}
  BY Sizes
<1> QED
  BY <1>1, PageEnds DEF Finish

\* A page that ends behind its last entry.
LEMMA NextPageOrder ==
    ASSUME OrderInv, pc # "done", skipping = NoRow, UNCHANGED <<rows, call, delimiter, stable, writes>>,
           NextPage(cursor, NoRow)
    PROVE  OrderInv'
<1>1. PICK from \in 0..N : from = cursor
  BY DEF OrderInv, Shape, TypeOK
<1>2. NextPage(from, NoRow)
  BY <1>1
<1>3. NoRow \in Row \cup {NoRow}
  OBVIOUS
<1>4. \A e \in Entry : Entered(e) =>
          e.key <= from /\ (call = "objects" /\ e.id = None => EndOfGroup(e.key) <= from)
  BY <1>1 DEF OrderInv, Passed
<1> HIDE DEF NoRow
<1> QED
  BY <1>2, <1>3, <1>4, PageEnds DEF NextPage

\* A query.
LEMMA FetchOrder == OrderInv /\ Fetch => OrderInv'
<1> SUFFICES ASSUME OrderInv, Fetch PROVE OrderInv'
  OBVIOUS
<1> DEFINE lim == IF call = "objects" THEN ListBatch ELSE VersionBatch
<1>1. PICK limit \in Nat \ {0} : limit = lim
  BY Sizes
<1>2. PICK found : found = Query(limit)
  OBVIOUS
<1>3. rows \subseteq Row /\ cursor \in 0..N /\ cursor \in Int
  BY Sizes DEF OrderInv, Shape, TypeOK
<1>4. /\ found \in Seq(Behind(cursor))
      /\ \A i, j \in DOMAIN found : i < j => Before(found[i], found[j])
  BY <1>2, <1>3, QueryFacts
<1>5. CASE found = <<>>
  <2>1. Finish /\ UNCHANGED <<rows, call, delimiter, stable, writes>>
    BY <1>1, <1>2, <1>5 DEF Fetch
  <2> QED
    BY <2>1, FinishOrder
<1>6. CASE found # <<>>
  <2>1. /\ pc = "fetch" /\ pc' = "take" /\ batch' = found /\ short' \in BOOLEAN
        /\ UNCHANGED <<cursor, skipping, page, last, got, again, rows, call, delimiter, stable, writes>>
    BY <1>1, <1>2, <1>6 DEF Fetch
  <2>2. \A i \in DOMAIN found : found[i] \in rows /\ found[i].key \in Wanted /\ found[i].key > cursor
    BY <1>4 DEF Behind
  <2>3. found \in Seq(Row)
    BY <1>3, <1>4 DEF Behind
  <2>4. TypeOK'
    BY <2>1, <2>3 DEF OrderInv, Shape, TypeOK
  <2>5. Shape'
    BY <2>1, <2>2, <2>4 DEF OrderInv, Shape
  <2>6. \A i \in DOMAIN found : found[i] \in Row /\ found[i].key \in Int
    BY <2>3, Entries, Sizes
  <2>7. Sorted'
    BY <1>3, <1>4, <2>1, <2>2, <2>6 DEF Sorted
  <2>8. \A e \in Entry : (Entered(e)' <=> Entered(e)) /\ (Proper(e)' <=> Proper(e))
    BY <2>1 DEF Entered, OnPage, Received, Proper, GroupIn
  <2>9. \A e \in Row : e.key <= cursor => \A i \in DOMAIN found : Before(e, found[i])
    BY <1>3, <2>2, <2>6, Entries, Sizes DEF Before
  <2>10. last # NoRow /\ last.key <= cursor => \A i \in DOMAIN found : Before(last, found[i])
    BY <2>9 DEF OrderInv, Shape, TypeOK
  <2>11. skipping = NoRow => \A e \in Entry : Entered(e) =>
            /\ e.key <= cursor
            /\ call = "objects" /\ e.id = None => EndOfGroup(e.key) <= cursor
            /\ e.id # None => \A i \in DOMAIN found : Before(e, found[i])
    BY <2>1, <2>9, Entries DEF OrderInv, Passed
  <2>12. PreviousCursor' = PreviousCursor
    BY <2>1 DEF PreviousCursor
  <2>13. /\ \A e \in Entry : Entered(e)' => Proper(e)'
         /\ skipping' # NoRow => \A e \in Entry : Entered(e)' => NotAfter(e, skipping')
         /\ last' # NoRow =>
                /\ last'.key <= cursor'
                /\ \A i \in DOMAIN batch' : Before(last', batch'[i])
                /\ \A e \in Entry : Entered(e)' => NotAfter(e, last')
         /\ call' = "objects" /\ page' # <<>> => cursor' = PreviousCursor'
    BY <2>1, <2>8, <2>10, <2>12 DEF OrderInv, Passed
  <2>14. Passed'
    BY <2>1, <2>8, <2>11, <2>13 DEF Passed
  <2>15. Ordered'
    BY <2>1 DEF OrderInv, Ordered, InOrder, Received
  <2> QED
    BY <2>5, <2>7, <2>14, <2>15 DEF OrderInv
<1> QED
  BY <1>5, <1>6

\* A new entry at the end of the page.
LEMMA PageAppended ==
    ASSUME page \in Seq(Entry), NEW e \in Entry, page' = Append(page, e)
    PROVE  /\ page' \in Seq(Entry) /\ page' # <<>> /\ Len(page') = Len(page) + 1
           /\ page'[Len(page')] = e
           /\ \A i \in DOMAIN page : i \in DOMAIN page' /\ page'[i] = page[i]
           /\ \A i \in DOMAIN page' : i \in DOMAIN page \/ (i = Len(page') /\ page'[i] = e)
           /\ \A i \in DOMAIN page : i < Len(page')
           /\ \A x : OnPage(x)' <=> OnPage(x) \/ x = e
<1>1. /\ DOMAIN page = 1..Len(page) /\ Len(page) \in Nat /\ page' \in Seq(Entry)
      /\ Len(page') = Len(page) + 1 /\ DOMAIN page' = 1..Len(page')
      /\ page'[Len(page) + 1] = e /\ \A i \in 1..Len(page) : page'[i] = page[i]
  OBVIOUS
<1>2. page' # <<>>
  BY <1>1
<1>3. \A i \in DOMAIN page : i \in DOMAIN page' /\ page'[i] = page[i] /\ i < Len(page')
  BY <1>1
<1>4. \A i \in DOMAIN page' : i \in DOMAIN page \/ (i = Len(page') /\ page'[i] = e)
  BY <1>1
<1>5. Len(page') \in DOMAIN page' /\ page'[Len(page')] = e
  BY <1>1
<1>6. ASSUME NEW x PROVE OnPage(x)' <=> OnPage(x) \/ x = e
  BY <1>3, <1>4, <1>5 DEF OnPage
<1> QED
  BY <1>1, <1>2, <1>3, <1>4, <1>5, <1>6

\* The entries are in order still, when the new one comes after all.
LEMMA AppendOrdered ==
    ASSUME OrderInv, NEW e \in Entry, page' = Append(page, e), UNCHANGED <<got, again, call>>,
           \A x \in Entry : Entered(x) => x.key <= e.key,
           call = "objects" \/ e.id # None => ~Received(e)
    PROVE  Ordered'
<1>1. page \in Seq(Entry) /\ got \in Seq(Entry) /\ Ordered
  BY DEF OrderInv, Shape, TypeOK
<1>2. /\ Len(page') = Len(page) + 1 /\ page'[Len(page')] = e
      /\ \A i \in DOMAIN page : i \in DOMAIN page' /\ page'[i] = page[i]
      /\ \A i \in DOMAIN page' : i \in DOMAIN page \/ (i = Len(page') /\ page'[i] = e)
      /\ \A i \in DOMAIN page : i < Len(page')
  BY <1>1, PageAppended
<1>3. /\ \A i \in DOMAIN page : page[i] \in Entry /\ Entered(page[i]) /\ page[i].key <= e.key
      /\ \A i \in DOMAIN got : got[i] \in Entry /\ Entered(got[i]) /\ got[i].key <= e.key
  BY <1>1 DEF Entered, OnPage, Received
<1>4. \A i \in DOMAIN page : i \in Int
  BY <1>1
<1>5. Len(page') \in Int
  BY <1>1, <1>2
<1>6. \A i \in DOMAIN got, j \in DOMAIN page' : got[i].key <= page'[j].key
  BY <1>1, <1>2, <1>3 DEF Ordered
<1>7. \A i, j \in DOMAIN page' : i < j => page'[i].key <= page'[j].key
  <2>1. SUFFICES ASSUME NEW i \in DOMAIN page', NEW j \in DOMAIN page', i < j
                 PROVE  page'[i].key <= page'[j].key
    OBVIOUS
  <2>2. i \in DOMAIN page
    BY <1>2, <1>4, <1>5, <2>1
  <2>3. CASE j \in DOMAIN page
    BY <1>1, <1>2, <2>1, <2>2, <2>3 DEF Ordered
  <2>4. CASE j \notin DOMAIN page
    BY <1>2, <1>3, <2>2, <2>4
  <2> QED
    BY <2>3, <2>4
<1>8. \A j \in DOMAIN page' : call = "objects" \/ page'[j].id # None => ~Received(page'[j])
  BY <1>1, <1>2 DEF Ordered
<1>9. InOrder'
  BY <1>1 DEF Ordered, InOrder
<1>10. \A x : Received(x)' <=> Received(x)
  BY DEF Received
<1> QED
  BY <1>6, <1>7, <1>8, <1>9, <1>10 DEF Ordered

\* The rest of a batch.
LEMMA RestOfBatch ==
    ASSUME batch \in Seq(Row), batch # <<>>
    PROVE  /\ Head(batch) \in Row /\ Tail(batch) \in Seq(Row) /\ 1 \in DOMAIN batch /\ batch[1] = Head(batch)
           /\ \A i \in DOMAIN batch : i # 1 => 1 < i /\ i - 1 \in DOMAIN Tail(batch) /\ Tail(batch)[i - 1] = batch[i]
           /\ \A i \in DOMAIN Tail(batch) : i + 1 \in DOMAIN batch /\ Tail(batch)[i] = batch[i + 1]
                                            /\ 1 < i + 1 /\ i \in Int
<1>1. /\ DOMAIN batch = 1..Len(batch) /\ Len(batch) \in Nat /\ Len(batch) # 0 /\ Tail(batch) \in Seq(Row)
      /\ Len(Tail(batch)) = Len(batch) - 1 /\ DOMAIN Tail(batch) = 1..Len(Tail(batch))
      /\ \A i \in 1..Len(Tail(batch)) : Tail(batch)[i] = batch[i + 1]
      /\ Head(batch) = batch[1]
  OBVIOUS
<1>2. \A i \in DOMAIN batch : i # 1 => 1 < i /\ i - 1 \in 1..Len(Tail(batch)) /\ (i - 1) + 1 = i
  BY <1>1
<1>3. \A i \in DOMAIN Tail(batch) : i + 1 \in DOMAIN batch /\ 1 < i + 1 /\ i \in Int
  BY <1>1
<1> QED
  BY <1>1, <1>2, <1>3

\* A row or a group of keys goes on the page, or what is on the page is all.
LEMMA TakeObjectOrder == OrderInv /\ TakeObject => OrderInv'
<1> SUFFICES ASSUME OrderInv, TakeObject PROVE OrderInv'
  OBVIOUS
<1> DEFINE r == Head(batch)
           g == GroupIn(r)
<1>1. /\ call = "objects" /\ pc = "take" /\ batch # <<>> /\ skipping = NoRow /\ last = NoRow
      /\ UNCHANGED <<rows, call, delimiter, stable, writes>>
      /\ \/ Full /\ NextPage(PreviousCursor, NoRow)
         \/ /\ ~Full /\ g # None
            /\ page' = Append(page, Group(g))
            /\ cursor' = EndOfGroup(g) /\ batch' = <<>>
            /\ UNCHANGED <<pc, skipping, short, last, got, again>>
         \/ /\ ~Full /\ g = None
            /\ page' = Append(page, r)
            /\ cursor' = r.key /\ batch' = Tail(batch)
            /\ UNCHANGED <<pc, skipping, short, last, got, again>>
  BY DEF TakeObject, OrderInv, Shape
<1>2. TypeOK /\ page \in Seq(Entry) /\ batch \in Seq(Row) /\ cursor \in 0..N /\ cursor \in Int
  BY Sizes DEF OrderInv, Shape, TypeOK
<1>3. r \in Row /\ 1 \in DOMAIN batch /\ batch[1] = r /\ Tail(batch) \in Seq(Row)
  BY <1>1, <1>2, RestOfBatch
<1> HIDE DEF r
<1>4. r.key > cursor /\ r.key \in Keys /\ r.key \in Int /\ r.id = 1
  BY <1>1, <1>3, Entries, Sizes DEF OrderInv, Shape, Sorted
<1>5. \A e \in Entry : Entered(e) => /\ Proper(e) /\ e.key <= cursor
                                     /\ e.id = None => EndOfGroup(e.key) <= cursor
  BY <1>1 DEF OrderInv, Passed
<1>6. ASSUME Full, NextPage(PreviousCursor, NoRow)
      PROVE  OrderInv'
  <2>1. page # <<>>
    BY <1>2, <1>6, Sizes DEF Full
  <2>2. PreviousCursor = cursor
    BY <1>1, <2>1 DEF OrderInv, Passed
  <2>3. NextPage(cursor, NoRow)
    BY <1>6, <2>2
  <2> QED
    BY <1>1, <2>3, NextPageOrder
<1> DEFINE Put(e, end, rest) ==
             /\ ~Full /\ page' = Append(page, e) /\ cursor' = end /\ batch' = rest
             /\ UNCHANGED <<pc, skipping, short, last, got, again>>
<1>7. ASSUME NEW e \in Entry, NEW end \in 0..N, NEW rest \in Seq(Row), Put(e, end, rest),
             Proper(e), ~Entered(e), cursor <= end, e.key <= end,
             \A x \in Entry : Entered(x) => x.key <= e.key,
             e.id = None => EndOfGroup(e.key) = end,
             e.id # None => e.key = end,
             \A i \in DOMAIN rest : /\ rest[i].id = 1 /\ rest[i].key \in Wanted /\ rest[i].key > end,
             \A i, j \in DOMAIN rest : i < j => Before(rest[i], rest[j])
      PROVE  OrderInv'
  <2>1. /\ page' \in Seq(Entry) /\ page' # <<>> /\ Len(page') = Len(page) + 1
        /\ page'[Len(page')] = e
        /\ \A x : OnPage(x)' <=> OnPage(x) \/ x = e
    BY <1>2, <1>7, PageAppended
  <2>2. TypeOK'
    <3>1. Len(page') <= MaxKeys
      BY <1>2, <1>7, <2>1, Sizes DEF Full
    <3> QED
      BY <1>1, <1>2, <1>7, <2>1, <3>1 DEF TypeOK
  <2>3. Shape'
    BY <1>1, <1>7, <2>1, <2>2 DEF OrderInv, Shape
  <2>4. end \in Int /\ \A i \in DOMAIN rest : rest[i] \in Row /\ rest[i].key \in Int /\ rest[i].key >= end
    BY <1>7, Entries, Sizes
  <2>5. Sorted'
    BY <1>1, <1>7, <2>4 DEF Sorted
  <2>6. \A x \in Entry : Entered(x)' <=> Entered(x) \/ x = e
    BY <1>7, <2>1 DEF Entered, Received
  <2>7. \A x \in Entry : Proper(x)' <=> Proper(x)
    BY <1>1 DEF Proper, GroupIn
  <2>8. e.key \in Int /\ \A x \in Entry : x.key \in Int
    BY Entries
  <2>9. \A x \in Entry : Entered(x)' => /\ Proper(x)' /\ x.key <= end
                                        /\ x.id = None => EndOfGroup(x.key) <= end
    <3>1. TAKE x \in Entry
    <3>2. CASE x = e
      BY <1>7, <2>4, <2>7, <2>8, <3>2
    <3>3. ASSUME Entered(x)
          PROVE  Proper(x)' /\ x.key <= end /\ (x.id = None => EndOfGroup(x.key) <= end)
      <4>1. x.key <= end
        BY <1>2, <1>5, <1>7, <2>4, <2>8, <3>3
      <4>2. ASSUME x.id = None PROVE EndOfGroup(x.key) <= end
        <5>1. x.key \in Keys /\ GroupOf[x.key] = x.key /\ x.key # None
          BY <1>5, <3>3, <4>2, Entries, Sizes DEF Proper
        <5>2. EndOfGroup(x.key) \in Int
          BY <5>1, GroupRange, Sizes
        <5> QED
          BY <1>2, <1>5, <1>7, <2>4, <2>8, <3>3, <4>2, <5>2
      <4> QED
        BY <1>5, <2>7, <3>3, <4>1, <4>2
    <3> QED
      BY <2>6, <3>2, <3>3
  <2>10. \A x \in Row : x.key <= end => \A i \in DOMAIN rest : Before(x, rest[i])
    BY <1>7, <2>4, Entries, Sizes DEF Before
  <2>11. PreviousCursor' = end
    BY <1>1, <1>7, <2>1 DEF PreviousCursor
  <2>12. Passed'
    BY <1>1, <1>7, <2>9, <2>10, <2>11, Entries DEF Passed
  <2>13. Ordered'
    <3>2. ~Received(e)
      BY <1>7 DEF Entered
    <3> QED
      BY <1>1, <1>7, <3>2, AppendOrdered
  <2> QED
    BY <2>3, <2>5, <2>12, <2>13 DEF OrderInv
<1>8. ASSUME Put(Group(g), EndOfGroup(g), <<>>), g # None
      PROVE  OrderInv'
  <2>1. g = GroupOf[r.key] /\ delimiter
    BY <1>8 DEF GroupIn
  <2>2. /\ g \in Keys /\ g <= r.key /\ GroupOf[g] = g
        /\ EndOfGroup(g) \in Keys /\ r.key <= EndOfGroup(g)
        /\ \A j \in Keys : g <= j /\ j <= EndOfGroup(g) => GroupOf[j] = g
    BY <1>4, <1>8, <2>1, GroupRange
  <2>3. g \in Int /\ EndOfGroup(g) \in Int /\ EndOfGroup(g) \in 0..N
    BY <2>2, Sizes
  <2>4. Group(g) \in Entry /\ Group(g).key = g /\ Group(g).id = None
    BY <2>2, Entries
  <2>5. Proper(Group(g))
    BY <2>1, <2>2, <2>4 DEF Proper
  <2>6. ~Entered(Group(g))
    BY <1>2, <1>4, <1>5, <2>2, <2>3, <2>4
  <2>7. \A x \in Entry : Entered(x) => x.key <= g
    <3>1. SUFFICES ASSUME NEW x \in Entry, Entered(x) PROVE x.key <= g
      OBVIOUS
    <3>2. Proper(x) /\ x.key <= r.key
      BY <1>2, <1>4, <1>5, <3>1, Entries
    <3> QED
      BY <1>3, <1>8, <3>2, BeforeGroup
  <2>8. cursor <= EndOfGroup(g) /\ g <= EndOfGroup(g)
    BY <1>2, <1>4, <2>2, <2>3
  <2>9. <<>> \in Seq(Row) /\ DOMAIN <<>> = {}
    OBVIOUS
  <2> HIDE DEF g, Put
  <2> QED
    BY <1>7, <1>8, <2>3, <2>4, <2>5, <2>6, <2>7, <2>8, <2>9
<1>9. ASSUME Put(r, r.key, Tail(batch)), g = None
      PROVE  OrderInv'
  <2>1. r \in Entry /\ r.id # None /\ r.key \in 0..N
    BY <1>3, <1>4, Entries, Sizes
  <2>2. Proper(r)
    BY <1>9, <2>1 DEF Proper
  <2>3. ~Entered(r)
    BY <1>2, <1>4, <1>5, <2>1
  <2>4. \A i \in DOMAIN Tail(batch) : i + 1 \in DOMAIN batch /\ Tail(batch)[i] = batch[i + 1] /\ 1 < i + 1 /\ i \in Int
    BY <1>1, <1>2, RestOfBatch
  <2>5. \A i \in DOMAIN Tail(batch) :
            Tail(batch)[i] \in Row /\ Before(r, Tail(batch)[i]) /\ Tail(batch)[i].id = 1 /\ Tail(batch)[i].key \in Wanted
    BY <1>1, <1>2, <1>3, <2>4 DEF OrderInv, Shape, Sorted
  <2>6. \A i \in DOMAIN Tail(batch) : Tail(batch)[i].key > r.key
    BY <1>4, <2>5 DEF Before
  <2>7. \A i, j \in DOMAIN Tail(batch) : i < j => Before(Tail(batch)[i], Tail(batch)[j])
    <3>1. \A i, j \in DOMAIN Tail(batch) : i < j => i + 1 < j + 1
      BY <2>4
    <3> QED
      BY <2>4, <3>1 DEF OrderInv, Sorted
  <2>8. \A x \in Entry : Entered(x) => x.key <= r.key
    BY <1>2, <1>4, <1>5, Entries
  <2>9. cursor <= r.key /\ r.key <= r.key
    BY <1>2, <1>4
  <2> HIDE DEF g, Put
  <2> QED
    BY <1>3, <1>7, <1>9, <2>1, <2>2, <2>3, <2>5, <2>6, <2>7, <2>8, <2>9
<1> QED
  BY <1>1, <1>6, <1>8, <1>9

\* The listing goes on to the next query, or looks whether there is more.
LEMMA GoesOn ==
    ASSUME OrderInv, pc = "take", batch = <<>>, pc' \in {"fetch", "more"},
           pc' = "more" => call = "objects" /\ page # <<>>,
           UNCHANGED <<rows, call, delimiter, cursor, skipping, batch, short, page, last, got, again, stable, writes>>
    PROVE  OrderInv'
<1>1. Shape'
  BY DEF OrderInv, Shape, TypeOK
<1>2. Sorted' /\ Ordered'
  BY DEF OrderInv, Sorted, Ordered, InOrder, Received
<1>3. \A e \in Entry : (Entered(e)' <=> Entered(e)) /\ (Proper(e)' <=> Proper(e))
  BY DEF Entered, OnPage, Received, Proper, GroupIn
<1>4. PreviousCursor' = PreviousCursor
  BY DEF PreviousCursor
<1>5. Passed'
  BY <1>3, <1>4 DEF OrderInv, Passed
<1> QED
  BY <1>1, <1>2, <1>5 DEF OrderInv

\* The batch is at its end.
LEMMA EndsOrder == OrderInv /\ (EndOfObjects \/ EndOfVersions \/ More) => OrderInv'
<1> SUFFICES ASSUME OrderInv, EndOfObjects \/ EndOfVersions \/ More PROVE OrderInv'
  OBVIOUS
<1>1. CASE EndOfObjects
  <2>1. CASE ~Full /\ short /\ ~Jumped
    BY <1>1, <2>1, FinishOrder DEF EndOfObjects
  <2>2. CASE ~(~Full /\ short /\ ~Jumped)
    <3>1. Full => page # <<>>
      BY Sizes DEF Full, OrderInv, Shape, TypeOK
    <3>2. /\ call = "objects" /\ pc = "take" /\ batch = <<>> /\ pc' = IF Full THEN "more" ELSE "fetch"
          /\ UNCHANGED <<cursor, skipping, batch, short, page, last, got, again>>
          /\ UNCHANGED <<rows, call, delimiter, stable, writes>>
      BY <1>1, <2>2 DEF EndOfObjects, scan
    <3> QED
      BY <3>1, <3>2, GoesOn
  <2> QED
    BY <2>1, <2>2
<1>2. CASE EndOfVersions
  <2>1. CASE short
    BY <1>2, <2>1, FinishOrder DEF EndOfVersions
  <2>2. CASE ~short
    <3>1. /\ pc = "take" /\ batch = <<>> /\ pc' = "fetch"
          /\ UNCHANGED <<cursor, skipping, batch, short, page, last, got, again>>
          /\ UNCHANGED <<rows, call, delimiter, stable, writes>>
      BY <1>2, <2>2 DEF EndOfVersions, scan
    <3> QED
      BY <3>1, GoesOn
  <2> QED
    BY <2>1, <2>2
<1>3. CASE More
  <2>1. pc = "more" /\ skipping = NoRow /\ UNCHANGED <<rows, call, delimiter, stable, writes>>
    BY <1>3 DEF More, OrderInv, Shape, TypeOK
  <2> QED
    BY <1>3, <2>1, FinishOrder, NextPageOrder DEF More
<1> QED
  BY <1>1, <1>2, <1>3

\* A row of the history of a key is passed over, goes on the page, or begins the next one.
LEMMA TakeVersionOrder == OrderInv /\ TakeVersion => OrderInv'
<1> SUFFICES ASSUME OrderInv, TakeVersion PROVE OrderInv'
  OBVIOUS
<1> DEFINE r == Head(batch)
           g == GroupIn(r)
           entry == IF g = None THEN r ELSE Group(g)
           rest == Tail(batch)
<1>1. /\ call = "versions" /\ pc = "take" /\ batch # <<>>
      /\ UNCHANGED <<rows, call, delimiter, stable, writes>>
      /\ \/ /\ skipping # NoRow
            /\ skipping' = IF r = skipping THEN NoRow ELSE skipping
            /\ cursor' = skipping.key /\ batch' = rest
            /\ UNCHANGED <<pc, short, page, last, got, again>>
         \/ /\ skipping = NoRow /\ Seen(r)
            /\ cursor' = r.key /\ batch' = rest
            /\ UNCHANGED <<pc, skipping, short, page, last, got, again>>
         \/ /\ skipping = NoRow /\ Full /\ NextPage(last.key - 1, last)
         \/ /\ skipping = NoRow /\ ~Seen(r) /\ ~Full
            /\ page' = Append(page, entry) /\ last' = r
            /\ cursor' = r.key /\ batch' = rest
            /\ UNCHANGED <<pc, skipping, short, got, again>>
  BY DEF TakeVersion, Marker
<1>2. /\ TypeOK /\ page \in Seq(Entry) /\ batch \in Seq(Row) /\ cursor \in 0..N /\ cursor \in Int
      /\ last \in Row \cup {NoRow} /\ skipping \in Row \cup {NoRow}
  BY Sizes DEF OrderInv, Shape, TypeOK
<1>3. r \in Row /\ 1 \in DOMAIN batch /\ batch[1] = r /\ rest \in Seq(Row)
  BY <1>1, <1>2, RestOfBatch
<1>4. \A i \in DOMAIN rest : i + 1 \in DOMAIN batch /\ rest[i] = batch[i + 1] /\ 1 < i + 1 /\ i \in Int
  BY <1>1, <1>2, RestOfBatch
<1> HIDE DEF r, rest
<1>5. /\ \A i \in DOMAIN rest : rest[i] \in Row /\ Before(r, rest[i]) /\ rest[i].key \in Wanted
      /\ \A i, j \in DOMAIN rest : i < j => Before(rest[i], rest[j])
  <2>1. \A i, j \in DOMAIN rest : i < j => i + 1 < j + 1
    BY <1>4
  <2> QED
    BY <1>2, <1>3, <1>4, <2>1 DEF OrderInv, Sorted
<1>6. r.key \in Int /\ r.key \in 0..N /\ r.key \in Keys /\ r \in Entry /\ r.id # None /\ r # NoRow
  BY <1>3, Entries, Sizes
<1>7. \A i \in DOMAIN rest : rest[i].key >= r.key
  BY <1>5, <1>6, Entries, Sizes DEF Before
<1>8. skipping = NoRow => r.key >= cursor
  BY <1>3 DEF OrderInv, Sorted
<1>9. \A e \in Row : NotAfter(e, r) => \A i \in DOMAIN rest : Before(e, rest[i])
  BY <1>3, <1>5, Entries, Sequence DEF NotAfter
<1>10. ASSUME skipping # NoRow, skipping' = IF r = skipping THEN NoRow ELSE skipping,
              cursor' = skipping.key, batch' = rest, UNCHANGED <<pc, short, page, last, got, again>>
       PROVE  OrderInv'
  <2>1. skipping \in Row /\ skipping.key \in 0..N /\ last = NoRow /\ skipping' \in Row \cup {NoRow} /\ page = <<>>
    BY <1>1, <1>2, <1>10, Entries, Sizes DEF OrderInv, Shape
  <2>2. TypeOK'
    BY <1>1, <1>2, <1>3, <1>10, <2>1 DEF TypeOK
  <2>3. Shape'
    BY <1>1, <1>10, <2>1, <2>2 DEF OrderInv, Shape
  <2>4. Sorted'
    BY <1>1, <1>5, <1>7, <1>10 DEF Sorted
  <2>5. \A e \in Entry : (Entered(e)' <=> Entered(e)) /\ (Proper(e)' <=> Proper(e))
    BY <1>1, <1>10 DEF Entered, OnPage, Received, Proper, GroupIn
  <2>6. \A e \in Entry : Entered(e) => Proper(e) /\ NotAfter(e, skipping)
    BY <1>10 DEF OrderInv, Passed
  <2>7. r = skipping => \A e \in Entry : Entered(e) =>
            e.key <= cursor' /\ (e.id # None => \A i \in DOMAIN rest : Before(e, rest[i]))
    BY <1>9, <1>10, <2>6, Entries DEF NotAfter
  <2>8. Passed'
    BY <1>1, <1>10, <2>1, <2>5, <2>6, <2>7 DEF Passed
  <2>9. Ordered'
    BY <1>1, <1>10 DEF OrderInv, Ordered, InOrder, Received
  <2> QED
    BY <2>3, <2>4, <2>8, <2>9 DEF OrderInv
<1>11. skipping = NoRow => \A e \in Entry : Entered(e) => Proper(e) /\ e.key <= r.key /\ NotAfter(e, r)
  <2>1. SUFFICES ASSUME skipping = NoRow, NEW e \in Entry, Entered(e)
                 PROVE  Proper(e) /\ e.key <= r.key /\ NotAfter(e, r)
    OBVIOUS
  <2>2. Proper(e) /\ e.key <= cursor /\ (e.id # None => Before(e, r))
    BY <1>1, <1>3, <2>1 DEF OrderInv, Passed
  <2>3. e.key <= r.key
    BY <1>2, <1>6, <1>8, <2>1, <2>2, Entries
  <2> QED
    BY <2>2, <2>3 DEF NotAfter
<1>12. ASSUME skipping = NoRow, cursor' = r.key, batch' = rest, UNCHANGED <<pc, skipping, short, page, last, got, again>>
       PROVE  OrderInv'
  <2>1. Shape'
    BY <1>1, <1>2, <1>3, <1>6, <1>12 DEF OrderInv, Shape, TypeOK
  <2>2. Sorted'
    BY <1>1, <1>5, <1>7, <1>12 DEF Sorted
  <2>3. \A e \in Entry : (Entered(e)' <=> Entered(e)) /\ (Proper(e)' <=> Proper(e))
    BY <1>1, <1>12 DEF Entered, OnPage, Received, Proper, GroupIn
  <2>4. last # NoRow => last.key <= r.key /\ \A i \in DOMAIN rest : Before(last, rest[i])
    <3>1. SUFFICES ASSUME last # NoRow
                   PROVE  last.key <= r.key /\ \A i \in DOMAIN rest : Before(last, rest[i])
      OBVIOUS
    <3>2. last.key <= cursor /\ \A i \in DOMAIN batch : Before(last, batch[i])
      BY <3>1 DEF OrderInv, Passed
    <3>3. last.key \in Int
      BY <1>2, <3>1, Entries, Sizes
    <3> QED
      BY <1>2, <1>4, <1>6, <1>8, <1>12, <3>2, <3>3
  <2>5. \A e \in Entry : Entered(e) => e.key <= r.key /\ (e.id # None => \A i \in DOMAIN rest : Before(e, rest[i]))
    BY <1>9, <1>11, <1>12, Entries
  <2>6. \A e \in Entry : Entered(e) => Proper(e) /\ (last # NoRow => NotAfter(e, last))
    BY DEF OrderInv, Passed
  <2>7. Passed'
    BY <1>1, <1>12, <2>3, <2>4, <2>5, <2>6 DEF Passed
  <2>8. Ordered'
    BY <1>1, <1>12 DEF OrderInv, Ordered, InOrder, Received
  <2> QED
    BY <2>1, <2>2, <2>7, <2>8 DEF OrderInv
<1>13. ASSUME skipping = NoRow, Full, NextPage(last.key - 1, last)
       PROVE  OrderInv'
  <2>1. page # <<>> /\ last # NoRow
    BY <1>1, <1>2, <1>13, Sizes DEF OrderInv, Shape, Full
  <2>2. PICK marker \in Row : marker = last
    BY <1>2, <2>1
  <2>3. PICK from \in 0..N : from = last.key - 1
    BY <2>2, Entries, Sizes
  <2>4. \A e \in Entry : Entered(e) => NotAfter(e, marker)
    BY <2>1, <2>2 DEF OrderInv, Passed
  <2>5. NextPage(from, marker) /\ marker # NoRow /\ marker \in Row \cup {NoRow}
    BY <1>13, <2>1, <2>2, <2>3
  <2> QED
    BY <1>1, <2>4, <2>5, PageEnds DEF NextPage
<1>14. entry \in Entry /\ Proper(entry) /\ NotAfter(entry, r) /\ (entry.id # None => entry = r)
  <2>1. CASE g = None
    BY <1>6, <2>1 DEF NotAfter, Proper
  <2>2. CASE g # None
    <3>1. g = GroupOf[r.key] /\ delimiter
      BY <2>2 DEF GroupIn
    <3>2. g \in Keys /\ g <= r.key /\ GroupOf[g] = g
      BY <1>6, <2>2, <3>1, GroupRange
    <3>3. entry = Group(g) /\ entry \in Entry /\ entry.key = g /\ entry.id = None
      BY <2>2, <3>2, Entries
    <3> QED
      BY <3>1, <3>2, <3>3 DEF NotAfter, Proper
  <2> QED
    BY <2>1, <2>2
<1>15. skipping = NoRow => \A e \in Entry : Entered(e) => e.key <= entry.key
  <2>1. SUFFICES ASSUME skipping = NoRow, NEW e \in Entry, Entered(e) PROVE e.key <= entry.key
    OBVIOUS
  <2>2. Proper(e) /\ e.key <= r.key
    BY <1>11, <2>1
  <2>3. CASE g = None
    BY <2>2, <2>3
  <2>4. CASE g # None
    <3>1. g \in Keys
      BY <1>6, <2>4, GroupRange DEF GroupIn
    <3>2. entry.key = g
      BY <2>4, <3>1, Entries
    <3> QED
      BY <1>3, <2>2, <2>4, <3>2, BeforeGroup
  <2> QED
    BY <2>3, <2>4
<1> HIDE DEF entry
<1>16. ASSUME skipping = NoRow, ~Full, page' = Append(page, entry), last' = r, cursor' = r.key, batch' = rest,
              UNCHANGED <<pc, skipping, short, got, again>>
       PROVE  OrderInv'
  <2>1. /\ page' \in Seq(Entry) /\ page' # <<>> /\ Len(page') = Len(page) + 1
        /\ \A x : OnPage(x)' <=> OnPage(x) \/ x = entry
    BY <1>2, <1>14, <1>16, PageAppended
  <2>2. TypeOK'
    <3>1. Len(page') <= MaxKeys
      BY <1>2, <1>16, <2>1, Sizes DEF Full
    <3> QED
      BY <1>1, <1>2, <1>3, <1>6, <1>16, <2>1, <3>1 DEF TypeOK
  <2>3. Shape'
    BY <1>1, <1>6, <1>16, <2>1, <2>2 DEF OrderInv, Shape
  <2>4. Sorted'
    BY <1>1, <1>5, <1>7, <1>16 DEF Sorted
  <2>5. \A x \in Entry : Entered(x)' <=> Entered(x) \/ x = entry
    BY <1>16, <2>1 DEF Entered, Received
  <2>6. \A x \in Entry : Proper(x)' <=> Proper(x)
    BY <1>1 DEF Proper, GroupIn
  <2>7. \A x \in Entry : Entered(x)' => Proper(x)' /\ NotAfter(x, r)
    BY <1>11, <1>14, <1>16, <2>5, <2>6
  <2>8. \A x \in Entry : NotAfter(x, r) => x.key <= r.key /\ (x.id # None => \A i \in DOMAIN rest : Before(x, rest[i]))
    BY <1>9, Entries DEF NotAfter
  <2>9. \A i \in DOMAIN rest : Before(r, rest[i])
    BY <1>5
  <2>10. Passed'
    BY <1>1, <1>6, <1>16, <2>7, <2>8, <2>9 DEF Passed
  <2>11. entry.id # None => ~Received(entry)
    <3>1. SUFFICES ASSUME entry.id # None, Received(entry) PROVE FALSE
      OBVIOUS
    <3>2. Before(r, r)
      BY <1>1, <1>3, <1>14, <1>16, <3>1 DEF OrderInv, Passed, Entered
    <3> QED
      BY <1>3, <3>2, Sequence
  <2>12. Ordered'
    BY <1>1, <1>14, <1>15, <1>16, <2>11, AppendOrdered
  <2> QED
    BY <2>3, <2>4, <2>10, <2>12 DEF OrderInv
<1> QED
  BY <1>1, <1>10, <1>12, <1>13, <1>16

\* What others write does not move the reader.
LEMMA WritesOrder ==
    ASSUME OrderInv, NEW r \in Row, Insert(r) \/ Delete(r)
    PROVE  OrderInv'
<1>1. UNCHANGED <<call, delimiter, pc, cursor, skipping, batch, short, page, last, got, again>>
  BY DEF Insert, Delete, read, scan
<1>2. rows' \subseteq Row /\ stable' \subseteq rows' /\ writes' \in 0..MaxWrites
      /\ (call = "objects" => \A x \in rows' : x.id = 1)
  <2>1. rows \subseteq Row /\ stable \subseteq rows /\ writes \in 0..MaxWrites
        /\ (call = "objects" => \A x \in rows : x.id = 1)
    BY DEF OrderInv, Shape, TypeOK
  <2>2. CASE Insert(r)
    BY <2>1, <2>2, Sizes DEF Insert
  <2>3. CASE Delete(r)
    BY <2>1, <2>3, Sizes DEF Delete
  <2> QED
    BY <2>2, <2>3
<1>3. Shape'
  BY <1>1, <1>2 DEF OrderInv, Shape, TypeOK
<1>4. Sorted' /\ Ordered'
  BY <1>1 DEF OrderInv, Sorted, Ordered, InOrder, Received
<1>5. \A e \in Entry : (Entered(e)' <=> Entered(e)) /\ (Proper(e)' <=> Proper(e))
  BY <1>1 DEF Entered, OnPage, Received, Proper, GroupIn
<1>6. PreviousCursor' = PreviousCursor
  BY <1>1 DEF PreviousCursor
<1>7. Passed'
  BY <1>1, <1>5, <1>6 DEF OrderInv, Passed
<1> QED
  BY <1>3, <1>4, <1>7 DEF OrderInv

\* The listing begins with nothing.
LEMMA InitOrder == ListInit => OrderInv
<1> SUFFICES ASSUME ListInit PROVE OrderInv
  OBVIOUS
<1>1. /\ batch = <<>> /\ page = <<>> /\ got = <<>> /\ pc = "fetch" /\ cursor = 0 /\ skipping = NoRow
      /\ last = NoRow /\ short = FALSE /\ ~again /\ again \in BOOLEAN /\ writes = 0 /\ stable = rows
      /\ call \in {"objects", "versions"} /\ delimiter \in BOOLEAN
      /\ rows \subseteq Row /\ (call = "objects" => \A r \in rows : r.id = 1)
  BY DEF ListInit
<1>2. /\ batch \in Seq(Row) /\ page \in Seq(Entry) /\ got \in Seq(Entry) /\ Len(page) = 0
      /\ DOMAIN batch = {} /\ DOMAIN page = {} /\ DOMAIN got = {}
  BY <1>1
<1>3. TypeOK
  <2>1. cursor \in 0..N /\ writes \in 0..MaxWrites /\ Len(page) <= MaxKeys
    BY <1>1, <1>2, Sizes
  <2> QED
    BY <1>1, <1>2, <2>1 DEF TypeOK
<1>4. Shape /\ Sorted
  BY <1>1, <1>2, <1>3 DEF Shape, Sorted
<1>5. \A e : ~Entered(e)
  BY <1>2 DEF Entered, OnPage, Received
<1>6. Passed /\ Ordered
  BY <1>1, <1>2, <1>5 DEF Passed, Ordered, InOrder
<1> QED
  BY <1>4, <1>6 DEF OrderInv

\* Each step keeps the invariant.
LEMMA StepOrder == OrderInv /\ [ListNext]_listVars => OrderInv'
<1> SUFFICES ASSUME OrderInv, [ListNext]_listVars PROVE OrderInv'
  OBVIOUS
<1>1. ASSUME UNCHANGED listVars PROVE OrderInv'
  <2>1. UNCHANGED <<rows, call, delimiter, pc, cursor, skipping, batch, short, page, last, got, again, stable, writes>>
    BY <1>1 DEF listVars, read, scan
  <2>2. Shape' /\ Sorted' /\ Ordered'
    BY <2>1 DEF OrderInv, Shape, TypeOK, Sorted, Ordered, InOrder, Received
  <2>3. \A e \in Entry : (Entered(e)' <=> Entered(e)) /\ (Proper(e)' <=> Proper(e))
    BY <2>1 DEF Entered, OnPage, Received, Proper, GroupIn
  <2>4. PreviousCursor' = PreviousCursor
    BY <2>1 DEF PreviousCursor
  <2>5. Passed'
    BY <2>1, <2>3, <2>4 DEF OrderInv, Passed
  <2> QED
    BY <2>2, <2>5 DEF OrderInv
<1>2. CASE Reader
  BY <1>2, FetchOrder, TakeObjectOrder, TakeVersionOrder, EndsOrder DEF Reader
<1>3. CASE \E r \in Row : Insert(r) \/ Delete(r)
  BY <1>3, WritesOrder
<1> QED
  BY <1>1, <1>2, <1>3 DEF ListNext

\* The invariant holds always, whatever others write or delete.
LEMMA OrderInvariance == ListSpec => []OrderInv
<1>1. ListInit => OrderInv
  BY InitOrder
<1>2. OrderInv /\ [ListNext]_listVars => OrderInv'
  BY StepOrder
<1> QED
  BY <1>1, <1>2, PTL DEF ListSpec

\* The state of a listing has its types: no page is longer than what was asked for
\* (maxKeys, whatever the filter takes from it).
THEOREM ListingTypeCorrect == ListSpec => []TypeOK
<1>1. OrderInv => TypeOK
  BY DEF OrderInv, Shape
<1> QED
  BY <1>1, OrderInvariance, PTL

\* The pages of a listing are in order and no entry is on two of them (seenPrefixes,
\* previousCursor, the markers), whatever others write and delete meanwhile; the rows
\* that the marker of a page names may go, too.
THEOREM PagesAreInOrder == ListSpec => []InOrder
<1>1. OrderInv => InOrder
  BY DEF OrderInv, Ordered
<1> QED
  BY <1>1, OrderInvariance, PTL

-----------------------------------------------------------------------------
(* A listing skips nothing.                                                *)

\* A row has the same group and the same entries all the time.
LEMMA DueFacts ==
    ASSUME OrderInv
    PROVE  \A s \in Due : s \in Row /\ s \in rows /\ s \in Entry /\ s.key \in Int /\ s.key \in Keys /\ s.id # None
                          /\ s.key \in Wanted /\ s.key \in Shown
  BY Entries, Sizes DEF Due, OrderInv, Shape, TypeOK

\* The client has a page: what was covered is, and the next page begins at the marker.
LEMMA PageCovers ==
    ASSUME OrderInv, Deliver, UNCHANGED <<rows, call, delimiter, stable, writes>>,
           NEW from \in 0..N, NEW marker \in Row \cup {NoRow},
           pc' \in {"fetch", "done"}, cursor' = from, skipping' = marker,
           batch' = <<>>, short' = FALSE, page' = <<>>, last' = NoRow,
           marker # NoRow => /\ marker \in rows /\ marker.key \in Wanted /\ from = marker.key - 1
                             /\ \A s \in Due : s = marker \/ Before(s, marker) => Covered(s),
           \A s \in Due : Covered(s) \/ (pc' = "fetch" /\ s.key > from)
    PROVE  Coverage' /\ MarkerKept'
<1>1. \A e \in Entry : Received(e)' <=> Received(e) \/ (OnPage(e) /\ Allowed(e))
  BY Delivered DEF OrderInv, Shape, TypeOK
<1>2. DOMAIN batch' = {} /\ DOMAIN page' = {}
  OBVIOUS
<1>3. Due' = Due
  BY DEF Due
<1>4. ASSUME NEW s \in Due, Covered(s) PROVE Covered(s)'
  <2>1. PICK e \in Entry : Entered(e) /\ Shows(e, s)
    BY <1>4 DEF Covered
  <2>2. s.key \in Shown /\ s.id # None /\ s.key \in Keys
    BY DueFacts
  <2>3. Allowed(e)
    <3>1. CASE e = s
      BY <2>2, <3>1 DEF Allowed
    <3>2. CASE GroupIn(s) # None /\ e = Group(GroupIn(s))
      BY <2>2, <3>2 DEF Allowed, Group, GroupIn
    <3> QED
      BY <2>1, <3>1, <3>2 DEF Shows
  <2>4. Entered(e)'
    BY <1>1, <2>1, <2>3 DEF Entered
  <2>5. Shows(e, s)'
    BY <2>1 DEF Shows, GroupIn
  <2> QED
    BY <2>4, <2>5 DEF Covered
<1>5. \A s \in Due : s.key > from /\ pc' = "fetch" => Ahead(s)'
  BY <1>2 DEF Ahead
<1>6. Coverage'
  BY <1>3, <1>4, <1>5 DEF Coverage
<1>7. MarkerKept'
  BY <1>2 DEF MarkerKept
<1> QED
  BY <1>6, <1>7

\* The last page covers all.
LEMMA FinishCovers ==
    ASSUME OrderInv, Finish, UNCHANGED <<rows, call, delimiter, stable, writes>>, \A s \in Due : Covered(s)
    PROVE  Coverage' /\ MarkerKept'
<1>1. 0 \in 0..N /\ NoRow \in Row \cup {NoRow}
  BY Sizes
<1> QED
  BY <1>1, PageCovers DEF Finish

\* The next page of objects.
LEMMA NextPageCovers ==
    ASSUME OrderInv, UNCHANGED <<rows, call, delimiter, stable, writes>>, NextPage(cursor, NoRow),
           \A s \in Due : Covered(s) \/ s.key > cursor
    PROVE  Coverage' /\ MarkerKept'
<1>1. PICK from \in 0..N : from = cursor
  BY DEF OrderInv, Shape, TypeOK
<1>2. NextPage(from, NoRow)
  BY <1>1
<1>3. NoRow \in Row \cup {NoRow}
  OBVIOUS
<1>4. \A s \in Due : Covered(s) \/ s.key > from
  BY <1>1
<1> HIDE DEF NoRow
<1> QED
  BY <1>2, <1>3, <1>4, PageCovers DEF NextPage

\* What has been entered still has.
LEMMA StaysCovered ==
    ASSUME UNCHANGED <<delimiter, got>>, \A e \in Entry : OnPage(e) => OnPage(e)'
    PROVE  \A s : Covered(s) => Covered(s)'
<1>1. \A e \in Entry : Entered(e) => Entered(e)'
  BY DEF Entered, Received
<1>2. \A e, s : Shows(e, s)' <=> Shows(e, s)
  BY DEF Shows, GroupIn
<1> QED
  BY <1>1, <1>2 DEF Covered

\* When nothing is behind the cursor, nothing is ahead.
LEMMA NothingBehind ==
    ASSUME OrderInv, Coverage, batch = <<>>, Behind(cursor) = {}
    PROVE  \A s \in Due : Covered(s)
<1>1. \A s \in Due : ~InBatch(s)
  BY DEF InBatch
<1>2. \A s \in Due : ~Ahead(s)
  <2>1. \A s \in Due : s.key > cursor => s \in Behind(cursor)
    BY DueFacts DEF Behind
  <2> QED
    BY <2>1 DEF Ahead
<1> QED
  BY <1>1, <1>2 DEF Coverage

\* A query returns what is due, or leaves it to the next one.
LEMMA FetchCovers == OrderInv /\ Coverage /\ MarkerKept /\ Fetch /\ (call = "objects" \/ HistoriesWhole)
                     => Coverage' /\ MarkerKept'
<1> SUFFICES ASSUME OrderInv, Coverage, MarkerKept, Fetch, call = "objects" \/ HistoriesWhole
             PROVE  Coverage' /\ MarkerKept'
  OBVIOUS
<1> DEFINE lim == IF call = "objects" THEN ListBatch ELSE VersionBatch
<1>1. PICK limit \in Nat \ {0} : limit = lim
  BY Sizes
<1>2. PICK found : found = Query(limit)
  OBVIOUS
<1>3. /\ rows \subseteq Row /\ cursor \in 0..N /\ cursor \in Int /\ pc = "fetch" /\ batch = <<>>
      /\ (call = "objects" => \A x \in rows : x.id = 1) /\ call \in {"objects", "versions"}
  BY Sizes DEF OrderInv, Shape, TypeOK, Fetch
<1>4. /\ found \in Seq(Behind(cursor)) /\ Len(found) <= limit
      /\ found = <<>> <=> Behind(cursor) = {}
      /\ \A s \in Behind(cursor) :
            \/ \E i \in DOMAIN found : found[i] = s
            \/ Len(found) = limit /\ \A i \in DOMAIN found : Before(found[i], s)
      /\ Cardinality(Behind(cursor)) <= limit => \A s \in Behind(cursor) : \E i \in DOMAIN found : found[i] = s
  BY <1>2, <1>3, QueryFacts
<1>5. CASE found = <<>>
  <2>1. Finish /\ UNCHANGED <<rows, call, delimiter, stable, writes>>
    BY <1>1, <1>2, <1>5 DEF Fetch
  <2> QED
    BY <1>3, <1>4, <1>5, <2>1, FinishCovers, NothingBehind
<1>6. CASE found # <<>>
  <2>1. /\ pc' = "take" /\ batch' = found /\ short' = (Len(found) < limit)
        /\ UNCHANGED <<cursor, skipping, page, last, got, again, rows, call, delimiter, stable, writes>>
    BY <1>1, <1>2, <1>6 DEF Fetch
  <2>2. Behind(cursor) \subseteq Row /\ \A x \in Behind(cursor) : x \in rows /\ x.key > cursor
    BY <1>3 DEF Behind
  <2>3. \A i \in DOMAIN found : found[i] \in rows /\ found[i] \in Row /\ found[i].key > cursor
    BY <1>4, <2>2
  <2>5. ASSUME NEW s \in Behind(cursor)
        PROVE  \/ \E i \in DOMAIN found : found[i] = s
               \/ Len(found) = limit /\ \A i \in DOMAIN found : found[i].key < s.key
    <3>1. ASSUME NEW i \in DOMAIN found, Before(found[i], s) PROVE found[i].key <= s.key
      BY <2>2, <2>3, <3>1, Entries DEF Before
    <3>2. \A x \in Row : x.key \in Int
      BY Entries
    <3>3. CASE call = "versions"
      <4>1. \A i \in DOMAIN found : found[i].key = s.key => \E j \in DOMAIN found : found[j] = s
        <5>1. limit = VersionBatch /\ HistoriesWhole
          BY <1>1, <3>3
        <5> QED
          BY <1>2, <1>3, <3>3, <5>1 DEF HistoriesWhole
      <4> QED
        BY <1>4, <2>2, <2>3, <3>1, <3>2, <4>1
    <3>4. CASE call = "objects"
      <4>1. \A x, y \in rows : x.id = y.id
        BY <1>3, <3>4
      <4>2. \A x, y \in rows : Before(x, y) => x.key < y.key
        BY <1>3, <4>1, Entries DEF Before
      <4> QED
        BY <1>4, <2>2, <2>3, <4>2
    <3> QED
      BY <1>3, <3>3, <3>4
  <2>6. \A s \in Due : s.key > cursor => s \in Behind(cursor)
    BY DueFacts DEF Behind
  <2>7. \A s \in Due : Covered(s) => Covered(s)'
    BY <2>1, StaysCovered DEF OnPage
  <2>8. ASSUME NEW s \in Due PROVE Covered(s)' \/ InBatch(s)' \/ Ahead(s)'
    <3>1. CASE Covered(s)
      BY <2>7, <3>1
    <3>2. CASE s.key > cursor
      <4>1. \/ \E i \in DOMAIN found : found[i] = s
            \/ Len(found) = limit /\ \A i \in DOMAIN found : found[i].key < s.key
        BY <2>5, <2>6, <3>2
      <4>2. CASE \E i \in DOMAIN found : found[i] = s
        BY <2>1, <4>2 DEF InBatch
      <4>3. CASE Len(found) = limit /\ \A i \in DOMAIN found : found[i].key < s.key
        <5>1. ~(Len(found) < limit)
          BY <4>3
        <5>2. ~short' /\ pc' = "take"
          BY <2>1, <5>1, Zenon
        <5> QED
          BY <2>1, <3>2, <4>3, <5>2 DEF Ahead
      <4> QED
        BY <4>1, <4>2, <4>3
    <3>3. ~InBatch(s)
      BY <1>3 DEF InBatch
    <3> QED
      BY <3>1, <3>2, <3>3 DEF Coverage, Ahead
  <2>9. Due' = Due
    BY <2>1 DEF Due
  <2>10. Coverage'
    BY <2>1, <2>7, <2>8, <2>9 DEF Coverage
  <2>11. ASSUME call = "versions", skipping # NoRow PROVE InBatch(skipping)'
    <3>1. skipping \in rows /\ skipping.key \in Wanted /\ cursor = skipping.key - 1
      BY <1>3, <2>11 DEF MarkerKept
    <3>2. skipping.key \in Int
      BY <1>3, <3>1, Entries, Sizes
    <3>3. skipping \in Behind(cursor)
      BY <3>1, <3>2 DEF Behind
    <3>4. 1 \in DOMAIN found
      BY <1>4, <1>6
    <3>5. found[1].key \in Int /\ ~(found[1].key < skipping.key)
      BY <2>3, <3>1, <3>2, <3>4, Entries, Sizes
    <3> QED
      BY <2>1, <2>5, <3>3, <3>4, <3>5 DEF InBatch
  <2>12. MarkerKept'
    BY <2>1, <2>3, <2>11 DEF MarkerKept
  <2> QED
    BY <2>10, <2>12
<1> QED
  BY <1>5, <1>6

\* A row or a group of keys goes on the page.
LEMMA TakeObjectCovers == OrderInv /\ Coverage /\ TakeObject => Coverage' /\ MarkerKept'
<1> SUFFICES ASSUME OrderInv, Coverage, TakeObject PROVE Coverage' /\ MarkerKept'
  OBVIOUS
<1> DEFINE r == Head(batch)
           g == GroupIn(r)
           rest == Tail(batch)
<1>1. /\ call = "objects" /\ pc = "take" /\ batch # <<>> /\ skipping = NoRow
      /\ UNCHANGED <<rows, call, delimiter, stable, writes>>
      /\ \/ Full /\ NextPage(PreviousCursor, NoRow)
         \/ /\ ~Full /\ g # None
            /\ page' = Append(page, Group(g))
            /\ cursor' = EndOfGroup(g) /\ batch' = <<>>
            /\ UNCHANGED <<pc, skipping, short, last, got, again>>
         \/ /\ ~Full /\ g = None
            /\ page' = Append(page, r)
            /\ cursor' = r.key /\ batch' = rest
            /\ UNCHANGED <<pc, skipping, short, last, got, again>>
  BY DEF TakeObject, OrderInv, Shape
<1>2. page \in Seq(Entry) /\ batch \in Seq(Row) /\ cursor \in Int
  BY Sizes DEF OrderInv, Shape, TypeOK
<1>3. /\ r \in Row /\ 1 \in DOMAIN batch /\ batch[1] = r /\ rest \in Seq(Row)
      /\ \A i \in DOMAIN batch : i # 1 => 1 < i /\ i - 1 \in DOMAIN rest /\ rest[i - 1] = batch[i]
      /\ \A i \in DOMAIN rest : i + 1 \in DOMAIN batch /\ rest[i] = batch[i + 1] /\ 1 < i + 1 /\ i \in Int
  BY <1>1, <1>2, RestOfBatch
<1> HIDE DEF r, rest
<1>4. /\ r.key \in Keys /\ r.key \in Int /\ r.id # None /\ r \in Entry
      /\ \A i \in DOMAIN batch : batch[i] \in Row /\ batch[i].key \in Int /\ batch[i].key > cursor
  BY <1>1, <1>2, <1>3, Entries, Sizes DEF OrderInv, Sorted
<1>5. MarkerKept'
  BY <1>1 DEF MarkerKept
<1>6. Due' = Due
  BY <1>1 DEF Due
<1>7. \A s \in Due : InBatch(s) => s = r \/ (s.key >= r.key /\ \E i \in DOMAIN rest : rest[i] = s)
  <2>1. SUFFICES ASSUME NEW s \in Due, NEW i \in DOMAIN batch, batch[i] = s, s # r
                 PROVE  s.key >= r.key /\ \E j \in DOMAIN rest : rest[j] = s
    BY DEF InBatch
  <2>2. i # 1
    BY <1>3, <2>1
  <2>3. Before(r, s)
    BY <1>3, <2>1, <2>2 DEF OrderInv, Sorted
  <2>4. s.key >= r.key
    BY <1>4, <2>1, <2>3 DEF Before
  <2> QED
    BY <1>3, <2>1, <2>2, <2>4
<1>8. \A s \in Due : Ahead(s) => s.key > r.key /\ ~short
  BY <1>1, <1>3 DEF Ahead
<1>9. ASSUME Full, NextPage(PreviousCursor, NoRow)
      PROVE  Coverage' /\ MarkerKept'
  <2>1. page # <<>>
    BY <1>2, <1>9, Sizes DEF Full
  <2>2. PreviousCursor = cursor
    BY <1>1, <2>1 DEF OrderInv, Passed
  <2>3. NextPage(cursor, NoRow)
    BY <1>9, <2>2
  <2>4. \A s \in Due : Covered(s) \/ s.key > cursor
    BY <1>4 DEF Coverage, InBatch, Ahead
  <2> QED
    BY <1>1, <2>3, <2>4, NextPageCovers
<1>10. ASSUME g # None, page' = Append(page, Group(g)), cursor' = EndOfGroup(g), batch' = <<>>,
              UNCHANGED <<pc, skipping, short, last, got, again>>
       PROVE  Coverage'
  <2>1. g = GroupOf[r.key] /\ delimiter
    BY <1>10 DEF GroupIn
  <2>2. /\ g \in Keys /\ g <= r.key
        /\ EndOfGroup(g) \in Keys /\ r.key <= EndOfGroup(g)
        /\ \A j \in Keys : g <= j /\ j <= EndOfGroup(g) => GroupOf[j] = g
    BY <1>4, <1>10, <2>1, GroupRange
  <2>3. g \in Int /\ EndOfGroup(g) \in Int
    BY <2>2, Sizes
  <2>4. Group(g) \in Entry /\ Group(g).key = g /\ Group(g).id = None
    BY <2>2, Entries
  <2>11. PICK e \in Entry : e = Group(g)
    BY <2>4
  <2>5. /\ page' # <<>> /\ page'[Len(page')] = e
        /\ \A x : OnPage(x)' <=> OnPage(x) \/ x = e
    BY <1>2, <1>10, <2>11, PageAppended
  <2>6. \A s : Covered(s) => Covered(s)'
    BY <1>1, <1>10, <2>5, StaysCovered
  <2>7. ASSUME NEW s \in Due, s.key >= r.key, s.key <= EndOfGroup(g) PROVE Covered(s)'
    <3>1. GroupOf[s.key] = g
      BY <1>4, <2>2, <2>3, <2>7, DueFacts
    <3>2. Entered(e)'
      BY <2>5 DEF Entered
    <3>3. GroupIn(s) = g /\ GroupIn(s)' = GroupIn(s)
      BY <1>1, <2>1, <3>1 DEF GroupIn
    <3>4. Shows(e, s)'
      BY <1>10, <2>11, <3>3 DEF Shows
    <3> QED
      BY <3>2, <3>4 DEF Covered
  <2>8. Jumped'
    BY <1>10, <2>4, <2>5, <2>11 DEF Jumped
  <2>9. \A s \in Due : s.key > EndOfGroup(g) => Ahead(s)'
    BY <1>1, <1>10, <2>8 DEF Ahead
  <2>10. \A s \in Due : Covered(s)' \/ InBatch(s)' \/ Ahead(s)'
    <3>1. TAKE s \in Due
    <3>2. s.key \in Int
      BY DueFacts
    <3>3. Covered(s) \/ s.key >= r.key
      BY <1>4, <1>7, <1>8, <3>2 DEF Coverage
    <3> QED
      BY <2>3, <2>6, <2>7, <2>9, <3>2, <3>3
  <2> QED
    BY <1>1, <1>6, <1>10, <2>10 DEF Coverage
<1>11. ASSUME g = None, page' = Append(page, r), cursor' = r.key, batch' = rest,
              UNCHANGED <<pc, skipping, short, last, got, again>>
       PROVE  Coverage'
  <2>7. PICK e \in Entry : e = r
    BY <1>4
  <2>1. \A x : OnPage(x)' <=> OnPage(x) \/ x = e
    BY <1>2, <1>11, <2>7, PageAppended
  <2>2. \A s : Covered(s) => Covered(s)'
    BY <1>1, <1>11, <2>1, StaysCovered
  <2>3. Covered(e)'
    BY <2>1 DEF Covered, Entered, Shows
  <2>4. \A s \in Due : InBatch(s) => s = r \/ InBatch(s)'
    BY <1>7, <1>11 DEF InBatch
  <2>5. \A s \in Due : Ahead(s) => Ahead(s)'
    <3>1. SUFFICES ASSUME NEW s \in Due, Ahead(s) PROVE Ahead(s)'
      OBVIOUS
    <3>2. s.key > r.key /\ ~short /\ \A i \in DOMAIN rest : rest[i].key < s.key
      BY <1>3, <1>8, <3>1 DEF Ahead
    <3> QED
      BY <1>1, <1>11, <3>2 DEF Ahead
  <2>6. \A s \in Due : Covered(s)' \/ InBatch(s)' \/ Ahead(s)'
    BY <2>2, <2>3, <2>4, <2>5, <2>7 DEF Coverage
  <2> QED
    BY <1>1, <1>6, <1>11, <2>6 DEF Coverage
<1> QED
  BY <1>1, <1>5, <1>9, <1>10, <1>11

\* The batch is at its end: what is due is covered, or the next query finds it.
LEMMA EndsCovers == OrderInv /\ Coverage /\ MarkerKept /\ (EndOfObjects \/ EndOfVersions \/ More)
                    => Coverage' /\ MarkerKept'
<1> SUFFICES ASSUME OrderInv, Coverage, MarkerKept, EndOfObjects \/ EndOfVersions \/ More
             PROVE  Coverage' /\ MarkerKept'
  OBVIOUS
<1>1. batch = <<>> /\ DOMAIN batch = {} /\ UNCHANGED <<rows, call, delimiter, stable, writes>>
      /\ pc \in {"take", "more"} /\ cursor \in Int
  BY Sizes DEF EndOfObjects, EndOfVersions, More, OrderInv, Shape, TypeOK
<1>2. \A s \in Due : Covered(s) \/ Ahead(s)
  BY <1>1 DEF Coverage, InBatch
<1>3. ASSUME pc = "take", pc' \in {"fetch", "more"}, skipping = NoRow, pc' = "fetch" \/ call = "objects",
             UNCHANGED <<cursor, skipping, batch, short, page, last, got, again>>
      PROVE  Coverage' /\ MarkerKept'
  <2>1. \A s : Covered(s) => Covered(s)'
    BY <1>1, <1>3, StaysCovered DEF OnPage
  <2>2. \A s \in Due : Ahead(s) => Ahead(s)'
    BY <1>1, <1>3 DEF Ahead
  <2>3. Due' = Due
    BY <1>1 DEF Due
  <2>4. Coverage'
    BY <1>2, <1>3, <2>1, <2>2, <2>3 DEF Coverage
  <2>5. MarkerKept'
    BY <1>1, <1>3 DEF MarkerKept
  <2> QED
    BY <2>4, <2>5
<1>4. CASE EndOfObjects
  <2>1. call = "objects" /\ pc = "take" /\ skipping = NoRow
    BY <1>4 DEF EndOfObjects, OrderInv, Shape
  <2>2. CASE ~Full /\ short /\ ~Jumped
    <3>1. \A s \in Due : ~Ahead(s)
      BY <2>1, <2>2 DEF Ahead
    <3> QED
      BY <1>1, <1>2, <1>4, <2>2, <3>1, FinishCovers DEF EndOfObjects
  <2>3. CASE ~(~Full /\ short /\ ~Jumped)
    BY <1>3, <1>4, <2>1, <2>3 DEF EndOfObjects, scan
  <2> QED
    BY <2>2, <2>3
<1>5. CASE EndOfVersions
  <2>1. call = "versions" /\ pc = "take"
    BY <1>5 DEF EndOfVersions
  <2>2. skipping = NoRow
    BY <1>1, <2>1 DEF MarkerKept, InBatch
  <2>3. CASE short
    <3>1. \A s \in Due : ~Ahead(s)
      BY <2>1, <2>3 DEF Ahead
    <3> QED
      BY <1>1, <1>2, <1>5, <2>3, <3>1, FinishCovers DEF EndOfVersions
  <2>4. CASE ~short
    BY <1>3, <1>5, <2>1, <2>2, <2>4 DEF EndOfVersions, scan
  <2> QED
    BY <2>3, <2>4
<1>6. CASE More
  <2>1. CASE Behind(cursor) = {}
    BY <1>1, <1>6, <2>1, NothingBehind, FinishCovers DEF More
  <2>2. CASE Behind(cursor) # {}
    <3>1. \A s \in Due : Covered(s) \/ s.key > cursor
      BY <1>2 DEF Ahead
    <3> QED
      BY <1>1, <1>6, <2>2, <3>1, NextPageCovers DEF More
  <2> QED
    BY <2>1, <2>2
<1> QED
  BY <1>4, <1>5, <1>6

\* A row of a history is passed over, goes on the page, or begins the next page.
LEMMA TakeVersionCovers == OrderInv /\ Coverage /\ MarkerKept /\ TakeVersion => Coverage' /\ MarkerKept'
<1> SUFFICES ASSUME OrderInv, Coverage, MarkerKept, TakeVersion PROVE Coverage' /\ MarkerKept'
  OBVIOUS
<1> DEFINE g == GroupIn(Head(batch))
           entry == IF g = None THEN Head(batch) ELSE Group(g)
           rest == Tail(batch)
<1>1. /\ call = "versions" /\ pc = "take" /\ batch # <<>>
      /\ UNCHANGED <<rows, call, delimiter, stable, writes>>
      /\ \/ /\ skipping # NoRow
            /\ skipping' = IF Head(batch) = skipping THEN NoRow ELSE skipping
            /\ cursor' = skipping.key /\ batch' = rest
            /\ UNCHANGED <<pc, short, page, last, got, again>>
         \/ /\ skipping = NoRow /\ Seen(Head(batch))
            /\ cursor' = Head(batch).key /\ batch' = rest
            /\ UNCHANGED <<pc, skipping, short, page, last, got, again>>
         \/ /\ skipping = NoRow /\ Full /\ NextPage(last.key - 1, last)
         \/ /\ skipping = NoRow /\ ~Full
            /\ page' = Append(page, entry) /\ last' = Head(batch)
            /\ cursor' = Head(batch).key /\ batch' = rest
            /\ UNCHANGED <<pc, skipping, short, got, again>>
  BY DEF TakeVersion, Marker
<1>2. /\ page \in Seq(Entry) /\ batch \in Seq(Row) /\ cursor \in Int
      /\ last \in Row \cup {NoRow} /\ skipping \in Row \cup {NoRow}
  BY Sizes DEF OrderInv, Shape, TypeOK
<1>3. PICK r \in Row : r = Head(batch)
  BY <1>1, <1>2, RestOfBatch
<1>4. /\ 1 \in DOMAIN batch /\ batch[1] = r /\ rest \in Seq(Row)
      /\ \A i \in DOMAIN batch : i # 1 => 1 < i /\ i - 1 \in DOMAIN rest /\ rest[i - 1] = batch[i]
      /\ \A i \in DOMAIN rest : i + 1 \in DOMAIN batch /\ rest[i] = batch[i + 1] /\ 1 < i + 1 /\ i \in Int
  BY <1>1, <1>2, <1>3, RestOfBatch
<1> HIDE DEF rest
<1>5. /\ r.key \in Keys /\ r.key \in Int /\ r.id # None /\ r \in Entry /\ r # NoRow /\ r \in rows /\ r.key \in Wanted
      /\ \A i \in DOMAIN batch : batch[i] \in Row /\ batch[i].key \in Int
  BY <1>1, <1>2, <1>4, Entries, Sizes DEF OrderInv, Sorted, MarkerKept
<1>6. Due' = Due
  BY <1>1 DEF Due
<1>7. \A i \in DOMAIN rest : rest[i] \in rows
  BY <1>1, <1>4 DEF MarkerKept
<1>8. \A s : InBatch(s) => s = r \/ \E i \in DOMAIN rest : rest[i] = s
  BY <1>4 DEF InBatch
<1>9. \A s \in Due : Ahead(s) =>
          s.key > cursor /\ ~short /\ s.key > r.key /\ \A i \in DOMAIN batch : batch[i].key < s.key
  BY <1>1, <1>4 DEF Ahead
<1>10. \A s \in Due, k \in Int : Ahead(s) /\ k < s.key /\ cursor' = k /\ batch' = rest /\ UNCHANGED <<pc, short>> => Ahead(s)'
  BY <1>1, <1>4, <1>9 DEF Ahead
<1>11. ASSUME skipping # NoRow, skipping' = IF Head(batch) = skipping THEN NoRow ELSE skipping,
              cursor' = skipping.key, batch' = rest, UNCHANGED <<pc, short, page, last, got, again>>
       PROVE  Coverage' /\ MarkerKept'
  <2>1. PICK m \in Row : m = skipping
    BY <1>2, <1>11
  <2>2. PICK k \in DOMAIN batch : batch[k] = m
    BY <1>1, <1>11, <2>1 DEF MarkerKept, InBatch
  <2>3. m.key \in Int /\ m # NoRow
    BY <2>1, Entries, Sizes
  <2>4. r = m \/ (k # 1 /\ Before(r, m))
    BY <1>4, <2>2 DEF OrderInv, Sorted
  <2>5. \A s : Covered(s) => Covered(s)'
    BY <1>1, <1>11, StaysCovered DEF OnPage
  <2>6. r \in Due => Covered(r)
    BY <1>11, <2>1, <2>4 DEF Coverage
  <2>7. \A s \in Due : InBatch(s) => Covered(s) \/ InBatch(s)'
    BY <1>8, <1>11, <2>6 DEF InBatch
  <2>8. \A s \in Due : Ahead(s) => Ahead(s)'
    BY <1>9, <1>10, <1>11, <2>1, <2>2, <2>3
  <2>9. \A s \in Due : Covered(s)' \/ InBatch(s)' \/ Ahead(s)'
    BY <2>5, <2>7, <2>8 DEF Coverage
  <2>10. skipping' # NoRow => \A s \in Due : s = skipping' \/ Before(s, skipping') => Covered(s)'
    BY <1>11, <2>5 DEF Coverage
  <2>11. Coverage'
    BY <1>6, <2>9, <2>10 DEF Coverage
  <2>12. r # m => \E i \in DOMAIN rest : rest[i] = m
    BY <1>4, <2>2, <2>4
  <2>13. skipping' # NoRow => skipping' = m /\ r # m /\ pc' = "take" /\ InBatch(m)'
    BY <1>1, <1>3, <1>11, <2>1, <2>12 DEF InBatch
  <2>14. MarkerKept'
    BY <1>1, <1>7, <1>11, <2>13 DEF MarkerKept
  <2> QED
    BY <2>11, <2>14
<1>12. ASSUME skipping = NoRow, Seen(Head(batch)), cursor' = Head(batch).key, batch' = rest,
              UNCHANGED <<pc, skipping, short, page, last, got, again>>
       PROVE  Coverage' /\ MarkerKept'
  <2>1. \A s : Covered(s) => Covered(s)'
    BY <1>1, <1>12, StaysCovered DEF OnPage
  <2>2. Covered(r)
    <3>1. GroupIn(r) # None /\ \E i \in DOMAIN page : page[i] = Group(GroupIn(r))
      BY <1>3, <1>12 DEF Seen
    <3>2. Group(GroupIn(r)) \in Entry /\ OnPage(Group(GroupIn(r)))
      BY <1>2, <3>1 DEF OnPage
    <3> QED
      BY <3>1, <3>2 DEF Covered, Entered, Shows
  <2>3. \A s \in Due : InBatch(s) => Covered(s) \/ InBatch(s)'
    BY <1>8, <1>12, <2>2 DEF InBatch
  <2>4. \A s \in Due : Ahead(s) => Ahead(s)'
    BY <1>3, <1>5, <1>9, <1>10, <1>12
  <2>5. \A s \in Due : Covered(s)' \/ InBatch(s)' \/ Ahead(s)'
    BY <2>1, <2>3, <2>4 DEF Coverage
  <2>6. Coverage'
    BY <1>6, <1>12, <2>5 DEF Coverage
  <2>7. MarkerKept'
    BY <1>1, <1>7, <1>12 DEF MarkerKept
  <2> QED
    BY <2>6, <2>7
<1>13. ASSUME skipping = NoRow, Full, NextPage(last.key - 1, last)
       PROVE  Coverage' /\ MarkerKept'
  <2>1. page # <<>> /\ last # NoRow
    BY <1>1, <1>2, <1>13, Sizes DEF OrderInv, Shape, Full
  <2>2. PICK marker \in Row : marker = last
    BY <1>2, <2>1
  <2>3. PICK from \in 0..N : from = last.key - 1
    BY <2>2, Entries, Sizes
  <2>4. /\ marker \in rows /\ marker.key \in Wanted /\ from = marker.key - 1
        /\ marker.key <= cursor /\ marker.key \in Int /\ \A i \in DOMAIN batch : Before(marker, batch[i])
    BY <1>1, <2>1, <2>2, <2>3, Entries, Sizes DEF MarkerKept, OrderInv, Passed
  <2>5. ASSUME NEW s \in Due, ~Covered(s) PROVE s # marker /\ ~Before(s, marker) /\ s.key > from
    <3>1. s \in Row /\ s.key \in Int
      BY DueFacts
    <3>2. CASE InBatch(s)
      <4>1. Before(marker, s)
        BY <2>4, <3>2 DEF InBatch
      <4>2. s.key >= marker.key
        BY <2>4, <3>1, <4>1 DEF Before
      <4> QED
        BY <2>4, <3>1, <4>1, <4>2, Sequence
    <3>3. CASE Ahead(s)
      <4>1. s.key > marker.key
        BY <1>2, <1>9, <2>4, <3>1, <3>3
      <4>2. ~Before(s, marker) /\ s # marker
        BY <2>4, <3>1, <4>1 DEF Before
      <4> QED
        BY <2>4, <3>1, <4>1, <4>2
    <3> QED
      BY <2>5, <3>2, <3>3 DEF Coverage
  <2>6. NextPage(from, marker) /\ marker # NoRow /\ marker \in Row \cup {NoRow}
    BY <1>13, <2>1, <2>2, <2>3
  <2>7. pc' = "fetch"
    BY <2>6 DEF NextPage
  <2> QED
    BY <1>1, <2>4, <2>5, <2>6, <2>7, PageCovers DEF NextPage
<1>14. ASSUME skipping = NoRow, ~Full, page' = Append(page, entry), last' = Head(batch), cursor' = Head(batch).key,
              batch' = rest, UNCHANGED <<pc, skipping, short, got, again>>
       PROVE  Coverage' /\ MarkerKept'
  <2>1. PICK e \in Entry : e = entry
    <3>1. GroupIn(r) # None => GroupIn(r) \in Keys
      BY <1>5, GroupRange DEF GroupIn
    <3> QED
      BY <1>3, <1>5, <3>1, Entries
  <2>2. Shows(e, r)
    BY <1>3, <2>1 DEF Shows
  <2>3. \A x : OnPage(x)' <=> OnPage(x) \/ x = e
    BY <1>2, <1>14, <2>1, PageAppended
  <2>4. \A s : Covered(s) => Covered(s)'
    BY <1>1, <1>14, <2>3, StaysCovered
  <2>5. Shows(e, r)'
    BY <1>1, <2>2 DEF Shows, GroupIn
  <2>6. Covered(r)'
    BY <2>3, <2>5 DEF Covered, Entered
  <2>7. \A s \in Due : InBatch(s) => s = r \/ InBatch(s)'
    BY <1>8, <1>14 DEF InBatch
  <2>8. \A s \in Due : Ahead(s) => Ahead(s)'
    BY <1>3, <1>5, <1>9, <1>10, <1>14
  <2>9. \A s \in Due : Covered(s)' \/ InBatch(s)' \/ Ahead(s)'
    BY <2>4, <2>6, <2>7, <2>8 DEF Coverage
  <2>10. Coverage'
    BY <1>6, <1>14, <2>9 DEF Coverage
  <2>11. MarkerKept'
    BY <1>1, <1>3, <1>5, <1>7, <1>14 DEF MarkerKept
  <2> QED
    BY <2>10, <2>11
<1> QED
  BY <1>1, <1>11, <1>12, <1>13, <1>14

\* What others write: a new row is not due, and a deleted one is not any more.
LEMMA WritesCover ==
    ASSUME OrderInv, Coverage, MarkerKept, NEW r \in Row, Insert(r) \/ (Delete(r) /\ ~Kept(r))
    PROVE  Coverage' /\ MarkerKept'
<1>1. UNCHANGED <<call, delimiter, pc, cursor, skipping, batch, short, page, last, got, again>>
  BY DEF Insert, Delete, read, scan
<1>2. Due' \subseteq Due /\ rows \ {r} \subseteq rows' /\ (Insert(r) => rows \subseteq rows')
  BY DEF Due, Insert, Delete
<1>3. \A s : /\ Covered(s) => Covered(s)'
             /\ InBatch(s) => InBatch(s)'
             /\ Ahead(s) => Ahead(s)'
  <2>1. \A s : Covered(s) => Covered(s)'
    BY <1>1, StaysCovered DEF OnPage
  <2>2. Jumped' = Jumped
    BY <1>1 DEF Jumped
  <2> QED
    BY <1>1, <2>1, <2>2 DEF InBatch, Ahead
<1>4. Coverage'
  BY <1>1, <1>2, <1>3 DEF Coverage
<1>5. call = "versions" /\ Delete(r) => r \notin {skipping, last} /\ \A i \in DOMAIN batch : batch[i] # r
  BY DEF Kept, Insert, Delete
<1>6. MarkerKept'
  BY <1>1, <1>2, <1>3, <1>5 DEF MarkerKept
<1> QED
  BY <1>4, <1>6

\* Nothing is lost where nothing changes.
LEMMA StutterCovers == OrderInv /\ Coverage /\ MarkerKept /\ UNCHANGED listVars => Coverage' /\ MarkerKept'
<1> SUFFICES ASSUME OrderInv, Coverage, MarkerKept, UNCHANGED listVars PROVE Coverage' /\ MarkerKept'
  OBVIOUS
<1>1. UNCHANGED <<rows, call, delimiter, pc, cursor, skipping, batch, short, page, last, got, again, stable, writes>>
  BY DEF listVars, read, scan
<1>2. \A s : Covered(s) => Covered(s)'
  BY <1>1, StaysCovered DEF OnPage
<1>3. \A s : (InBatch(s) => InBatch(s)') /\ (Ahead(s) => Ahead(s)')
  BY <1>1 DEF InBatch, Ahead, Jumped
<1>4. Due' = Due
  BY <1>1 DEF Due
<1>5. Coverage'
  BY <1>1, <1>2, <1>3, <1>4 DEF Coverage
<1>6. MarkerKept'
  BY <1>1, <1>3 DEF MarkerKept
<1> QED
  BY <1>5, <1>6

\* Each step keeps what is covered, when the marker and the histories are whole.
LEMMA StepCovers ==
    CoverInv /\ [ListCalmNext]_listVars /\ (call = "objects" \/ HistoriesWhole) => CoverInv'
<1> SUFFICES ASSUME CoverInv, [ListCalmNext]_listVars, call = "objects" \/ HistoriesWhole PROVE CoverInv'
  OBVIOUS
<1>1. OrderInv /\ Coverage /\ MarkerKept
  BY DEF CoverInv
<1>2. [ListNext]_listVars
  BY DEF ListCalmNext, ListNext
<1>3. OrderInv'
  BY <1>1, <1>2, StepOrder
<1>4. CASE UNCHANGED listVars
  BY <1>1, <1>3, <1>4, StutterCovers DEF CoverInv
<1>5. CASE Reader
  BY <1>1, <1>3, <1>5, FetchCovers, TakeObjectCovers, TakeVersionCovers, EndsCovers DEF Reader, CoverInv
<1>6. CASE \E r \in Row : Insert(r) \/ (~Kept(r) /\ Delete(r))
  BY <1>1, <1>3, <1>6, WritesCover DEF CoverInv
<1> QED
  BY <1>4, <1>5, <1>6 DEF ListCalmNext

\* No row of objects is a marker: all writes are calm.
LEMMA StepCoversObjects == ObjectsInv /\ [ListNext]_listVars => ObjectsInv'
<1> SUFFICES ASSUME ObjectsInv, [ListNext]_listVars PROVE ObjectsInv'
  OBVIOUS
<1>1. OrderInv /\ OrderInv'
  BY StepOrder DEF ObjectsInv
<1>2. call' = call
  BY DEF ListNext, Reader, Fetch, TakeObject, EndOfObjects, More, TakeVersion, EndOfVersions, Insert, Delete, listVars
<1>3. ASSUME call = "objects" PROVE Coverage'
  <2>1. CoverInv
    BY <1>3 DEF ObjectsInv, CoverInv, MarkerKept
  <2>2. \A r : ~Kept(r)
    BY <1>3 DEF Kept
  <2>3. [ListCalmNext]_listVars
    BY <2>2 DEF ListNext, ListCalmNext
  <2> QED
    BY <1>3, <2>1, <2>3, StepCovers DEF CoverInv
<1> QED
  BY <1>1, <1>2, <1>3 DEF ObjectsInv

\* In the beginning all is ahead.
LEMMA InitCovers == ListInit => CoverInv
<1> SUFFICES ASSUME ListInit PROVE CoverInv
  OBVIOUS
<1>1. OrderInv
  BY InitOrder
<1>2. batch = <<>> /\ DOMAIN batch = {} /\ pc = "fetch" /\ cursor = 0 /\ skipping = NoRow /\ last = NoRow
  BY DEF ListInit
<1>3. \A s \in Due : s.key > 0
  BY <1>1, DueFacts, Entries, Sizes
<1>4. Coverage
  BY <1>2, <1>3 DEF Coverage, Ahead
<1>5. MarkerKept
  BY <1>2 DEF MarkerKept
<1> QED
  BY <1>1, <1>4, <1>5 DEF CoverInv

\* At the end nothing is ahead.
LEMMA AllListed == OrderInv /\ Coverage => NothingSkipped
<1> SUFFICES ASSUME OrderInv, Coverage, pc = "done", NEW r \in stable, r.key \in Wanted \cap Shown
             PROVE  \E i \in DOMAIN got : got[i] = r \/ (GroupIn(r) # None /\ got[i] = Group(GroupIn(r)))
  BY DEF NothingSkipped
<1>1. r \in Due /\ batch = <<>> /\ page = <<>>
  BY DEF Due, OrderInv, Shape
<1>2. Covered(r)
  BY <1>1 DEF Coverage, InBatch, Ahead
<1>3. PICK e \in Entry : Entered(e) /\ Shows(e, r)
  BY <1>2 DEF Covered
<1>4. Received(e)
  BY <1>1, <1>3 DEF Entered, OnPage
<1> QED
  BY <1>3, <1>4 DEF Received, Shows

\* Queries are whole when a key has one version, or all rows fit into one.
LEMMA AllInOneQuery ==
    ASSUME Versions = 1 \/ N * Versions <= VersionBatch
    PROVE  OrderInv => HistoriesWhole
<1> SUFFICES ASSUME OrderInv PROVE HistoriesWhole
  OBVIOUS
<1> DEFINE all == Behind(cursor)
           found == Query(VersionBatch)
<1>1. rows \subseteq Row /\ all \subseteq Row /\ VersionBatch \in Nat \ {0}
  BY Sizes DEF OrderInv, Shape, TypeOK, Behind
<1>2. /\ found \in Seq(all)
      /\ Cardinality(all) <= VersionBatch => \A s \in all : \E i \in DOMAIN found : found[i] = s
  BY <1>1, QueryFacts
<1> HIDE DEF found
<1>3. CASE Versions = 1
  <2>1. \A x, y \in all : x.key = y.key => x = y
    BY <1>1, <1>3 DEF Row
  <2>2. \A i \in DOMAIN found : found[i] \in all
    BY <1>2
  <2> QED
    BY <2>1, <2>2 DEF HistoriesWhole, found
<1>4. CASE N * Versions <= VersionBatch
  <2>1. Cardinality(all) \in Nat /\ Cardinality(all) <= Cardinality(Row) /\ Cardinality(Row) \in Nat
    BY <1>1, RowsFinite, FS_Subset, FS_CardinalityType
  <2>2. Cardinality(Row) <= VersionBatch
    BY <1>4, RowsFinite, Zenon
  <2>3. Cardinality(all) <= VersionBatch
    BY <1>1, <2>1, <2>2
  <2> QED
    BY <1>2, <2>3 DEF HistoriesWhole, found
<1> QED
  BY <1>3, <1>4

\* Whatever others write and delete while a listing of objects is read: what was there
\* all the time and may be seen is on one of its pages, itself or as its group (a
\* filtered page moves the cursor; a page that ends with a group goes on behind all
\* of it).
THEOREM ObjectsAreAllListed == ListSpec => [](call = "objects" => NothingSkipped)
<1>1. ListInit => ObjectsInv
  BY InitCovers DEF CoverInv, ObjectsInv
<1>2. ObjectsInv /\ [ListNext]_listVars => ObjectsInv'
  BY StepCoversObjects
<1>3. ObjectsInv => (call = "objects" => NothingSkipped)
  BY AllListed DEF ObjectsInv
<1> QED
  BY <1>1, <1>2, <1>3, PTL DEF ListSpec

\* The same of the versions too, as long as no query of them ends within the history of
\* a key and the row that a page ends with is not deleted: what fetchVersionBatch and
\* the version marker cannot do without.
THEOREM WholeQueriesSkipNothing == ListCalmSpec /\ []HistoriesWhole => []NothingSkipped
<1>1. ListInit => CoverInv
  BY InitCovers
<1>2. CoverInv /\ [ListCalmNext]_listVars /\ HistoriesWhole => CoverInv'
  BY StepCovers
<1>3. CoverInv => NothingSkipped
  BY AllListed DEF CoverInv
<1> QED
  BY <1>1, <1>2, <1>3, PTL DEF ListCalmSpec

\* In particular when all the rows fit into one query, or there is one to a key, as in
\* the run.
THEOREM NothingIsSkipped ==
    ASSUME Versions = 1 \/ N * Versions <= VersionBatch
    PROVE  ListCalmSpec => []NothingSkipped
<1>1. ListInit => CoverInv
  BY InitCovers
<1>2. CoverInv /\ [ListCalmNext]_listVars => CoverInv'
  BY StepCovers, AllInOneQuery DEF CoverInv
<1>3. CoverInv => NothingSkipped
  BY AllListed DEF CoverInv
<1> QED
  BY <1>1, <1>2, <1>3, PTL DEF ListCalmSpec

=============================================================================
