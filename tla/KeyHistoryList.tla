--------------------------- MODULE KeyHistoryList ---------------------------
(***************************************************************************)
(* The two tables of KeyHistory implement the list of VersionList when the *)
(* requests for a key come one at a time and the bucket's settings change  *)
(* between them: order by timestamp is then order of arrival.  The rows of *)
(* history, oldest first, and the objects row after them are the list.     *)
(***************************************************************************)
EXTENDS KeyHistory, Sequences

CONSTANT Nothing

\* What the list has of a row.
Version(v) == [id |-> v.id, body |-> v.body]

\* Rows in the order of created_at, oldest first.
Place(rows, v) == Cardinality({u \in rows : u.at <= v.at})
InOrder(rows) == [i \in 1..Cardinality(rows) |-> CHOOSE v \in rows : Place(rows, v) = i]

VersionsOf(rows) == [i \in DOMAIN rows |-> Version(rows[i])]
RowList == InOrder(history) \o (IF current = NoObject THEN <<>> ELSE <<current>>)

List == INSTANCE VersionList WITH
    Contents <- Blobs,
    Ids <- Times,
    mode <- versioning,
    list <- VersionsOf(RowList),
    visible <- IF current = NoObject THEN Nothing ELSE current.body

Quiet == \A w \in Writers : pc[w] = "idle"

OrderedNext ==
    \/ \E w \in Writers : (Quiet /\ Arrive(w)) \/ Begin(w) \/ Write(w)
    \/ Quiet /\ PutVersioning

OrderedSpec == Init /\ [][OrderedNext]_vars

\* Every request does to the list what S3 says it does, the GET of the key
\* included: a put or a delete goes on top, deleting a version takes out that
\* one alone, and what is on top afterwards is what shows.
ImplementsVersionList == List!Spec
=============================================================================
