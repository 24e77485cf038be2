------------------------------ MODULE Listing -------------------------------
(***************************************************************************)
(* One client reads a whole listing, page by page, while others write:     *)
(* ListObjects and ListObjectVersions.  db/{listing,version_listing}.go,   *)
(* s3api/{listing,versioning}.go, and listingLimit of s3api/authorize.go.  *)
(*                                                                         *)
(* Keys are numbers in their order.  A key with a delimiter belongs to the *)
(* group of the keys that share its common prefix, a range of keys; a      *)
(* cursor is the last key behind it, and prefix + highestRune is the last  *)
(* key of the group.  A row is a key and a version, which grow with time;  *)
(* in a bucket without versions it is always version 1.                    *)
(***************************************************************************)
EXTENDS Integers, Sequences, FiniteSets

CONSTANTS
    N,              \* keys are 1..N
    Versions,       \* versions of a key are 1..Versions
    GroupOf,        \* GroupOf[k]: the first key of k's group, or 0
    Wanted,         \* the range of keys under the prefix that is scanned
    Shown,          \* the keys that the caller's grant lets it see
    MaxKeys,        \* max-keys of the request
    ListBatch,      \* listBatchSize
    VersionBatch,   \* versionBatchSize
    MaxWrites       \* bound: writes while the client reads

Keys == 1..N
None == 0

ASSUME SizesAssumption ==
    {N, Versions, MaxKeys, ListBatch, VersionBatch} \subseteq Nat \ {0} /\ MaxWrites \in Nat
ASSUME KeysAssumption ==
    /\ GroupOf \in [Keys -> Keys \cup {None}]
    /\ \A k \in Keys : GroupOf[k] # None =>
        GroupOf[k] <= k /\ \A j \in GroupOf[k]..k : GroupOf[j] = GroupOf[k]
    /\ Shown \subseteq Keys /\ Wanted \subseteq Keys

VARIABLES
    rows,           \* objects, and object_versions with it
    call,           \* which listing it is
    delimiter,      \* the request has a delimiter
    pc,
    cursor,         \* the scan goes on behind this key
    skipping,       \* versions: the row the scan looks for, or NoRow
    batch,          \* rows of the last query that are yet to be seen
    short,          \* the last query returned less than it was allowed to
    page,           \* entries of the page so far
    last,           \* versions: the last row that made an entry
    got,            \* history: what the client has received
    again,          \* history: something was received a second time
    stable,         \* history: rows that have been there all the time
    writes

scan == <<cursor, skipping, batch, short, page, last>>
read == <<pc, scan, got, again>>
listVars == <<rows, call, delimiter, read, stable, writes>>

Row == [key : Keys, id : 1..Versions]
Group(g) == [key |-> g, id |-> None]        \* a common prefix
NoRow == Group(None)
Entry == Row \cup {Group(g) : g \in Keys}

TypeOK ==
    /\ rows \subseteq Row
    /\ call \in {"objects", "versions"}
    /\ delimiter \in BOOLEAN
    /\ pc \in {"fetch", "take", "more", "done"}
    /\ cursor \in 0..N
    /\ skipping \in Row \cup {NoRow}
    /\ batch \in Seq(Row)
    /\ short \in BOOLEAN
    /\ page \in Seq(Entry) /\ Len(page) <= MaxKeys
    /\ last \in Row \cup {NoRow}
    /\ got \in Seq(Entry) /\ again \in BOOLEAN
    /\ stable \subseteq rows
    /\ writes \in 0..MaxWrites

ListInit ==
    /\ call \in {"objects", "versions"} /\ delimiter \in BOOLEAN
    /\ rows \in SUBSET {r \in Row : call = "objects" => r.id = 1}
    /\ stable = rows
    /\ pc = "fetch" /\ cursor = 0 /\ skipping = NoRow
    /\ batch = <<>> /\ short = FALSE /\ page = <<>> /\ last = NoRow
    /\ got = <<>> /\ again = FALSE /\ writes = 0

-----------------------------------------------------------------------------
GroupIn(r) == IF delimiter THEN GroupOf[r.key] ELSE None        \* groupOf

\* Mistake: the cursor of a group is the prefix itself.
PrefixOfGroup(g) == g
EndOfGroup(g) == CHOOSE k \in Keys : GroupOf[k] = g /\ \A j \in Keys : GroupOf[j] = g => j <= k
Seen(r) == GroupIn(r) # None /\ \E i \in DOMAIN page : page[i] = Group(GroupIn(r))

\* Mistake: one entry more than asked for.
FullLater == Len(page) > MaxKeys
Full == Len(page) >= MaxKeys

\* The order of a listing: by key, the newest version first.
Before(a, b) == a.key < b.key \/ (a.key = b.key /\ a.id > b.id)
Behind(k) == {r \in rows : r.key \in Wanted /\ r.key > k}

\* The place of a row among others.
PlaceOf(r, S) == Cardinality({x \in S : ~Before(r, x)})

\* fetchKeyBatch and fetchVersionBatch.
Query(limit) ==
    LET first == {r \in Behind(cursor) : PlaceOf(r, Behind(cursor)) <= limit}
    IN  [i \in 1..Cardinality(first) |-> CHOOSE r \in first : PlaceOf(r, first) = i]

\* allowsKey, and allowsCommonPrefix: something below it may be seen.
Allowed(e) ==
    IF e.id = None THEN \E k \in Shown : GroupOf[k] = e.key ELSE e.key \in Shown

\* The entries of the page at some of its places.
EntriesAt(S) ==
    [n \in 1..Cardinality(S) |-> page[CHOOSE i \in S : Cardinality({j \in S : j <= i}) = n]]

Received(e) == \E i \in DOMAIN got : got[i] = e

Deliver ==
    LET visible == {i \in DOMAIN page : Allowed(page[i])}
        known == {i \in visible : Received(page[i])}
    IN  /\ got' = got \o EntriesAt(visible \ known)
        /\ again' = (again \/ \E i \in known : call = "objects" \/ page[i].id # None)

\* The page is the last one.
Finish ==
    /\ Deliver
    /\ pc' = "done"
    /\ cursor' = 0 /\ skipping' = NoRow /\ batch' = <<>> /\ short' = FALSE
    /\ page' = <<>> /\ last' = NoRow

\* The page is truncated, and the client asks for the next one.
NextPage(from, marker) ==
    /\ Deliver
    /\ pc' = "fetch"
    /\ cursor' = from /\ skipping' = marker /\ batch' = <<>> /\ short' = FALSE
    /\ page' = <<>> /\ last' = NoRow

Fetch ==
    /\ pc = "fetch"
    /\ LET limit == IF call = "objects" THEN ListBatch ELSE VersionBatch
           found == Query(limit)
       IN  IF found = <<>> THEN Finish
           ELSE /\ pc' = "take" /\ batch' = found /\ short' = (Len(found) < limit)
                /\ UNCHANGED <<cursor, skipping, page, last, got, again>>
    /\ UNCHANGED <<rows, call, delimiter, stable, writes>>

-----------------------------------------------------------------------------
(* ListObjects.                                                            *)

\* The cursor behind the last entry: the greater of the last key and the last group.
PreviousCursor ==
    LET e == page[Len(page)] IN IF e.id = None THEN EndOfGroup(e.key) ELSE e.key

\* A group that is on the page does not come up again (InOrder): the cursor is
\* behind all of it.
TakeObject ==
    /\ call = "objects" /\ pc = "take" /\ batch # <<>>
    /\ LET r == Head(batch)
           g == GroupIn(r)
       IN  \/ /\ Full
              /\ NextPage(PreviousCursor, NoRow)
           \/ /\ ~Full /\ g # None
              /\ page' = Append(page, Group(g))
              /\ cursor' = EndOfGroup(g) /\ batch' = <<>>
              /\ UNCHANGED <<pc, skipping, short, last, got, again>>
           \/ /\ ~Full /\ g = None
              /\ page' = Append(page, r)
              /\ cursor' = r.key /\ batch' = Tail(batch)
              /\ UNCHANGED <<pc, skipping, short, last, got, again>>
    /\ UNCHANGED <<rows, call, delimiter, stable, writes>>

\* Mistake: a short batch ends the listing, even after a group was skipped.
NeverJumped == FALSE

\* The cursor is at the end of a group: what follows was not in the batch.
Jumped == page # <<>> /\ page[Len(page)].id = None /\ cursor = EndOfGroup(page[Len(page)].key)

EndOfObjects ==
    /\ call = "objects" /\ pc = "take" /\ batch = <<>>
    /\ IF ~Full /\ short /\ ~Jumped THEN Finish
       ELSE /\ pc' = IF Full THEN "more" ELSE "fetch"
            /\ UNCHANGED <<scan, got, again>>
    /\ UNCHANGED <<rows, call, delimiter, stable, writes>>

More ==
    /\ pc = "more"
    /\ IF Behind(cursor) = {} THEN Finish ELSE NextPage(cursor, NoRow)
    /\ UNCHANGED <<rows, call, delimiter, stable, writes>>

-----------------------------------------------------------------------------
(* ListObjectVersions.                                                     *)

\* Mistake: the next page starts at the key, and forgets the version.
MarkerKey == NextPage(last.key - 1, NoRow)

\* The next page starts at the key of the last entry, and looks for its version.
Marker == NextPage(last.key - 1, last)

TakeVersion ==
    /\ call = "versions" /\ pc = "take" /\ batch # <<>>
    /\ LET r == Head(batch)
           g == GroupIn(r)
           e == IF g = None THEN r ELSE Group(g)
       IN  \/ /\ skipping # NoRow
              /\ skipping' = IF r = skipping THEN NoRow ELSE skipping
              /\ cursor' = skipping.key /\ batch' = Tail(batch)
              /\ UNCHANGED <<pc, short, page, last, got, again>>
           \/ /\ skipping = NoRow /\ Seen(r)
              /\ cursor' = r.key /\ batch' = Tail(batch)
              /\ UNCHANGED <<pc, skipping, short, page, last, got, again>>
           \/ /\ skipping = NoRow /\ ~Seen(r) /\ Full
              /\ Marker
           \/ /\ skipping = NoRow /\ ~Seen(r) /\ ~Full
              /\ page' = Append(page, e) /\ last' = r
              /\ cursor' = r.key /\ batch' = Tail(batch)
              /\ UNCHANGED <<pc, skipping, short, got, again>>
    /\ UNCHANGED <<rows, call, delimiter, stable, writes>>

\* Behind the last key: what its history holds beyond the batch is passed over.
EndOfVersions ==
    /\ call = "versions" /\ pc = "take" /\ batch = <<>>
    /\ IF short THEN Finish ELSE pc' = "fetch" /\ UNCHANGED <<scan, got, again>>
    /\ UNCHANGED <<rows, call, delimiter, stable, writes>>

-----------------------------------------------------------------------------
(* Other clients.                                                          *)

Insert(r) ==
    /\ writes < MaxWrites
    /\ r \notin rows
    /\ IF call = "objects" THEN r.id = 1 ELSE \A x \in rows : x.key = r.key => x.id < r.id
    /\ rows' = rows \cup {r} /\ writes' = writes + 1
    /\ UNCHANGED <<call, delimiter, read, stable>>

Delete(r) ==
    /\ writes < MaxWrites
    /\ r \in rows
    /\ rows' = rows \ {r} /\ stable' = stable \ {r} /\ writes' = writes + 1
    /\ UNCHANGED <<call, delimiter, read>>

Reader == Fetch \/ TakeObject \/ EndOfObjects \/ More \/ TakeVersion \/ EndOfVersions

ListNext == Reader \/ \E r \in Row : Insert(r) \/ Delete(r)
ListSpec == ListInit /\ [][ListNext]_listVars /\ WF_listVars(Reader)

\* No row is deleted that a page of versions may end with or has ended with, before
\* the next page has found it.
Kept(r) == call = "versions" /\ (r \in {skipping, last} \/ \E i \in DOMAIN batch : batch[i] = r)
ListCalmNext == Reader \/ \E r \in Row : Insert(r) \/ (~Kept(r) /\ Delete(r))
ListCalmSpec == ListInit /\ [][ListCalmNext]_listVars /\ WF_listVars(Reader)

-----------------------------------------------------------------------------
(* Properties.                                                             *)

\* The pages together are in order, and nothing is on two of them, whatever is
\* written meanwhile (seenPrefixes, previousCursor, the markers); but a group whose
\* rows two pages of versions share is on both.
InOrder ==
    /\ ~again
    /\ \A i, j \in DOMAIN got : i < j => got[i].key <= got[j].key

\* Whatever was there all the time and may be seen is on one of the pages, itself
\* or as its group (handleListObjects: "a filtered page cannot cause the client to
\* skip anything").
NothingSkipped ==
    pc = "done" =>
        \A r \in stable : r.key \in Wanted \cap Shown =>
            \E i \in DOMAIN got : got[i] = r \/ (GroupIn(r) # None /\ got[i] = Group(GroupIn(r)))

\* The client comes to the end of the listing: no page returns it to where it was.
Ends == <>(pc = "done")
=============================================================================
