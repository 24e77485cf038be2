-------------------------- MODULE MCBlobStoreLive --------------------------
(* BlobStoreLive in one process, with two requests that have a row each:   *)
(* what they wait for is each other's digests, and the sweeper's.          *)
EXTENDS BlobStoreLive

CONSTANTS s3, w1, key1, key2

MCProcs == {s3}
MCProcOf == [a \in Writers \cup Sweepers |-> s3]

\* The bound: w1 stores and deletes, the other request stores; a copy would be an
\* upload of contents that are there.
RowOf(w) == IF w = w1 THEN key1 ELSE key2
Bounded == \A w \in Writers : row'[w] \in {NoRow, RowOf(w)} /\ ~Copy(w) /\ (w # w1 => ~Delete(w))

MCLiveSpec == Init /\ [][Next /\ Bounded]_vars /\ Scheduling
=============================================================================
