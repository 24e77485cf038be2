---------------------------- MODULE MCMultipart ----------------------------
(* An instance of Multipart: two clients, and two parts, meet at u1; the   *)
(* reaper has u2 to see to as well.                                        *)
EXTENDS Multipart

CONSTANTS u1, c1

\* The bound: only c1 knows of the other upload, which has one part.
Bounded == \A c \in Clients : upload'[c] \in {None, u1} \/ (c = c1 /\ number'[c] <= 1)

MCCalmSpec == Init /\ [][Next /\ OneRelease' /\ Bounded]_vars /\ Scheduling
=============================================================================
