----------------------------- MODULE LogsRaces -----------------------------
(***************************************************************************)
(* Logs with a history of the entries that the stream is bound to pass     *)
(* over.  It asks for ids above the last one it has shown, ids are given   *)
(* at the insert and become visible at the commit, and one answer has at   *)
(* most TailLimit entries, the newest ones.                                *)
(***************************************************************************)
EXTENDS Logs

VARIABLES
    late,       \* entries committed when one with a greater id was visible already
    crowded     \* entries not yet shown, when TailLimit newer ones were visible already

raceVars == <<vars, late, crowded>>

Newer(r) == {x \in visible : row[x] > row[r]}

RaceInit == Init /\ late = {} /\ crowded = {}

RaceNext ==
    /\ Next
    /\ late' = late \cup {r \in visible' \ visible : Newer(r) # {}}
    /\ crowded' = crowded \cup {r \in visible :
         tail.from >= 0 /\ row[r] > tail.last /\ Cardinality(Newer(r)) >= TailLimit}

RaceSpec == RaceInit /\ [][RaceNext]_raceVars /\ Fairness

-----------------------------------------------------------------------------

Sent(r) == \E i \in DOMAIN shown : shown[i] = r

\* The stream sends what is committed after it began, once and in the order of the
\* ids; and it passes over an entry only if processes inserted side by side and the
\* entry was committed after one with a greater id, or if more came at once than the
\* stream reads.
OnlyRacesHideEntries ==
    /\ \A i, j \in DOMAIN shown : i < j => row[shown[i]] < row[shown[j]]
    /\ \A r \in visible :
         tail.from >= 0 /\ row[r] > tail.from /\ row[r] <= tail.last
             => Sent(r) \/ r \in late \cup crowded

\* An entry does not stay in a process: it gets into the log, or is lost with a flush
\* that failed or with the process.  And one that gets into the log while somebody
\* watches is shown, but for those that the stream passes over.
EntriesArrive ==
    \A r \in Requests :
        /\ InMemory(r) ~> (r \in visible \cup discarded
                              \/ (~InMemory(r) /\ \E n \in Nodes : ~Running(n)))
        /\ (r \in visible /\ tail.from \in 0..(row[r] - 1))
               ~> (Sent(r) \/ r \in late \cup crowded)
=============================================================================
