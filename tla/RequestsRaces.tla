--------------------------- MODULE RequestsRaces ---------------------------
(***************************************************************************)
(* Requests with a history of the buckets that take the name of the one a  *)
(* request without a signature is on its way to: allowAnonymous looks it   *)
(* up by its name, and requireBucket looks the name up again.              *)
(***************************************************************************)
EXTENDS Requests

VARIABLE taken      \* buckets created under a request's name between the two looks

raceVars == <<vars, taken>>

RaceInit == Init /\ taken = [c \in Clients |-> {}]

Awaits(c, b) ==
    req[c].pc \in {"route", "resolve"} /\ req[c].grant = Anonymous /\ req[c].call.bucket = b

RaceNext ==
    /\ Next
    /\ taken' = [c \in Clients |->
          IF At(c, "idle")' THEN {}
          ELSE taken[c] \cup {idOf'[b] : b \in {x \in Buckets :
                                  Awaits(c, x) /\ idOf'[x] \notin {idOf[x], 0}}}]

RaceSpec == RaceInit /\ [][RaceNext]_raceVars

-----------------------------------------------------------------------------

\* Without a signature a request changes nothing, and reads from a bucket that was
\* public at some time since it began, or that took the name of such a one after
\* allowAnonymous had looked and before the request found it.
AnonymousReadsPublic ==
    \A c \in Busy \ Signed :
        /\ \A t \in touched[c] : t[3] = "read"
        /\ touched[c] # {} => req[c].id \in opened[c] \cup taken[c]
=============================================================================
