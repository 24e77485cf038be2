--------------------------- MODULE AccountsRaces ----------------------------
(***************************************************************************)
(* Accounts with a history of the statements that demote or remove an      *)
(* administrator on a count that is not true any more.  Each counts in its *)
(* own snapshot, and two of them update different rows.                    *)
(***************************************************************************)
EXTENDS Accounts

VARIABLE overtaken  \* requests since whose count another has taken an administrator away

raceVars == <<vars, overtaken>>

\* A statement that has counted the administrators is under way.
Counting(c) == pc[c] \in {"role", "removing"}

RaceInit == Init /\ overtaken = {}

RaceNext ==
    /\ Next
    /\ overtaken' = {c \in Clients :
         Counting(c) /\ Counting(c)' /\ (c \in overtaken \/ ~(Admins \subseteq Admins'))}

RaceSpec == RaceInit /\ [][RaceNext]_raceVars

-----------------------------------------------------------------------------

\* "Two concurrent demotions cannot each see a second admin that the other is
\* removing" (SetUserRole; DeleteUser counts in the same way): nothing leaves the
\* console without an administrator but a statement that had counted another one
\* whom somebody took away before it wrote.
OnlyOverlapsLeaveNoAdmin ==
    [][Admins # {} /\ Admins' = {} =>
         \E c \in overtaken : Counting(c) /\ pc'[c] = "idle"]_vars
=============================================================================
