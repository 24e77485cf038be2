------------------------------ MODULE MCAlerts ------------------------------
(* An instance of Alerts: one rule, and two processes with the engine.     *)
EXTENDS Alerts

CONSTANT rate
OneRule == <<rate>>

\* The bound: a rule that is disabled has one severity; another one counts when it is
\* enabled again, which sets both.
Bounded == \A r \in Rules : rule'[r].enabled \/ rule'[r].severity = "warning"

MCSpec == Init /\ [][Next /\ Bounded]_vars /\ Fairness
=============================================================================
