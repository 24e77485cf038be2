------------------------------- MODULE MCLogs -------------------------------
(* An instance of LogsRaces.                                               *)
EXTENDS LogsRaces
=============================================================================
