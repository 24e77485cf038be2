----------------------------- MODULE MCAccounts -----------------------------
(* An instance of AccountsRaces.  Clients and rows of sessions are         *)
(* interchangeable.                                                        *)
EXTENDS AccountsRaces, TLC

Interchangeable == Permutations(Clients) \cup Permutations(Slots)
=============================================================================
