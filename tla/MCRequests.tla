---------------------------- MODULE MCRequests -----------------------------
(* An instance of RequestsRaces: two buckets, and two keys under prefixes  *)
(* of their own.                                                           *)
EXTENDS RequestsRaces

CONSTANTS bA, bB, kA, kB, whole, underA

MCCovered == [p \in {whole, underA} |-> IF p = whole THEN {kA, kB} ELSE {kA}]

Rule(b, p, permissions) == [bucket |-> b, prefix |-> p, permissions |-> permissions]
MCScopes == {Unrestricted, {},
             {Rule(bA, underA, Permissions)},
             {Rule(bA, whole, {"read", "delete"}), Rule(bB, whole, {"write"}), Rule(bB, underA, {"read"})}}
=============================================================================
