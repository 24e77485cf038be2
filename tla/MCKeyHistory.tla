---------------------------- MODULE MCKeyHistory ----------------------------
(* KeyHistory with its requests interchangeable.                           *)
EXTENDS KeyHistory, TLC

MCSymmetry == Permutations(Writers) \cup Permutations(Blobs)
=============================================================================
