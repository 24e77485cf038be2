----------------------------- MODULE MCListing ------------------------------
(* An instance of Listing: keys 2 and 3 share a common prefix.             *)
EXTENDS Listing

Groups == [k \in Keys |-> IF k \in {2, 3} THEN 2 ELSE None]
=============================================================================
