------------------------------ MODULE MCFetch ------------------------------
(* Fetch with a table of up to MaxRows rows of which every second matches. *)
EXTENDS Fetch

MCMatching == {r \in 1..MaxRows : r % 2 = 1}
=============================================================================
