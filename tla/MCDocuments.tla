---------------------------- MODULE MCDocuments ----------------------------
(* Documents for TLC. *)
EXTENDS Documents, TLC

Symmetry == Permutations(Clients) \cup Permutations(Ids)

=============================================================================
