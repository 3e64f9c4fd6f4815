----------------------------- MODULE MCCatalog -----------------------------
(* Instances of Catalog for TLC. *)
EXTENDS Catalog, TLC

\* Clients and collections are interchangeable: no operator chooses one.
Symmetry == Permutations(Clients) \cup Permutations(Colls)

=============================================================================
