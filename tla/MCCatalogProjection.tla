------------------------ MODULE MCCatalogProjection ------------------------
(* CatalogProjection on small instances: the pass limits of operations-catalog.ts, scaled down. *)
EXTENDS CatalogProjection, TLC

Symmetry == Permutations(Tasks) \cup Permutations(Origins) \cup Permutations(Envs)
=============================================================================
