------------------------------ MODULE MCStorage ------------------------------
(* Clusters and names for the runs of Storage.                               *)
EXTENDS Storage, TLC

CONSTANTS east, west, north, m, n

Symmetry == Permutations(Clusters) \union Permutations(Names)
=============================================================================
