----------------------------- MODULE MCTwnList -----------------------------
(***************************************************************************)
(* Four nodes: one the walker stands on, its neighbours, and a new one.    *)
(***************************************************************************)
EXTENDS TwnList

CONSTANTS n1, n2, n3, n4

MCNodes == {n1, n2, n3, n4}

\* Nodes are allocated and compared, no more.
Symmetry == Permutations(MCNodes)
=============================================================================
