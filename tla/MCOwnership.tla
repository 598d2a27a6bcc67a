---------------------------- MODULE MCOwnership -----------------------------
(***************************************************************************)
(* Ownership on two nodes.                                                 *)
(***************************************************************************)
EXTENDS Ownership, TLC

CONSTANTS n1, n2

MCNode == {n1, n2}

Symmetry == Permutations(MCNode)
=============================================================================
