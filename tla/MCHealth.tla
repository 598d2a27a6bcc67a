------------------------------ MODULE MCHealth ------------------------------
(***************************************************************************)
(* Health on two nodes.                                                    *)
(***************************************************************************)
EXTENDS Health

CONSTANTS n1, n2

MCNode == {n1, n2}
=============================================================================
