-------------------------- MODULE MCNodeInventory --------------------------
(***************************************************************************)
(* NodeInventory with two subscriptions that share a node, and one         *)
(* residential node.                                                       *)
(***************************************************************************)
EXTENDS NodeInventory, TLC

CONSTANTS s1, s2, n1, n2, r1

MCContents == {{n1, n2}, {n2}}

Symmetry == Permutations(Subs)
=============================================================================
