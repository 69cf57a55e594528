-------------------------- MODULE MCProxyServices --------------------------
(***************************************************************************)
(* ProxyServices with two requests, two groups and a listener.             *)
(***************************************************************************)
EXTENDS ProxyServices, TLC

CONSTANTS o1, o2, g1, g2, l1

Symmetry == Permutations(Ops) \cup Permutations(Groups)
=============================================================================
