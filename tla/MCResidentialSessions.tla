------------------------ MODULE MCResidentialSessions ------------------------
(***************************************************************************)
(* ResidentialSessions with two windows, two nodes and two consumers.     *)
(***************************************************************************)
EXTENDS ResidentialSessions, TLC

CONSTANTS n1, n2, h1, h2

Symmetry == Permutations(Nodes) \cup Permutations(Holders)
=============================================================================
