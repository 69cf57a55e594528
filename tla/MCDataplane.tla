---------------------------- MODULE MCDataplane ----------------------------
(***************************************************************************)
(* Dataplane on a small instance: a configuration with listeners, a second *)
(* one the validator rejects or accepts, the empty one and the bootstrap   *)
(* file.                                                                   *)
(***************************************************************************)
EXTENDS Dataplane, FiniteSets

CONSTANTS A, B, Bad
=============================================================================
