------------------------------ MODULE MCConsole ------------------------------
(***************************************************************************)
(* Console with two requests in flight in each part, two sockets, two      *)
(* sessions and a directory inside a directory.                            *)
(***************************************************************************)
EXTENDS Console
=============================================================================
