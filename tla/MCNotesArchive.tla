---------------------------- MODULE MCNotesArchive ----------------------------
(***************************************************************************)
(* NotesArchive with one note, two dates and two script runs at a time.    *)
(***************************************************************************)
EXTENDS NotesArchive, TLC

CONSTANTS t1, t2, d1, d2

Symmetry == Permutations({t1, t2}) \cup Permutations({d1, d2})
=============================================================================
