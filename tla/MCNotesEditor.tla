--------------------------- MODULE MCNotesEditor ---------------------------
(* NotesEditor for TLC.                                                     *)
EXTENDS NotesEditor, TLC

\* Pages are alike.
Symmetry == Permutations(Page)
=============================================================================
