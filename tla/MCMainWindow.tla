--------------------------- MODULE MCMainWindow ---------------------------
(***************************************************************************)
(* Small instances of MainWindow for TLC.                                  *)
(***************************************************************************)
EXTENDS MainWindow, TLC

CONSTANTS f, g, blank, doc, other

Symmetry == Permutations(Files)
===========================================================================
