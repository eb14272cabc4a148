------------------------- MODULE MCDatabaseWidget -------------------------
(***************************************************************************)
(* Small instances of DatabaseWidget for TLC.                              *)
(***************************************************************************)
EXTENDS DatabaseRefinement, TLC

CONSTANTS t1, t2, empty, hash, raw, typed, kept

Symmetry == Permutations(Tables)

\* A typed text is one like 007, 1e3 or nan: a column may keep it as it is, as
\* another number (where the texts have one) or as NULL.  Other texts are kept
\* as they are.
SomeConverted ==
  [v \in Texts |-> IF v = typed THEN (Texts \cap {typed, kept}) \cup {Null} ELSE {v}]
AsTyped == [v \in Texts |-> {v}]

\* Rowids that fit an int of 3 bits, and two whose low bits agree.
SmallRowIds == {1, 2}
OneRowId == {1}
WideRowIds == {1, 9}
=============================================================================
