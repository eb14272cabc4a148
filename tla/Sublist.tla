------------------------------ MODULE Sublist ------------------------------
(***************************************************************************)
(* The sublist of the items at some places of a list, in their order.  A   *)
(* recursive function, where SelectSeq would do, as proofs cannot look     *)
(* into SelectSeq.                                                         *)
(***************************************************************************)
EXTENDS Integers, Sequences

Sublist(list, places) ==
  LET taken[n \in 0..Len(list)] ==
        IF n = 0 THEN <<>>
        ELSE IF n \in places THEN Append(taken[n - 1], list[n]) ELSE taken[n - 1]
  IN  taken[Len(list)]
=============================================================================
