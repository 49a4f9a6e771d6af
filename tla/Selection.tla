----------------------------- MODULE Selection -----------------------------
(***************************************************************************)
(* The elements of a sequence that lie in a set, in their order: what the  *)
(* code's iterators filter and collect.  It is SelectSeq with a set for    *)
(* its test and a recursive function for its recursion, so that facts      *)
(* about it can be stated for every set and proved.                        *)
(***************************************************************************)
EXTENDS Integers, Sequences

Only(s, S) ==
  LET sel[n \in 0..Len(s)] ==
        IF n = 0 THEN << >>
        ELSE IF s[n] \in S THEN Append(sel[n - 1], s[n]) ELSE sel[n - 1]
  IN  sel[Len(s)]
=============================================================================
