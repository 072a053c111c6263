------------------------------- MODULE ListOps --------------------------------
(***************************************************************************)
(* The loops that copy, keep or erase some of the elements of a list. The  *)
(* choice is a set of indexes, not an operator as in SelectSeq, so that    *)
(* lemmas about Picked can be stated for every choice and cited.           *)
(***************************************************************************)
EXTENDS Naturals, Sequences

\* The elements of s at the indexes in I, in their order.
Picked(s, I) ==
  LET picked[k \in 0..Len(s)] ==
        IF k = 0 THEN <<>>
        ELSE IF k \in I THEN Append(picked[k - 1], s[k]) ELSE picked[k - 1]
  IN  picked[Len(s)]
===============================================================================
