------------------------------ MODULE Selection ------------------------------
(***************************************************************************)
(* Choosing elements of a list: SelectSeq where the test is membership in  *)
(* a set, written as a recursive function so that it can be reasoned about.*)
(***************************************************************************)
EXTENDS Naturals, Sequences

\* The elements of a list that are wanted, in their order.
Only(list, wanted) ==
  LET upTo[n \in 0..Len(list)] ==
        IF n = 0 THEN <<>>
        ELSE IF list[n] \in wanted THEN Append(upTo[n - 1], list[n]) ELSE upTo[n - 1]
  IN upTo[Len(list)]
=============================================================================
