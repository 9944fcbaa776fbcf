---------------------------- MODULE Subsequences ----------------------------
(***************************************************************************)
(* What filtering a sequence leaves.  The test is a set and the filter a    *)
(* recursive function, so that facts about it can be proved of all sets and *)
(* sequences; SelectSeq takes an operator.                                  *)
(***************************************************************************)
EXTENDS Integers, Sequences

\* The items of s that are in S, in their order.
Among(s, S) ==
  LET kept[n \in 0..Len(s)] ==
        IF n = 0 THEN <<>> ELSE IF s[n] \in S THEN Append(kept[n - 1], s[n]) ELSE kept[n - 1]
  IN  kept[Len(s)]
=============================================================================
