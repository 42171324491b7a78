--------------------------- MODULE SequenceFilters ---------------------------
(***************************************************************************)
(* List comprehensions that drop elements, as the cache, the rate limits,  *)
(* the retrieval engine and the planner write them, and running totals.    *)
(* SelectSeq takes an operator and recurses by one, which proofs cannot    *)
(* unfold; Without takes the set that goes and recurses by a function.     *)
(***************************************************************************)
EXTENDS Integers, Sequences

\* What is left of a sequence without the elements of a set.
Without(s, S) ==
    LET kept[n \in 0 .. Len(s)] ==
          IF n = 0 THEN <<>>
          ELSE IF s[n] \in S THEN kept[n - 1] ELSE Append(kept[n - 1], s[n])
    IN  kept[Len(s)]

\* Running(s)[n] is the sum of the first n members of a sequence of numbers.
Running(s) ==
    LET total[n \in 0 .. Len(s)] == IF n = 0 THEN 0 ELSE total[n - 1] + s[n]
    IN  total
=============================================================================
