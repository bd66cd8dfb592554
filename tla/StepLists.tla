----------------------------- MODULE StepLists ------------------------------
(***************************************************************************)
(* The lists that the step loops of the two batching simulators keep:      *)
(* cut at a capacity, appended to, and filtered by a comprehension.  Keep  *)
(* is SelectSeq with a set for the test, written with the places that are  *)
(* kept so that its results can be reasoned about.                         *)
(***************************************************************************)
EXTENDS Integers, Sequences, FiniteSetsExt

InList(list) == {list[k] : k \in DOMAIN list}
Lesser(a, b) == IF a < b THEN a ELSE b
FirstOf(list, n) == SubSeq(list, 1, Lesser(n, Len(list)))

\* The members of a list that are in S, in their order.
Keep(list, S) ==
  LET kept == {k \in DOMAIN list : list[k] \in S}
  IN  [n \in 1 .. Cardinality(kept) |->
         list[CHOOSE k \in kept : Cardinality({j \in kept : j <= k}) = n]]

\* How often i is in a list, and the sum of the weights of a set.
Times(i, list) == Cardinality({k \in DOMAIN list : list[k] = i})
Total(w, S) == MapThenSumSet(LAMBDA i : w[i], S)
=============================================================================
