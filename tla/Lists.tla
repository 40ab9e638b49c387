---------------------------------- MODULE Lists ----------------------------------
(***************************************************************************)
(* Filtering and sorting of lists, as the tasks do it: a filter keeps the  *)
(* order of a list, and a sort is stable.  Both are written with the       *)
(* number of elements that come before one, and not by recursion, so that  *)
(* the lemmas of SharedProofs hold for them.                               *)
(***************************************************************************)
EXTENDS Integers, Sequences, FiniteSets

\* The positions S in the order of their keys, and by position where the keys are equal.
Ordered(S, key) ==
  LET Before(i) == {j \in S : key[j] < key[i] \/ (key[j] = key[i] /\ j < i)}
  IN  [k \in 1..Cardinality(S) |-> CHOOSE i \in S : Cardinality(Before(i)) = k - 1]
Ascending(S) == Ordered(S, [i \in S |-> i])

\* The elements of a list at some positions, or all of them by their keys.
At(seq, order) == [k \in 1..Len(order) |-> seq[order[k]]]
Filtered(seq, S) == At(seq, Ascending(S))
SortedBy(seq, key) == At(seq, Ordered(DOMAIN seq, key))

First(S) == CHOOSE i \in S : \A j \in S : i <= j
=================================================================================
