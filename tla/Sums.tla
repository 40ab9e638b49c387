---------------------------------- MODULE Sums ----------------------------------
(***************************************************************************)
(* Sums of the first n entries of a function on 1..n.  The contracts add up *)
(* balances, locks and unlocks in loops over an index; a sum over an index  *)
(* is written here once, as a recursive function, so that the lemmas of     *)
(* SharedProofs hold for it.                                               *)
(***************************************************************************)
EXTENDS Integers

\* f[1] + ... + f[n], and 0 when n = 0.
SumTo(f, n) ==
  LET s[i \in 0..n] == IF i = 0 THEN 0 ELSE s[i - 1] + f[i]
  IN  s[n]

\* f[m + 1] + ... + f[n].
SumBetween(f, m, n) == SumTo(f, n) - SumTo(f, m)

AtMost(a, b) == IF a <= b THEN a ELSE b
=================================================================================
