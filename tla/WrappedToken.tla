------------------------------ MODULE WrappedToken ------------------------------
(***************************************************************************)
(* What liqLIT promises: it is minted only against LIT that comes in, less  *)
(* a part that is owed to whoever locks, which is minted at most once.      *)
(***************************************************************************)
EXTENDS Integers

VARIABLES
  backing,            \* LIT that came in
  supply,             \* liqLIT minted
  owed                \* liqLIT that may yet be minted without more LIT

vars == <<backing, supply, owed>>

Init == backing = 0 /\ supply = 0 /\ owed = 0

\* LIT comes in: each unit of it is minted or owed, and what was owed may be minted, too.
Wrap ==
  /\ backing' > backing
  /\ supply' >= supply
  /\ owed' \in Nat
  /\ supply' + owed' = supply + owed + (backing' - backing)

PayOwed ==
  /\ supply' = supply + owed
  /\ owed' = 0
  /\ UNCHANGED backing

\* LIT comes in and nothing is minted for it.
Give ==
  /\ backing' > backing
  /\ UNCHANGED <<supply, owed>>

Next == Wrap \/ PayOwed \/ Give

Spec == Init /\ [][Next]_vars
=================================================================================
