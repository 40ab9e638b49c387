-------------------------------- MODULE MCHarvest --------------------------------
(***************************************************************************)
(* Values for the constants of Harvest that a .cfg cannot spell.            *)
(***************************************************************************)
EXTENDS Harvest

\* In eighths.  The second setting gives the locker more than the liqLIT pool.
EvenFees == [lock |-> 1, staker |-> 1, caller |-> 1, platform |-> 0]
LockerFees == [lock |-> 1, staker |-> 2, caller |-> 0, platform |-> 1]
SomeFees == {EvenFees, LockerFees}

\* An empty locker, and with a stream running: one in which the amount waits, one
\* with a queue in which it joins the stream, and one whose accumulator overflows.
Locker(queued, left, waits, settles) == [queued |-> queued, left |-> left, waits |-> waits, settles |-> settles]
SomeLockers ==
  {Locker(0, 0, FALSE, TRUE), Locker(0, 3, TRUE, TRUE), Locker(3, 3, FALSE, TRUE), Locker(0, 3, FALSE, FALSE)}
==================================================================================
