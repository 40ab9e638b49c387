------------------------------- MODULE MCBooster -------------------------------
(* Two gauges of one LP token. *)
EXTENDS Booster

CONSTANT lpToken

SharedLpToken == [g \in 1..2 |-> lpToken]
=================================================================================
