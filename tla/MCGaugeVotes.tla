---- MODULE MCGaugeVotes ----
(* Four gauges, two of them with the same label; the last one keeps snapshot:generate from working until it is killed. *)
EXTENDS GaugeVotes
McGauges == <<"g1", "g2", "g3", "g4">>
McName == [g1 |-> "A", g2 |-> "MISSING", g3 |-> "MISSING", g4 |-> "B"]
McSymbols == [g1 |-> "a", g2 |-> "b", g3 |-> "c", g4 |-> "B"]
McKind == [g1 |-> "weth", g2 |-> "weth", g3 |-> "n/a", g4 |-> "other"]
McPriorityGauges == <<"g2", "g0">>
====
