---- MODULE MCMigration ----
(* Five gauges: chunks of two, two and one, and two files of pools to add. *)
EXTENDS Migration
McGauges == <<"g1", "g2", "g3", "g4", "g5">>
McInitialPools == <<"g1">>
McMigrated == <<1, 3, 2, 4>>
====
