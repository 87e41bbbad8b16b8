----------------------------- MODULE MCTinyLfu -----------------------------
(* Two keys that share a bit of the doorkeeper and a column in the first of   *)
(* the two rows of the sketch.  A sample of two accesses instead of 800000:    *)
(* three goroutines can all find it full.                                      *)
EXTENDS TinyLfu

MCBit == [k \in Keys |-> CASE k = "k1" -> <<1, 2>> [] k = "k2" -> <<2, 3>>]
MCCell == [k \in Keys |-> CASE k = "k1" -> <<1, 1>> [] k = "k2" -> <<1, 2>>]
=============================================================================
