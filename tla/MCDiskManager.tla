--------------------------- MODULE MCDiskManager ---------------------------
(* Two calls on one page are enough for two creations of a queue that race,  *)
(* for two run goroutines of one queue and for a call that arrives while one  *)
(* exits; with two pages, a read and a write queue overlap.                   *)
EXTENDS DiskManager
=============================================================================
