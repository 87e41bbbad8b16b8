------------------------------- MODULE MCWal -------------------------------
(* Pages of 24 bytes with a header of 2 and checkpoints of 4: the proportions   *)
(* of the code's 8192, 8 and 17 scaled down, so that a few logs fill a page.    *)
EXTENDS Wal
=============================================================================
