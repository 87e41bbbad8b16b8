----------------------------- MODULE MCRecovery -----------------------------
(* The layout of MCWal with log headers of 5 bytes, and up to two crashes.   *)
EXTENDS Recovery
=============================================================================
