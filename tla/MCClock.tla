------------------------------ MODULE MCClock ------------------------------
(* Two entries of two segments, with the loops and retries of the code.       *)
EXTENDS Clock
=============================================================================
