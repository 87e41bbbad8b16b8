------------------------------ MODULE MCLogger ------------------------------
(***************************************************************************)
(* Three requests: two with a channel, one of the debug level.            *)
(***************************************************************************)
EXTENDS Logger

CONSTANTS a, b, c

MCLogs == {a, b, c}
MCWaited == {b, c}
MCDebug == {c}
=============================================================================
