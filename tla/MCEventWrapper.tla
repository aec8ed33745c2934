--------------------------- MODULE MCEventWrapper ---------------------------
(* Two calls that wait on the same listener method.                         *)
EXTENDS EventWrapper

CONSTANTS a, b

MCCalls == {a, b}
=============================================================================
