------------------------- MODULE MCWorkerSupervisor -------------------------
(* Two restarts that may overlap, and four children: enough for a third    *)
(* crash in the window and for a crash of a replacement.                   *)
EXTENDS WorkerSupervisor

CONSTANTS c1, c2

MCCalls == {c1, c2}
=============================================================================
