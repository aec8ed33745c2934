--------------------------- MODULE MCCleanupQueue ---------------------------
(* Three records over two paths: two of them share a path, so the   *)
(* timers, cancellations and retries of one path meet.                     *)
EXTENDS CleanupQueue

CONSTANTS f1, f2, r1, r2, r3

MCFiles == {f1, f2}
MCRecords == {r1, r2, r3}
MCfile == [r \in MCRecords |-> IF r = r3 THEN f2 ELSE f1]
=============================================================================
