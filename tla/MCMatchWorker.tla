--------------------------- MODULE MCMatchWorker ---------------------------
(* Two requests, three changes, and two ends of the process. *)
EXTENDS MatchWorker

CONSTANTS r1, r2
=============================================================================
