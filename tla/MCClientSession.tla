-------------------------- MODULE MCClientSession --------------------------
(* A browser with two tabs, interchangeable ones. *)
EXTENDS ClientSession, TLC

CONSTANTS t1, t2, c1

Alike == Permutations(Tabs)
=============================================================================
