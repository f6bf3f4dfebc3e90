--------------------------- MODULE MCMatchThread ---------------------------
(* Two users, two requests at a time, and one page. *)
EXTENDS MatchThread

CONSTANTS ann, bob, r1, r2
=============================================================================
