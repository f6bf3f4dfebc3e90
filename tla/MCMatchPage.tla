---------------------------- MODULE MCMatchPage ----------------------------
(* Two users, two plans and two actions of the page at once: two saves, a   *)
(* save and a button, or two ratings.                                       *)
EXTENDS MatchPage, TLC

CONSTANTS ann, bob, post, meet, first, second

\* Neither the plans nor the names of the actions are told apart.
Alike == Permutations(Plans) \cup Permutations(Requests)
=============================================================================
