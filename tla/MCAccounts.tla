----------------------------- MODULE MCAccounts -----------------------------
(* Two requests at a time, a few tokens and links, and a change of password. *)
EXTENDS Accounts, TLC

CONSTANTS r1, r2, t1, t2, l1, l2

\* Requests and ids are interchangeable.
Ids == Permutations(Requests) \cup Permutations(Tokens) \cup Permutations(Links)
=============================================================================
