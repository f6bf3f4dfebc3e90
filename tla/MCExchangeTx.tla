---------------------------- MODULE MCExchangeTx ----------------------------
(* Two sessions on a handful of rows. *)
EXTENDS ExchangeTx, TLC

CONSTANTS t1, t2, a, b, w1, post, meet

\* Two matches compete for item 2 and rest on the same want.
Vee == {<<1, 2>>, <<2, 3>>}
VeeRelies == [p \in Vee |-> {w1}]

\* Sessions are alike, and so are the two sides and the plans: no definition
\* tells them apart.
Alike == Permutations(Tx) \cup Permutations(Side) \cup Permutations(Plans)
=============================================================================
