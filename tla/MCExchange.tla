----------------------------- MODULE MCExchange -----------------------------
(* Small markets for TLC. *)
EXTENDS Exchange, TLC

CONSTANTS ann, bob,      \* users
          w1, w2, w3,    \* wants
          any, good,     \* criteria
          worn, fine,    \* listings
          post, meet     \* plans

\* Ann has two items, bob one: the two matches compete for bob's item.  Bob has
\* two wants, so that one pair of items can rest on different wants.
DuoOwner == (1 :> ann) @@ (2 :> bob) @@ (3 :> ann)
DuoWanter == (w1 :> ann) @@ (w2 :> bob) @@ (w3 :> bob)

\* Nothing tells bob's two wants apart.
Alike == Permutations({w2, w3})

\* One pair of items, and every way to describe, edit and plan.
PairOwner == (1 :> ann) @@ (2 :> bob)
PairWanter == (w1 :> ann) @@ (w2 :> bob)

\* "any" takes a worn or a fine item, "good" only a fine one.
Takes == {<<any, worn>>, <<any, fine>>, <<good, fine>>}
TakesAll == {any} \X {worn}
=============================================================================
