------------------------------- MODULE Barter -------------------------------
(***************************************************************************)
(* What the marketplace promises, and nothing of how it is stored.         *)
(*                                                                         *)
(* A swap is a pair of items of two different people.  It is proposed at   *)
(* most once in the life of the pair; a proposed swap may be agreed, an    *)
(* agreed one may be carried out, and either may be called off.  An item   *)
(* that an agreed swap promises, or that a swap has carried away, or that  *)
(* its owner has retired, can be promised by no other swap.                *)
(*                                                                         *)
(* Whether a proposal is a good one is left open on purpose: a proposal    *)
(* may name an item that has just been promised elsewhere (the matching    *)
(* worker reads a snapshot that may be out of date).  The promise is that  *)
(* such a proposal never becomes an agreement.                             *)
(***************************************************************************)
EXTENDS Naturals

CONSTANTS
  Items,      \* the items people may list
  Pairs       \* the swaps that may be proposed: ordered pairs of items

VARIABLES
  stage,      \* [Pairs -> Stages]: how far each swap has come
  listed,     \* the items on offer now or at some time before
  retired     \* the listed items their owners took back

vars == <<stage, listed, retired>>

Stages == {"none", "proposed", "agreed", "done", "off"}

ItemsOf(p) == {p[1], p[2]}

\* The swaps of S that have reached one of the stages T.
At(T) == {p \in Pairs : stage[p] \in T}

\* i is promised to somebody, or has already changed hands.
Taken(i) == \E p \in At({"agreed", "done"}) : i \in ItemsOf(p)

Advance(S, to) == [p \in Pairs |-> IF p \in S THEN to ELSE stage[p]]
-----------------------------------------------------------------------------
Init ==
  /\ stage = [p \in Pairs |-> "none"]
  /\ listed \in SUBSET Items
  /\ retired = {}

List(i) ==
  /\ i \notin listed
  /\ listed' = listed \cup {i}
  /\ UNCHANGED <<stage, retired>>

\* An owner takes back an item that is neither promised nor gone; some of the
\* proposals in the market are called off on that occasion.
Retire(i) ==
  /\ i \in listed \ retired
  /\ ~Taken(i)
  /\ retired' = retired \cup {i}
  /\ \E off \in SUBSET At({"proposed"}) : stage' = Advance(off, "off")
  /\ UNCHANGED listed

Propose ==
  /\ \E new \in SUBSET At({"none"}) :
       /\ \A p \in new : ItemsOf(p) \subseteq listed
       /\ stage' = Advance(new, "proposed")
  /\ UNCHANGED <<listed, retired>>

\* The heart of the promise: only free items can be agreed upon.
Agree(p) ==
  /\ stage[p] = "proposed"
  /\ \A i \in ItemsOf(p) : i \notin retired /\ ~Taken(i)
  /\ \E off \in SUBSET (At({"proposed"}) \ {p}) :
       stage' = [Advance(off, "off") EXCEPT ![p] = "agreed"]
  /\ UNCHANGED <<listed, retired>>

CarryOut(p) ==
  /\ stage[p] = "agreed"
  /\ \E off \in SUBSET At({"proposed"}) :
       stage' = [Advance(off, "off") EXCEPT ![p] = "done"]
  /\ UNCHANGED <<listed, retired>>

\* Proposals are declined or fall away, or one agreement is called off.
CallOff ==
  /\ \/ \E off \in SUBSET At({"proposed"}) : stage' = Advance(off, "off")
     \/ \E p \in At({"agreed"}) : stage' = Advance({p}, "off")
  /\ UNCHANGED <<listed, retired>>

Next ==
  \/ Propose
  \/ \E i \in Items : List(i) \/ Retire(i)
  \/ \E p \in Pairs : Agree(p) \/ CarryOut(p)
  \/ CallOff

Spec == Init /\ [][Next]_vars
-----------------------------------------------------------------------------
TypeOK ==
  /\ stage \in [Pairs -> Stages]
  /\ listed \in SUBSET Items
  /\ retired \in SUBSET listed

\* No item is promised to, or carried away by, two swaps.
OnePromisePerItem ==
  \A p, q \in At({"agreed", "done"}) :
    p # q => ItemsOf(p) \cap ItemsOf(q) = {}

\* A retired item is never part of an agreement.
RetiredIsFree == \A i \in retired : ~Taken(i)
=============================================================================
