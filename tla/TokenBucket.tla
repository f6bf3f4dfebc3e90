---------------------------- MODULE TokenBucket ----------------------------
(***************************************************************************)
(* What a rate limiter promises: every client has a bucket of Burst        *)
(* shares that is always there, gains PerMinute of them a tick, and gives  *)
(* Minute of them for a request.  A refused request changes nothing.       *)
(***************************************************************************)
EXTENDS Naturals

CONSTANTS Keys, PerMinute, Minute

VARIABLE level   \* [Keys -> 0..Burst]

Burst == PerMinute * Minute

Init == level = [k \in Keys |-> Burst]

Fill ==
  level' = [k \in Keys |-> IF level[k] + PerMinute < Burst THEN level[k] + PerMinute ELSE Burst]

Take(k) ==
  /\ level[k] >= Minute
  /\ level' = [level EXCEPT ![k] = @ - Minute]

Next == Fill \/ \E k \in Keys : Take(k)

Spec == Init /\ [][Next]_level
=============================================================================
