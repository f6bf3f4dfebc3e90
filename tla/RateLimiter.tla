---------------------------- MODULE RateLimiter ----------------------------
(***************************************************************************)
(* The token buckets in front of the /auth routes.                         *)
(*                                                                         *)
(* Time is counted in ticks, Minute of them to a minute, and tokens in     *)
(* shares, Minute of them to a token: a bucket gains PerMinute shares a    *)
(* tick, all numbers stay whole, and with a tick of one second the levels  *)
(* are those of the code up to the rounding of its floats.  The mutex      *)
(* makes Allow one step; which client an address stands for is left out.   *)
(***************************************************************************)
EXTENDS Integers, Sequences

CONSTANTS
  Keys,        \* client addresses
  PerMinute,   \* requests a client may make in a minute
  Minute,      \* ticks in a minute
  MaxTime      \* bound: ticks in a behaviour

ASSUME LimiterAssumption ==
  /\ PerMinute \in Nat \ {0}
  /\ Minute \in Nat \ {0}
  /\ MaxTime \in Nat

VARIABLES
  now,
  buckets,     \* the map, a function on the keys that have a bucket
  lastSweep,
  granted,     \* history: [Keys -> Seq(Nat)], when requests were let through
  retryAt      \* history: [Keys -> Nat], when the refused were told to come back

vars == <<now, buckets, lastSweep, granted, retryAt>>

Burst == PerMinute * Minute
Full == [tokens |-> Burst, last |-> now]

\* The cap on a bucket; the mutant has none.
Uncapped(n) == n
Capped(n) == IF n < Burst THEN n ELSE Burst

\* What a bucket holds by now.
Level(b) == Capped(b.tokens + (now - b.last) * PerMinute)

\* What sweep looks for.  Mutants: a bucket that has a token again, and one
\* that was full when it was last used.
HasToken(b) == b.tokens + (now - b.last) * PerMinute >= Minute
WasFull(b)  == b.tokens >= Burst
Refilled(b) == b.tokens + (now - b.last) * PerMinute >= Burst

\* sweep: once a minute the buckets that have refilled are dropped.
Due == now - lastSweep >= Minute
Kept == {k \in DOMAIN buckets : ~(Due /\ Refilled(buckets[k]))}

Bucket(k) == IF k \in Kept THEN buckets[k] ELSE Full

\* A request needs a whole token; the mutant lets it have what is left.
SomeLeft(level) == level > 0
Enough(level) == level >= Minute

\* Seconds until there is a token, rounded up for Retry-After; the mutant
\* rounds down.
WaitRoundedDown(level) == (Minute - level) \div PerMinute
Wait(level) == (Minute - level + PerMinute - 1) \div PerMinute
-----------------------------------------------------------------------------
\* A new process; its zero lastSweep lies far in the past.
Init ==
  /\ now = 0
  /\ buckets = <<>>
  /\ lastSweep = -Minute
  /\ granted = [k \in Keys |-> <<>>]
  /\ retryAt = [k \in Keys |-> 0]

Tick ==
  /\ now < MaxTime
  /\ now' = now + 1
  /\ UNCHANGED <<buckets, lastSweep, granted, retryAt>>

\* Both outcomes of Allow sweep, and leave a bucket with the given tokens.
Leave(k, tokens) ==
  /\ buckets' = [j \in Kept \cup {k} |->
                   IF j = k THEN [tokens |-> tokens, last |-> now] ELSE buckets[j]]
  /\ lastSweep' = IF Due THEN now ELSE lastSweep

Grant(k) ==
  LET level == Level(Bucket(k)) IN
  /\ Enough(level)
  /\ Leave(k, level - Minute)
  /\ granted' = [granted EXCEPT ![k] = Append(@, now)]
  /\ retryAt' = [retryAt EXCEPT ![k] = 0]
  /\ UNCHANGED now

Refuse(k) ==
  LET level == Level(Bucket(k)) IN
  /\ ~Enough(level)
  /\ Leave(k, level)
  /\ retryAt' = [retryAt EXCEPT ![k] = now + Wait(level)]
  /\ UNCHANGED <<now, granted>>

Next == Tick \/ \E k \in Keys : Grant(k) \/ Refuse(k)

Spec == Init /\ [][Next]_vars
-----------------------------------------------------------------------------
TypeOK ==
  /\ now \in 0..MaxTime
  /\ DOMAIN buckets \subseteq Keys
  /\ \A k \in DOMAIN buckets : buckets[k] \in [tokens : 0..Burst, last : 0..now]
  /\ lastSweep \in -Minute..now
  /\ granted \in [Keys -> Seq(0..now)]
  /\ retryAt \in [Keys -> Nat]

\* The mapping of the code's buckets to buckets that are always there.
LevelOf(k) == Level(IF k \in DOMAIN buckets THEN buckets[k] ELSE Full)
Promise == INSTANCE TokenBucket WITH level <- [k \in Keys |-> LevelOf(k)]

\* Dropping buckets is not noticeable: a client is treated as if its bucket had
\* been kept and filled all the time.
IsTokenBucket == Promise!Spec

\* In any stretch of time a client gets no more requests through than a full
\* bucket and what is filled in during the stretch.
RateHolds ==
  \A k \in Keys : \A m, n \in DOMAIN granted[k] :
    m <= n => (n - m + 1) * Minute <= Burst + (granted[k][n] - granted[k][m]) * PerMinute

\* Memory is bounded: a bucket not used in the minute before the last sweep is
\* not there any more.
OnlyRecentBuckets ==
  \A k \in DOMAIN buckets : buckets[k].last > lastSweep - Minute

\* Retry-After is long enough: who was refused and comes back then, however
\* often refused in between, is let through.
RetryAfterIsEnough ==
  [][\A k \in Keys : Refuse(k) => retryAt[k] = 0 \/ now < retryAt[k]]_vars
=============================================================================
