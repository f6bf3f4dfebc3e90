-------------------------- MODULE RateLimiterProofs --------------------------
(***************************************************************************)
(* The rate limiter for any rate, any number of clients and any time.      *)
(***************************************************************************)
EXTENDS RateLimiter, TLAPS

\* Arithmetic: what a bucket gains.
LEMMA Gain ==
  ASSUME NEW d \in Nat
  PROVE  /\ d * PerMinute \in Nat
         /\ (d + 1) * PerMinute = d * PerMinute + PerMinute
         /\ d >= Minute => d * PerMinute >= Burst
         /\ 0 * PerMinute = 0
<1>1. PerMinute \in Nat \ {0} /\ Minute \in Nat \ {0}
  BY LimiterAssumption
<1>2. d * PerMinute \in Nat /\ (d + 1) * PerMinute = d * PerMinute + PerMinute
  BY <1>1
<1>3. ASSUME d >= Minute PROVE d * PerMinute >= Burst
  <2>1. d - Minute \in Nat /\ d = (d - Minute) + Minute
    BY <1>1, <1>3
  <2>2. (d - Minute) * PerMinute \in Nat
    BY <1>1, <2>1
  <2>3. d * PerMinute = (d - Minute) * PerMinute + Minute * PerMinute
    BY <1>1, <2>1
  <2>4. Minute * PerMinute = PerMinute * Minute /\ Minute * PerMinute \in Nat
    BY <1>1
  <2> QED BY <2>2, <2>3, <2>4, <1>2 DEF Burst
<1> QED BY <1>1, <1>2, <1>3

LEMMA BurstIs == Burst \in Nat /\ Burst >= Minute /\ Minute \in Nat \ {0} /\ PerMinute \in Nat \ {0}
<1>1. PerMinute \in Nat \ {0} /\ Minute \in Nat \ {0}
  BY LimiterAssumption
<1>2. PerMinute - 1 \in Nat /\ (PerMinute - 1) * Minute \in Nat
  BY <1>1
<1>3. PerMinute * Minute = (PerMinute - 1) * Minute + Minute
  BY <1>1
<1> QED BY <1>1, <1>2, <1>3 DEF Burst

LEMMA SeqGrows ==
  ASSUME NEW S, NEW T, S \subseteq T, NEW s \in Seq(S)
  PROVE  s \in Seq(T)
OBVIOUS
\* The level of a bucket at a time.
LevelAt(b, t) == Capped(b.tokens + (t - b.last) * PerMinute)

\* It lies between nothing and a full bucket, and is the latter for a bucket
\* that sweep would drop.
LEMMA LevelAtIs ==
  ASSUME NEW t \in Nat, NEW b, b.tokens \in 0..Burst, b.last \in 0..t
  PROVE  /\ LevelAt(b, t) \in 0..Burst
         /\ b.tokens + (t - b.last) * PerMinute >= Burst <=> LevelAt(b, t) = Burst
         /\ b.last = t => LevelAt(b, t) = b.tokens
         /\ LevelAt(b, t + 1) = Capped(LevelAt(b, t) + PerMinute)
<1>1. t - b.last \in Nat
  OBVIOUS
<1>2. (t - b.last) * PerMinute \in Nat /\ 0 * PerMinute = 0
  BY <1>1, Gain
<1> DEFINE gain == (t - b.last) * PerMinute
<1>3. b.last = t => gain = 0
  BY <1>2
<1>4. gain \in Nat
  BY <1>2
<1>5. (t + 1 - b.last) * PerMinute = gain + PerMinute
  <2>1. t + 1 - b.last = (t - b.last) + 1
    OBVIOUS
  <2> QED BY <1>1, <2>1, Gain
<1>6. LevelAt(b, t) = Capped(b.tokens + gain) /\ LevelAt(b, t + 1) = Capped(b.tokens + (gain + PerMinute))
  BY <1>5 DEF LevelAt
<1> HIDE DEF gain
<1>7. /\ Capped(b.tokens + gain) \in 0..Burst
      /\ b.tokens + gain >= Burst <=> Capped(b.tokens + gain) = Burst
      /\ gain = 0 => Capped(b.tokens + gain) = b.tokens
      /\ Capped(b.tokens + (gain + PerMinute)) = Capped(Capped(b.tokens + gain) + PerMinute)
  BY <1>4, BurstIs DEF Capped
<1> QED BY <1>3, <1>6, <1>7 DEF gain

LEMMA LevelIs ==
  ASSUME now \in Nat, NEW b, b.tokens \in 0..Burst, b.last \in 0..now
  PROVE  /\ Level(b) \in 0..Burst
         /\ Refilled(b) <=> Level(b) = Burst
         /\ b.last = now => Level(b) = b.tokens
BY LevelAtIs DEF LevelAt, Level, Refilled

LEMMA FullIs ==
  ASSUME now \in Nat
  PROVE  Full.tokens \in 0..Burst /\ Full.last \in 0..now /\ Level(Full) = Burst
<1>1. Full.tokens \in 0..Burst /\ Full.last \in 0..now
  BY BurstIs DEF Full
<1>2. Full.tokens = Burst /\ Full.last = now
  BY DEF Full
<1> QED BY <1>1, <1>2, LevelIs

\* Allow sees a bucket as full whether sweep has dropped it or not.
LEMMA BucketIs ==
  ASSUME TypeOK, NEW k \in Keys
  PROVE  /\ Bucket(k).tokens \in 0..Burst /\ Bucket(k).last \in 0..now
         /\ Level(Bucket(k)) = LevelOf(k) /\ LevelOf(k) \in 0..Burst
<1>0. now \in Nat
  BY LimiterAssumption DEF TypeOK
<1>1. CASE k \in Kept
  <2>1. k \in DOMAIN buckets /\ buckets[k].tokens \in 0..Burst /\ buckets[k].last \in 0..now
    BY <1>1 DEF Kept, TypeOK
  <2> QED BY <1>0, <1>1, <2>1, LevelIs DEF Bucket, LevelOf
<1>2. CASE k \in DOMAIN buckets \ Kept
  <2>1. buckets[k].tokens \in 0..Burst /\ buckets[k].last \in 0..now /\ Refilled(buckets[k])
    BY <1>2 DEF Kept, TypeOK
  <2> QED BY <1>0, <1>2, <2>1, LevelIs, FullIs, BurstIs DEF Bucket, LevelOf
<1>3. CASE k \notin DOMAIN buckets
  BY <1>0, <1>3, FullIs, BurstIs DEF Bucket, LevelOf, Kept
<1> QED BY <1>1, <1>2, <1>3
-----------------------------------------------------------------------------
LEMMA LeaveTyped ==
  ASSUME TypeOK, NEW k \in Keys, NEW n \in 0..Burst, Leave(k, n), now' = now
  PROVE  /\ DOMAIN buckets' = Kept \cup {k}
         /\ buckets'[k] = [tokens |-> n, last |-> now]
         /\ \A j \in Kept \ {k} : buckets'[j] = buckets[j]
         /\ Kept \subseteq DOMAIN buckets
         /\ \A j \in DOMAIN buckets' : buckets'[j] \in [tokens : 0..Burst, last : 0..now']
         /\ lastSweep' \in -Minute..now'
<1>1. /\ DOMAIN buckets' = Kept \cup {k}
      /\ buckets'[k] = [tokens |-> n, last |-> now]
      /\ \A j \in Kept \ {k} : buckets'[j] = buckets[j]
      /\ Kept \subseteq DOMAIN buckets
  BY DEF Leave, Kept
<1>2. now \in Nat /\ now \in 0..now
  BY LimiterAssumption DEF TypeOK
<1>3. \A j \in DOMAIN buckets' : buckets'[j] \in [tokens : 0..Burst, last : 0..now']
  BY <1>1, <1>2 DEF TypeOK
<1>4. lastSweep' \in -Minute..now'
  BY <1>2, BurstIs DEF Leave, TypeOK
<1> QED BY <1>1, <1>3, <1>4

\* Seconds of Retry-After: enough for a token.
LEMMA WaitIs ==
  ASSUME NEW level \in 0..Burst, ~Enough(level)
  PROVE  /\ Wait(level) \in Nat \ {0}
         /\ level + Wait(level) * PerMinute >= Minute
<1> DEFINE x == Minute - level + PerMinute - 1
<1>1. /\ PerMinute \in Nat \ {0} /\ Minute \in Nat \ {0} /\ level \in Nat /\ level < Minute
      /\ x \in Nat /\ x >= PerMinute
  BY BurstIs DEF Enough
<1> HIDE DEF x
<1>2. /\ x \div PerMinute \in Int
      /\ PerMinute * (x \div PerMinute) <= x
      /\ x < PerMinute * (x \div PerMinute) + PerMinute
  BY <1>1
<1>3. Wait(level) = x \div PerMinute
  BY DEF Wait, x
<1>4. (x \div PerMinute) * PerMinute = PerMinute * (x \div PerMinute)
  BY <1>1, <1>2
<1>5. x \div PerMinute > 0
  <2>1. PerMinute * (x \div PerMinute) > 0
    BY <1>1, <1>2
  <2> QED BY <1>1, <1>2, <2>1
<1>6. level + (x \div PerMinute) * PerMinute >= Minute
  BY <1>1, <1>2, <1>4 DEF x
<1> QED BY <1>2, <1>3, <1>5, <1>6

LEMMA InitTyped == Init => TypeOK
<1> SUFFICES ASSUME Init PROVE TypeOK
  OBVIOUS
<1>1. DOMAIN buckets = {}
  BY DEF Init
<1>2. granted \in [Keys -> Seq(0..now)] /\ retryAt \in [Keys -> Nat]
  BY DEF Init
<1>3. now \in 0..MaxTime /\ lastSweep \in -Minute..now
  BY LimiterAssumption DEF Init
<1> QED BY <1>1, <1>2, <1>3 DEF TypeOK

LEMMA TypedStep == TypeOK /\ [Next]_vars => TypeOK'
<1> SUFFICES ASSUME TypeOK, [Next]_vars PROVE TypeOK'
  OBVIOUS
<1>0. now \in Nat
  BY LimiterAssumption DEF TypeOK
<1>1. CASE Tick
  <2>1. now' \in 0..MaxTime /\ now' = now + 1
    BY <1>0, <1>1, LimiterAssumption DEF Tick, TypeOK
  <2>2. 0..now \subseteq 0..now'
    BY <1>0, <2>1
  <2>3. \A k \in DOMAIN buckets : buckets[k] \in [tokens : 0..Burst, last : 0..now']
    BY <2>2 DEF TypeOK
  <2>4. granted \in [Keys -> Seq(0..now')]
    BY <2>2, SeqGrows DEF TypeOK
  <2>5. lastSweep \in -Minute..now'
    BY <1>0, <2>1, BurstIs DEF TypeOK
  <2> QED BY <1>1, <2>1, <2>3, <2>4, <2>5 DEF Tick, TypeOK
<1>2. ASSUME NEW k \in Keys, Grant(k) PROVE TypeOK'
  <2>1. Level(Bucket(k)) - Minute \in 0..Burst
    BY <1>2, BucketIs, BurstIs DEF Grant, Enough
  <2>2. Leave(k, Level(Bucket(k)) - Minute) /\ now' = now
    BY <1>2 DEF Grant
  <2>3. granted' \in [Keys -> Seq(0..now')]
    <3>1. now \in 0..now
      BY <1>0
    <3>2. Append(granted[k], now) \in Seq(0..now)
      BY <3>1 DEF TypeOK
    <3> QED BY <1>2, <2>2, <3>2 DEF Grant, TypeOK
  <2>4. retryAt' \in [Keys -> Nat]
    BY <1>2 DEF Grant, TypeOK
  <2>5. DOMAIN buckets' \subseteq Keys
    BY <2>1, <2>2, LeaveTyped DEF TypeOK
  <2> QED BY <2>1, <2>2, <2>3, <2>4, <2>5, LeaveTyped DEF TypeOK
<1>3. ASSUME NEW k \in Keys, Refuse(k) PROVE TypeOK'
  <2>1. Level(Bucket(k)) \in 0..Burst /\ ~Enough(Level(Bucket(k)))
    BY <1>3, BucketIs DEF Refuse
  <2>2. Leave(k, Level(Bucket(k))) /\ now' = now /\ granted' = granted
    BY <1>3 DEF Refuse
  <2>3. Wait(Level(Bucket(k))) \in Nat
    BY <2>1, WaitIs
  <2>4. retryAt' \in [Keys -> Nat]
    BY <1>0, <1>3, <2>3 DEF Refuse, TypeOK
  <2>5. DOMAIN buckets' \subseteq Keys
    BY <2>1, <2>2, LeaveTyped DEF TypeOK
  <2> QED BY <2>1, <2>2, <2>4, <2>5, LeaveTyped DEF TypeOK
<1>4. CASE UNCHANGED vars
  BY <1>4 DEF vars, TypeOK
<1> QED BY <1>1, <1>2, <1>3, <1>4 DEF Next

\* The levels stay whole numbers between nothing and a full bucket.
THEOREM Typing == Spec => []TypeOK
BY InitTyped, TypedStep, PTL DEF Spec
-----------------------------------------------------------------------------
\* The level of every client, whether it has a bucket or not, after a tick ...
LEMMA TickLevels ==
  ASSUME TypeOK, Tick, NEW k \in Keys
  PROVE  LevelOf(k)' = Capped(LevelOf(k) + PerMinute)
<1>1. now \in Nat /\ now' = now + 1 /\ buckets' = buckets /\ now + 1 \in Nat
  BY LimiterAssumption DEF TypeOK, Tick
<1>2. CASE k \in DOMAIN buckets
  <2>1. LevelOf(k) = LevelAt(buckets[k], now) /\ LevelOf(k)' = LevelAt(buckets[k], now + 1)
    BY <1>1, <1>2 DEF LevelOf, Level, LevelAt
  <2>2. buckets[k].tokens \in 0..Burst /\ buckets[k].last \in 0..now
    BY <1>2 DEF TypeOK
  <2> QED BY <1>1, <2>1, <2>2, LevelAtIs
<1>3. CASE k \notin DOMAIN buckets
  <2>1. LevelOf(k) = LevelAt([tokens |-> Burst, last |-> now], now)
    BY <1>3 DEF LevelOf, Level, LevelAt, Full
  <2>2. LevelOf(k)' = LevelAt([tokens |-> Burst, last |-> now + 1], now + 1)
    BY <1>1, <1>3 DEF LevelOf, Level, LevelAt, Full
  <2>3. ASSUME NEW t \in Nat PROVE LevelAt([tokens |-> Burst, last |-> t], t) = Burst
    BY LevelAtIs, BurstIs
  <2> QED BY <1>1, <2>1, <2>2, <2>3, BurstIs DEF Capped
<1> QED BY <1>2, <1>3

\* ... and after a request of one of them.
LEMMA LeaveLevels ==
  ASSUME TypeOK, NEW k \in Keys, NEW n \in 0..Burst, Leave(k, n), now' = now
  PROVE  LevelOf(k)' = n /\ \A j \in Keys \ {k} : LevelOf(j)' = LevelOf(j)
<1>0. now \in Nat
  BY LimiterAssumption DEF TypeOK
<1>1. LevelOf(k)' = n
  <2>1. LevelOf(k)' = LevelAt([tokens |-> n, last |-> now], now)
    BY LeaveTyped DEF LevelOf, Level, LevelAt
  <2> QED BY <1>0, <2>1, LevelAtIs
<1>2. ASSUME NEW j \in Keys \ {k} PROVE LevelOf(j)' = LevelOf(j)
  <2>1. CASE j \in Kept
    <3>1. /\ j \in DOMAIN buckets /\ j \in DOMAIN buckets' /\ buckets'[j] = buckets[j]
      BY <2>1, LeaveTyped
    <3> QED BY <3>1 DEF LevelOf, Level
  <2>2. CASE j \notin Kept
    <3>1. j \notin DOMAIN buckets'
      BY <2>2, LeaveTyped
    <3>2. LevelOf(j)' = LevelAt([tokens |-> Burst, last |-> now], now)
      BY <3>1 DEF LevelOf, Level, LevelAt, Full
    <3>3. LevelOf(j)' = Burst
      BY <1>0, <3>2, LevelAtIs, BurstIs
    <3>4. LevelOf(j) = Level(Bucket(j)) /\ Bucket(j) = Full
      BY <2>2, BucketIs DEF Bucket
    <3> QED BY <1>0, <3>3, <3>4, FullIs
  <2> QED BY <2>1, <2>2
<1> QED BY <1>1, <1>2

LEMMA GrantLevels ==
  ASSUME TypeOK, NEW k \in Keys, Grant(k)
  PROVE  /\ LevelOf(k) >= Minute /\ LevelOf(k)' = LevelOf(k) - Minute
         /\ \A j \in Keys \ {k} : LevelOf(j)' = LevelOf(j)
<1>1. LevelOf(k) - Minute \in 0..Burst /\ LevelOf(k) >= Minute
  BY BucketIs, BurstIs DEF Grant, Enough
<1>2. Leave(k, LevelOf(k) - Minute) /\ now' = now
  BY BucketIs DEF Grant
<1> QED BY <1>1, <1>2, LeaveLevels

LEMMA RefuseLevels ==
  ASSUME TypeOK, NEW k \in Keys, Refuse(k)
  PROVE  /\ ~Enough(LevelOf(k)) /\ now' = now /\ granted' = granted
         /\ retryAt' = [retryAt EXCEPT ![k] = now + Wait(LevelOf(k))]
         /\ \A j \in Keys : LevelOf(j)' = LevelOf(j)
<1>1. LevelOf(k) \in 0..Burst /\ Leave(k, LevelOf(k)) /\ now' = now
  BY BucketIs DEF Refuse
<1>2. \A j \in Keys : LevelOf(j)' = LevelOf(j)
  BY <1>1, LeaveLevels
<1> QED BY <1>2, BucketIs DEF Refuse

\* The code keeps the buckets of TokenBucket: what it drops and creates again
\* is full both times.
THEOREM Refinement == Spec => IsTokenBucket
<1> DEFINE lev == [k \in Keys |-> LevelOf(k)]
<1>1. Init => Promise!Init
  <2> SUFFICES ASSUME Init PROVE lev = [k \in Keys |-> Burst]
    BY DEF Promise!Init, Promise!Burst, Burst
  <2>1. now \in Nat /\ DOMAIN buckets = {}
    BY DEF Init
  <2> QED BY <2>1, FullIs DEF LevelOf
<1>2. ASSUME TypeOK, [Next]_vars PROVE [Promise!Next]_lev
  <2>1. CASE Tick
    <3>1. lev' = [k \in Keys |-> Capped(lev[k] + PerMinute)]
      BY <1>2, <2>1, TickLevels
    <3> QED BY <3>1 DEF Promise!Next, Promise!Fill, Promise!Burst, Burst, Capped
  <2>2. ASSUME NEW k \in Keys, Grant(k) PROVE Promise!Take(k)
    <3>1. lev[k] >= Minute /\ lev' = [lev EXCEPT ![k] = lev[k] - Minute]
      BY <1>2, <2>2, GrantLevels
    <3> QED BY <3>1 DEF Promise!Take
  <2>3. ASSUME NEW k \in Keys, Refuse(k) PROVE lev' = lev
    BY <1>2, <2>3, RefuseLevels
  <2>4. CASE UNCHANGED vars
    BY <2>4 DEF vars, LevelOf, Level, Full
  <2> QED BY <1>2, <2>1, <2>2, <2>3, <2>4 DEF Next, Promise!Next
<1> QED BY <1>1, <1>2, Typing, PTL DEF Spec, IsTokenBucket, Promise!Spec
-----------------------------------------------------------------------------
LEMMA RecentLeave ==
  ASSUME TypeOK, OnlyRecentBuckets, NEW k \in Keys, NEW n \in 0..Burst,
         Leave(k, n), now' = now
  PROVE  OnlyRecentBuckets'
<1>0. now \in Nat /\ lastSweep \in Int /\ lastSweep <= now
  BY LimiterAssumption DEF TypeOK
<1>1. lastSweep' = IF Due THEN now ELSE lastSweep
  BY DEF Leave
<1>2. buckets'[k].last > lastSweep' - Minute
  <2>1. buckets'[k].last = now
    <3>1. buckets'[k] = [tokens |-> n, last |-> now]
      BY LeaveTyped
    <3> QED BY <3>1
  <2> QED BY <1>0, <1>1, <2>1, BurstIs
<1>3. ASSUME NEW j \in Kept PROVE buckets[j].last > lastSweep' - Minute
  <2>1. j \in DOMAIN buckets /\ buckets[j].tokens \in 0..Burst /\ buckets[j].last \in 0..now
    BY DEF Kept, TypeOK
  <2>2. CASE Due
    <3>1. buckets[j].tokens + (now - buckets[j].last) * PerMinute < Burst
      <4>1. ~Refilled(buckets[j])
        BY <1>3, <2>2 DEF Kept
      <4>2. now - buckets[j].last \in Nat
        BY <1>0, <2>1
      <4>3. (now - buckets[j].last) * PerMinute \in Nat
        BY <4>2, Gain
      <4> QED BY <2>1, <4>1, <4>3, BurstIs DEF Refilled
    <3> DEFINE d == now - buckets[j].last
    <3>2. d \in Nat
      BY <1>0, <2>1
    <3>3. d * PerMinute \in Nat /\ (d >= Minute => d * PerMinute >= Burst)
      BY <3>2, Gain
    <3>4. d < Minute
      BY <2>1, <3>1, <3>2, <3>3, BurstIs
    <3> QED BY <1>0, <1>1, <2>1, <2>2, <3>4, BurstIs
  <2>3. CASE ~Due
    BY <1>1, <2>1, <2>3 DEF OnlyRecentBuckets
  <2> QED BY <2>2, <2>3
<1> QED BY <1>2, <1>3, LeaveTyped DEF OnlyRecentBuckets

\* No bucket outlives the sweep that finds it full: the map holds the clients
\* of the last minutes, however many there have been.
THEOREM MemoryIsBounded == Spec => []OnlyRecentBuckets
<1>1. Init => OnlyRecentBuckets
  <2>1. Init => DOMAIN buckets = {}
    BY DEF Init
  <2> QED BY <2>1 DEF OnlyRecentBuckets
<1>2. TypeOK /\ OnlyRecentBuckets /\ [Next]_vars => OnlyRecentBuckets'
  <2> SUFFICES ASSUME TypeOK, OnlyRecentBuckets, [Next]_vars PROVE OnlyRecentBuckets'
    OBVIOUS
  <2>1. CASE Tick \/ UNCHANGED vars
    BY <2>1 DEF Tick, vars, OnlyRecentBuckets
  <2>2. ASSUME NEW k \in Keys, Grant(k) PROVE OnlyRecentBuckets'
    <3>1. LevelOf(k) - Minute \in 0..Burst
      BY <2>2, BucketIs, BurstIs DEF Grant, Enough
    <3> QED BY <2>2, <3>1, BucketIs, RecentLeave DEF Grant
  <2>3. ASSUME NEW k \in Keys, Refuse(k) PROVE OnlyRecentBuckets'
    BY <2>3, BucketIs, RecentLeave DEF Refuse
  <2> QED BY <2>1, <2>2, <2>3 DEF Next
<1> QED BY <1>1, <1>2, Typing, PTL DEF Spec
-----------------------------------------------------------------------------
\* Who was told to come back finds a token then.
Awaited(k) ==
  retryAt[k] # 0 =>
    \/ LevelOf(k) >= Minute
    \/ now < retryAt[k] /\ LevelOf(k) + (retryAt[k] - now) * PerMinute >= Minute

LEMMA AwaitedTick == ASSUME TypeOK, NEW k \in Keys, Awaited(k), Tick PROVE Awaited(k)'
<1>1. /\ now \in Nat /\ now' = now + 1 /\ retryAt' = retryAt /\ retryAt[k] \in Nat
      /\ LevelOf(k) \in 0..Burst /\ LevelOf(k)' = Capped(LevelOf(k) + PerMinute)
  BY LimiterAssumption, BucketIs, TickLevels DEF Tick, TypeOK
<1>2. CASE LevelOf(k) >= Minute
  BY <1>1, <1>2, BurstIs DEF Capped, Awaited
<1>3. CASE now < retryAt[k] /\ LevelOf(k) + (retryAt[k] - now) * PerMinute >= Minute
  <2> DEFINE d == retryAt[k] - (now + 1)
  <2>1. d \in Nat /\ retryAt[k] - now = d + 1
    BY <1>1, <1>3
  <2>2. d * PerMinute \in Nat /\ (d + 1) * PerMinute = d * PerMinute + PerMinute
    BY <2>1, Gain
  <2> DEFINE gain == d * PerMinute
  <2>3. LevelOf(k) + (gain + PerMinute) >= Minute /\ gain \in Nat
    BY <1>3, <2>1, <2>2
  <2>4. now + 1 = retryAt[k] => gain = 0
    BY <1>1, <2>2, Gain
  <2>5. (retryAt[k] - now') * PerMinute = gain
    BY <1>1
  <2>6. now' < retryAt[k] \/ now + 1 = retryAt[k]
    BY <1>1, <1>3
  <2> HIDE DEF gain
  <2>7. LevelOf(k)' >= Minute \/ LevelOf(k)' + gain >= Minute
    BY <1>1, <2>3, BurstIs DEF Capped
  <2>8. LevelOf(k)' \in Nat
    BY <1>1, BurstIs DEF Capped
  <2> QED BY <1>1, <2>4, <2>5, <2>6, <2>7, <2>8 DEF Awaited
<1>4. CASE retryAt[k] = 0
  BY <1>1, <1>4 DEF Awaited
<1> QED BY <1>2, <1>3, <1>4 DEF Awaited

LEMMA AwaitedStep ==
  ASSUME TypeOK, \A k \in Keys : Awaited(k), [Next]_vars
  PROVE  \A k \in Keys : Awaited(k)'
<1>0. now \in Nat /\ \A j \in Keys : retryAt[j] \in Nat /\ LevelOf(j) \in 0..Burst
  BY LimiterAssumption, BucketIs DEF TypeOK
<1>1. CASE Tick
  BY <1>1, AwaitedTick
<1>2. ASSUME NEW k \in Keys, Grant(k) PROVE \A j \in Keys : Awaited(j)'
  <2>1. /\ retryAt'[k] = 0 /\ \A j \in Keys \ {k} : retryAt'[j] = retryAt[j]
        /\ now' = now
    BY <1>2 DEF Grant, TypeOK
  <2>2. \A j \in Keys \ {k} : LevelOf(j)' = LevelOf(j)
    BY <1>2, GrantLevels
  <2> QED BY <2>1, <2>2 DEF Awaited
<1>3. ASSUME NEW k \in Keys, Refuse(k) PROVE \A j \in Keys : Awaited(j)'
  <2>1. /\ ~Enough(LevelOf(k)) /\ now' = now
        /\ retryAt'[k] = now + Wait(LevelOf(k))
        /\ \A j \in Keys \ {k} : retryAt'[j] = retryAt[j]
        /\ \A j \in Keys : LevelOf(j)' = LevelOf(j)
    BY <1>3, RefuseLevels DEF TypeOK
  <2>2. Wait(LevelOf(k)) \in Nat \ {0} /\ LevelOf(k) + Wait(LevelOf(k)) * PerMinute >= Minute
    BY <1>0, <2>1, WaitIs
  <2>3. retryAt'[k] - now' = Wait(LevelOf(k)) /\ now' < retryAt'[k]
    BY <1>0, <2>1, <2>2
  <2>4. Awaited(k)'
    BY <2>1, <2>2, <2>3 DEF Awaited
  <2>5. \A j \in Keys \ {k} : Awaited(j)'
    BY <2>1 DEF Awaited
  <2> QED BY <2>4, <2>5
<1>4. CASE UNCHANGED vars
  BY <1>4 DEF vars, Awaited, LevelOf, Level, Full
<1> QED BY <1>1, <1>2, <1>3, <1>4 DEF Next

\* Retry-After is enough at any rate, however the division comes out.
THEOREM RetryAfterSuffices == Spec => RetryAfterIsEnough
<1> DEFINE Inv == \A k \in Keys : Awaited(k)
<1>1. Init => Inv
  BY DEF Init, Awaited
<1>2. TypeOK /\ Inv /\ [Next]_vars => Inv'
  BY AwaitedStep
<1>3. TypeOK /\ Inv /\ [Next]_vars
        => [\A k \in Keys : Refuse(k) => retryAt[k] = 0 \/ now < retryAt[k]]_vars
  <2> SUFFICES ASSUME TypeOK, Inv, NEW k \in Keys, Refuse(k), retryAt[k] # 0
               PROVE  now < retryAt[k]
    OBVIOUS
  <2>1. ~Enough(LevelOf(k)) /\ Awaited(k) /\ LevelOf(k) \in 0..Burst
    BY RefuseLevels, BucketIs
  <2> QED BY <2>1, BurstIs DEF Awaited, Enough
<1> QED BY <1>1, <1>2, <1>3, Typing, PTL DEF Spec, RetryAfterIsEnough
-----------------------------------------------------------------------------
\* What has been let through since the m-th request, and what is left now.
Since(k, m) ==
  (Len(granted[k]) - m + 1) * Minute + LevelOf(k) <= Burst + (now - granted[k][m]) * PerMinute

RateOf(k) ==
  \A m, n \in DOMAIN granted[k] :
    m <= n => (n - m + 1) * Minute <= Burst + (granted[k][n] - granted[k][m]) * PerMinute

Metered(k) == RateOf(k) /\ \A m \in DOMAIN granted[k] : Since(k, m)

LEMMA Products ==
  ASSUME NEW d \in Nat
  PROVE  d * Minute \in Nat /\ (d + 1) * Minute = d * Minute + Minute /\ 1 * Minute = Minute
BY BurstIs

LEMMA LogTyped ==
  ASSUME TypeOK, NEW k \in Keys
  PROVE  /\ Len(granted[k]) \in Nat /\ DOMAIN granted[k] = 1..Len(granted[k])
         /\ \A m \in DOMAIN granted[k] : granted[k][m] \in 0..now
         /\ now \in Nat /\ LevelOf(k) \in 0..Burst
<1>1. granted[k] \in Seq(0..now)
  BY DEF TypeOK
<1> QED BY <1>1, LimiterAssumption, BucketIs DEF TypeOK

LEMMA MeteredTick == ASSUME TypeOK, NEW k \in Keys, Metered(k), Tick PROVE Metered(k)'
<1>1. now' = now + 1 /\ granted' = granted /\ LevelOf(k)' = Capped(LevelOf(k) + PerMinute)
  BY TickLevels DEF Tick
<1>2. ASSUME NEW m \in DOMAIN granted[k] PROVE Since(k, m)'
  <2> DEFINE d == now - granted[k][m]
             gain == d * PerMinute
             sent == (Len(granted[k]) - m + 1) * Minute
  <2>1. d \in Nat /\ Len(granted[k]) - m + 1 \in Nat
    BY LogTyped
  <2>2. gain \in Nat /\ (d + 1) * PerMinute = gain + PerMinute /\ sent \in Nat
    BY <2>1, Gain, Products
  <2>3. now' - granted[k][m] = d + 1
    BY <1>1, LogTyped
  <2>4. sent + LevelOf(k) <= Burst + gain
    BY DEF Metered, Since
  <2>5. Since(k, m)' <=> sent + LevelOf(k)' <= Burst + (d + 1) * PerMinute
    BY <1>1, <2>3 DEF Since
  <2> HIDE DEF sent, gain
  <2>6. LevelOf(k) \in Nat /\ LevelOf(k)' \in Nat /\ LevelOf(k)' <= LevelOf(k) + PerMinute
    BY <1>1, LogTyped, BurstIs DEF Capped
  <2>7. sent + LevelOf(k)' <= Burst + (gain + PerMinute)
    BY <2>2, <2>4, <2>6, BurstIs
  <2> QED BY <2>2, <2>5, <2>7
<1>3. RateOf(k)'
  BY <1>1 DEF Metered, RateOf
<1> QED BY <1>1, <1>2, <1>3 DEF Metered

LEMMA MeteredGrant == ASSUME TypeOK, NEW k \in Keys, Metered(k), Grant(k) PROVE Metered(k)'
<1> DEFINE g == granted[k]
           L == Len(granted[k])
<1>1. now' = now /\ granted'[k] = Append(g, now)
  BY DEF Grant, TypeOK
<1>2. LevelOf(k) >= Minute /\ LevelOf(k)' = LevelOf(k) - Minute
  BY GrantLevels
<1>3. g \in Seq(0..now) /\ now \in 0..now /\ L \in Nat /\ DOMAIN g = 1..L
  BY LogTyped DEF TypeOK
<1>4. /\ Len(granted'[k]) = L + 1 /\ DOMAIN granted'[k] = 1..(L + 1)
      /\ \A m \in 1..L : granted'[k][m] = g[m]
      /\ granted'[k][L + 1] = now
  BY <1>1, <1>3
<1>5. ASSUME NEW m \in 1..(L + 1) PROVE Since(k, m)'
  <2>1. Since(k, m)' <=> (L + 1 - m + 1) * Minute + LevelOf(k)'
                            <= Burst + (now - granted'[k][m]) * PerMinute
    BY <1>1, <1>4 DEF Since
  <2>2. CASE m \in 1..L
    <3> DEFINE gain == (now - g[m]) * PerMinute
               sent == (L - m + 1) * Minute
    <3>0. g[m] \in 0..now /\ m \in 1..L /\ L \in Nat /\ now \in Nat
      BY <1>3, <2>2, LogTyped
    <3> HIDE DEF g, L
    <3>1. L - m + 1 \in Nat /\ now - g[m] \in Nat /\ L + 1 - m + 1 = (L - m + 1) + 1
      BY <3>0
    <3> USE DEF g, L
    <3>2. sent \in Nat /\ (L + 1 - m + 1) * Minute = sent + Minute /\ gain \in Nat
      BY <3>1, Products, Gain
    <3>3. sent + LevelOf(k) <= Burst + gain
      BY <1>3, <2>2 DEF Metered, Since
    <3>4. (now - granted'[k][m]) * PerMinute = gain
      BY <1>4, <2>2
    <3> HIDE DEF gain, sent
    <3>5. (sent + Minute) + (LevelOf(k) - Minute) <= Burst + gain
      BY <3>2, <3>3, LogTyped, BurstIs
    <3> QED BY <1>2, <2>1, <3>2, <3>4, <3>5
  <2>3. CASE m = L + 1
    <3>1. L + 1 - m + 1 = 1 /\ now - granted'[k][m] = 0
      BY <1>3, <1>4, <2>3, LogTyped
    <3>2. 1 * Minute = Minute /\ 0 * PerMinute = 0
      BY BurstIs
    <3>3. Minute + (LevelOf(k) - Minute) <= Burst + 0
      BY LogTyped, BurstIs
    <3> QED BY <1>2, <2>1, <3>1, <3>2, <3>3
  <2> QED BY <1>3, <2>2, <2>3
<1>6. ASSUME NEW m \in 1..(L + 1), NEW n \in 1..(L + 1), m <= n
      PROVE  (n - m + 1) * Minute <= Burst + (granted'[k][n] - granted'[k][m]) * PerMinute
  <2>1. CASE n \in 1..L
    <3>1. m \in 1..L
      BY <1>3, <1>6, <2>1
    <3> QED BY <1>3, <1>4, <1>6, <2>1, <3>1 DEF Metered, RateOf
  <2>2. CASE n = L + 1
    <3> DEFINE gain == (now - granted'[k][m]) * PerMinute
               sent == (L + 1 - m + 1) * Minute
    <3>1. sent + LevelOf(k)' <= Burst + gain
      BY <1>1, <1>4, <1>5 DEF Since
    <3>2. L + 1 - m + 1 \in Nat /\ now - granted'[k][m] \in Nat
      <4>1. CASE m \in 1..L
        <5>1. granted'[k][m] \in 0..now
          BY <1>3, <1>4, <4>1, LogTyped
        <5> QED BY <1>3, <5>1
      <4>2. CASE m = L + 1
        BY <1>3, <1>4, <4>2
      <4> QED BY <1>3, <4>1, <4>2
    <3>3. sent \in Nat /\ gain \in Nat
      BY <3>2, Products, Gain
    <3>4. LevelOf(k)' \in Nat
      BY <1>2, LogTyped, BurstIs
    <3>5. (n - m + 1) * Minute = sent /\ (granted'[k][n] - granted'[k][m]) * PerMinute = gain
      BY <1>4, <2>2
    <3> HIDE DEF gain, sent
    <3>6. sent <= Burst + gain
      BY <3>1, <3>3, <3>4, BurstIs
    <3>7. (n - m + 1) * Minute <= Burst + gain
      BY <3>5, <3>6
    <3> QED BY <3>5, <3>7
  <2>3. n \in 1..L \/ n = L + 1
    BY <1>3
  <2> QED BY <2>1, <2>2, <2>3
<1>7. RateOf(k)'
  BY <1>4, <1>6 DEF RateOf
<1> QED BY <1>4, <1>5, <1>7 DEF Metered

\* A step of somebody else, or one that lets nobody through.
LEMMA MeteredElse ==
  ASSUME NEW k \in Keys, Metered(k),
         now' = now, granted'[k] = granted[k], LevelOf(k)' = LevelOf(k)
  PROVE  Metered(k)'
BY DEF Metered, RateOf, Since

\* The rate holds whatever the rate is, however long the stretch of time.
THEOREM RateIsLimited == Spec => []RateHolds
<1> DEFINE Inv == \A k \in Keys : Metered(k)
<1>1. Init => Inv
  <2> SUFFICES ASSUME Init, NEW k \in Keys PROVE Metered(k)
    OBVIOUS
  <2>1. DOMAIN granted[k] = {}
    BY DEF Init
  <2> QED BY <2>1 DEF Metered, RateOf
<1>2. TypeOK /\ Inv /\ [Next]_vars => Inv'
  <2> SUFFICES ASSUME TypeOK, Inv, [Next]_vars PROVE Inv'
    OBVIOUS
  <2>1. CASE Tick
    BY <2>1, MeteredTick
  <2>2. ASSUME NEW k \in Keys, Grant(k) PROVE Inv'
    <3>1. now' = now /\ \A j \in Keys \ {k} : granted'[j] = granted[j]
      BY <2>2 DEF Grant, TypeOK
    <3>2. \A j \in Keys \ {k} : LevelOf(j)' = LevelOf(j)
      BY <2>2, GrantLevels
    <3>3. \A j \in Keys \ {k} : Metered(j)'
      BY <3>1, <3>2, MeteredElse
    <3> QED BY <2>2, <3>3, MeteredGrant
  <2>3. ASSUME NEW k \in Keys, Refuse(k) PROVE Inv'
    BY <2>3, RefuseLevels, MeteredElse
  <2>4. CASE UNCHANGED vars
    BY <2>4, MeteredElse DEF vars, LevelOf, Level, Full
  <2> QED BY <2>1, <2>2, <2>3, <2>4 DEF Next
<1>3. Inv => RateHolds
  BY DEF Metered, RateOf, RateHolds
<1> QED BY <1>1, <1>2, <1>3, Typing, PTL DEF Spec
=============================================================================
