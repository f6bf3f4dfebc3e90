-------------------------- MODULE MatchThreadProofs --------------------------
(***************************************************************************)
(* What hangs on a match, for any number of requests at a time, of         *)
(* messages, and of messages that fit into one answer.                     *)
(***************************************************************************)
EXTENDS MatchThread, FiniteSetTheorems, TLAPS

\* The other user is the other one.
LEMMA OtherIs ==
  ASSUME NEW u \in Sides
  PROVE  Other(u) \in Sides /\ Other(u) # u /\ \A v \in Sides : v # u => v = Other(u)
<1>1. /\ IsFiniteSet(Sides \ {u}) /\ Cardinality(Sides \ {u}) = 1
  BY ThreadAssumption, FS_RemoveElement
<1>2. Sides \ {u} # {}
  BY <1>1, FS_EmptySet
<1>3. PICK v : v \in Sides \ {u}
  BY <1>2
<1>4. /\ IsFiniteSet((Sides \ {u}) \ {v}) /\ Cardinality((Sides \ {u}) \ {v}) = 0
  BY <1>1, <1>3, FS_RemoveElement
<1>5. (Sides \ {u}) \ {v} = {}
  BY <1>4, FS_EmptySet
<1>6. v \in Sides /\ v # u /\ \A x \in Sides : x # u => x = v
  BY <1>3, <1>5
<1>7. Other(u) = v
  BY <1>6 DEF Other
<1> QED BY <1>6, <1>7

\* A set that gets one more element has one more.
LEMMA OneMore ==
  ASSUME NEW S, IsFiniteSet(S), NEW x, x \notin S
  PROVE  /\ IsFiniteSet(S \cup {x}) /\ Cardinality(S) \in Nat
         /\ Cardinality(S \cup {x}) = Cardinality(S) + 1
BY FS_AddElement, FS_CardinalityType
-----------------------------------------------------------------------------
\* What is about to be inserted has a date of its own.
RequestRecords ==
  [at : {"idle", "post", "rate"}, by : Sides \cup {"none"}, stamp : 0..MaxMessages]

Dated ==
  /\ request \in [Requests -> RequestRecords]
  /\ \A r \in Requests : request[r].at # "idle" => request[r].by \in Sides
  /\ \A r \in Requests : request[r].at = "post" =>
       /\ request[r].stamp \in 1..MaxMessages
       /\ \A m \in messages : m.stamp # request[r].stamp
       /\ \A q \in Requests : q # r /\ request[q].at = "post"
            => request[q].stamp # request[r].stamp

Tables ==
  /\ messages \subseteq Rows /\ IsFiniteSet(messages)
  /\ ratings \subseteq Sides \X Sides \X Nat /\ IsFiniteSet(ratings)

\* The other user is told of each row once.
From(u)    == {m \in messages : m.by # u}
RatedBy(u) == {x \in ratings : x[1] # u}
Told ==
  /\ unread \in [Sides -> Nat]
  /\ \A u \in Sides : unread[u] <= Cardinality(From(u)) + Cardinality(RatedBy(u))

Rated ==
  /\ \A r \in Requests : request[r].at = "rate" => status = "completed"
  /\ ratings # {} => status = "completed"
  /\ \A x, y \in ratings : x[1] = y[1] => x = y

\* The page has at most one answer to come, and that is no older than what it
\* shows.
OnPage ==
  /\ shown \in {NoList} \cup SUBSET messages
  /\ \A l \in loads \ {Asked} : l \in SUBSET messages
  /\ \A k, l \in loads : k = l
  /\ \A l \in loads \ {Asked} :
       shown # NoList /\ Cardinality(messages) <= Limit => shown \subseteq l

Rest == <<status, request, messages, ratings, unread>>

Thread == status \in MatchStatus /\ Dated /\ Tables /\ Told /\ Rated /\ OnPage

LEMMA IdleTyped == Idle \in RequestRecords /\ Idle.at = "idle"
BY ThreadAssumption DEF Idle, RequestRecords

LEMMA ThreadInit == Init => Thread
<1> SUFFICES ASSUME Init PROVE Thread
  OBVIOUS
<1>1. Dated
  BY IdleTyped DEF Init, Dated
<1>2. Tables
  BY FS_EmptySet DEF Init, Tables
<1>3. Told
  <2>1. \A u \in Sides : From(u) = {} /\ RatedBy(u) = {} /\ unread[u] = 0
    BY DEF Init, From, RatedBy
  <2>2. unread \in [Sides -> Nat]
    BY DEF Init
  <2>3. \A u \in Sides : Cardinality(From(u)) = 0 /\ Cardinality(RatedBy(u)) = 0
    BY <2>1, FS_EmptySet
  <2> QED BY <2>1, <2>2, <2>3 DEF Told
<1>4. Rated
  BY DEF Init, Rated, Idle
<1>5. OnPage
  BY DEF Init, OnPage
<1> QED BY <1>1, <1>2, <1>3, <1>4, <1>5 DEF Init, Thread, MatchStatus

\* A request that ends, or is not there.
LEMMA RequestEnds ==
  ASSUME Dated, NEW r \in Requests, request' = [request EXCEPT ![r] = Idle]
  PROVE  /\ request' \in [Requests -> RequestRecords]
         /\ request'[r].at = "idle"
         /\ \A q \in Requests : q # r => request'[q] = request[q]
BY IdleTyped DEF Dated

LEMMA MoveStep == ASSUME Thread, NEW s \in MatchStatus, Move(s) PROVE Thread'
<1>1. UNCHANGED <<request, messages, ratings, unread, page>> /\ status' = s
      /\ status # "completed"
  BY DEF Move
<1>2. Dated' /\ Tables' /\ OnPage'
  BY <1>1 DEF Thread, Dated, Tables, OnPage, page
<1>3. Told'
  BY <1>1 DEF Thread, Told, From, RatedBy
<1>4. Rated'
  BY <1>1 DEF Thread, Rated
<1> QED BY <1>1, <1>2, <1>3, <1>4 DEF Thread

LEMMA ReadStep ==
  ASSUME Thread, NEW r \in Requests, NEW u \in Sides,
         ReadForMessage(r, u) \/ ReadForRating(r, u)
  PROVE  Thread'
<1>1. PICK at \in {"post", "rate"}, t \in 0..MaxMessages :
        /\ request' = [request EXCEPT ![r] = [at |-> at, by |-> u, stamp |-> t]]
        /\ UNCHANGED <<status, messages, ratings, unread, page>>
        /\ at = "post" => t \in 1..MaxMessages /\ IsNow(t)
        /\ at = "rate" => status = "completed"
  BY ThreadAssumption DEF ReadForMessage, ReadForRating, Read
<1> DEFINE new == [at |-> at, by |-> u, stamp |-> t]
<1>2. new \in RequestRecords /\ new.at = at /\ new.by = u /\ new.stamp = t
  BY DEF RequestRecords
<1>3. request' = [request EXCEPT ![r] = new]
  BY <1>1
<1> HIDE DEF new
<1>4. /\ request' \in [Requests -> RequestRecords] /\ request'[r] = new
      /\ \A q \in Requests : q # r => request'[q] = request[q]
  BY <1>2, <1>3 DEF Thread, Dated
<1>5. Dated'
  <2>1. \A q \in Requests : request'[q].at # "idle" => request'[q].by \in Sides
    BY <1>2, <1>4 DEF Thread, Dated
  <2>2. at = "post" => \A m \in messages : m.stamp \in 1..MaxMessages /\ m.stamp < t
    BY <1>1 DEF IsNow, Started, Thread, Tables, Rows
  <2>3. at = "post" => \A q \in Requests : request[q].stamp \in 0..MaxMessages /\ request[q].stamp < t
    BY <1>1 DEF IsNow, Started, Thread, Dated, RequestRecords
  <2>4. at = "post" => /\ \A m \in messages : m.stamp # t
                       /\ \A q \in Requests : request[q].stamp # t
    BY <2>2, <2>3
  <2>5. ASSUME NEW q \in Requests, request'[q].at = "post"
        PROVE  /\ request'[q].stamp \in 1..MaxMessages
               /\ \A m \in messages' : m.stamp # request'[q].stamp
               /\ \A p \in Requests : p # q /\ request'[p].at = "post"
                    => request'[p].stamp # request'[q].stamp
    <3>1. CASE q = r
      BY <1>1, <1>2, <1>4, <2>4, <2>5, <3>1 DEF Thread, Dated
    <3>2. CASE q # r
      <4>1. request'[q] = request[q] /\ request[q].at = "post"
        BY <1>4, <2>5, <3>2
      <4> QED BY <1>1, <1>2, <1>4, <2>4, <4>1 DEF Thread, Dated
    <3> QED BY <3>1, <3>2
  <2> QED BY <1>4, <2>1, <2>5 DEF Dated
<1>6. Tables' /\ OnPage'
  BY <1>1 DEF Thread, Tables, OnPage, page
<1>7. Told'
  BY <1>1 DEF Thread, Told, From, RatedBy
<1>8. Rated'
  BY <1>1, <1>2, <1>4 DEF Thread, Rated
<1> QED BY <1>1, <1>5, <1>6, <1>7, <1>8 DEF Thread

LEMMA PostStep == ASSUME Thread, NEW r \in Requests, Post(r) PROVE Thread'
<1> DEFINE u == request[r].by
           new == [stamp |-> request[r].stamp, by |-> request[r].by]
<1>1. /\ messages' = messages \cup {new}
      /\ unread' = [unread EXCEPT ![Other(u)] = @ + 1]
      /\ request' = [request EXCEPT ![r] = Idle] /\ request[r].at = "post"
      /\ UNCHANGED <<status, ratings, page>>
  BY DEF Post, TellOther
<1>2. u \in Sides /\ new.by = u /\ new.stamp = request[r].stamp /\ new \in Rows
  BY <1>1 DEF Thread, Dated, Rows
<1>3. new \notin messages
  BY <1>1, <1>2 DEF Thread, Dated
<1> HIDE DEF u, new
<1>4. IsFiniteSet(messages') /\ messages' \subseteq Rows /\ messages \subseteq messages'
  BY <1>1, <1>2, <1>3, OneMore DEF Thread, Tables
<1>5. Tables'
  BY <1>1, <1>4 DEF Thread, Tables
<1>6. /\ request' \in [Requests -> RequestRecords] /\ request'[r].at = "idle"
      /\ \A q \in Requests : q # r => request'[q] = request[q]
  BY <1>1, RequestEnds DEF Thread
<1>7. Dated'
  <2>1. \A q \in Requests : q # r /\ request[q].at = "post" => request[q].stamp # new.stamp
    BY <1>1, <1>2 DEF Thread, Dated
  <2> QED BY <1>1, <1>6, <2>1 DEF Thread, Dated
<1>8. Told'
  <2>1. Other(u) \in Sides /\ Other(u) # u /\ \A v \in Sides : v # u => v = Other(u)
    BY <1>2, OtherIs
  <2>2. /\ unread' \in [Sides -> Nat] /\ unread'[Other(u)] = unread[Other(u)] + 1
        /\ \A v \in Sides : v # Other(u) => unread'[v] = unread[v]
    BY <1>1, <2>1 DEF Thread, Told
  <2>3. ASSUME NEW v \in Sides
        PROVE  /\ IsFiniteSet(From(v)) /\ IsFiniteSet(RatedBy(v))
               /\ Cardinality(From(v)) \in Nat /\ Cardinality(RatedBy(v)) \in Nat
    <3>1. From(v) \in SUBSET messages /\ RatedBy(v) \in SUBSET ratings
      BY DEF From, RatedBy
    <3> QED BY <3>1, FS_Subset, FS_CardinalityType DEF Thread, Tables
  <2>4. ASSUME NEW v \in Sides
        PROVE  /\ {x \in ratings' : x[1] # v} = RatedBy(v)
               /\ {m \in messages' : m.by # v} = IF v = u THEN From(v) ELSE From(v) \cup {new}
    BY <1>1, <1>2 DEF RatedBy, From
  <2>5. ASSUME NEW v \in Sides
        PROVE  unread'[v] <= Cardinality({m \in messages' : m.by # v})
                               + Cardinality({x \in ratings' : x[1] # v})
    <3>0. unread[v] \in Nat /\ unread[v] <= Cardinality(From(v)) + Cardinality(RatedBy(v))
      BY DEF Thread, Told
    <3>1. CASE v = u
      <4>1. unread'[v] = unread[v]
        BY <2>1, <2>2, <3>1
      <4>2. /\ {m \in messages' : m.by # v} = From(v)
            /\ {x \in ratings' : x[1] # v} = RatedBy(v)
        BY <2>4, <3>1
      <4> QED BY <3>0, <4>1, <4>2
    <3>2. CASE v # u
      <4>1. v = Other(u) /\ unread'[v] = unread[v] + 1
        BY <2>1, <2>2, <3>2
      <4>2. new \notin From(v)
        BY <1>3 DEF From
      <4>3. Cardinality(From(v) \cup {new}) = Cardinality(From(v)) + 1
        BY <2>3, <4>2, OneMore
      <4>4. /\ Cardinality({m \in messages' : m.by # v}) = Cardinality(From(v)) + 1
            /\ Cardinality({x \in ratings' : x[1] # v}) = Cardinality(RatedBy(v))
        BY <2>4, <3>2, <4>3
      <4> QED BY <2>3, <3>0, <4>1, <4>4
    <3> QED BY <3>1, <3>2
  <2> QED BY <2>2, <2>5 DEF Told, From, RatedBy
<1>9. Rated'
  BY <1>1, <1>6 DEF Thread, Rated
<1>10. OnPage'
  <2>1. Cardinality(messages') \in Nat /\ Cardinality(messages) \in Nat
        /\ Cardinality(messages') = Cardinality(messages) + 1
    BY <1>1, <1>3, <1>4, OneMore, FS_CardinalityType DEF Thread, Tables
  <2>2. Cardinality(messages') <= Limit => Cardinality(messages) <= Limit
    BY <2>1, ThreadAssumption
  <2> QED BY <1>1, <1>4, <2>2 DEF Thread, OnPage, page
<1> QED BY <1>1, <1>5, <1>7, <1>8, <1>9, <1>10 DEF Thread

LEMMA RateStep == ASSUME Thread, NEW r \in Requests, Rate(r) PROVE Thread'
<1> DEFINE u == request[r].by
           n == Cardinality({x \in ratings : x[1] = u}) + 1
           new == <<u, Other(u), n>>
<1>1. /\ ratings' = ratings \cup {new} /\ ~Taken(u)
      /\ unread' = [unread EXCEPT ![Other(u)] = @ + 1]
      /\ request' = [request EXCEPT ![r] = Idle] /\ request[r].at = "rate"
      /\ UNCHANGED <<status, messages, page>>
  BY DEF Rate, TellOther
<1>2. u \in Sides
  BY <1>1 DEF Thread, Dated
<1>3. n \in Nat
  <2>1. {x \in ratings : x[1] = u} \in SUBSET ratings
    OBVIOUS
  <2> QED BY <2>1, FS_Subset, FS_CardinalityType DEF Thread, Tables
<1> HIDE DEF u, n
<1>4. new[1] = u /\ new \in Sides \X Sides \X Nat
  BY <1>2, <1>3, OtherIs
<1> HIDE DEF new
<1>5. \A x \in ratings : x[1] # u
  BY <1>1 DEF Taken
<1>6. Tables'
  BY <1>1, <1>4, <1>5, OneMore DEF Thread, Tables
<1>7. /\ request' \in [Requests -> RequestRecords] /\ request'[r].at = "idle"
      /\ \A q \in Requests : q # r => request'[q] = request[q]
  BY <1>1, RequestEnds DEF Thread
<1>8. Dated'
  BY <1>1, <1>7 DEF Thread, Dated
<1>9. Told'
  <2>1. Other(u) \in Sides /\ Other(u) # u /\ \A v \in Sides : v # u => v = Other(u)
    BY <1>2, OtherIs
  <2>2. /\ unread' \in [Sides -> Nat] /\ unread'[Other(u)] = unread[Other(u)] + 1
        /\ \A v \in Sides : v # Other(u) => unread'[v] = unread[v]
    BY <1>1, <2>1 DEF Thread, Told
  <2>3. ASSUME NEW v \in Sides
        PROVE  /\ IsFiniteSet(From(v)) /\ IsFiniteSet(RatedBy(v))
               /\ Cardinality(From(v)) \in Nat /\ Cardinality(RatedBy(v)) \in Nat
    <3>1. From(v) \in SUBSET messages /\ RatedBy(v) \in SUBSET ratings
      BY DEF From, RatedBy
    <3> QED BY <3>1, FS_Subset, FS_CardinalityType DEF Thread, Tables
  <2>4. ASSUME NEW v \in Sides
        PROVE  /\ {m \in messages' : m.by # v} = From(v)
               /\ {x \in ratings' : x[1] # v} = IF v = u THEN RatedBy(v) ELSE RatedBy(v) \cup {new}
    BY <1>1, <1>4 DEF RatedBy, From
  <2>5. ASSUME NEW v \in Sides
        PROVE  unread'[v] <= Cardinality({m \in messages' : m.by # v})
                               + Cardinality({x \in ratings' : x[1] # v})
    <3>0. unread[v] \in Nat /\ unread[v] <= Cardinality(From(v)) + Cardinality(RatedBy(v))
      BY DEF Thread, Told
    <3>1. CASE v = u
      <4>1. unread'[v] = unread[v]
        BY <2>1, <2>2, <3>1
      <4>2. /\ {m \in messages' : m.by # v} = From(v)
            /\ {x \in ratings' : x[1] # v} = RatedBy(v)
        BY <2>4, <3>1
      <4> QED BY <3>0, <4>1, <4>2
    <3>2. CASE v # u
      <4>1. v = Other(u) /\ unread'[v] = unread[v] + 1
        BY <2>1, <2>2, <3>2
      <4>2. new \notin RatedBy(v)
        BY <1>4, <1>5 DEF RatedBy
      <4>3. Cardinality(RatedBy(v) \cup {new}) = Cardinality(RatedBy(v)) + 1
        BY <2>3, <4>2, OneMore
      <4>4. /\ Cardinality({m \in messages' : m.by # v}) = Cardinality(From(v))
            /\ Cardinality({x \in ratings' : x[1] # v}) = Cardinality(RatedBy(v)) + 1
        BY <2>4, <3>2, <4>3
      <4> QED BY <2>3, <3>0, <4>1, <4>4
    <3> QED BY <3>1, <3>2
  <2> QED BY <2>2, <2>5 DEF Told, From, RatedBy
<1>10. Rated'
  <2>1. status = "completed"
    BY <1>1 DEF Thread, Rated
  <2> QED BY <1>1, <1>4, <1>5, <1>7, <2>1 DEF Thread, Rated
<1>11. OnPage'
  BY <1>1 DEF Thread, OnPage, page
<1> QED BY <1>1, <1>6, <1>8, <1>9, <1>10, <1>11 DEF Thread

LEMMA AbortStep == ASSUME Thread, NEW r \in Requests, Abort(r) PROVE Thread'
<1>1. /\ request' = [request EXCEPT ![r] = Idle]
      /\ UNCHANGED <<status, messages, ratings, unread, page>>
  BY DEF Abort
<1>2. /\ request' \in [Requests -> RequestRecords] /\ request'[r].at = "idle"
      /\ \A q \in Requests : q # r => request'[q] = request[q]
  BY <1>1, RequestEnds DEF Thread
<1>3. Dated' /\ Rated'
  BY <1>1, <1>2 DEF Thread, Dated, Rated
<1>4. Tables' /\ OnPage'
  BY <1>1 DEF Thread, Tables, OnPage, page
<1>5. Told'
  BY <1>1 DEF Thread, Told, From, RatedBy
<1> QED BY <1>1, <1>3, <1>4, <1>5 DEF Thread

LEMMA MarkStep ==
  ASSUME Thread, NEW u \in Sides, MarkRead(u) \/ MarkAllRead(u)
  PROVE  Thread'
<1>1. UNCHANGED <<status, request, messages, ratings, page>>
  BY DEF MarkRead, MarkAllRead
<1>2. unread' \in [Sides -> Nat] /\ \A v \in Sides : unread'[v] <= unread[v]
  BY DEF MarkRead, MarkAllRead, Thread, Told
<1>3. Dated' /\ Rated' /\ Tables' /\ OnPage'
  BY <1>1 DEF Thread, Dated, Rated, Tables, OnPage, page
<1>4. Told'
  <2>1. ASSUME NEW v \in Sides
        PROVE  unread'[v] <= Cardinality(From(v)) + Cardinality(RatedBy(v))
    <3>1. From(v) \in SUBSET messages /\ RatedBy(v) \in SUBSET ratings
      BY DEF From, RatedBy
    <3>2. Cardinality(From(v)) \in Nat /\ Cardinality(RatedBy(v)) \in Nat
      BY <3>1, FS_Subset, FS_CardinalityType DEF Thread, Tables
    <3>3. /\ unread[v] \in Nat /\ unread'[v] \in Nat /\ unread'[v] <= unread[v]
          /\ unread[v] <= Cardinality(From(v)) + Cardinality(RatedBy(v))
      BY <1>2 DEF Thread, Told
    <3> QED BY <3>2, <3>3
  <2> QED BY <1>1, <1>2, <2>1 DEF Told, From, RatedBy
<1> QED BY <1>1, <1>3, <1>4 DEF Thread

\* A conversation that fits is answered whole: at most Limit - 1 messages are
\* older than any of it.
LEMMA ListIsWhole ==
  ASSUME Tables
  PROVE  List \subseteq messages /\ (Cardinality(messages) <= Limit => List = messages)
<1>1. ASSUME Cardinality(messages) <= Limit, NEW m \in messages PROVE m \in List
  <2> DEFINE older == {n \in messages : n.stamp < m.stamp}
  <2>1. /\ IsFiniteSet(messages \ {m})
        /\ Cardinality(messages \ {m}) = Cardinality(messages) - 1
        /\ Cardinality(messages) \in Nat
    BY FS_RemoveElement, FS_CardinalityType DEF Tables
  <2>2. m.stamp \in 1..MaxMessages
    BY DEF Tables, Rows
  <2>3. older \in SUBSET (messages \ {m})
    BY <2>2, ThreadAssumption
  <2>4. Cardinality(older) \in Nat /\ Cardinality(older) <= Cardinality(messages) - 1
    BY <2>1, <2>3, FS_Subset, FS_CardinalityType
  <2> HIDE DEF older
  <2>5. Cardinality(older) < Limit
    BY <1>1, <2>1, <2>4, ThreadAssumption
  <2> QED BY <2>5 DEF older, List
<1> QED BY <1>1 DEF List

LEMMA PageSteps ==
  ASSUME Thread, PageStep
  PROVE  /\ Thread'
         /\ shown # NoList /\ shown' # NoList /\ Cardinality(messages) <= Limit
              => shown \subseteq shown'
<1>1. UNCHANGED <<status, request, messages, ratings, unread>>
  BY DEF PageStep
<1>2. /\ OnPage'
      /\ shown # NoList /\ shown' # NoList /\ Cardinality(messages) <= Limit
           => shown \subseteq shown'
  <2>1. CASE Reload \/ Reopen
    BY <1>1, <2>1 DEF Reload, Reopen, Supersede, Thread, OnPage
  <2>2. CASE ServeList
    <3>1. loads' = {List} /\ shown' = shown
      BY <2>2 DEF ServeList, Thread, OnPage
    <3> QED BY <1>1, <3>1, ListIsWhole DEF Thread, OnPage
  <2>3. CASE Show
    <3>1. PICK answer \in loads \ {Asked} : shown' = answer /\ loads' = loads \ {answer}
      BY <2>3 DEF Show
    <3>2. loads' = {}
      BY <3>1 DEF Thread, OnPage
    <3> QED BY <1>1, <3>1, <3>2 DEF Thread, OnPage
  <2>4. CASE FailLoad
    BY <1>1, <2>4 DEF FailLoad, Thread, OnPage
  <2> QED BY <2>1, <2>2, <2>3, <2>4 DEF PageStep
<1>3. Dated' /\ Rated' /\ Tables'
  BY <1>1 DEF Thread, Dated, Rated, Tables
<1>4. Told'
  BY <1>1 DEF Thread, Told, From, RatedBy
<1> QED BY <1>1, <1>2, <1>3, <1>4 DEF Thread

LEMMA ThreadStep == Thread /\ [Next]_vars => Thread'
<1> SUFFICES ASSUME Thread, [Next]_vars PROVE Thread'
  OBVIOUS
<1>1. CASE UNCHANGED vars
  <2>1. Dated' /\ Rated' /\ Tables' /\ OnPage'
    BY <1>1 DEF vars, page, Thread, Dated, Rated, Tables, OnPage
  <2>2. Told'
    BY <1>1 DEF vars, Thread, Told, From, RatedBy
  <2> QED BY <1>1, <2>1, <2>2 DEF vars, Thread
<1> QED BY <1>1, MoveStep, ReadStep, PostStep, RateStep, AbortStep, MarkStep, PageSteps
        DEF Next

LEMMA Threading == Spec => []Thread
BY ThreadInit, ThreadStep, PTL DEF Spec

\* However the requests interleave, nobody is told more often than there are
\* messages and ratings of the other user.
THEOREM Typing == Spec => []TypeOK
<1>1. Thread => TypeOK
  <2> SUFFICES ASSUME Thread PROVE TypeOK
    OBVIOUS
  <2>1. ASSUME NEW u \in Sides
        PROVE  unread[u] \in 0..(Cardinality({m \in messages : m.by # u})
                                   + Cardinality({x \in ratings : x[1] # u}))
    <3>1. From(u) \in SUBSET messages /\ RatedBy(u) \in SUBSET ratings
      BY DEF From, RatedBy
    <3>2. Cardinality(From(u)) \in Nat /\ Cardinality(RatedBy(u)) \in Nat
      BY <3>1, FS_Subset, FS_CardinalityType DEF Thread, Tables
    <3>3. unread[u] \in 0..(Cardinality(From(u)) + Cardinality(RatedBy(u)))
      BY <3>2 DEF Thread, Told
    <3> QED BY <3>3 DEF From, RatedBy
  <2> QED BY <2>1 DEF Thread, Dated, RequestRecords, Tables, OnPage, TypeOK
<1> QED BY Threading, <1>1, PTL

\* Two requests to rate at once, or one that is served late, rate neither twice
\* nor too early.
THEOREM Earned == Spec => []RatingsAreEarned
<1>1. Thread => RatingsAreEarned
  BY DEF Thread, Rated, RatingsAreEarned
<1> QED BY Threading, <1>1, PTL

\* Repeated requests and late answers take no message off the page.
THEOREM NothingIsLost == Spec => NothingVanishes
<1>1. Thread /\ [Next]_vars =>
        [(shown # NoList /\ shown' # NoList /\ Cardinality(messages) <= Limit)
           => shown \subseteq shown']_vars
  <2> SUFFICES ASSUME Thread, Next, shown # NoList, shown' # NoList,
                      Cardinality(messages) <= Limit
               PROVE  shown \subseteq shown'
    OBVIOUS
  <2>1. CASE PageStep
    BY <2>1, PageSteps
  <2>2. CASE shown' = shown
    BY <2>2
  <2> QED BY <2>1, <2>2
          DEF Next, Move, ReadForMessage, ReadForRating, Read, Post, Rate, Abort,
              MarkRead, MarkAllRead, page
<1> QED BY Threading, <1>1, PTL DEF Spec, NothingVanishes
=============================================================================
