---------------------------- MODULE MatchThread ----------------------------
(***************************************************************************)
(* What hangs on one match: its conversation and the page that shows it,   *)
(* its ratings, and how much the two users are told.                       *)
(*                                                                         *)
(* messages.Service.Send and ratings.Service.Rate read the status of the   *)
(* match without locking it and insert later, so each is two steps here.   *)
(* A message is dated with the start of its transaction, so it can be      *)
(* inserted after one that is dated later.  The match itself moves as in   *)
(* Exchange; why it does is left out.  The page asks for its list again    *)
(* and again, and an answer may take longer than that.                     *)
(***************************************************************************)
EXTENDS Naturals, FiniteSets

CONSTANTS
  Sides,        \* the two participants
  Requests,     \* requests that may be served at the same time
  Limit,        \* how many messages the page asks for
  MaxMessages,  \* bound: dates given to messages
  NoList,       \* what the page shows before its first answer
  Asked         \* a request of the page that has not been served

ASSUME ThreadAssumption ==
  /\ IsFiniteSet(Sides) /\ Cardinality(Sides) = 2
  /\ Limit \in Nat \ {0} /\ MaxMessages \in Nat

VARIABLES
  status,     \* of the match
  request,    \* [Requests -> record]: what a request is about to insert
  messages,   \* the rows of the table: [stamp, by]
  ratings,    \* the rows of the table: <<rater, ratee, number>>
  unread,     \* [Sides -> Nat]: notifications that are not read
  shown,      \* the messages on the page
  loads       \* its requests for them whose answer still counts: Asked, or the answer

page == <<shown, loads>>
vars == <<status, request, messages, ratings, unread, page>>

MatchStatus == {"pending", "accepted", "completed", "declined", "cancelled"}
Closed == {"declined", "cancelled"}
Idle == [at |-> "idle", by |-> "none", stamp |-> 0]
Other(u) == CHOOSE v \in Sides : v # u

\* A transaction starts later than those that have started before.
Started == {m.stamp : m \in messages} \cup {request[r].stamp : r \in Requests}
IsNow(t) ==
  /\ \A s \in Started : s < t
  /\ t = 1 \/ t - 1 \in Started

\* Create: the other user is told.  Mutant: both are.
TellBoth(u) == unread' = [v \in Sides |-> unread[v] + 1]
TellOther(u) == unread' = [unread EXCEPT ![Other(u)] = @ + 1]
-----------------------------------------------------------------------------
Init ==
  /\ status = "pending"
  /\ request = [r \in Requests |-> Idle]
  /\ messages = {} /\ ratings = {} /\ unread = [u \in Sides |-> 0]
  /\ shown = NoList /\ loads = {Asked}

Move(s) ==
  /\ <<status, s>> \in {<<"pending", "accepted">>, <<"pending", "declined">>,
                        <<"pending", "cancelled">>, <<"accepted", "cancelled">>,
                        <<"accepted", "completed">>}
  /\ status' = s
  /\ UNCHANGED <<request, messages, ratings, unread, page>>

Read(r, u, at, open, stamp) ==
  /\ request[r] = Idle
  /\ status \in open
  /\ request' = [request EXCEPT ![r] = [at |-> at, by |-> u, stamp |-> stamp]]
  /\ UNCHANGED <<status, messages, ratings, unread, page>>

\* Send refuses a closed match, going by the status as it is read here.
ReadForMessage(r, u) ==
  \E t \in 1..MaxMessages : IsNow(t) /\ Read(r, u, "post", MatchStatus \ Closed, t)

Post(r) ==
  /\ request[r].at = "post"
  /\ messages' = messages \cup {[stamp |-> request[r].stamp, by |-> request[r].by]}
  /\ TellOther(request[r].by)
  /\ request' = [request EXCEPT ![r] = Idle]
  /\ UNCHANGED <<status, ratings, page>>

\* Mutant: both have agreed, and that is enough for a rating.
ReadForRatingEarly(r, u) == Read(r, u, "rate", {"accepted", "completed"}, 0)
ReadForRating(r, u) == Read(r, u, "rate", {"completed"}, 0)

\* UNIQUE (match_id, rater_id), which holds whoever else is inserting.
Taken(u) == \E x \in ratings : x[1] = u

Rate(r) ==
  LET u == request[r].by IN
  /\ request[r].at = "rate" /\ ~Taken(u)
  /\ ratings' = ratings \cup {<<u, Other(u), Cardinality({x \in ratings : x[1] = u}) + 1>>}
  /\ TellOther(u)
  /\ request' = [request EXCEPT ![r] = Idle]
  /\ UNCHANGED <<status, messages, page>>

\* A second rating, an error, a lost connection: the transaction is rolled back.
Abort(r) ==
  /\ request[r] # Idle
  /\ request' = [request EXCEPT ![r] = Idle]
  /\ UNCHANGED <<status, messages, ratings, unread, page>>

MarkRead(u) ==
  /\ unread[u] > 0
  /\ unread' = [unread EXCEPT ![u] = @ - 1]
  /\ UNCHANGED <<status, request, messages, ratings, page>>

MarkAllRead(u) ==
  /\ unread' = [unread EXCEPT ![u] = 0]
  /\ UNCHANGED <<status, request, messages, ratings, page>>
-----------------------------------------------------------------------------
(* The page *)

\* List: oldest first, and no more than were asked for.
List == {m \in messages : Cardinality({n \in messages : n.stamp < m.stamp}) < Limit}

\* useAsync: a new request takes the place of the one before, whose answer
\* comes to nothing.  Mutant: every answer is shown.
SupersedeNone == loads' = loads \cup {Asked}
Supersede == loads' = {Asked}

\* The interval, or a message of this page that has been answered.  Mutant: the
\* page is content with one answer.
ReloadOnce == shown = NoList /\ Supersede /\ UNCHANGED <<shown>>
Reload == Supersede /\ UNCHANGED shown

Reopen == loads' = {Asked} /\ shown' = NoList

ServeList ==
  /\ Asked \in loads
  /\ loads' = (loads \ {Asked}) \cup {List}
  /\ UNCHANGED shown

Show ==
  \E answer \in loads \ {Asked} :
    /\ shown' = answer
    /\ loads' = loads \ {answer}

\* An error leaves what is shown.
FailLoad == (\E l \in loads : loads' = loads \ {l}) /\ UNCHANGED shown

PageStep ==
  /\ Reload \/ Reopen \/ ServeList \/ Show \/ FailLoad
  /\ UNCHANGED <<status, request, messages, ratings, unread>>
-----------------------------------------------------------------------------
Next ==
  \/ \E s \in MatchStatus : Move(s)
  \/ \E r \in Requests :
       \/ \E u \in Sides : ReadForMessage(r, u) \/ ReadForRating(r, u)
       \/ Post(r) \/ Rate(r) \/ Abort(r)
  \/ \E u \in Sides : MarkRead(u) \/ MarkAllRead(u)
  \/ PageStep

Spec == Init /\ [][Next]_vars

\* The interval keeps asking, and of the requests that keep being sent some are
\* served, and some answered before the interval ends.
Fairness ==
  LET Alone(Step) == Step /\ UNCHANGED <<status, request, messages, ratings, unread>> IN
  /\ WF_vars(Alone(Reload))
  /\ SF_vars(Alone(ServeList))
  /\ SF_vars(Alone(Show))

FairSpec == Spec /\ Fairness
-----------------------------------------------------------------------------
Rows == [stamp : 1..MaxMessages, by : Sides]

TypeOK ==
  /\ status \in MatchStatus
  /\ request \in [Requests -> [at : {"idle", "post", "rate"}, by : Sides \cup {"none"},
                               stamp : 0..MaxMessages]]
  /\ messages \subseteq Rows
  /\ ratings \subseteq Sides \X Sides \X Nat
  /\ \A u \in Sides :
       unread[u] \in 0..(Cardinality({m \in messages : m.by # u})
                           + Cardinality({x \in ratings : x[1] # u}))
  /\ shown \in {NoList} \cup SUBSET messages
  /\ \A l \in loads \ {Asked} : l \in SUBSET messages

\* Ratings are between partners of a completed swap, one from each, although
\* Rate does not lock the match and two of its requests may run at once.
RatingsAreEarned ==
  /\ ratings # {} => status = "completed"
  /\ \A x, y \in ratings : x[1] = y[1] => x = y

\* A message that is on the page stays there, however the answers to repeated
\* requests are delayed, as long as the conversation fits into one answer.
NothingVanishes ==
  [][(shown # NoList /\ shown' # NoList /\ Cardinality(messages) <= Limit)
       => shown \subseteq shown']_vars

\* The page catches up with the conversation again and again: also with a
\* message that is inserted late, below one that has been read.
ChatCatchesUp == []<>(shown = List)
=============================================================================
