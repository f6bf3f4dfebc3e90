--------------------------- MODULE MatchPageProofs ---------------------------
(***************************************************************************)
(* The page of a match, for any plans and any number of actions under way at once. *)
(***************************************************************************)
EXTENDS MatchPage, FiniteSetTheorems, TLAPS

\* The other user is the other one.
LEMMA OtherIs ==
  ASSUME NEW u \in Sides
  PROVE  Other(u) \in Sides /\ Other(u) # u /\ Sides = {u, Other(u)}
<1>1. /\ IsFiniteSet(Sides \ {u}) /\ Cardinality(Sides \ {u}) = 1
  BY PageAssumption, FS_RemoveElement
<1>2. PICK v : Sides \ {u} = {v}
  <2>1. Sides \ {u} # {}
    BY <1>1, FS_EmptySet
  <2>2. PICK v : v \in Sides \ {u}
    BY <2>1
  <2>3. /\ IsFiniteSet((Sides \ {u}) \ {v}) /\ Cardinality((Sides \ {u}) \ {v}) = 0
    BY <1>1, <2>2, FS_RemoveElement
  <2>4. (Sides \ {u}) \ {v} = {}
    BY <2>3, FS_EmptySet
  <2> QED BY <2>2, <2>4
<1>3. v \in Sides /\ v # u /\ \A x \in Sides : x # u => x = v
  BY <1>2
<1>4. Other(u) = v
  BY <1>3 DEF Other
<1> QED BY <1>3, <1>4
-----------------------------------------------------------------------------
\* The row on the server: two acceptances make an agreed match, two
\* confirmations of a plan a completed one, and a rating comes after that.
Matches == [status : MatchStatus, accepted : SUBSET Sides, plan : Plans \cup {NoPlan},
            confirmed : SUBSET Sides, rated : SUBSET Sides]

MatchOK ==
  /\ match \in Matches
  /\ match.status = "pending" => match.accepted # Sides /\ match.confirmed = {}
  /\ match.status = "accepted" => match.confirmed # Sides
  /\ match.status # "completed" => match.rated = {}

\* What another user, or another page, does to it.
LEMMA MatchStep ==
  ASSUME MatchOK, NEW u \in Sides, NEW do \in Dos, Perform(u, do) \/ TooLate(u, do)
  PROVE  MatchOK'
<1>1. do[1] \in Buttons \cup {"rate", "save"} /\ (do[1] = "save" => do[2] \in Plans)
  BY DEF Dos, Buttons
<1>2. CASE TooLate(u, do)
  BY <1>2 DEF TooLate, MatchOK, Matches, MatchStatus, Allowed, Needs
<1>3. CASE do[1] = "accept" /\ Perform(u, do)
  BY <1>3 DEF Perform, Allowed, Needs, Both, MatchOK, Matches, MatchStatus
<1>4. CASE do[1] \in {"decline", "cancel"} /\ Perform(u, do)
  BY <1>4 DEF Perform, Allowed, Needs, MatchOK, Matches, MatchStatus
<1>5. CASE do[1] = "save" /\ Perform(u, do)
  <2>1. Sides # {}
    OBVIOUS
  <2> QED BY <1>1, <1>5, <2>1 DEF Perform, Allowed, Needs, MatchOK, Matches, MatchStatus
<1>6. CASE do[1] = "complete" /\ Perform(u, do)
  BY <1>6 DEF Perform, Allowed, Needs, Both, MatchOK, Matches, MatchStatus
<1>7. CASE do[1] = "rate" /\ Perform(u, do)
  BY <1>7 DEF Perform, Allowed, Needs, MatchOK, Matches, MatchStatus
<1> QED BY <1>1, <1>2, <1>3, <1>4, <1>5, <1>6, <1>7 DEF Buttons

LEMMA CloseRivalStep == ASSUME MatchOK, CloseRival PROVE MatchOK'
BY DEF MatchOK, CloseRival, Matches, MatchStatus
-----------------------------------------------------------------------------
\* The steps of a call, field by field.
CallRecords == [id : Requests, do : Dos, at : {"sent", "served", "answered"},
                seen : Views, reply : Views]

LEMMA CallTyped ==
  ASSUME NEW c \in CallRecords
  PROVE  /\ c.id \in Requests /\ c.do \in Dos /\ c.at \in {"sent", "served", "answered"}
         /\ c.seen \in Views /\ c.reply \in Views
BY DEF CallRecords

Moved(c, d, at, reply) ==
  d.id = c.id /\ d.do = c.do /\ d.seen = c.seen /\ d.at = at /\ d.reply = reply

LEMMA ServedTyped ==
  ASSUME NEW c \in CallRecords
  PROVE  \E d \in CallRecords :
           d = [c EXCEPT !.at = "served"] /\ Moved(c, d, "served", c.reply)
<1> DEFINE d == [c EXCEPT !.at = "served"]
<1>1. d \in CallRecords /\ Moved(c, d, "served", c.reply)
  BY DEF CallRecords, Moved
<1>2. d = [c EXCEPT !.at = "served"]
  OBVIOUS
<1> HIDE DEF d
<1> QED BY <1>1, <1>2

LEMMA AnsweredTyped ==
  ASSUME NEW c \in CallRecords, NEW v \in Views
  PROVE  \E d \in CallRecords :
           /\ d = [c EXCEPT !.at = "answered", !.reply = v]
           /\ Moved(c, d, "answered", v)
<1> DEFINE d == [c EXCEPT !.at = "answered", !.reply = v]
<1>1. d \in CallRecords /\ Moved(c, d, "answered", v)
  BY DEF CallRecords, Moved
<1>2. d = [c EXCEPT !.at = "answered", !.reply = v]
  OBVIOUS
<1> HIDE DEF d
<1> QED BY <1>1, <1>2

LEMMA ViewTyped ==
  ASSUME MatchOK, NEW u \in Sides
  PROVE  /\ ToResponse(u) \in Views \ {NoView} \/ ToResponse(u) = NoView
         /\ ToResponse(u).status = match.status /\ ToResponse(u).exchange = match.plan
         /\ ToResponse(u).youAccepted = (u \in match.accepted)
         /\ ToResponse(u).youCompleted = (u \in match.confirmed)
         /\ ToResponse(u).youRated = (u \in match.rated)
         /\ ToResponse(u) \in Views
BY DEF MatchOK, Matches, ToResponse, Views

\* What the page knows: it offers what it was asked for, one button at a time.
Sound ==
  /\ user \in Sides /\ view \in Views /\ crossed \in BOOLEAN /\ MatchOK
  /\ load \in [at : {"none", "asked", "answered"}, reply : Views]
  /\ calls \subseteq CallRecords
  /\ \A c, d \in calls : c.id = d.id \/ {c.do[1], d.do[1]} \subseteq Buttons => c = d
  /\ \A c \in calls : Offers(c.seen, c.do[1])

LEMMA SoundInit == Init => Sound
<1> SUFFICES ASSUME Init PROVE Sound
  OBVIOUS
<1>1. MatchOK
  <2>1. Sides # {}
    BY PageAssumption, FS_EmptySet
  <2> QED BY <2>1 DEF Init, MatchOK, Matches, MatchStatus
<1>2. NoView \in Views
  BY DEF Views
<1>3. load \in [at : {"none", "asked", "answered"}, reply : Views]
  BY <1>2 DEF Init
<1> QED BY <1>1, <1>2, <1>3 DEF Init, Sound

LEMMA SoundLoad ==
  ASSUME Sound, Reopen \/ Retry \/ ServeLoad \/ EndLoad PROVE Sound'
<1>1. NoView \in Views /\ ToResponse(user) \in Views /\ load.reply \in Views
  BY ViewTyped DEF Sound, Views
<1>2. [at |-> "asked", reply |-> NoView] \in [at : {"none", "asked", "answered"}, reply : Views]
  BY <1>1
<1>3. /\ \A v \in Views :
           [at |-> "answered", reply |-> v] \in [at : {"none", "asked", "answered"}, reply : Views]
      /\ NoLoad \in [at : {"none", "asked", "answered"}, reply : Views]
  BY <1>1 DEF NoLoad
<1>4. MatchOK'
  BY DEF Sound, Reopen, Retry, ServeLoad, EndLoad, MatchOK
<1>5. CASE Reopen
  BY <1>1, <1>2, <1>4, <1>5 DEF Reopen, Asked, Sound
<1>6. CASE Retry
  BY <1>1, <1>2, <1>4, <1>6 DEF Retry, Asked, Sound
<1>7. CASE ServeLoad
  BY <1>1, <1>3, <1>4, <1>7 DEF ServeLoad, Sound
<1>8. CASE EndLoad
  BY <1>1, <1>3, <1>4, <1>8 DEF EndLoad, Sound
<1> QED BY <1>5, <1>6, <1>7, <1>8

LEMMA SoundClick ==
  ASSUME Sound, NEW r \in Requests, NEW do \in Dos, Click(r, do) PROVE Sound'
<1> DEFINE new == [id |-> r, do |-> do, at |-> "sent", seen |-> view, reply |-> NoView]
<1>1. new \in CallRecords /\ new.id = r /\ new.do = do /\ new.seen = view
  BY DEF Sound, CallRecords, Views
<1>2. calls' = calls \cup {new} /\ Offers(view, do[1]) /\ NotBusy(do[1])
      /\ (\A c \in calls : c.id # r)
      /\ UNCHANGED <<user, match, view, load>> /\ crossed' \in BOOLEAN
  BY DEF Click, Sound, UnderWay
<1> HIDE DEF new
<1>3. \A c, d \in calls' : c.id = d.id \/ {c.do[1], d.do[1]} \subseteq Buttons => c = d
  <2>1. do[1] \in Buttons => \A c \in calls : c.do[1] \notin Buttons
    BY <1>2 DEF NotBusy, UnderWay
  <2> QED BY <1>1, <1>2, <2>1 DEF Sound
<1>4. \A c \in calls' : Offers(c.seen, c.do[1])
  BY <1>1, <1>2 DEF Sound
<1> QED BY <1>1, <1>2, <1>3, <1>4 DEF Sound, MatchOK

LEMMA SoundCall ==
  ASSUME Sound, NEW c \in calls, Serve(c) \/ Fail(c) \/ Answer(c) \/ Deliver(c) PROVE Sound'
<1>0. c \in CallRecords /\ user \in Sides /\ MatchOK /\ c.do \in Dos /\ c.reply \in Views
  BY CallTyped DEF Sound
<1>1. ASSUME NEW d \in CallRecords, d.id = c.id, d.do = c.do, d.seen = c.seen, Becomes(c, d)
      PROVE  /\ calls' \subseteq CallRecords
             /\ \A x, y \in calls' : x.id = y.id \/ {x.do[1], y.do[1]} \subseteq Buttons => x = y
             /\ \A x \in calls' : Offers(x.seen, x.do[1])
  BY <1>1 DEF Sound, Becomes
<1>2. CASE Serve(c)
  <2>1. MatchOK'
    BY <1>0, <1>2, MatchStep DEF Serve
  <2>2. PICK d \in CallRecords :
          d = [c EXCEPT !.at = "served"] /\ d.id = c.id /\ d.do = c.do /\ d.seen = c.seen
    BY <1>0, ServedTyped DEF Moved
  <2>3. Becomes(c, d) /\ UNCHANGED <<user, view, load, crossed>>
    BY <1>2, <2>2 DEF Serve
  <2> QED BY <1>1, <2>1, <2>2, <2>3 DEF Sound
<1>3. CASE Fail(c)
  <2>1. MatchOK'
    <3>1. CASE UNCHANGED match
      BY <1>0, <3>1 DEF MatchOK
    <3>2. CASE TooLate(user, c.do)
      BY <1>0, <3>2, MatchStep
    <3> QED BY <1>3, <3>1, <3>2 DEF Fail
  <2> QED BY <1>3, <2>1 DEF Fail, Sound
<1>4. CASE Answer(c)
  <2>1. MatchOK'
    BY <1>0, <1>4 DEF Answer, MatchOK
  <2>2. PICK d \in CallRecords :
          /\ d = [c EXCEPT !.at = "answered", !.reply = ToResponse(user)]
          /\ d.id = c.id /\ d.do = c.do /\ d.seen = c.seen
    <3>1. ToResponse(user) \in Views
      BY <1>0, ViewTyped
    <3>2. \A v \in Views : \E d \in CallRecords :
            d = [c EXCEPT !.at = "answered", !.reply = v] /\ Moved(c, d, "answered", v)
      BY <1>0, AnsweredTyped
    <3> QED BY <3>1, <3>2 DEF Moved
  <2>3. Becomes(c, d) /\ UNCHANGED <<user, match, view, load, crossed>>
    BY <1>4, <2>2 DEF Answer
  <2> QED BY <1>1, <2>1, <2>2, <2>3 DEF Sound
<1>5. CASE Deliver(c)
  <2>1. MatchOK'
    BY <1>0, <1>5 DEF Deliver, MatchOK
  <2>2. load' \in [at : {"none", "asked", "answered"}, reply : Views]
    BY <1>5 DEF Deliver, Asked, Sound, Views
  <2> QED BY <1>0, <1>5, <2>1, <2>2 DEF Deliver, Sound
<1> QED BY <1>2, <1>3, <1>4, <1>5

LEMMA SoundStep == Sound /\ [Next]_vars => Sound'
<1> SUFFICES ASSUME Sound, [Next]_vars PROVE Sound'
  OBVIOUS
<1>1. CASE Elsewhere
  <2>1. MatchOK'
    BY <1>1, MatchStep, CloseRivalStep DEF Elsewhere, Sound
  <2> QED BY <1>1, <2>1 DEF Elsewhere, Sound
<1>2. CASE UNCHANGED vars
  BY <1>2 DEF vars, Sound, MatchOK
<1> QED BY <1>1, <1>2, SoundLoad, SoundClick, SoundCall DEF Next

LEMMA Soundness == Spec => []Sound
BY SoundInit, SoundStep, PTL DEF Spec

\* At any time at most one button of the page is under way.
THEOREM Typing == Spec => []TypeOK
<1>1. Sound => TypeOK
  BY DEF Sound, MatchOK, Matches, CallRecords, TypeOK
<1> QED BY Soundness, <1>1, PTL
-----------------------------------------------------------------------------
\* The page and the server agree on what can be done, for any plan.
THEOREM Offering == Spec => []OffersWork
<1>1. Sound => OffersWork
  <2> SUFFICES ASSUME Sound, view = ToResponse(user), NEW do \in Dos, Offers(view, do[1])
               PROVE  Allowed(user, do)
    BY DEF OffersWork
  <2>1. do[1] \in {"accept", "decline", "cancel", "complete", "rate", "save"}
    BY DEF Dos, Buttons
  <2>2. /\ view.status = match.status /\ view.exchange = match.plan
        /\ view.youRated = (user \in match.rated)
    BY ViewTyped DEF Sound
  <2> QED BY <2>1, <2>2 DEF Offers, Allowed, Needs
<1> QED BY Soundness, <1>1, PTL

\* Whoever is told to act has something to do, and whoever is told to wait
\* waits for somebody who has.
THEOREM Hinting == Spec => []HintsAreTrue
<1>1. Sound => HintsAreTrue
  <2> SUFFICES ASSUME Sound, NEW u \in Sides
               PROVE  /\ Hint(ToResponse(u)) = "act" => Forward(u) # {}
                      /\ Hint(ToResponse(u)) = "wait" => Forward(Other(u)) # {}
    BY DEF HintsAreTrue
  <2>1. MatchOK /\ Other(u) \in Sides /\ Other(u) # u /\ Sides = {u, Other(u)}
    BY OtherIs DEF Sound
  <2>2. ASSUME NEW v \in Sides
        PROVE  /\ ToResponse(v).status = match.status /\ ToResponse(v).exchange = match.plan
               /\ ToResponse(v).youAccepted = (v \in match.accepted)
               /\ ToResponse(v).youCompleted = (v \in match.confirmed)
               /\ ToResponse(v).youRated = (v \in match.rated)
    BY <2>1, ViewTyped
  <2>3. ASSUME NEW v \in Sides, match.status = "pending", v \notin match.accepted
        PROVE  "accept" \in Forward(v)
    BY <2>2, <2>3 DEF Forward, Offers, Needs
  <2>4. ASSUME NEW v \in Sides, match.status = "accepted", match.plan = NoPlan
        PROVE  "save" \in Forward(v)
    BY <2>2, <2>4 DEF Forward, Offers, Needs
  <2>5. ASSUME NEW v \in Sides, match.status = "accepted", match.plan # NoPlan,
               v \notin match.confirmed
        PROVE  "complete" \in Forward(v)
    BY <2>2, <2>5 DEF Forward, Offers, Needs
  <2>6. ASSUME NEW v \in Sides, match.status = "completed", v \notin match.rated
        PROVE  "rate" \in Forward(v)
    BY <2>2, <2>6 DEF Forward, Offers, Needs
  <2>7. CASE match.status = "pending"
    <3>1. u \in match.accepted => Other(u) \notin match.accepted
      BY <2>1, <2>7 DEF MatchOK, Matches
    <3> QED BY <2>1, <2>2, <2>3, <2>7, <3>1 DEF Hint
  <2>8. CASE match.status = "accepted"
    <3>1. u \in match.confirmed => Other(u) \notin match.confirmed
      BY <2>1, <2>8 DEF MatchOK, Matches
    <3> QED BY <2>1, <2>2, <2>4, <2>5, <2>8, <3>1 DEF Hint
  <2>9. CASE match.status = "completed"
    BY <2>1, <2>2, <2>6, <2>9 DEF Hint
  <2>10. CASE match.status \notin {"pending", "accepted", "completed"}
    BY <2>2, <2>10 DEF Hint
  <2> QED BY <2>7, <2>8, <2>9, <2>10
<1> QED BY Soundness, <1>1, PTL

\* However old the view, an action has an effect only at the stage it was meant for.
THEOREM OldViews == Spec => StaleIsRefused
<1>1. Sound /\ [Next]_vars => [\A c \in calls : Serve(c) => match.status = c.seen.status]_vars
  <2> SUFFICES ASSUME Sound, NEW c \in calls, Serve(c) PROVE match.status = c.seen.status
    OBVIOUS
  <2>1. c.do \in Dos /\ Offers(c.seen, c.do[1]) /\ Allowed(user, c.do)
    BY CallTyped DEF Sound, Serve, Perform
  <2>2. c.do[1] \in {"accept", "decline", "cancel", "complete", "rate", "save"}
    BY <2>1 DEF Dos, Buttons
  <2> QED BY <2>1, <2>2 DEF Offers, Allowed, Needs
<1> QED BY Soundness, <1>1, PTL DEF Spec, StaleIsRefused
-----------------------------------------------------------------------------
\* Stages of the match follow each other, also on the page.  As long as no save
\* has overlapped a button or a save, one action other than ratings is under way
\* at a time and the page shows what it showed when that was pressed; while
\* ratings are, any number of them, or the match is loaded again, the swap is over.
Behind ==
  /\ view # NoView => Order(view) <= Order(match)
  /\ \A c \in calls : c.at = "answered" => Order(c.reply) <= Order(match)
  /\ load.reply # NoView => Order(load.reply) <= Order(match)

Waiting ==
  /\ \A c, d \in calls : c.do[1] # "rate" /\ d.do[1] # "rate" => c = d
  /\ \A c \in calls : c.do[1] # "rate" =>
       /\ view # NoView /\ view = c.seen
       /\ c.at = "answered" => Order(view) <= Order(c.reply)
  /\ \A c \in calls : c.do[1] = "rate" =>
       /\ Order(match) = 3 /\ (view # NoView => Order(view) = 3)
       /\ load.reply # NoView => Order(load.reply) = 3
  /\ load # NoLoad /\ view # NoView =>
       Order(view) = 3 /\ (load.reply # NoView => Order(load.reply) = 3)

InOrder == Behind /\ (~crossed => Waiting)

\* The stages as numbers, and when a call is offered.
LEMMA Stages ==
  /\ \A v : Order(v) \in 1..3
  /\ \A v, do : do \in Dos /\ Offers(v, do[1]) => (do[1] = "rate" <=> Order(v) = 3)
  /\ \A v, w : v.status = w.status => Order(v) = Order(w)
<1>1. \A v : Order(v) \in 1..3
  BY DEF Order
<1>2. ASSUME NEW v, NEW do \in Dos, Offers(v, do[1]) PROVE do[1] = "rate" <=> Order(v) = 3
  <2>1. do[1] \in {"accept", "decline", "cancel", "complete", "rate", "save"}
    BY DEF Dos, Buttons
  <2>2. CASE do[1] \in {"accept", "decline"}
    <3>1. v.status = "pending"
      BY <1>2, <2>2 DEF Offers
    <3> QED BY <2>2, <3>1 DEF Order
  <2>3. CASE do[1] \in {"cancel", "complete", "save"}
    <3>1. v.status = "accepted"
      BY <1>2, <2>3 DEF Offers
    <3> QED BY <2>3, <3>1 DEF Order
  <2>4. CASE do[1] = "rate"
    <3>1. v.status = "completed"
      BY <1>2, <2>4 DEF Offers
    <3> QED BY <2>4, <3>1 DEF Order
  <2> QED BY <2>1, <2>2, <2>3, <2>4
<1>3. \A v, w : v.status = w.status => Order(v) = Order(w)
  BY DEF Order
<1> QED BY <1>1, <1>2, <1>3

\* A match only moves on.
LEMMA MatchMovesOn ==
  ASSUME MatchOK, \/ CloseRival
                  \/ \E u \in Sides, do \in Dos : Perform(u, do) \/ TooLate(u, do)
  PROVE  Order(match) <= Order(match') /\ Order(match') \in 1..3 /\ Order(match) \in 1..3
<1>0. Order(match') \in 1..3 /\ Order(match) \in 1..3
  BY Stages
<1>1. CASE CloseRival
  BY <1>0, <1>1 DEF CloseRival, Order, MatchOK, Matches
<1>2. ASSUME NEW u \in Sides, NEW do \in Dos, Perform(u, do) \/ TooLate(u, do)
      PROVE  Order(match) <= Order(match')
  <2>1. do[1] \in {"accept", "decline", "cancel", "complete", "rate", "save"}
    BY DEF Dos, Buttons
  <2>2. CASE TooLate(u, do)
    BY <1>0, <2>2 DEF TooLate, Allowed, Needs, Order, MatchOK, Matches
  <2>3. CASE Perform(u, do) /\ do[1] \in {"accept", "decline"}
    <3>1. match.status = "pending"
      BY <2>3 DEF Perform, Allowed, Needs
    <3> QED BY <1>0, <3>1 DEF Order
  <2>4. CASE Perform(u, do) /\ do[1] \in {"cancel", "save", "complete"}
    <3>1. match.status = "accepted" /\ match'.status # "pending"
      BY <2>4 DEF Perform, Allowed, Needs, Both, MatchOK, Matches
    <3> QED BY <1>0, <3>1 DEF Order
  <2>5. CASE Perform(u, do) /\ do[1] = "rate"
    <3>1. match'.status = match.status
      BY <2>5 DEF Perform, MatchOK, Matches
    <3> QED BY <1>0, <3>1 DEF Order
  <2> QED BY <1>2, <2>1, <2>2, <2>3, <2>4, <2>5
<1> QED BY <1>0, <1>1, <1>2

LEMMA InOrderInit == Init => InOrder
BY DEF Init, InOrder, Behind, Waiting, NoLoad

\* What was shown, answered or loaded stays behind a match that moves on.
LEMMA BehindStep ==
  ASSUME Behind, UNCHANGED <<view, load, calls>>, Order(match) <= Order(match')
  PROVE  Behind'
<1>1. \A v : Order(v) \in 1..3
  BY Stages
<1> QED BY <1>1 DEF Behind

LEMMA WaitingStep ==
  ASSUME Waiting, UNCHANGED <<view, load, calls>>, Order(match) <= Order(match')
  PROVE  Waiting'
<1>1. \A v : Order(v) \in 1..3
  BY Stages
<1> QED BY <1>1 DEF Waiting

\* A view from the server is not ahead of it.
LEMMA Fresh ==
  ASSUME Sound
  PROVE  Order(ToResponse(user)) = Order(match) /\ Order(match) \in 1..3
BY ViewTyped, Stages DEF Sound

LEMMA InOrderLoad ==
  ASSUME Sound, InOrder, Reopen \/ Retry \/ ServeLoad \/ EndLoad
  PROVE  InOrder'
<1>0. \A v : Order(v) \in 1..3
  BY Stages
<1>1. CASE Reopen
  BY <1>1 DEF Reopen, Asked, InOrder, Behind, Waiting, NoLoad
<1>2. CASE Retry
  <2>1. Behind'
    BY <1>2 DEF Retry, Asked, InOrder, Behind
  <2>2. Waiting => Waiting'
    BY <1>2 DEF Retry, Asked, Waiting
  <2> QED BY <1>2, <2>1, <2>2 DEF Retry, InOrder
<1>3. CASE ServeLoad
  <2>1. /\ Order(ToResponse(user)) = Order(match) /\ Order(match) \in 1..3
        /\ load'.reply = ToResponse(user) /\ load # NoLoad
        /\ UNCHANGED <<user, match, view, calls, crossed>>
    BY <1>3, Fresh DEF ServeLoad, NoLoad
  <2>2. Behind'
    BY <2>1 DEF InOrder, Behind
  <2>3. Waiting => Waiting'
    BY <1>0, <2>1 DEF InOrder, Behind, Waiting
  <2> QED BY <2>1, <2>2, <2>3 DEF InOrder
<1>4. CASE EndLoad
  <2>1. /\ load' = NoLoad /\ NoLoad.reply = NoView /\ view' \in {NoView, load.reply} /\ load # NoLoad
        /\ UNCHANGED <<user, match, calls, crossed>>
    BY <1>4 DEF EndLoad, NoLoad
  <2>2. Behind'
    BY <2>1 DEF InOrder, Behind
  <2>3. ASSUME Waiting PROVE Waiting'
    <3>1. ASSUME NEW c \in calls PROVE c.do[1] = "rate"
      <4>1. SUFFICES ASSUME c.do[1] # "rate" PROVE FALSE
        OBVIOUS
      <4>2. view # NoView /\ view = c.seen /\ Order(view) = 3
        BY <2>1, <2>3, <4>1 DEF Waiting
      <4> QED BY <3>1, <4>1, <4>2, CallTyped, Stages DEF Sound
    <3> QED BY <2>1, <2>3, <3>1 DEF Waiting
  <2> QED BY <2>1, <2>2, <2>3 DEF InOrder
<1> QED BY <1>1, <1>2, <1>3, <1>4

LEMMA InOrderClick ==
  ASSUME Sound, InOrder, NEW r \in Requests, NEW do \in Dos, Click(r, do)
  PROVE  InOrder'
<1> DEFINE new == [id |-> r, do |-> do, at |-> "sent", seen |-> view, reply |-> NoView]
<1>1. new.do = do /\ new.seen = view /\ new.at = "sent"
  OBVIOUS
<1>2. /\ calls' = calls \cup {new} /\ Offers(view, do[1]) /\ NotBusy(do[1]) /\ view # NoView
      /\ UNCHANGED <<user, match, view, load>>
      /\ crossed' = (crossed \/
           UnderWay(IF do[1] = "save" THEN Buttons \cup {"save"} ELSE {"save"}))
  BY DEF Click
<1> HIDE DEF new
<1>3. Behind'
  BY <1>1, <1>2 DEF InOrder, Behind
<1>4. ASSUME ~crossed' PROVE Waiting'
  <2>0. \A v : Order(v) \in 1..3
    BY Stages
  <2>1. Waiting /\ ~UnderWay(IF do[1] = "save" THEN Buttons \cup {"save"} ELSE {"save"})
    BY <1>2, <1>4 DEF InOrder
  <2>2. do[1] = "rate" <=> Order(view) = 3
    BY <1>2, Stages
  <2>3. ASSUME NEW c \in calls, c.do[1] # "rate" PROVE do[1] # "rate"
    <3>1. view = c.seen
      BY <2>1, <2>3 DEF Waiting
    <3> QED BY <2>2, <2>3, <3>1, CallTyped, Stages DEF Sound
  <2>4. ASSUME NEW c \in calls, c.do[1] # "rate", do[1] # "rate" PROVE FALSE
    <3>1. c.do[1] \in Buttons \cup {"save"} /\ do[1] \in Buttons \cup {"save"}
      BY <2>4, CallTyped DEF Sound, Dos
    <3> QED BY <1>2, <2>1, <3>1 DEF NotBusy, UnderWay, Buttons
  <2>5. ASSUME NEW c \in calls, c.do[1] = "rate" PROVE do[1] = "rate"
    BY <1>2, <2>1, <2>2, <2>5 DEF Waiting
  <2>6. do[1] = "rate" =>
          /\ Order(match) = 3 /\ Order(view) = 3
          /\ load.reply # NoView => Order(load.reply) = 3
    <3>1. SUFFICES ASSUME do[1] = "rate"
                   PROVE  /\ Order(match) = 3 /\ Order(view) = 3
                          /\ load.reply # NoView => Order(load.reply) = 3
      OBVIOUS
    <3>2. Order(view) = 3 /\ Order(match) = 3
      BY <1>2, <2>0, <2>2, <3>1 DEF InOrder, Behind
    <3>3. load = NoLoad => load.reply = NoView
      BY DEF NoLoad
    <3> QED BY <1>2, <2>1, <3>2, <3>3 DEF Waiting
  <2>7. \A c, d \in calls' : c.do[1] # "rate" /\ d.do[1] # "rate" => c = d
    BY <1>1, <1>2, <2>1, <2>4 DEF Waiting
  <2>8. \A c \in calls' : c.do[1] # "rate" =>
          /\ view' # NoView /\ view' = c.seen
          /\ c.at = "answered" => Order(view') <= Order(c.reply)
    BY <1>1, <1>2, <2>1 DEF Waiting
  <2>9. \A c \in calls' : c.do[1] = "rate" =>
          /\ Order(match') = 3 /\ (view' # NoView => Order(view') = 3)
          /\ load'.reply # NoView => Order(load'.reply) = 3
    BY <1>1, <1>2, <2>1, <2>6 DEF Waiting
  <2> QED BY <1>2, <2>1, <2>7, <2>8, <2>9 DEF Waiting
<1> QED BY <1>3, <1>4 DEF InOrder

\* A call that is replaced by one of the same action.
LEMMA InOrderBecomes ==
  ASSUME Sound, InOrder, NEW c \in calls, NEW d,
         Becomes(c, d), d.do = c.do, d.seen = c.seen, UNCHANGED <<view, load, crossed>>,
         Order(match) <= Order(match'),
         d.at = "answered" => Order(d.reply) = Order(match')
  PROVE  InOrder'
<1>0. \A v : Order(v) \in 1..3
  BY Stages
<1>1. calls' = (calls \ {c}) \cup {d}
  BY DEF Becomes
<1>2. Behind'
  <2>1. \A x \in calls' : x.at = "answered" => Order(x.reply) <= Order(match')
    BY <1>0, <1>1 DEF InOrder, Behind
  <2> QED BY <1>0, <2>1 DEF InOrder, Behind
<1>3. ASSUME Waiting PROVE Waiting'
  <2>1. \A x, y \in calls' : x.do[1] # "rate" /\ y.do[1] # "rate" => x = y
    BY <1>1, <1>3 DEF Waiting
  <2>2. \A x \in calls' : x.do[1] # "rate" =>
          /\ view' # NoView /\ view' = x.seen
          /\ x.at = "answered" => Order(view') <= Order(x.reply)
    <3>1. view # NoView => Order(view) <= Order(match')
      BY <1>0 DEF InOrder, Behind
    <3> QED BY <1>1, <1>3, <3>1 DEF Waiting
  <2>3. \A x \in calls' : x.do[1] = "rate" =>
          /\ Order(match') = 3 /\ (view' # NoView => Order(view') = 3)
          /\ load'.reply # NoView => Order(load'.reply) = 3
    <3>1. (\E x \in calls' : x.do[1] = "rate") => \E x \in calls : x.do[1] = "rate"
      BY <1>1
    <3> QED BY <1>0, <1>3, <3>1 DEF Waiting
  <2> QED BY <1>3, <2>1, <2>2, <2>3 DEF Waiting
<1> QED BY <1>2, <1>3 DEF InOrder

LEMMA InOrderCall ==
  ASSUME Sound, InOrder, NEW c \in calls, Serve(c) \/ Fail(c) \/ Answer(c) \/ Deliver(c)
  PROVE  InOrder' /\ ((view # NoView /\ view' # NoView /\ Order(view') < Order(view)) => crossed)
<1>0. /\ c \in CallRecords /\ c.do \in Dos /\ user \in Sides /\ MatchOK
      /\ \A v : Order(v) \in 1..3
  BY CallTyped, Stages DEF Sound
<1>1. CASE Serve(c)
  <2>1. PICK d \in CallRecords :
          /\ d = [c EXCEPT !.at = "served"]
          /\ d.do = c.do /\ d.seen = c.seen /\ d.at = "served" /\ d.reply = c.reply
    BY <1>0, ServedTyped DEF Moved
  <2>2. Order(match) <= Order(match')
    BY <1>0, <1>1, MatchMovesOn DEF Serve
  <2>3. Becomes(c, d) /\ UNCHANGED <<view, load, crossed>>
    BY <1>1, <2>1 DEF Serve
  <2>4. d.at = "answered" => Order(d.reply) = Order(match')
    BY <2>1
  <2>5. InOrder'
    BY <2>1, <2>2, <2>3, <2>4, InOrderBecomes
  <2> QED BY <1>0, <2>3, <2>5
<1>2. CASE Fail(c)
  <2>1. Order(match) <= Order(match')
    <3>1. CASE UNCHANGED match
      BY <1>0, <3>1
    <3>2. CASE TooLate(user, c.do)
      BY <1>0, <3>2, MatchMovesOn
    <3> QED BY <1>2, <3>1, <3>2 DEF Fail
  <2>2. calls' = calls \ {c} /\ UNCHANGED <<user, view, load, crossed>>
    BY <1>2 DEF Fail
  <2>3. Behind'
    BY <1>0, <2>1, <2>2 DEF InOrder, Behind
  <2>4. Waiting => Waiting'
    BY <1>0, <2>1, <2>2 DEF Waiting
  <2> QED BY <1>0, <2>2, <2>3, <2>4 DEF InOrder
<1>3. CASE Answer(c)
  <2>1. PICK d \in CallRecords :
          /\ d = [c EXCEPT !.at = "answered", !.reply = ToResponse(user)]
          /\ d.do = c.do /\ d.seen = c.seen /\ d.at = "answered" /\ d.reply = ToResponse(user)
    <3>1. ToResponse(user) \in Views
      BY <1>0, ViewTyped
    <3>2. \A v \in Views : \E d \in CallRecords :
            d = [c EXCEPT !.at = "answered", !.reply = v] /\ Moved(c, d, "answered", v)
      BY <1>0, AnsweredTyped
    <3> QED BY <3>1, <3>2 DEF Moved
  <2>2. Order(match) <= Order(match') /\ Order(match') = Order(match)
    BY <1>0, <1>3 DEF Answer
  <2>3. Becomes(c, d) /\ UNCHANGED <<view, load, crossed>>
    BY <1>3, <2>1 DEF Answer
  <2>4. Order(d.reply) = Order(match')
    BY <2>1, <2>2, Fresh
  <2>5. InOrder'
    BY <2>1, <2>2, <2>3, <2>4, InOrderBecomes
  <2> QED BY <1>0, <2>3, <2>5
<1>4. CASE Deliver(c)
  <2>1. /\ calls' = calls \ {c} /\ c.at = "answered" /\ UNCHANGED <<user, match, crossed>>
        /\ view' = (IF view = NoView \/ c.do[1] = "rate" THEN view ELSE c.reply)
        /\ IF c.do[1] = "rate" THEN load' = [at |-> "asked", reply |-> NoView] ELSE load' = load
    BY <1>4 DEF Deliver, Reloads, Asked
  <2>2. Order(c.reply) <= Order(match)
    BY <2>1 DEF InOrder, Behind
  <2>3. Behind'
    BY <2>1, <2>2 DEF InOrder, Behind
  <2>4. CASE c.do[1] = "rate"
    <3>1. ASSUME Waiting PROVE Waiting'
      BY <2>1, <2>4, <3>1 DEF Waiting
    <3> QED BY <1>0, <2>1, <2>3, <2>4, <3>1 DEF InOrder
  <2>5. CASE c.do[1] # "rate"
    <3>1. ASSUME Waiting PROVE Waiting' /\ Order(view) <= Order(view')
      <4>1. \A x \in calls : x # c => x.do[1] = "rate"
        BY <2>5, <3>1 DEF Waiting
      <4>2. view # NoView /\ view = c.seen /\ Order(view) <= Order(c.reply) /\ view' = c.reply
        BY <2>1, <2>5, <3>1 DEF Waiting
      <4>3. Order(view) # 3
        BY <1>0, <2>5, <4>2, Stages DEF Sound
      <4>4. load = NoLoad /\ load' = load /\ calls' = {}
        BY <2>1, <2>5, <3>1, <4>1, <4>2, <4>3 DEF Waiting
      <4> QED BY <4>2, <4>4 DEF Waiting
    <3> QED BY <1>0, <2>1, <2>3, <3>1 DEF InOrder
  <2> QED BY <2>4, <2>5
<1> QED BY <1>1, <1>2, <1>3, <1>4

\* The answers may arrive in any order: unless a save of the plan overlapped a
\* button or another save, a stage that was shown is not taken back.
THEOREM NeverTurnsBack == Spec => PageMovesOn
<1>1. Init => InOrder
  BY InOrderInit
<1>2. Sound /\ InOrder /\ [Next]_vars => InOrder'
  <2> SUFFICES ASSUME Sound, InOrder, [Next]_vars PROVE InOrder'
    OBVIOUS
  <2>1. CASE Elsewhere
    <3>1. Order(match) <= Order(match') /\ UNCHANGED <<user, view, load, calls, crossed>>
      BY <2>1, MatchMovesOn DEF Elsewhere, Sound
    <3> QED BY <3>1, BehindStep, WaitingStep DEF InOrder
  <2>2. CASE UNCHANGED vars
    BY <2>2 DEF vars, InOrder, Behind, Waiting
  <2> QED BY <2>1, <2>2, InOrderLoad, InOrderClick, InOrderCall DEF Next
<1>3. Sound /\ InOrder /\ [Next]_vars =>
        [(view # NoView /\ view' # NoView /\ Order(view') < Order(view)) => crossed]_vars
  <2> SUFFICES ASSUME Sound, InOrder, Next, view # NoView, view' # NoView,
                      Order(view') < Order(view)
               PROVE  crossed
    OBVIOUS
  <2>0. \A v : Order(v) \in 1..3
    BY Stages
  <2>1. CASE EndLoad
    <3>1. load # NoLoad /\ view' = load.reply
      BY <2>1 DEF EndLoad
    <3> QED BY <2>0, <3>1 DEF InOrder, Waiting
  <2>2. CASE Reopen \/ Retry \/ ServeLoad \/ Elsewhere 
                 \/ \E r \in Requests, do \in Dos : Click(r, do)
    <3>1. view' = NoView \/ view' = view
      BY <2>2 DEF Reopen, Retry, ServeLoad, Elsewhere, Click
    <3> QED BY <2>0, <3>1
  <2> QED BY <2>1, <2>2, InOrderCall DEF Next
<1> QED BY Soundness, <1>1, <1>2, <1>3, PTL DEF Spec, PageMovesOn
=============================================================================
