----------------------------- MODULE MatchPage -----------------------------
(***************************************************************************)
(* The page of one match as one of its users has it open: what it shows,   *)
(* what it offers, what the server makes of that, and the answers that are *)
(* swapped in.                                                             *)
(*                                                                         *)
(* The page does not follow the match by itself.  It shows what it loaded  *)
(* last or what its last action returned, while the match goes on          *)
(* elsewhere: by the other user, by the same user on another page, and     *)
(* through actions of a page that was left before they were served.  What  *)
(* else the actions do on the server is in Exchange; the chat of the page  *)
(* is in MatchThread.                                                      *)
(***************************************************************************)
EXTENDS Naturals, FiniteSets

CONSTANTS
  Sides,           \* the two users
  Plans, NoPlan,   \* method and details of an exchange
  NoView,          \* what a page shows that has not loaded, or could not
  Requests         \* names of its actions: as many can be under way at once

ASSUME PageAssumption ==
  IsFiniteSet(Sides) /\ Cardinality(Sides) = 2 /\ NoPlan \notin Plans

VARIABLES
  user,      \* whose page it is
  match,     \* the row on the server, and who has rated it
  view,      \* what the page shows
  load,      \* its request for the match: where it is, and the answer
  calls,     \* its actions under way: where each is, what was seen, and the answer
  crossed    \* history: the plan was being saved while another action, or
             \* another save, was under way

vars == <<user, match, view, load, calls, crossed>>

MatchStatus == {"pending", "accepted", "completed", "declined", "cancelled"}
Other(u) == CHOOSE v \in Sides : v # u

\* What a page can ask for: four buttons, the form for the plan, and the form
\* for the rating.
Buttons == {"accept", "decline", "cancel", "complete"}
Dos == {<<what, NoPlan>> : what \in Buttons \cup {"rate"}} \cup ({"save"} \X Plans)

NoLoad == [at |-> "none", reply |-> NoView]
-----------------------------------------------------------------------------
(* The server *)

\* toResponse: the match from the viewer's side.  Mutant: one pair of columns
\* is not swapped.
ToResponseMixedUp(u) ==
  [status |-> match.status, exchange |-> match.plan,
   youAccepted  |-> u \in match.accepted,  theyAccepted  |-> Other(u) \in match.accepted,
   youCompleted |-> Other(u) \in match.confirmed, theyCompleted |-> u \in match.confirmed,
   youRated |-> u \in match.rated]
ToResponse(u) ==
  [status |-> match.status, exchange |-> match.plan,
   youAccepted  |-> u \in match.accepted,  theyAccepted  |-> Other(u) \in match.accepted,
   youCompleted |-> u \in match.confirmed, theyCompleted |-> Other(u) \in match.confirmed,
   youRated |-> u \in match.rated]

\* The status an action needs.  Mutant: whatever is not over can be declined.
NeedsLess(what) ==
  CASE what = "accept"                         -> {"pending"}
    [] what = "decline"                        -> {"pending", "accepted"}
    [] what \in {"cancel", "save", "complete"} -> {"accepted"}
    [] what = "rate"                           -> {"completed"}
Needs(what) ==
  CASE what \in {"accept", "decline"}          -> {"pending"}
    [] what \in {"cancel", "save", "complete"} -> {"accepted"}
    [] what = "rate"                           -> {"completed"}

Allowed(u, do) ==
  /\ match.status \in Needs(do[1])
  /\ do[1] = "complete" => match.plan # NoPlan
  /\ do[1] = "rate" => u \notin match.rated

\* The new value of a column of two timestamps, and what follows when both are set.
Both(column, u, then) == IF column \cup {u} = Sides THEN then ELSE match.status

Perform(u, do) ==
  /\ Allowed(u, do)
  /\ match' =
       CASE do[1] = "accept"  -> [match EXCEPT !.accepted = @ \cup {u},
                                    !.status = Both(match.accepted, u, "accepted")]
         [] do[1] = "decline" -> [match EXCEPT !.status = "declined"]
         [] do[1] = "cancel"  -> [match EXCEPT !.status = "cancelled"]
         [] do[1] = "save"    -> [match EXCEPT !.plan = do[2],
                                    !.confirmed = IF match.plan = do[2] THEN @ ELSE {}]
         [] do[1] = "complete" -> [match EXCEPT !.confirmed = @ \cup {u},
                                    !.status = Both(match.confirmed, u, "completed")]
         [] do[1] = "rate"    -> [match EXCEPT !.rated = @ \cup {u}]

\* The acceptance that finds an item gone closes the match and fails.
TooLate(u, do) ==
  /\ do[1] = "accept" /\ Allowed(u, do)
  /\ match.accepted = {Other(u)}
  /\ match' = [match EXCEPT !.accepted = Sides, !.status = "cancelled"]

\* A rival match is accepted, an item withdrawn, a want cancelled or fulfilled.
CloseRival == match.status = "pending" /\ match' = [match EXCEPT !.status = "cancelled"]
-----------------------------------------------------------------------------
(* The page *)

\* The buttons and forms of a view.  Mutant: the hand-over can be confirmed
\* before there is a plan.
OffersEarly(v, what) ==
  CASE what = "accept"   -> v.status = "pending" /\ ~v.youAccepted
    [] what = "decline"  -> v.status = "pending"
    [] what \in {"save", "cancel"} -> v.status = "accepted"
    [] what = "complete" -> v.status = "accepted" /\ ~v.youCompleted
    [] what = "rate"     -> v.status = "completed" /\ ~v.youRated
Offers(v, what) ==
  CASE what = "accept"   -> v.status = "pending" /\ ~v.youAccepted
    [] what = "decline"  -> v.status = "pending"
    [] what \in {"save", "cancel"} -> v.status = "accepted"
    [] what = "complete" -> v.status = "accepted" /\ v.exchange # NoPlan /\ ~v.youCompleted
    [] what = "rate"     -> v.status = "completed" /\ ~v.youRated

\* matchHint: whether the user is told to do something or to wait.
Hint(v) ==
  CASE v.status = "pending"   -> IF v.youAccepted THEN "wait" ELSE "act"
    [] v.status = "accepted"  ->
         IF v.exchange # NoPlan /\ v.youCompleted THEN "wait" ELSE "act"
    [] v.status = "completed" -> IF v.youRated THEN "none" ELSE "act"
    [] OTHER                  -> "none"

UnderWay(W) == \E c \in calls : c.do[1] \in W

\* busy is set by the buttons and disables them until the answer is there.  The
\* two forms neither set nor heed it: they can be sent at any time, and again
\* before the first answer is there.  Mutant: a button heeds only itself.
NotBusySelf(what) == what \in Buttons => ~UnderWay({what})
NotBusy(what) == what \in Buttons => ~UnderWay(Buttons)

Asked == load' = [at |-> "asked", reply |-> NoView]

Init ==
  /\ user \in Sides
  /\ match = [status |-> "pending", accepted |-> {}, plan |-> NoPlan,
              confirmed |-> {}, rated |-> {}]
  /\ view = NoView /\ load = [at |-> "asked", reply |-> NoView]
  /\ calls = {} /\ crossed = FALSE

\* The page is left and opened again: answers to what it has sent come to nothing.
Reopen ==
  /\ Asked
  /\ view' = NoView /\ calls' = {} /\ crossed' = FALSE
  /\ UNCHANGED <<user, match>>

\* The button of the error that is shown instead of the match.
Retry ==
  /\ view = NoView /\ load = NoLoad
  /\ Asked
  /\ UNCHANGED <<user, match, view, calls, crossed>>

ServeLoad ==
  /\ load.at = "asked"
  /\ load' = [at |-> "answered", reply |-> ToResponse(user)]
  /\ UNCHANGED <<user, match, view, calls, crossed>>

\* The answer, or an error in place of whatever was shown.
EndLoad ==
  /\ load # NoLoad
  /\ load' = NoLoad
  /\ view' \in {NoView, load.reply}
  /\ UNCHANGED <<user, match, calls, crossed>>

\* A press, and the confirmation in a modal dialogue where there is one.
Click(r, do) ==
  /\ \A c \in calls : c.id # r
  /\ view # NoView /\ Offers(view, do[1]) /\ NotBusy(do[1])
  /\ calls' = calls \cup
       {[id |-> r, do |-> do, at |-> "sent", seen |-> view, reply |-> NoView]}
  /\ crossed' = (crossed \/
       UnderWay(IF do[1] = "save" THEN Buttons \cup {"save"} ELSE {"save"}))
  /\ UNCHANGED <<user, match, view, load>>

Becomes(c, d) == calls' = (calls \ {c}) \cup {d}

Serve(c) ==
  /\ c \in calls /\ c.at = "sent"
  /\ Perform(user, c.do)
  /\ Becomes(c, [c EXCEPT !.at = "served"])
  /\ UNCHANGED <<user, view, load, crossed>>

\* A request that is refused, or gets lost on its way there or back, shows an
\* error next to the buttons.
Fail(c) ==
  /\ c \in calls
  /\ calls' = calls \ {c}
  /\ (c.at = "sent" /\ TooLate(user, c.do)) \/ UNCHANGED match
  /\ UNCHANGED <<user, view, load, crossed>>

\* mutate ends with a Get of its own, which may see more than its transaction.
Answer(c) ==
  /\ c \in calls /\ c.at = "served"
  /\ Becomes(c, [c EXCEPT !.at = "answered", !.reply = ToResponse(user)])
  /\ UNCHANGED <<user, match, view, load, crossed>>

\* The answer to a rating is no match: the page is loaded again.  Mutant: so it
\* is after every button.
ReloadsAlways == Buttons \cup {"rate"}
Reloads == {"rate"}

\* setData with the answer, unless an error hides it.
Deliver(c) ==
  /\ c \in calls /\ c.at = "answered"
  /\ calls' = calls \ {c}
  /\ view' = (IF view = NoView \/ c.do[1] = "rate" THEN view ELSE c.reply)
  /\ IF c.do[1] \in Reloads THEN Asked ELSE UNCHANGED load
  /\ UNCHANGED <<user, match, crossed>>

\* What happens to the match without this page.
Elsewhere ==
  /\ \/ \E u \in Sides, do \in Dos : Perform(u, do) \/ TooLate(u, do)
     \/ CloseRival
  /\ UNCHANGED <<user, view, load, calls, crossed>>
-----------------------------------------------------------------------------
Next ==
  \/ Reopen \/ Retry \/ ServeLoad \/ EndLoad
  \/ \E r \in Requests, do \in Dos : Click(r, do)
  \/ \E c \in calls : Serve(c) \/ Fail(c) \/ Answer(c) \/ Deliver(c)
  \/ Elsewhere

Spec == Init /\ [][Next]_vars
-----------------------------------------------------------------------------
Views == {NoView} \cup
  [status : MatchStatus, exchange : Plans \cup {NoPlan},
   youAccepted : BOOLEAN, theyAccepted : BOOLEAN,
   youCompleted : BOOLEAN, theyCompleted : BOOLEAN, youRated : BOOLEAN]

TypeOK ==
  /\ user \in Sides /\ view \in Views /\ crossed \in BOOLEAN
  /\ match \in [status : MatchStatus, accepted : SUBSET Sides, plan : Plans \cup {NoPlan},
                confirmed : SUBSET Sides, rated : SUBSET Sides]
  /\ load \in [at : {"none", "asked", "answered"}, reply : Views]
  /\ \A c \in calls :
       c \in [id : Requests, do : Dos, at : {"sent", "served", "answered"},
             seen : Views, reply : Views]
  /\ \A c, d \in calls : c.id = d.id => c = d
  /\ \A c, d \in calls : {c.do[1], d.do[1]} \subseteq Buttons => c = d

\* The conditions of the page and those of the server agree: whatever the page
\* offers on a view that is up to date, the server does.
OffersWork ==
  view = ToResponse(user) =>
    \A do \in Dos : Offers(view, do[1]) => Allowed(user, do)

\* A hint to act comes with something to do that moves the match on, and one to
\* wait means that the other user is offered such a thing: nobody is left with
\* nothing but calling the swap off, and nobody is asked for what is done.
Forward(u) ==
  {what \in {"accept", "save", "complete", "rate"} :
    /\ Offers(ToResponse(u), what) /\ match.status \in Needs(what)
    /\ CASE what = "accept"   -> u \notin match.accepted
         [] what = "save"     -> match.plan = NoPlan
         [] what = "complete" -> match.plan # NoPlan /\ u \notin match.confirmed
         [] what = "rate"     -> u \notin match.rated}

HintsAreTrue ==
  \A u \in Sides :
    CASE Hint(ToResponse(u)) = "act"  -> Forward(u) # {}
      [] Hint(ToResponse(u)) = "wait" -> Forward(Other(u)) # {}
      [] OTHER -> TRUE

\* A button pressed on an old view does nothing unless the match is still at
\* the stage that was shown: a swap that has been agreed meanwhile is not
\* declined, and one that has been carried out is not called off.
StaleIsRefused ==
  [][\A c \in calls : Serve(c) => match.status = c.seen.status]_vars

\* The page does not go back to an earlier stage of the match, whatever order
\* the answers arrive in, unless a save of the plan overlapped a button or
\* another save: buttons wait for each other, and ratings come when it is over.
Order(v) == CASE v.status = "pending" -> 1 [] v.status = "accepted" -> 2 [] OTHER -> 3

PageMovesOn ==
  [][(view # NoView /\ view' # NoView /\ Order(view') < Order(view)) => crossed]_vars
=============================================================================
