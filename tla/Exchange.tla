------------------------------ MODULE Exchange ------------------------------
(***************************************************************************)
(* The marketplace's data: listings, wants, matches and notifications, one *)
(* variable per column that the rules read.  Every write of the services   *)
(* is one transaction and one action here; the operations that carry what  *)
(* they read across a gap are split there:                                 *)
(*   - the matching statement reads a snapshot (BeginPass) and inserts     *)
(*     from it later (EndPass);                                            *)
(*   - items.Service.Update checks the status with one statement           *)
(*     (CheckEdit) and writes with another (WriteEdit);                    *)
(*   - a withdrawal, the cancellation of a want and a completion find the  *)
(*     pending matches to cancel with their last statement (Leave...) and  *)
(*     commit later; a pass may commit more of them in between, for the    *)
(*     row locks of a plain UPDATE do not keep out an insert that refers   *)
(*     to the row.  Whoever needs the rows they have locked has to wait.   *)
(* That the other transactions may be taken as atomic, although each is    *)
(* several statements under READ COMMITTED, is the subject of ExchangeTx.  *)
(*                                                                         *)
(* Left out: scores, timestamps and who proposed the plan, which no rule   *)
(* reads; how many copies of a notification there are; repeated accepts    *)
(* and confirmations, which write what is already there.  A transaction    *)
(* that fails or whose server dies rolls back: it is no step.              *)
(***************************************************************************)
EXTENDS Naturals, FiniteSets

CONSTANTS
  Users, NoUser,
  Items, Owner,       \* item ids are numbers: a match orders its two items
  Wants, Wanter,
  Listings,           \* what an item can say about itself
  Criteria,           \* what a want can ask for
  Satisfies,          \* the pairs <<criteria, listing>> that fit
  Plans, NoPlan,      \* method and details of an exchange
  StoredItems, StoredWants,  \* rows that are there from the start
  MaxEdits,           \* bound: item updates under way at the same time
  MaxLeaving,         \* bound: transactions between their sweep and their commit
  Watched             \* bound: the notification types that are recorded

NotificationTypes ==
  {"match_found", "match_accepted", "match_confirmed", "match_declined",
   "match_cancelled", "exchange_updated", "match_completed"}

ASSUME UsersAssumption ==
  /\ NoUser \notin Users
  /\ Owner \in [Items -> Users]
  /\ Wanter \in [Wants -> Users]

ASSUME ItemsAssumption ==
  /\ Items \subseteq Nat
  /\ StoredItems \subseteq Items
  /\ StoredWants \subseteq Wants
  /\ MaxEdits \in Nat /\ MaxLeaving \in Nat
  /\ Watched \subseteq NotificationTypes

ASSUME PlansAssumption == NoPlan \notin Plans

VARIABLES
  item,       \* [Items -> ItemStatus]
  listing,    \* [Items -> Listings]
  edits,      \* updates that have passed the check and not written yet
  want,       \* [Wants -> WantStatus]
  criteria,   \* [Wants -> Criteria]
  status,     \* [Pairs -> MatchStatus]; at most one match per pair of items
  accepted,   \* [Pairs -> SUBSET Users]: a_accepted_at, b_accepted_at
  relies,     \* [Pairs -> SUBSET Wants]: want_a_id, want_b_id
  plan,       \* [Pairs -> Plans \cup {NoPlan}]
  confirmed,  \* [Pairs -> SUBSET Users]: a_completed_at, b_completed_at
  closedBy,   \* [Pairs -> Users \cup {NoUser}]
  inbox,      \* the notifications sent: <<user, type, pair>>
  passing,    \* the matching statement is running
  found,      \* what its snapshot holds: <<pair, want_a, want_b>>
  leaving,    \* the rows whose withdrawal, cancellation or completion has made
              \* its sweep and not committed
  late        \* <<row, pair>>: matches a pass has committed since that sweep

itemVars  == <<item, listing, edits>>
wantVars  == <<want, criteria>>
dealVars  == <<accepted, plan, confirmed, closedBy>>
matchVars == <<status, relies, dealVars>>
passVars  == <<passing, found>>
leaveVars == <<leaving, late>>
vars == <<itemVars, wantVars, matchVars, inbox, passVars, leaveVars>>

ItemStatus  == {"absent", "available", "reserved", "exchanged", "withdrawn"}
WantStatus  == {"absent", "active", "fulfilled", "cancelled"}
MatchStatus == {"none", "pending", "accepted", "completed", "declined", "cancelled"}

\* item_a_id < item_b_id, and the two items belong to different users.
Pairs == {p \in Items \X Items : p[1] < p[2] /\ Owner[p[1]] # Owner[p[2]]}

ItemsOf(p) == {p[1], p[2]}
UsersOf(p) == {Owner[p[1]], Owner[p[2]]}
Pending    == {p \in Pairs : status[p] = "pending"}
Offers(i)  == {p \in Pending : i \in ItemsOf(p)}
Serving(w) == {p \in Pending : w \in relies[p]}
\* Mutant: the match's second item is forgotten.
RivalsForFirst(p) == {q \in Pending \ {p} : p[1] \in ItemsOf(q)}
Rivals(p)  == {q \in Pending \ {p} : ItemsOf(q) \cap ItemsOf(p) # {}}
Leaning(p) == {q \in Pending \ {p} : relies[q] \cap relies[p] # {}}

\* An available item of somebody else satisfies the active want w.
Fits(w, i) ==
  /\ want[w] = "active" /\ item[i] = "available"
  /\ Wanter[w] # Owner[i]
  /\ <<criteria[w], listing[i]>> \in Satisfies

\* What findMatchesSQL selects: a swap <<p, want_a, want_b>>, where item b
\* satisfies a want of the owner of item a, and the other way round.
IsSwap(p, wa, wb) ==
  /\ Wanter[wa] = Owner[p[1]] /\ Fits(wa, p[2])
  /\ Wanter[wb] = Owner[p[2]] /\ Fits(wb, p[1])

Swaps == {s \in Pairs \X Wants \X Wants : IsSwap(s[1], s[2], s[3])}

\* The match row p becomes s, and the pending matches of W are cancelled.
Settle(p, s, W) ==
  [q \in Pairs |-> IF q = p THEN s ELSE IF q \in W THEN "cancelled" ELSE status[q]]
CancelPending(W) ==
  [q \in Pairs |-> IF q \in W THEN "cancelled" ELSE status[q]]

\* Rows that are leaving.  A completion has its items and wants locked as well.
ItemRow(i) == <<"item", i>>
WantRow(w) == <<"want", w>>
MatchRow(p) == <<"match", p>>
Leavers == {ItemRow(i) : i \in Items} \cup {WantRow(w) : w \in Wants} \cup {MatchRow(p) : p \in Pairs}

ItemLocked(i) == ItemRow(i) \in leaving \/ \E p \in Pairs : MatchRow(p) \in leaving /\ i \in ItemsOf(p)
WantLocked(w) == WantRow(w) \in leaving \/ \E p \in Pairs : MatchRow(p) \in leaving /\ w \in relies[p]

\* The matches of S that the sweep for row r cancels: its snapshot did not hold
\* what a pass has committed since.
Seen(r, S) == {p \in S : <<r, p>> \notin late}

Leave(r) ==
  /\ r \notin leaving /\ Cardinality(leaving) < MaxLeaving
  /\ leaving' = leaving \cup {r}
  /\ UNCHANGED <<itemVars, wantVars, matchVars, inbox, passVars, late>>

\* The transaction for row r ends.
Left(r) ==
  /\ r \in leaving
  /\ leaving' = leaving \ {r}
  /\ late' = {x \in late : x[1] # r}

\* It fails, and leaves nothing behind.
Stay(r) == Left(r) /\ UNCHANGED <<itemVars, wantVars, matchVars, inbox, passVars>>

\* Notifications: one to the other participant, or one to each user of each
\* match cancelled with CancelPendingMatches.
ToOther(u, type, p) == (UsersOf(p) \ {u}) \X ({type} \cap Watched) \X {p}
\* Mutant: the second SELECT of the UNION ALL is missing.
ToFirst(type, W) == {m \in Users \X ({type} \cap Watched) \X W : m[1] = Owner[m[3][1]]}
ToBoth(type, W) == {m \in Users \X ({type} \cap Watched) \X W : m[1] \in UsersOf(m[3])}
-----------------------------------------------------------------------------
Init ==
  /\ item = [i \in Items |-> IF i \in StoredItems THEN "available" ELSE "absent"]
  /\ listing \in [Items -> Listings]
  /\ edits = {}
  /\ want = [w \in Wants |-> IF w \in StoredWants THEN "active" ELSE "absent"]
  /\ criteria \in [Wants -> Criteria]
  /\ status = [p \in Pairs |-> "none"]
  /\ accepted = [p \in Pairs |-> {}]
  /\ relies = [p \in Pairs |-> {}]
  /\ plan = [p \in Pairs |-> NoPlan]
  /\ confirmed = [p \in Pairs |-> {}]
  /\ closedBy = [p \in Pairs |-> NoUser]
  /\ inbox = {}
  /\ passing = FALSE
  /\ found = {}
  /\ leaving = {}
  /\ late = {}
-----------------------------------------------------------------------------
(* Listings *)

CreateItem(i, l) ==
  /\ item[i] = "absent"
  /\ item' = [item EXCEPT ![i] = "available"]
  /\ listing' = [listing EXCEPT ![i] = l]
  /\ UNCHANGED <<edits, wantVars, matchVars, inbox, passVars, leaveVars>>

\* Update, first statement: checkEditable sees an available item.
CheckEdit(i, l) ==
  /\ item[i] = "available"
  /\ Cardinality(edits) < MaxEdits
  /\ edits' = edits \cup {<<i, l>>}
  /\ UNCHANGED <<item, listing, wantVars, matchVars, inbox, passVars, leaveVars>>

\* Update, second statement: it does not look at the status again.
WriteEdit(i, l) ==
  /\ <<i, l>> \in edits /\ ~ItemLocked(i)
  /\ edits' = edits \ {<<i, l>>}
  /\ listing' = [listing EXCEPT ![i] = l]
  /\ UNCHANGED <<item, wantVars, matchVars, inbox, passVars, leaveVars>>

\* The request ends between the two: invalid input, a lost connection.
DropEdit(i, l) ==
  /\ <<i, l>> \in edits
  /\ edits' = edits \ {<<i, l>>}
  /\ UNCHANGED <<item, listing, wantVars, matchVars, inbox, passVars, leaveVars>>

\* The UPDATE repeats the check of checkEditable, so nothing hangs on it.
LeaveItem(i) == item[i] = "available" /\ ~ItemLocked(i) /\ Leave(ItemRow(i))

Withdraw(i) ==
  /\ Left(ItemRow(i))
  /\ item' = [item EXCEPT ![i] = "withdrawn"]
  /\ status' = CancelPending(Seen(ItemRow(i), Offers(i)))
  /\ inbox' = inbox \cup ToBoth("match_cancelled", Seen(ItemRow(i), Offers(i)))
  /\ UNCHANGED <<listing, edits, wantVars, relies, dealVars, passVars>>
-----------------------------------------------------------------------------
(* Wants *)

CreateWant(w, c) ==
  /\ want[w] = "absent"
  /\ want' = [want EXCEPT ![w] = "active"]
  /\ criteria' = [criteria EXCEPT ![w] = c]
  /\ UNCHANGED <<itemVars, matchVars, inbox, passVars, leaveVars>>

\* Unlike the update of an item, this one is guarded by the status.
UpdateWant(w, c) ==
  /\ want[w] = "active" /\ ~WantLocked(w)
  /\ criteria' = [criteria EXCEPT ![w] = c]
  /\ UNCHANGED <<itemVars, want, matchVars, inbox, passVars, leaveVars>>

LeaveWant(w) == want[w] = "active" /\ ~WantLocked(w) /\ Leave(WantRow(w))

CancelWant(w) ==
  /\ Left(WantRow(w))
  /\ want' = [want EXCEPT ![w] = "cancelled"]
  /\ status' = CancelPending(Seen(WantRow(w), Serving(w)))
  /\ inbox' = inbox \cup ToBoth("match_cancelled", Seen(WantRow(w), Serving(w)))
  /\ UNCHANGED <<itemVars, criteria, relies, dealVars, passVars>>
-----------------------------------------------------------------------------
(* The matching pass *)

\* A match is never deleted, so a pair that has one is skipped whenever the rows
\* are inserted: of the snapshot, only the others are kept.
BeginPass ==
  /\ ~passing
  /\ passing' = TRUE
  /\ found' = {s \in Swaps : status[s[1]] = "none"}
  /\ UNCHANGED <<itemVars, wantVars, matchVars, inbox, leaveVars>>

\* Pairs that have a match by now are skipped; of the wants that produce the same
\* pair, one choice is stored.
EndPass ==
  /\ passing
  /\ LET fresh == {p \in Pairs : status[p] = "none" /\ \E f \in found : f[1] = p}
     IN  \E pick \in [fresh -> found] :
           /\ \A p \in fresh : pick[p][1] = p
           /\ status' = [p \in Pairs |-> IF p \in fresh THEN "pending" ELSE status[p]]
           /\ relies' = [p \in Pairs |->
                           IF p \in fresh THEN {pick[p][2], pick[p][3]} ELSE relies[p]]
           /\ inbox' = inbox \cup ToBoth("match_found", fresh)
           /\ late' = late \cup (leaving \X fresh)
  /\ passing' = FALSE
  /\ found' = {}
  /\ UNCHANGED <<itemVars, wantVars, dealVars, leaving>>

\* A pass that errs or runs into its time limit leaves nothing behind.
FailPass ==
  /\ passing
  /\ passing' = FALSE
  /\ found' = {}
  /\ UNCHANGED <<itemVars, wantVars, matchVars, inbox, leaveVars>>
-----------------------------------------------------------------------------
(* Matches: u is one of the two participants of p.  Every operation locks   *)
(* the match first.                                                        *)

Unlocked(p) == MatchRow(p) \notin leaving
BothUnlocked(p) == \A i \in ItemsOf(p) : ~ItemLocked(i)

\* Mutant: the check forgets an item.
FirstAvailable(p) == item[p[1]] = "available"
BothAvailable(p) == \A i \in ItemsOf(p) : item[i] = "available"

\* Mutants: items are never released; the status of a want is given to an item.
MoveItemsForward(p, from, to) ==
  [i \in Items |-> IF i \in ItemsOf(p) /\ item[i] = from /\ to # "available" THEN to ELSE item[i]]
MoveItemsMixedUp(p, from, to) ==
  [i \in Items |->
     IF i \in ItemsOf(p) /\ item[i] = from THEN IF to = "available" THEN "active" ELSE to
     ELSE item[i]]
MoveItems(p, from, to) ==
  [i \in Items |-> IF i \in ItemsOf(p) /\ item[i] = from THEN to ELSE item[i]]

AcceptFirst(p, u) ==
  /\ status[p] = "pending" /\ accepted[p] = {}
  /\ accepted' = [accepted EXCEPT ![p] = {u}]
  /\ inbox' = inbox \cup ToOther(u, "match_accepted", p)
  /\ UNCHANGED <<itemVars, wantVars, status, relies, plan, confirmed, closedBy, passVars, leaveVars>>

\* The second acceptance, with both items still there.
AcceptBoth(p, u) ==
  /\ status[p] = "pending" /\ accepted[p] = UsersOf(p) \ {u}
  /\ BothUnlocked(p) /\ BothAvailable(p)
  /\ status' = Settle(p, "accepted", Rivals(p))
  /\ inbox' = inbox \cup ToBoth("match_cancelled", Rivals(p))
                    \cup ToOther(u, "match_confirmed", p)
  /\ accepted' = [accepted EXCEPT ![p] = UsersOf(p)]
  /\ item' = MoveItems(p, "available", "reserved")
  /\ UNCHANGED <<listing, edits, wantVars, relies, plan, confirmed, closedBy, passVars, leaveVars>>

\* The second acceptance, too late: the match is closed by nobody in
\* particular, the other user is told and the caller gets a 409.
AcceptUnavailable(p, u) ==
  /\ status[p] = "pending" /\ accepted[p] = UsersOf(p) \ {u}
  /\ BothUnlocked(p) /\ ~BothAvailable(p)
  /\ status' = Settle(p, "cancelled", {})
  /\ accepted' = [accepted EXCEPT ![p] = UsersOf(p)]
  /\ inbox' = inbox \cup ToOther(u, "match_cancelled", p)
  /\ UNCHANGED <<itemVars, wantVars, relies, plan, confirmed, closedBy, passVars, leaveVars>>

Decline(p, u) ==
  /\ status[p] = "pending"
  /\ status' = Settle(p, "declined", {})
  /\ closedBy' = [closedBy EXCEPT ![p] = u]
  /\ inbox' = inbox \cup ToOther(u, "match_declined", p)
  /\ UNCHANGED <<itemVars, wantVars, relies, accepted, plan, confirmed, passVars, leaveVars>>

Cancel(p, u) ==
  /\ status[p] = "accepted" /\ Unlocked(p)
  /\ status' = Settle(p, "cancelled", {})
  /\ item' = MoveItems(p, "reserved", "available")
  /\ closedBy' = [closedBy EXCEPT ![p] = u]
  /\ inbox' = inbox \cup ToOther(u, "match_cancelled", p)
  /\ UNCHANGED <<listing, edits, wantVars, relies, accepted, plan, confirmed, passVars, leaveVars>>

\* Mutant: the confirmations survive a new plan.
SetExchangeKeeping(p, u, x) ==
  /\ status[p] = "accepted" /\ Unlocked(p)
  /\ plan' = [plan EXCEPT ![p] = x]
  /\ inbox' = inbox \cup ToOther(u, "exchange_updated", p)
  /\ UNCHANGED <<itemVars, wantVars, status, relies, accepted, confirmed, closedBy, passVars, leaveVars>>

SetExchange(p, u, x) ==
  /\ status[p] = "accepted" /\ Unlocked(p)
  /\ plan' = [plan EXCEPT ![p] = x]
  /\ confirmed' = [confirmed EXCEPT ![p] = IF plan[p] = x THEN @ ELSE {}]
  /\ inbox' = inbox \cup ToOther(u, "exchange_updated", p)
  /\ UNCHANGED <<itemVars, wantVars, status, relies, accepted, closedBy, passVars, leaveVars>>

\* Mutant: a hand-over can be confirmed before there is a plan.
CompleteFirstUnplanned(p, u) ==
  /\ status[p] = "accepted" /\ Unlocked(p)
  /\ confirmed[p] = {}
  /\ confirmed' = [confirmed EXCEPT ![p] = {u}]
  /\ UNCHANGED <<itemVars, wantVars, status, relies, accepted, plan, closedBy, inbox, passVars, leaveVars>>

CompleteFirst(p, u) ==
  /\ status[p] = "accepted" /\ Unlocked(p) /\ plan[p] # NoPlan
  /\ confirmed[p] = {}
  /\ confirmed' = [confirmed EXCEPT ![p] = {u}]
  /\ UNCHANGED <<itemVars, wantVars, status, relies, accepted, plan, closedBy, inbox, passVars, leaveVars>>

LeaveMatch(p, u) ==
  /\ status[p] = "accepted" /\ plan[p] # NoPlan
  /\ confirmed[p] = UsersOf(p) \ {u}
  /\ BothUnlocked(p) /\ \A w \in relies[p] : ~WantLocked(w)
  /\ Leave(MatchRow(p))

CompleteBoth(p, u) ==
  /\ Left(MatchRow(p))
  /\ confirmed[p] = UsersOf(p) \ {u}
  /\ confirmed' = [confirmed EXCEPT ![p] = UsersOf(p)]
  /\ item' = MoveItems(p, "reserved", "exchanged")
  /\ want' = [w \in Wants |->
                IF w \in relies[p] /\ want[w] = "active" THEN "fulfilled" ELSE want[w]]
  /\ status' = Settle(p, "completed", Seen(MatchRow(p), Leaning(p)))
  /\ inbox' = inbox \cup ToBoth("match_cancelled", Seen(MatchRow(p), Leaning(p)))
                    \cup ToOther(u, "match_completed", p)
  /\ UNCHANGED <<listing, edits, criteria, relies, accepted, plan, closedBy, passVars>>
-----------------------------------------------------------------------------
ItemStep ==
  \E i \in Items :
    \/ LeaveItem(i) \/ Withdraw(i)
    \/ \E l \in Listings :
         CreateItem(i, l) \/ CheckEdit(i, l) \/ WriteEdit(i, l) \/ DropEdit(i, l)

WantStep ==
  \E w \in Wants :
    \/ LeaveWant(w) \/ CancelWant(w)
    \/ \E c \in Criteria : CreateWant(w, c) \/ UpdateWant(w, c)

PassStep == BeginPass \/ EndPass \/ FailPass

MatchStep ==
  \E p \in Pairs : \E u \in UsersOf(p) :
    \/ AcceptFirst(p, u) \/ AcceptBoth(p, u) \/ AcceptUnavailable(p, u)
    \/ Decline(p, u) \/ Cancel(p, u)
    \/ \E x \in Plans : SetExchange(p, u, x)
    \/ CompleteFirst(p, u) \/ LeaveMatch(p, u) \/ CompleteBoth(p, u)

Next == ItemStep \/ WantStep \/ PassStep \/ MatchStep \/ \E r \in leaving : Stay(r)

Spec == Init /\ [][Next]_vars
-----------------------------------------------------------------------------
TypeOK ==
  /\ item \in [Items -> ItemStatus]
  /\ listing \in [Items -> Listings]
  /\ edits \subseteq Items \X Listings
  /\ want \in [Wants -> WantStatus]
  /\ criteria \in [Wants -> Criteria]
  /\ status \in [Pairs -> MatchStatus]
  /\ accepted \in [Pairs -> SUBSET Users]
  /\ relies \in [Pairs -> SUBSET Wants]
  /\ plan \in [Pairs -> Plans \cup {NoPlan}]
  /\ confirmed \in [Pairs -> SUBSET Users]
  /\ closedBy \in [Pairs -> Users \cup {NoUser}]
  /\ inbox \subseteq Users \X NotificationTypes \X Pairs
  /\ passing \in BOOLEAN
  /\ found \subseteq Pairs \X Wants \X Wants
  /\ leaving \subseteq Leavers /\ late \subseteq leaving \X Pairs

\* The items' status column and the matches' status column, written by
\* different statements, agree: an accepted match holds both of its items
\* reserved and a completed one both exchanged, no two such matches share an
\* item, and no item is left reserved or exchanged without such a match.
HeldFor(i, s) == {p \in Pairs : status[p] = s /\ i \in ItemsOf(p)}
Disjoint(p, q) == ItemsOf(p) \cap ItemsOf(q) = {}

ItemsHeld ==
  /\ \A p \in Pairs : \A i \in ItemsOf(p) :
       /\ status[p] = "accepted" => item[i] = "reserved"
       /\ status[p] = "completed" => item[i] = "exchanged"
  /\ \A p, q \in Pairs :
       p # q /\ {status[p], status[q]} \subseteq {"accepted", "completed"} => Disjoint(p, q)

NoOrphans ==
  \A i \in Items :
    /\ item[i] = "reserved"  => HeldFor(i, "accepted") # {}
    /\ item[i] = "exchanged" => HeldFor(i, "completed") # {}

\* A swap binds only whom it should: agreed by both users, carried out under a
\* plan both confirmed, and a want is fulfilled only by a carried-out swap.
ConsentComplete ==
  /\ \A p \in Pairs :
       /\ status[p] \in {"accepted", "completed"} => accepted[p] = UsersOf(p)
       /\ confirmed[p] # {} => plan[p] # NoPlan
       /\ (confirmed[p] = UsersOf(p)) <=> (status[p] = "completed")
       /\ status[p] = "completed" => \A w \in relies[p] : want[w] # "active"
  /\ \A w \in Wants : want[w] = "fulfilled" =>
       \E p \in Pairs : status[p] = "completed" /\ w \in relies[p]

\* Whoever did not close a match hears that it is closed.  The exception is the
\* user whose late acceptance closed it: the response says so, and only the
\* other one is notified.
ToldClosed(u, p) == {<<u, "match_declined", p>>, <<u, "match_cancelled", p>>} \cap inbox # {}

ClosureIsAnnounced ==
  \A p \in Pairs : status[p] \in {"declined", "cancelled"} =>
    /\ \E u \in UsersOf(p) : ToldClosed(u, p)
    /\ \A u \in UsersOf(p) :
         \/ ToldClosed(u, p)
         \/ closedBy[p] = u
         \/ closedBy[p] = NoUser /\ accepted[p] = UsersOf(p)

\* A pending match whose items are all on offer and whose wants all stand.
Open(p) ==
  /\ BothAvailable(p)
  /\ \A w \in relies[p] : want[w] = "active"

\* Every operation that takes an item or a want off the market cleans up the
\* pending matches it invalidates: a match that is open stays open or is settled
\* in that same step, unless a pass committed it while the operation was on its
\* way from its sweep to its commit.  An acceptance, which takes two items, has
\* no such exception: it holds them FOR UPDATE.
CleanUp ==
  [][\A p \in Pairs :
       status[p] = "pending" /\ Open(p) /\ status'[p] = "pending" =>
         Open(p)' \/ \E r \in leaving \ leaving' : <<r, p>> \in late]_vars

\* A hand-over is confirmed for one plan: no confirmation outlives a change of
\* the plan it was given for.
ConfirmationsBindPlan ==
  [][\A p \in Pairs : confirmed[p] \cap confirmed'[p] # {} => plan'[p] = plan[p]]_vars

\* items.Service.Update: "only while available", so what is promised in a swap,
\* its item reserved by the second acceptance, should stand as it was agreed to.
ListingFrozen == [][\A i \in Items : item[i] = "reserved" => listing'[i] = listing[i]]_vars
-----------------------------------------------------------------------------
Stage(s) ==
  CASE s = "none"      -> "none"
    [] s = "pending"   -> "proposed"
    [] s = "accepted"  -> "agreed"
    [] s = "completed" -> "done"
    [] s \in {"declined", "cancelled"} -> "off"

\* The marketplace keeps the promises of Barter.
Promise == INSTANCE Barter WITH
  stage   <- [p \in Pairs |-> Stage(status[p])],
  listed  <- {i \in Items : item[i] # "absent"},
  retired <- {i \in Items : item[i] = "withdrawn"}

KeepsPromises == Promise!Spec
=============================================================================
