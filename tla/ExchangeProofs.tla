--------------------------- MODULE ExchangeProofs ---------------------------
(***************************************************************************)
(* What holds of Exchange for every market: any users, items, wants, plans *)
(* and any rule of what satisfies what.                                    *)
(***************************************************************************)
EXTENDS Exchange, TLAPS

\* Both ways of writing the status column keep it a status column.
LEMMA StatusTyped ==
  ASSUME TypeOK, NEW W
  PROVE  /\ CancelPending(W) \in [Pairs -> MatchStatus]
         /\ \A p \in Pairs, s \in MatchStatus : Settle(p, s, W) \in [Pairs -> MatchStatus]
BY DEF TypeOK, CancelPending, Settle, MatchStatus

\* The users of a match, and the items of a match.
LEMMA PairTyped ==
  ASSUME NEW p \in Pairs
  PROVE  /\ UsersOf(p) \subseteq Users /\ ItemsOf(p) \subseteq Items
         /\ p[1] \in Items /\ p[2] \in Items
         /\ Owner[p[1]] # Owner[p[2]] /\ p[1] # p[2]
BY UsersAssumption, ItemsAssumption DEF Pairs, UsersOf, ItemsOf

\* Whatever is sent is a notification.
LEMMA NotesTyped ==
  ASSUME NEW t \in NotificationTypes
  PROVE  /\ \A W \in SUBSET Pairs :
              ToBoth(t, W) \subseteq Users \X NotificationTypes \X Pairs
         /\ \A p \in Pairs, u \in Users :
              ToOther(u, t, p) \subseteq Users \X NotificationTypes \X Pairs
BY PairTyped DEF ToBoth, ToOther

\* The sets of matches that get cancelled are sets of pending matches.
LEMMA OffersTyped ==
  /\ \A i : Offers(i) \subseteq Pairs /\ Offers(i) \subseteq Pending
  /\ \A w : Serving(w) \subseteq Pairs /\ Serving(w) \subseteq Pending
  /\ \A p : Rivals(p) \subseteq Pairs /\ Rivals(p) \subseteq Pending \ {p}
  /\ \A p : Leaning(p) \subseteq Pairs /\ Leaning(p) \subseteq Pending \ {p}
BY DEF Offers, Serving, Rivals, Leaning, Pending

\* A sweep cancels some of the matches it looks for.
LEMMA SeenTyped == \A r, S : Seen(r, S) \subseteq S
BY DEF Seen
-----------------------------------------------------------------------------
(* Most of what follows is about the data, and waiting does not touch them. *)

Idle == UNCHANGED <<itemVars, wantVars, matchVars, inbox, passVars>>

ItemMove ==
  \E i \in Items :
    \/ Withdraw(i)
    \/ \E l \in Listings :
         CreateItem(i, l) \/ CheckEdit(i, l) \/ WriteEdit(i, l) \/ DropEdit(i, l)

WantMove ==
  \E w \in Wants :
    CancelWant(w) \/ \E c \in Criteria : CreateWant(w, c) \/ UpdateWant(w, c)

MatchMove ==
  \E p \in Pairs : \E u \in UsersOf(p) :
    \/ AcceptFirst(p, u) \/ AcceptBoth(p, u) \/ AcceptUnavailable(p, u)
    \/ Decline(p, u) \/ Cancel(p, u)
    \/ \E x \in Plans : SetExchange(p, u, x)
    \/ CompleteFirst(p, u) \/ CompleteBoth(p, u)

LEMMA StepIs ==
  ASSUME [Next]_vars PROVE Idle \/ ItemMove \/ WantMove \/ PassStep \/ MatchMove
<1>1. CASE UNCHANGED vars
  BY <1>1 DEF vars, Idle
<1>2. CASE \E r \in leaving : Stay(r)
  BY <1>2 DEF Stay, Idle
<1>3. CASE ItemStep
  BY <1>3 DEF ItemStep, LeaveItem, Leave, Idle, ItemMove
<1>4. CASE WantStep
  BY <1>4 DEF WantStep, LeaveWant, Leave, Idle, WantMove
<1>5. CASE MatchStep
  BY <1>5 DEF MatchStep, LeaveMatch, Leave, Idle, MatchMove
<1> QED BY <1>1, <1>2, <1>3, <1>4, <1>5 DEF Next

\* What is late is so for a transaction on its way.
LeavingOK == leaving \subseteq Leavers /\ late \subseteq leaving \X Pairs

\* A transaction gets on its way, ends, or sees a pass commit.
LEMMA LeavingTyped == ASSUME LeavingOK, [Next]_vars PROVE LeavingOK'
<1>1. ASSUME NEW r \in Leavers, Leave(r) PROVE LeavingOK'
  BY <1>1 DEF Leave, LeavingOK
<1>2. ASSUME NEW r, Left(r) PROVE LeavingOK'
  BY <1>2 DEF Left, LeavingOK
<1>3. CASE UNCHANGED leaveVars
  BY <1>3 DEF LeavingOK, leaveVars
<1>4. CASE EndPass
  <2>1. PICK fresh \in SUBSET Pairs : leaving' = leaving /\ late' = late \cup (leaving \X fresh)
    BY <1>4 DEF EndPass
  <2> QED BY <2>1 DEF LeavingOK
<1>5. CASE ItemStep
  <2>1. ASSUME NEW i \in Items, LeaveItem(i) \/ Withdraw(i) PROVE LeavingOK'
    BY <1>1, <1>2, <2>1 DEF LeaveItem, Withdraw, Leavers
  <2> QED BY <1>3, <1>5, <2>1 DEF ItemStep, CreateItem, CheckEdit, WriteEdit, DropEdit
<1>6. CASE WantStep
  <2>1. ASSUME NEW w \in Wants, LeaveWant(w) \/ CancelWant(w) PROVE LeavingOK'
    BY <1>1, <1>2, <2>1 DEF LeaveWant, CancelWant, Leavers
  <2> QED BY <1>3, <1>6, <2>1 DEF WantStep, CreateWant, UpdateWant
<1>7. CASE MatchStep
  <2>1. ASSUME NEW p \in Pairs, NEW u, LeaveMatch(p, u) \/ CompleteBoth(p, u) PROVE LeavingOK'
    BY <1>1, <1>2, <2>1 DEF LeaveMatch, CompleteBoth, Leavers
  <2> QED BY <1>3, <1>7, <2>1 DEF MatchStep, AcceptFirst, AcceptBoth, AcceptUnavailable, Decline,
             Cancel, SetExchange, CompleteFirst
<1>8. CASE PassStep
  BY <1>3, <1>4, <1>8 DEF PassStep, BeginPass, FailPass
<1>9. CASE (\E r \in leaving : Stay(r)) \/ UNCHANGED vars
  BY <1>2, <1>3, <1>9 DEF Stay, vars
<1> QED BY <1>5, <1>6, <1>7, <1>8, <1>9 DEF Next
-----------------------------------------------------------------------------
\* An empty market is well typed.
LEMMA InitTyped == Init => TypeOK
<1> SUFFICES ASSUME Init PROVE TypeOK
  OBVIOUS
<1> USE DEF Init
<1>1. item \in [Items -> ItemStatus] /\ want \in [Wants -> WantStatus]
  BY DEF ItemStatus, WantStatus
<1>2. status \in [Pairs -> MatchStatus]
  BY DEF MatchStatus
<1>3. /\ accepted \in [Pairs -> SUBSET Users] /\ confirmed \in [Pairs -> SUBSET Users]
      /\ relies \in [Pairs -> SUBSET Wants]
  OBVIOUS
<1>4. plan \in [Pairs -> Plans \cup {NoPlan}] /\ closedBy \in [Pairs -> Users \cup {NoUser}]
  OBVIOUS
<1> QED BY <1>1, <1>2, <1>3, <1>4 DEF TypeOK

\* Creating, editing and withdrawing listings keeps the types.
LEMMA ItemMoveTyped ==
  ASSUME TypeOK, LeavingOK', ItemMove PROVE TypeOK'
<1> USE DEF TypeOK, LeavingOK
<1>1. PICK i \in Items :
        \/ Withdraw(i)
        \/ \E l \in Listings :
             CreateItem(i, l) \/ CheckEdit(i, l) \/ WriteEdit(i, l) \/ DropEdit(i, l)
  BY DEF ItemMove
<1>2. CASE Withdraw(i)
  <2>1. status' \in [Pairs -> MatchStatus]
    BY <1>2, StatusTyped DEF Withdraw
  <2>2. inbox' \subseteq Users \X NotificationTypes \X Pairs
    <3>1. Seen(ItemRow(i), Offers(i)) \in SUBSET Pairs
      BY OffersTyped, SeenTyped
    <3>2. ToBoth("match_cancelled", Seen(ItemRow(i), Offers(i))) \subseteq Users \X NotificationTypes \X Pairs
      BY <3>1, NotesTyped DEF NotificationTypes
    <3> QED BY <3>2, <1>2 DEF Withdraw
  <2>3. item' \in [Items -> ItemStatus]
    BY <1>2 DEF Withdraw, ItemStatus
  <2> QED BY <2>1, <2>2, <2>3, <1>2 DEF Withdraw, wantVars, dealVars, passVars
<1>3. ASSUME NEW l \in Listings,
             CreateItem(i, l) \/ CheckEdit(i, l) \/ WriteEdit(i, l) \/ DropEdit(i, l)
      PROVE  TypeOK'
  BY <1>3 DEF CreateItem, CheckEdit, WriteEdit, DropEdit, ItemStatus,
              wantVars, matchVars, dealVars, passVars
<1> QED BY <1>1, <1>2, <1>3

\* Creating, editing and cancelling wants keeps the types.
LEMMA WantMoveTyped ==
  ASSUME TypeOK, LeavingOK', WantMove PROVE TypeOK'
<1> USE DEF TypeOK, LeavingOK
<1>1. PICK w \in Wants :
        CancelWant(w) \/ \E c \in Criteria : CreateWant(w, c) \/ UpdateWant(w, c)
  BY DEF WantMove
<1>2. CASE CancelWant(w)
  <2>1. status' \in [Pairs -> MatchStatus]
    BY <1>2, StatusTyped DEF CancelWant
  <2>2. inbox' \subseteq Users \X NotificationTypes \X Pairs
    <3>1. Seen(WantRow(w), Serving(w)) \in SUBSET Pairs
      BY OffersTyped, SeenTyped
    <3>2. ToBoth("match_cancelled", Seen(WantRow(w), Serving(w))) \subseteq Users \X NotificationTypes \X Pairs
      BY <3>1, NotesTyped DEF NotificationTypes
    <3> QED BY <3>2, <1>2 DEF CancelWant
  <2>3. want' \in [Wants -> WantStatus]
    BY <1>2 DEF CancelWant, WantStatus
  <2> QED BY <2>1, <2>2, <2>3, <1>2 DEF CancelWant, itemVars, dealVars, passVars
<1>3. ASSUME NEW c \in Criteria, CreateWant(w, c) \/ UpdateWant(w, c)
      PROVE  TypeOK'
  BY <1>3 DEF CreateWant, UpdateWant, WantStatus,
              itemVars, matchVars, dealVars, passVars
<1> QED BY <1>1, <1>2, <1>3

\* The matching statement keeps the types: what it inserts comes from its snapshot.
LEMMA PassStepTyped ==
  ASSUME TypeOK, LeavingOK', PassStep PROVE TypeOK'
<1> USE DEF TypeOK, LeavingOK
<1>1. CASE BeginPass
  BY <1>1 DEF BeginPass, Swaps, itemVars, wantVars, matchVars, dealVars
<1>2. CASE FailPass
  BY <1>2 DEF FailPass, itemVars, wantVars, matchVars, dealVars
<1>3. CASE EndPass
  <2> DEFINE fresh == {p \in Pairs : status[p] = "none" /\ \E f \in found : f[1] = p}
  <2>1. PICK pick \in [fresh -> found] :
          /\ status' = [p \in Pairs |-> IF p \in fresh THEN "pending" ELSE status[p]]
          /\ relies' = [p \in Pairs |->
                          IF p \in fresh THEN {pick[p][2], pick[p][3]} ELSE relies[p]]
          /\ inbox' = inbox \cup ToBoth("match_found", fresh)
    BY <1>3 DEF EndPass
  <2>2. status' \in [Pairs -> MatchStatus]
    BY <2>1 DEF MatchStatus
  <2>3. relies' \in [Pairs -> SUBSET Wants]
    <3>1. ASSUME NEW p \in fresh PROVE {pick[p][2], pick[p][3]} \in SUBSET Wants
      <4>1. pick[p] \in Pairs \X Wants \X Wants
        OBVIOUS
      <4> QED BY <4>1
    <3> QED BY <3>1, <2>1
  <2>4. inbox' \subseteq Users \X NotificationTypes \X Pairs
    <3>1. ToBoth("match_found", fresh) \subseteq Users \X NotificationTypes \X Pairs
      BY NotesTyped DEF NotificationTypes
    <3> QED BY <3>1, <2>1
  <2> QED BY <2>2, <2>3, <2>4, <1>3 DEF EndPass, itemVars, wantVars, dealVars
<1> QED BY <1>1, <1>2, <1>3 DEF PassStep

\* Whatever a participant does with a match keeps the types.
LEMMA MatchMoveTyped ==
  ASSUME TypeOK, LeavingOK', MatchMove PROVE TypeOK'
<1> USE DEF TypeOK, LeavingOK
<1>0. PICK p \in Pairs : \E u \in UsersOf(p) :
        \/ AcceptFirst(p, u) \/ AcceptBoth(p, u) \/ AcceptUnavailable(p, u)
        \/ Decline(p, u) \/ Cancel(p, u)
        \/ \E x \in Plans : SetExchange(p, u, x)
        \/ CompleteFirst(p, u) \/ CompleteBoth(p, u)
  BY DEF MatchMove
<1>1. PICK u \in UsersOf(p) :
        \/ AcceptFirst(p, u) \/ AcceptBoth(p, u) \/ AcceptUnavailable(p, u)
        \/ Decline(p, u) \/ Cancel(p, u)
        \/ \E x \in Plans : SetExchange(p, u, x)
        \/ CompleteFirst(p, u) \/ CompleteBoth(p, u)
  BY <1>0
<1>2. u \in Users /\ UsersOf(p) \subseteq Users
  BY PairTyped
\* The notes of every kind that the actions below send.
<1>3. \A t \in NotificationTypes :
        ToOther(u, t, p) \subseteq Users \X NotificationTypes \X Pairs
  BY <1>2, NotesTyped
<1>4. \A W \in SUBSET Pairs :
        ToBoth("match_cancelled", W) \subseteq Users \X NotificationTypes \X Pairs
  BY NotesTyped DEF NotificationTypes
<1>5. \A W : \A s \in MatchStatus : Settle(p, s, W) \in [Pairs -> MatchStatus]
  BY StatusTyped
<1>6. \A a, b \in ItemStatus : MoveItems(p, a, b) \in [Items -> ItemStatus]
  BY DEF MoveItems
<1>7. CASE AcceptFirst(p, u)
  BY <1>2, <1>3, <1>7
  DEF AcceptFirst, NotificationTypes, itemVars, wantVars, passVars
<1>8. CASE AcceptBoth(p, u)
  <2>1. Rivals(p) \in SUBSET Pairs
    BY OffersTyped
  <2>2. inbox' \subseteq Users \X NotificationTypes \X Pairs
    BY <1>3, <1>4, <1>8, <2>1 DEF AcceptBoth, NotificationTypes
  <2>3. status' \in [Pairs -> MatchStatus]
    BY <1>5, <1>8 DEF AcceptBoth, MatchStatus
  <2>4. item' \in [Items -> ItemStatus]
    BY <1>6, <1>8 DEF AcceptBoth, ItemStatus
  <2>5. accepted' \in [Pairs -> SUBSET Users]
    BY <1>2, <1>8 DEF AcceptBoth
  <2> QED BY <2>2, <2>3, <2>4, <2>5, <1>8 DEF AcceptBoth, wantVars, passVars
<1>9. CASE AcceptUnavailable(p, u)
  BY <1>2, <1>3, <1>5, <1>9
  DEF AcceptUnavailable, NotificationTypes, MatchStatus, itemVars, wantVars, passVars
<1>10. CASE Decline(p, u)
  BY <1>2, <1>3, <1>5, <1>10
  DEF Decline, NotificationTypes, MatchStatus, itemVars, wantVars, passVars
<1>11. CASE Cancel(p, u)
  BY <1>2, <1>3, <1>5, <1>6, <1>11
  DEF Cancel, NotificationTypes, MatchStatus, ItemStatus, wantVars, passVars
<1>12. ASSUME NEW x \in Plans, SetExchange(p, u, x) PROVE TypeOK'
  BY <1>2, <1>3, <1>12
  DEF SetExchange, NotificationTypes, itemVars, wantVars, passVars
<1>13. CASE CompleteFirst(p, u)
  BY <1>2, <1>13 DEF CompleteFirst, itemVars, wantVars, passVars
<1>14. CASE CompleteBoth(p, u)
  <2>1. Seen(MatchRow(p), Leaning(p)) \in SUBSET Pairs
    BY OffersTyped, SeenTyped
  <2>2. inbox' \subseteq Users \X NotificationTypes \X Pairs
    BY <1>3, <1>4, <1>14, <2>1 DEF CompleteBoth, NotificationTypes
  <2>3. status' \in [Pairs -> MatchStatus]
    BY <1>5, <1>14 DEF CompleteBoth, MatchStatus
  <2>4. item' \in [Items -> ItemStatus]
    BY <1>6, <1>14 DEF CompleteBoth, ItemStatus
  <2>5. want' \in [Wants -> WantStatus]
    BY <1>14 DEF CompleteBoth, WantStatus
  <2>6. confirmed' \in [Pairs -> SUBSET Users]
    BY <1>2, <1>14 DEF CompleteBoth
  <2> QED BY <2>2, <2>3, <2>4, <2>5, <2>6, <1>14 DEF CompleteBoth, passVars
<1> QED BY <1>1, <1>7, <1>8, <1>9, <1>10, <1>11, <1>12, <1>13, <1>14

\* The data's types only depend on the data.
LEMMA IdleTyped ==
  ASSUME TypeOK, LeavingOK', Idle PROVE TypeOK'
BY DEF TypeOK, LeavingOK, Idle, itemVars, wantVars, matchVars, dealVars, passVars

\* Every column keeps its type, whatever the market.
THEOREM Typing == Spec => []TypeOK
<1>1. TypeOK /\ [Next]_vars => TypeOK'
  <2> SUFFICES ASSUME TypeOK, [Next]_vars PROVE TypeOK'
    OBVIOUS
  <2>1. LeavingOK'
    BY LeavingTyped DEF TypeOK, LeavingOK
  <2> QED BY <2>1, StepIs, ItemMoveTyped, WantMoveTyped, PassStepTyped, MatchMoveTyped, IdleTyped
<1> QED BY <1>1, InitTyped, PTL DEF Spec
-----------------------------------------------------------------------------
(* What a transaction on its way has locked.                               *)

\* What it found on its way is there when it commits.
Poised ==
  /\ \A i \in Items : ItemRow(i) \in leaving => item[i] = "available"
  /\ \A w \in Wants : WantRow(w) \in leaving =>
       want[w] = "active" /\ \A p \in Pairs : MatchRow(p) \in leaving => w \notin relies[p]
  /\ \A p \in Pairs : MatchRow(p) \in leaving => status[p] = "accepted" /\ plan[p] # NoPlan

\* The rows of different tables, and of one table, are different.
LEMMA RowsDiffer ==
  /\ \A i, j : ItemRow(i) = ItemRow(j) => i = j
  /\ \A i, j : WantRow(i) = WantRow(j) => i = j
  /\ \A i, j : MatchRow(i) = MatchRow(j) => i = j
  /\ \A i, j : ItemRow(i) # WantRow(j) /\ ItemRow(i) # MatchRow(j) /\ WantRow(i) # MatchRow(j)
BY DEF ItemRow, WantRow, MatchRow

\* A step that leaves what is locked as it is.
LEMMA PoisedKept ==
  ASSUME Poised, leaving' \subseteq leaving,
         \A i \in Items : ItemRow(i) \in leaving' /\ item[i] = "available" => item'[i] = "available",
         \A w \in Wants : WantRow(w) \in leaving' /\ want[w] = "active" => want'[w] = "active",
         \A p \in Pairs : MatchRow(p) \in leaving' /\ status[p] = "accepted" =>
           status'[p] = "accepted" /\ plan'[p] = plan[p] /\ relies'[p] = relies[p]
  PROVE  Poised'
BY DEF Poised

\* Cancelling pending matches keeps the accepted ones.
LEMMA AcceptedStays ==
  ASSUME NEW W \in SUBSET Pending
  PROVE  \A p \in Pairs : status[p] = "accepted" => CancelPending(W)[p] = "accepted"
BY DEF CancelPending, Pending

LEMMA PoisedItemStep == ASSUME TypeOK, Poised, ItemStep PROVE Poised'
<1>1. ASSUME NEW i \in Items, LeaveItem(i) PROVE Poised'
  BY <1>1, RowsDiffer DEF LeaveItem, Leave, Poised, itemVars, wantVars, matchVars, dealVars
<1>2. ASSUME NEW i \in Items, Withdraw(i) PROVE Poised'
  <2>1. leaving' = leaving \ {ItemRow(i)} /\ \A j \in Items \ {i} : item'[j] = item[j]
    BY <1>2 DEF Withdraw, Left, TypeOK
  <2>2. UNCHANGED <<want, plan, relies>>
    BY <1>2 DEF Withdraw, wantVars, dealVars
  <2>3. \A p \in Pairs : status[p] = "accepted" => status'[p] = "accepted"
    BY <1>2, AcceptedStays, OffersTyped, SeenTyped DEF Withdraw
  <2> QED BY <2>1, <2>2, <2>3, PoisedKept
<1>3. ASSUME NEW i \in Items, NEW l \in Listings,
             CreateItem(i, l) \/ CheckEdit(i, l) \/ WriteEdit(i, l) \/ DropEdit(i, l)
      PROVE  Poised'
  <2>1. UNCHANGED <<leaving, want, status, plan, relies>>
    BY <1>3 DEF CreateItem, CheckEdit, WriteEdit, DropEdit, wantVars, matchVars, dealVars, leaveVars
  <2>2. \A j \in Items : item[j] = "available" => item'[j] = "available"
    BY <1>3 DEF CreateItem, CheckEdit, WriteEdit, DropEdit, TypeOK
  <2> QED BY <2>1, <2>2, PoisedKept
<1> QED BY <1>1, <1>2, <1>3 DEF ItemStep

LEMMA PoisedWantStep == ASSUME TypeOK, Poised, WantStep PROVE Poised'
<1>1. ASSUME NEW w \in Wants, LeaveWant(w) PROVE Poised'
  BY <1>1, RowsDiffer DEF LeaveWant, WantLocked, Leave, Poised, itemVars, wantVars, matchVars, dealVars
<1>2. ASSUME NEW w \in Wants, CancelWant(w) PROVE Poised'
  <2>1. leaving' = leaving \ {WantRow(w)} /\ \A v \in Wants \ {w} : want'[v] = want[v]
    BY <1>2 DEF CancelWant, Left, TypeOK
  <2>2. UNCHANGED <<item, plan, relies>>
    BY <1>2 DEF CancelWant, itemVars, dealVars
  <2>3. \A p \in Pairs : status[p] = "accepted" => status'[p] = "accepted"
    BY <1>2, AcceptedStays, OffersTyped, SeenTyped DEF CancelWant
  <2> QED BY <2>1, <2>2, <2>3, PoisedKept
<1>3. ASSUME NEW w \in Wants, NEW c \in Criteria, CreateWant(w, c) \/ UpdateWant(w, c)
      PROVE  Poised'
  <2>1. UNCHANGED <<leaving, item, status, plan, relies>>
    BY <1>3 DEF CreateWant, UpdateWant, itemVars, matchVars, dealVars, leaveVars
  <2>2. \A v \in Wants : want[v] = "active" => want'[v] = "active"
    BY <1>3 DEF CreateWant, UpdateWant, TypeOK
  <2> QED BY <2>1, <2>2, PoisedKept
<1> QED BY <1>1, <1>2, <1>3 DEF WantStep

LEMMA PoisedPassStep == ASSUME TypeOK, Poised, PassStep PROVE Poised'
<1>1. UNCHANGED <<leaving, item, want, plan>>
  BY DEF PassStep, BeginPass, EndPass, FailPass, itemVars, wantVars, matchVars, dealVars, leaveVars
<1>2. \A p \in Pairs : status[p] = "accepted" => status'[p] = "accepted" /\ relies'[p] = relies[p]
  BY DEF PassStep, BeginPass, EndPass, FailPass, matchVars
<1> QED BY <1>1, <1>2, PoisedKept

LEMMA PoisedMatchStep == ASSUME TypeOK, Poised, MatchStep PROVE Poised'
<1>1. PICK p \in Pairs : \E u \in UsersOf(p) :
        \/ AcceptFirst(p, u) \/ AcceptBoth(p, u) \/ AcceptUnavailable(p, u)
        \/ Decline(p, u) \/ Cancel(p, u)
        \/ \E x \in Plans : SetExchange(p, u, x)
        \/ CompleteFirst(p, u) \/ LeaveMatch(p, u) \/ CompleteBoth(p, u)
  BY DEF MatchStep
<1>2. PICK u \in UsersOf(p) :
        \/ AcceptFirst(p, u) \/ AcceptBoth(p, u) \/ AcceptUnavailable(p, u)
        \/ Decline(p, u) \/ Cancel(p, u)
        \/ \E x \in Plans : SetExchange(p, u, x)
        \/ CompleteFirst(p, u) \/ LeaveMatch(p, u) \/ CompleteBoth(p, u)
  BY <1>1
<1>3. CASE LeaveMatch(p, u)
  BY <1>3, RowsDiffer
  DEF LeaveMatch, WantLocked, Leave, Poised, itemVars, wantVars, matchVars, dealVars
<1>4. CASE CompleteBoth(p, u)
  <2>1. leaving' = leaving \ {MatchRow(p)} /\ MatchRow(p) \in leaving
    BY <1>4 DEF CompleteBoth, Left
  <2>2. \A i \in Items : item[i] = "available" => item'[i] = "available"
    BY <1>4 DEF CompleteBoth, MoveItems
  <2>3. \A w \in Wants : WantRow(w) \in leaving => want'[w] = want[w]
    BY <1>4, <2>1 DEF CompleteBoth, Poised
  <2>4. UNCHANGED <<plan, relies>>
    BY <1>4 DEF CompleteBoth
  <2>5. \A q \in Pairs \ {p} : status[q] = "accepted" => status'[q] = "accepted"
    <3>1. Seen(MatchRow(p), Leaning(p)) \in SUBSET Pending
      BY OffersTyped, SeenTyped
    <3> QED BY <1>4, <3>1 DEF CompleteBoth, Settle, Pending
  <2> QED BY <2>1, <2>2, <2>3, <2>4, <2>5, PoisedKept
<1>5. CASE AcceptBoth(p, u)
  <2>1. \A i \in Items : ItemRow(i) \in leaving => item'[i] = item[i]
    BY <1>5 DEF AcceptBoth, BothUnlocked, ItemLocked, MoveItems
  <2>2. UNCHANGED <<leaving, want, plan, relies>>
    BY <1>5 DEF AcceptBoth, wantVars, leaveVars
  <2>3. Rivals(p) \in SUBSET Pending /\ status[p] = "pending"
    BY <1>5, OffersTyped DEF AcceptBoth
  <2>4. \A q \in Pairs : status[q] = "accepted" => status'[q] = "accepted"
    BY <1>5, <2>3 DEF AcceptBoth, Settle, Pending
  <2> QED BY <2>1, <2>2, <2>4, PoisedKept
<1>6. CASE AcceptUnavailable(p, u) \/ Decline(p, u) \/ Cancel(p, u)
  <2>1. UNCHANGED <<leaving, want, plan, relies>>
    BY <1>6 DEF AcceptUnavailable, Decline, Cancel, wantVars, leaveVars
  <2>2. \A i \in Items : item[i] = "available" => item'[i] = "available"
    BY <1>6 DEF AcceptUnavailable, Decline, Cancel, MoveItems, itemVars
  <2>3. \A q \in Pairs : MatchRow(q) \in leaving /\ status[q] = "accepted" => status'[q] = "accepted"
    <3>1. status[p] = "pending" \/ MatchRow(p) \notin leaving
      BY <1>6 DEF AcceptUnavailable, Decline, Cancel, Unlocked
    <3>2. \A q \in Pairs \ {p} : status'[q] = status[q]
      BY <1>6 DEF AcceptUnavailable, Decline, Cancel, Settle
    <3> QED BY <3>1, <3>2
  <2> QED BY <2>1, <2>2, <2>3, PoisedKept
<1>7. ASSUME NEW x \in Plans, SetExchange(p, u, x) PROVE Poised'
  <2>1. UNCHANGED <<leaving, item, want, status, relies>> /\ MatchRow(p) \notin leaving
    BY <1>7 DEF SetExchange, Unlocked, itemVars, wantVars, leaveVars
  <2>2. \A q \in Pairs \ {p} : plan'[q] = plan[q]
    BY <1>7 DEF SetExchange, TypeOK
  <2> QED BY <2>1, <2>2, PoisedKept
<1>8. CASE AcceptFirst(p, u) \/ CompleteFirst(p, u)
  <2>1. UNCHANGED <<leaving, item, want, status, plan, relies>>
    BY <1>8 DEF AcceptFirst, CompleteFirst, itemVars, wantVars, leaveVars
  <2> QED BY <2>1, PoisedKept
<1> QED BY <1>2, <1>3, <1>4, <1>5, <1>6, <1>7, <1>8

\* The row locks keep, up to the commit, what a transaction has found on its way.
THEOREM Poising == Spec => []Poised
<1>1. TypeOK /\ Poised /\ [Next]_vars => Poised'
  <2> SUFFICES ASSUME TypeOK, Poised, [Next]_vars PROVE Poised'
    OBVIOUS
  <2>1. ASSUME NEW r \in leaving, Stay(r) PROVE Poised'
    BY <2>1 DEF Stay, Left, Poised, itemVars, wantVars, matchVars, dealVars
  <2>2. CASE UNCHANGED vars
    BY <2>2 DEF vars, Poised, itemVars, wantVars, matchVars, dealVars, leaveVars
  <2> QED BY <2>1, <2>2, PoisedItemStep, PoisedWantStep, PoisedPassStep, PoisedMatchStep DEF Next
<1>2. Init => Poised
  BY DEF Init, Poised
<1> QED BY <1>1, <1>2, Typing, PTL DEF Spec
-----------------------------------------------------------------------------
(* The items' status and the matches' status agree.                        *)

Bound == {"accepted", "completed"}
Held  == {"reserved", "exchanged"}

\* A step that touches no bound match and no held item.
Quiet ==
  /\ \A p \in Pairs : status[p] \in Bound \/ status'[p] \in Bound => status'[p] = status[p]
  /\ \A i \in Items : item[i] \in Held \/ item'[i] \in Held => item'[i] = item[i]

\* A quiet step, which neither binds nor releases anything, keeps the reservations.
LEMMA QuietHolds ==
  ASSUME ItemsHeld, NoOrphans, Quiet PROVE ItemsHeld' /\ NoOrphans'
<1>1. ItemsHeld'
  BY PairTyped DEF ItemsHeld, Quiet, Bound, Held
<1>2. NoOrphans'
  BY DEF NoOrphans, HeldFor, Quiet, Bound, Held
<1> QED BY <1>1, <1>2

\* Cancelling pending matches is quiet, as far as the matches go.
LEMMA CancelIsQuiet ==
  ASSUME TypeOK, NEW W \in SUBSET Pending, status' = CancelPending(W)
  PROVE  \A p \in Pairs : status[p] \in Bound \/ status'[p] \in Bound => status'[p] = status[p]
BY DEF TypeOK, CancelPending, Pending, Bound

\* Listings never touch an item that a match holds.
LEMMA ItemMoveQuiet == ASSUME TypeOK, Poised, ItemMove PROVE Quiet
<1>1. ASSUME NEW i \in Items, Withdraw(i) PROVE Quiet
  <2>1. Seen(ItemRow(i), Offers(i)) \in SUBSET Pending
    BY OffersTyped, SeenTyped
  <2>2. item[i] = "available"
    BY <1>1 DEF Withdraw, Left, Poised
  <2> QED BY <1>1, <2>1, <2>2, CancelIsQuiet DEF Withdraw, Quiet, Held, TypeOK
<1>2. ASSUME NEW i \in Items, NEW l \in Listings,
             CreateItem(i, l) \/ CheckEdit(i, l) \/ WriteEdit(i, l) \/ DropEdit(i, l)
      PROVE  Quiet
  BY <1>2 DEF CreateItem, CheckEdit, WriteEdit, DropEdit, Quiet, Held, TypeOK, matchVars
<1> QED BY <1>1, <1>2 DEF ItemMove

\* Wants never touch an item or a match that binds.
LEMMA WantMoveQuiet == ASSUME TypeOK, WantMove PROVE Quiet
<1>1. ASSUME NEW w \in Wants, CancelWant(w) PROVE Quiet
  <2>1. Seen(WantRow(w), Serving(w)) \in SUBSET Pending
    BY OffersTyped, SeenTyped
  <2> QED BY <1>1, <2>1, CancelIsQuiet DEF CancelWant, Quiet, itemVars
<1>2. ASSUME NEW w \in Wants, NEW c \in Criteria, CreateWant(w, c) \/ UpdateWant(w, c)
      PROVE  Quiet
  BY <1>2 DEF CreateWant, UpdateWant, Quiet, itemVars, matchVars
<1> QED BY <1>1, <1>2 DEF WantMove

\* The matching statement only turns missing matches into pending ones.
LEMMA PassStepQuiet == ASSUME TypeOK, PassStep PROVE Quiet
<1>1. CASE BeginPass \/ FailPass
  BY <1>1 DEF BeginPass, FailPass, Quiet, itemVars, matchVars
<1>2. CASE EndPass
  BY <1>2 DEF EndPass, Quiet, Bound, itemVars, TypeOK
<1> QED BY <1>1, <1>2 DEF PassStep

\* The three steps that are not quiet.
LEMMA AcceptBothHolds ==
  ASSUME TypeOK, ItemsHeld, NoOrphans,
         NEW p \in Pairs, NEW u \in UsersOf(p), AcceptBoth(p, u)
  PROVE  ItemsHeld' /\ NoOrphans'
<1>1. /\ status' = Settle(p, "accepted", Rivals(p))
      /\ item' = MoveItems(p, "available", "reserved")
      /\ BothAvailable(p)
  BY DEF AcceptBoth
<1>2. Rivals(p) \subseteq Pending
  BY OffersTyped
\* The items were free, so no bound match has them.
<1>3. \A q \in Pairs : status[q] \in Bound => Disjoint(p, q) /\ q # p
  BY <1>1, PairTyped DEF ItemsHeld, BothAvailable, Bound, Disjoint, ItemsOf
<1>4. /\ status'[p] = "accepted"
      /\ \A q \in Pairs \ {p} :
           status[q] \in Bound \/ status'[q] \in Bound => status'[q] = status[q]
  BY <1>1, <1>2 DEF Settle, Pending, Bound
<1>5. /\ \A i \in ItemsOf(p) : item'[i] = "reserved"
      /\ \A i \in Items \ ItemsOf(p) : item'[i] = item[i]
  BY <1>1, PairTyped DEF MoveItems, BothAvailable
<1>6. ItemsHeld'
  <2>1. ASSUME NEW q \in Pairs, NEW i \in ItemsOf(q)
        PROVE  /\ status'[q] = "accepted" => item'[i] = "reserved"
               /\ status'[q] = "completed" => item'[i] = "exchanged"
    <3>1. CASE q = p
      BY <3>1, <1>4, <1>5
    <3>2. CASE q # p
      BY <3>2, <1>3, <1>4, <1>5, PairTyped DEF ItemsHeld, Bound, Disjoint
    <3> QED BY <3>1, <3>2
  <2>2. ASSUME NEW q \in Pairs, NEW r \in Pairs, q # r,
               status'[q] \in Bound, status'[r] \in Bound
        PROVE  Disjoint(q, r)
    BY <2>2, <1>3, <1>4 DEF ItemsHeld, Bound, Disjoint
  <2> QED BY <2>1, <2>2 DEF ItemsHeld, Bound, Disjoint, ItemsOf
<1>7. NoOrphans'
  <2> SUFFICES ASSUME NEW i \in Items
      PROVE /\ item'[i] = "reserved" => \E q \in Pairs : status'[q] = "accepted" /\ i \in ItemsOf(q)
            /\ item'[i] = "exchanged" => \E q \in Pairs : status'[q] = "completed" /\ i \in ItemsOf(q)
    BY DEF NoOrphans, HeldFor
  <2>1. CASE i \in ItemsOf(p)
    BY <2>1, <1>4, <1>5
  <2>2. CASE i \notin ItemsOf(p)
    BY <2>2, <1>3, <1>4, <1>5 DEF NoOrphans, HeldFor, Bound
  <2> QED BY <2>1, <2>2
<1> QED BY <1>6, <1>7

\* An accepted match is called off or carried out: its items, which no other
\* bound match has, leave their reservation together with it.
LEMMA ReleaseHolds ==
  ASSUME TypeOK, ItemsHeld, NoOrphans,
         NEW p \in Pairs, status[p] = "accepted",
         NEW s \in {"cancelled", "completed"}, NEW to \in {"available", "exchanged"},
         (s = "completed") <=> (to = "exchanged"),
         NEW W \in SUBSET Pending,
         status' = Settle(p, s, W), item' = MoveItems(p, "reserved", to)
  PROVE  ItemsHeld' /\ NoOrphans'
<1>1. \A q \in Pairs \ {p} : status[q] \in Bound => Disjoint(p, q)
  BY DEF ItemsHeld, Bound
<1>2. /\ status'[p] = s
      /\ \A q \in Pairs \ {p} :
           status[q] \in Bound \/ status'[q] \in Bound => status'[q] = status[q]
  BY DEF Settle, Pending, Bound
<1>3. /\ \A i \in ItemsOf(p) : item'[i] = to
      /\ \A i \in Items \ ItemsOf(p) : item'[i] = item[i]
  BY PairTyped DEF MoveItems, ItemsHeld
<1>4. ItemsHeld'
  <2>1. ASSUME NEW q \in Pairs, NEW i \in ItemsOf(q)
        PROVE  /\ status'[q] = "accepted" => item'[i] = "reserved"
               /\ status'[q] = "completed" => item'[i] = "exchanged"
    <3>1. CASE q = p
      BY <3>1, <1>2, <1>3
    <3>2. CASE q # p
      BY <3>2, <1>1, <1>2, <1>3, PairTyped DEF ItemsHeld, Bound, Disjoint
    <3> QED BY <3>1, <3>2
  <2>2. ASSUME NEW q \in Pairs, NEW r \in Pairs, q # r,
               status'[q] \in Bound, status'[r] \in Bound
        PROVE  Disjoint(q, r)
    BY <2>2, <1>1, <1>2 DEF ItemsHeld, Bound, Disjoint
  <2> QED BY <2>1, <2>2 DEF ItemsHeld, Bound, Disjoint, ItemsOf
<1>5. NoOrphans'
  <2> SUFFICES ASSUME NEW i \in Items
      PROVE /\ item'[i] = "reserved" => \E q \in Pairs : status'[q] = "accepted" /\ i \in ItemsOf(q)
            /\ item'[i] = "exchanged" => \E q \in Pairs : status'[q] = "completed" /\ i \in ItemsOf(q)
    BY DEF NoOrphans, HeldFor
  <2>1. CASE i \in ItemsOf(p)
    BY <2>1, <1>2, <1>3
  <2>2. CASE i \notin ItemsOf(p)
    <3>1. \A q \in Pairs : i \in ItemsOf(q) => q # p
      BY <2>2
    <3> QED BY <2>2, <3>1, <1>2, <1>3 DEF NoOrphans, HeldFor, Bound
  <2> QED BY <2>1, <2>2
<1> QED BY <1>4, <1>5

\* Every step of a match keeps the reservations: the three that are not quiet, and the rest.
LEMMA MatchMoveHolds ==
  ASSUME TypeOK, Poised, ItemsHeld, NoOrphans, MatchMove PROVE ItemsHeld' /\ NoOrphans'
<1>1. PICK p \in Pairs : \E u \in UsersOf(p) :
        \/ AcceptFirst(p, u) \/ AcceptBoth(p, u) \/ AcceptUnavailable(p, u)
        \/ Decline(p, u) \/ Cancel(p, u)
        \/ \E x \in Plans : SetExchange(p, u, x)
        \/ CompleteFirst(p, u) \/ CompleteBoth(p, u)
  BY DEF MatchMove
<1>2. PICK u \in UsersOf(p) :
        \/ AcceptFirst(p, u) \/ AcceptBoth(p, u) \/ AcceptUnavailable(p, u)
        \/ Decline(p, u) \/ Cancel(p, u)
        \/ \E x \in Plans : SetExchange(p, u, x)
        \/ CompleteFirst(p, u) \/ CompleteBoth(p, u)
  BY <1>1
<1>3. CASE AcceptBoth(p, u)
  BY <1>3, AcceptBothHolds
<1>4. CASE Cancel(p, u)
  BY <1>4, ReleaseHolds DEF Cancel
<1>5. CASE CompleteBoth(p, u)
  <2>1. Seen(MatchRow(p), Leaning(p)) \in SUBSET Pending
    BY OffersTyped, SeenTyped
  <2>2. status[p] = "accepted"
    BY <1>5 DEF CompleteBoth, Left, Poised
  <2> QED BY <1>5, <2>1, <2>2, ReleaseHolds DEF CompleteBoth
<1>6. CASE \/ AcceptFirst(p, u) \/ CompleteFirst(p, u)
           \/ \E x \in Plans : SetExchange(p, u, x)
  <2>1. Quiet
    BY <1>6 DEF AcceptFirst, CompleteFirst, SetExchange, Quiet, itemVars
  <2> QED BY <2>1, QuietHolds
<1>7. CASE AcceptUnavailable(p, u) \/ Decline(p, u)
  <2>1. Quiet
    BY <1>7 DEF AcceptUnavailable, Decline, Quiet, Settle, Bound, itemVars, TypeOK
  <2> QED BY <2>1, QuietHolds
<1> QED BY <1>2, <1>3, <1>4, <1>5, <1>6, <1>7

\* Nothing is reserved at first.
LEMMA InitHolds == Init => ItemsHeld /\ NoOrphans
BY DEF Init, ItemsHeld, NoOrphans

\* The two status columns agree in every market: what a match holds is
\* reserved for it alone, and nothing stays reserved without a match.
THEOREM Reservations == Spec => [](ItemsHeld /\ NoOrphans)
<1>1. TypeOK /\ Poised /\ ItemsHeld /\ NoOrphans /\ [Next]_vars => ItemsHeld' /\ NoOrphans'
  <2>1. ASSUME Idle PROVE Quiet
    BY <2>1 DEF Quiet, Idle, itemVars, matchVars
  <2> QED BY <2>1, StepIs, ItemMoveQuiet, WantMoveQuiet, PassStepQuiet, QuietHolds, MatchMoveHolds
<1> QED BY <1>1, InitHolds, Typing, Poising, PTL DEF Spec

\* No item is stranded: what is reserved or exchanged is so for a match that
\* says why.
THEOREM NoItemIsStranded == Spec => []NoOrphans
BY Reservations, PTL
-----------------------------------------------------------------------------
(* Exchange implements Barter.                                             *)

stage == [p \in Pairs |-> Stage(status[p])]
listed == {i \in Items : item[i] # "absent"}
retired == {i \in Items : item[i] = "withdrawn"}

\* A snapshot names only stored items; a stored item is never deleted.
FoundListed == \A f \in found : \A i \in ItemsOf(f[1]) : item[i] # "absent"

\* What the refinement mapping makes of a status, one way and back.
LEMMA StageIs ==
  ASSUME TypeOK
  PROVE  \A p \in Pairs :
           /\ stage[p] \in Promise!Stages
           /\ stage[p] = "none" <=> status[p] = "none"
           /\ stage[p] = "proposed" <=> status[p] = "pending"
           /\ stage[p] = "agreed" <=> status[p] = "accepted"
           /\ stage[p] = "done" <=> status[p] = "completed"
           /\ stage[p] = "off" <=> status[p] \in {"declined", "cancelled"}
BY DEF TypeOK, MatchStatus, stage, Stage, Promise!Stages

\* Declined and cancelled matches look alike from outside.
LEMMA ClosedIsOff == Stage("cancelled") = "off" /\ Stage("declined") = "off"
BY DEF Stage

\* Cancelling pending matches advances them to "off" and leaves the rest.
LEMMA CancelAdvances ==
  ASSUME TypeOK, TypeOK', NEW W \in SUBSET Pending, status' = CancelPending(W)
  PROVE  /\ stage' = Promise!Advance(W, "off")
         /\ W \in SUBSET Promise!At({"proposed"})
<1>1. W \in SUBSET Promise!At({"proposed"})
  BY StageIs DEF Promise!At, Pending, stage
<1>2. \A p \in Pairs : stage'[p] = IF p \in W THEN "off" ELSE stage[p]
  <2>1. \A p \in Pairs : status'[p] = IF p \in W THEN "cancelled" ELSE status[p]
    BY DEF CancelPending
  <2> QED BY <2>1, ClosedIsOff DEF stage
<1> QED BY <1>1, <1>2 DEF Promise!Advance, stage

\* The same with one match settled besides.
LEMMA SettleAdvances ==
  ASSUME TypeOK, TypeOK', NEW W \in SUBSET Pending, NEW p \in Pairs \ W,
         NEW s \in MatchStatus, status' = Settle(p, s, W)
  PROVE  /\ stage' = [Promise!Advance(W, "off") EXCEPT ![p] = Stage(s)]
         /\ W \in SUBSET (Promise!At({"proposed"}) \ {p})
<1>1. W \in SUBSET (Promise!At({"proposed"}) \ {p})
  BY StageIs DEF Promise!At, Pending, stage
<1>2. \A q \in Pairs :
        stage'[q] = IF q = p THEN Stage(s) ELSE IF q \in W THEN "off" ELSE stage[q]
  <2>1. \A q \in Pairs :
          status'[q] = IF q = p THEN s ELSE IF q \in W THEN "cancelled" ELSE status[q]
    BY DEF Settle
  <2> QED BY <2>1, ClosedIsOff DEF stage
<1> QED BY <1>1, <1>2 DEF Promise!Advance, stage

\* What a bound match has is taken, in the terms of Barter.
LEMMA TakenIsHeld ==
  ASSUME TypeOK, ItemsHeld, NEW i, item[i] \notin Held
  PROVE  ~Promise!Taken(i)
BY StageIs DEF Promise!Taken, Promise!At, Promise!ItemsOf, ItemsOf, ItemsHeld, Held, stage

\* Outside the pass the snapshot stays, and rows are never deleted.
LEMMA FoundStaysListed ==
  ASSUME TypeOK, FoundListed, [Next]_vars PROVE FoundListed'
<1>1. ASSUME NEW i \in Items, item[i] # "absent" PROVE item'[i] # "absent"
  <2>1. CASE ItemMove
    BY <1>1, <2>1 DEF ItemMove, Withdraw, CreateItem, CheckEdit, WriteEdit, DropEdit, TypeOK
  <2>2. CASE WantMove \/ PassStep \/ Idle
    BY <1>1, <2>2 DEF WantMove, CreateWant, UpdateWant, CancelWant,
                      PassStep, BeginPass, EndPass, FailPass, Idle, itemVars
  <2>3. CASE MatchMove
    BY <1>1, <2>3 DEF MatchMove, AcceptFirst, AcceptBoth, AcceptUnavailable, Decline, Cancel,
                      SetExchange, CompleteFirst, CompleteBoth, MoveItems, itemVars
  <2> QED BY <2>1, <2>2, <2>3, StepIs
<1>2. CASE BeginPass
  BY <1>2 DEF BeginPass, Swaps, IsSwap, Fits, FoundListed, ItemsOf, itemVars
<1>3. CASE EndPass \/ FailPass
  BY <1>3 DEF EndPass, FailPass, FoundListed
<1>4. CASE found' = found
  <2>1. \A f \in found : ItemsOf(f[1]) \subseteq Items
    BY PairTyped DEF TypeOK
  <2> QED BY <1>1, <1>4, <2>1 DEF FoundListed
<1>5. CASE ItemMove \/ WantMove \/ MatchMove \/ Idle
  <2>1. CASE ItemMove
    BY <1>4, <2>1 DEF ItemMove, Withdraw, CreateItem, CheckEdit, WriteEdit, DropEdit, passVars
  <2>2. CASE WantMove \/ Idle
    BY <1>4, <2>2 DEF WantMove, CreateWant, UpdateWant, CancelWant, Idle, passVars
  <2>3. CASE MatchMove
    BY <1>4, <2>3 DEF MatchMove, AcceptFirst, AcceptBoth, AcceptUnavailable, Decline, Cancel,
                      SetExchange, CompleteFirst, CompleteBoth, passVars
  <2> QED BY <1>5, <2>1, <2>2, <2>3
<1> QED BY <1>2, <1>3, <1>5, StepIs DEF PassStep

\* The first states are first states of Barter.
LEMMA InitRefines == Init => Promise!Init /\ FoundListed
BY ItemsAssumption DEF Init, Promise!Init, FoundListed, Stage

\* Listing steps are List, Retire or invisible.
LEMMA ItemMoveRefines ==
  ASSUME TypeOK, TypeOK', Poised, ItemsHeld, ItemMove
  PROVE  [Promise!Next]_(Promise!vars)
<1>1. ASSUME NEW i \in Items, Withdraw(i) PROVE Promise!Retire(i)
  <2>0. item[i] = "available"
    BY <1>1 DEF Withdraw, Left, Poised
  <2>1. ~Promise!Taken(i)
    BY <2>0, TakenIsHeld DEF Held
  <2>2. /\ i \in listed \ retired
        /\ retired' = retired \cup {i}
        /\ listed' = listed
    BY <1>1, <2>0 DEF Withdraw, listed, retired, TypeOK
  <2>3. \E off \in SUBSET Promise!At({"proposed"}) : stage' = Promise!Advance(off, "off")
    <3>1. Seen(ItemRow(i), Offers(i)) \in SUBSET Pending
      BY OffersTyped, SeenTyped
    <3> QED BY <1>1, <3>1, CancelAdvances DEF Withdraw
  <2> QED BY <2>1, <2>2, <2>3 DEF Promise!Retire, listed, retired, stage
<1>2. ASSUME NEW i \in Items, NEW l \in Listings, CreateItem(i, l) PROVE Promise!List(i)
  <2>1. i \notin listed /\ listed' = listed \cup {i} /\ retired' = retired
    BY <1>2 DEF CreateItem, listed, retired, TypeOK
  <2>2. stage' = stage
    BY <1>2 DEF CreateItem, matchVars, stage
  <2> QED BY <2>1, <2>2 DEF Promise!List, listed, retired, stage
<1>3. ASSUME NEW i \in Items, NEW l \in Listings,
             CheckEdit(i, l) \/ WriteEdit(i, l) \/ DropEdit(i, l)
      PROVE  UNCHANGED Promise!vars
  BY <1>3 DEF CheckEdit, WriteEdit, DropEdit, matchVars, Promise!vars
<1> QED BY <1>1, <1>2, <1>3 DEF ItemMove, Promise!Next

\* Of the steps on wants, only the matches they cancel are visible.
LEMMA WantMoveRefines ==
  ASSUME TypeOK, TypeOK', WantMove
  PROVE  [Promise!Next]_(Promise!vars)
<1>1. ASSUME NEW w \in Wants, CancelWant(w) PROVE Promise!CallOff
  <2>1. \E off \in SUBSET Promise!At({"proposed"}) : stage' = Promise!Advance(off, "off")
    <3>1. Seen(WantRow(w), Serving(w)) \in SUBSET Pending
      BY OffersTyped, SeenTyped
    <3> QED BY <1>1, <3>1, CancelAdvances DEF CancelWant
  <2>2. item' = item
    BY <1>1 DEF CancelWant, itemVars
  <2> QED BY <2>1, <2>2 DEF Promise!CallOff, stage
<1>2. ASSUME NEW w \in Wants, NEW c \in Criteria, CreateWant(w, c) \/ UpdateWant(w, c)
      PROVE  UNCHANGED Promise!vars
  BY <1>2 DEF CreateWant, UpdateWant, itemVars, matchVars, Promise!vars
<1> QED BY <1>1, <1>2 DEF WantMove, Promise!Next

\* The matching statement proposes swaps of listed items.
LEMMA PassStepRefines ==
  ASSUME TypeOK, TypeOK', FoundListed, PassStep
  PROVE  [Promise!Next]_(Promise!vars)
<1>1. CASE BeginPass \/ FailPass
  BY <1>1 DEF BeginPass, FailPass, itemVars, matchVars, Promise!vars
<1>2. CASE EndPass
  <2> DEFINE fresh == {p \in Pairs : status[p] = "none" /\ \E f \in found : f[1] = p}
  <2>1. /\ status' = [p \in Pairs |-> IF p \in fresh THEN "pending" ELSE status[p]]
        /\ item' = item
    BY <1>2 DEF EndPass, itemVars
  <2>2. fresh \in SUBSET Promise!At({"none"})
    BY StageIs DEF Promise!At, stage
  <2>3. \A p \in fresh : Promise!ItemsOf(p) \subseteq listed
    BY PairTyped DEF FoundListed, Promise!ItemsOf, ItemsOf, listed
  <2>4. stage' = Promise!Advance(fresh, "proposed")
    <3>1. \A p \in Pairs : stage'[p] = IF p \in fresh THEN "proposed" ELSE stage[p]
      <4>1. Stage("pending") = "proposed"
        BY DEF Stage
      <4> QED BY <2>1, <4>1 DEF stage
    <3> QED BY <3>1 DEF Promise!Advance, stage
  <2>5. Promise!Propose
    BY <2>1, <2>2, <2>3, <2>4 DEF Promise!Propose, stage, listed
  <2> QED BY <2>5 DEF Promise!Next
<1> QED BY <1>1, <1>2 DEF PassStep

\* Steps of a match agree on a swap, carry it out, or call swaps off.
LEMMA MatchMoveRefines ==
  ASSUME TypeOK, TypeOK', Poised, ItemsHeld, MatchMove
  PROVE  [Promise!Next]_(Promise!vars)
<1>1. PICK p \in Pairs : \E u \in UsersOf(p) :
        \/ AcceptFirst(p, u) \/ AcceptBoth(p, u) \/ AcceptUnavailable(p, u)
        \/ Decline(p, u) \/ Cancel(p, u)
        \/ \E x \in Plans : SetExchange(p, u, x)
        \/ CompleteFirst(p, u) \/ CompleteBoth(p, u)
  BY DEF MatchMove
<1>2. PICK u \in UsersOf(p) :
        \/ AcceptFirst(p, u) \/ AcceptBoth(p, u) \/ AcceptUnavailable(p, u)
        \/ Decline(p, u) \/ Cancel(p, u)
        \/ \E x \in Plans : SetExchange(p, u, x)
        \/ CompleteFirst(p, u) \/ CompleteBoth(p, u)
  BY <1>1
\* Moving items between statuses that are neither "absent" nor "withdrawn"
\* is invisible in Barter.
<1>3. ASSUME NEW a \in {"available", "reserved", "exchanged"},
             NEW b \in {"available", "reserved", "exchanged"}, item' = MoveItems(p, a, b)
      PROVE  listed' = listed /\ retired' = retired
  BY <1>3 DEF MoveItems, listed, retired, TypeOK
<1>4. CASE AcceptBoth(p, u)
  <2>1. Rivals(p) \in SUBSET Pending /\ p \in Pairs \ Rivals(p)
    BY OffersTyped
  <2>2. /\ stage' = [Promise!Advance(Rivals(p), "off") EXCEPT ![p] = Stage("accepted")]
        /\ Rivals(p) \in SUBSET (Promise!At({"proposed"}) \ {p})
    BY <1>4, <2>1, SettleAdvances DEF AcceptBoth, MatchStatus
  <2>3. \A i \in Promise!ItemsOf(p) : i \notin retired /\ ~Promise!Taken(i)
    BY <1>4, TakenIsHeld DEF AcceptBoth, BothAvailable, Promise!ItemsOf, ItemsOf, retired, Held
  <2>4. stage[p] = "proposed"
    BY <1>4, StageIs DEF AcceptBoth
  <2>5. listed' = listed /\ retired' = retired
    BY <1>3, <1>4 DEF AcceptBoth
  <2>6. Stage("accepted") = "agreed"
    BY DEF Stage
  <2>7. Promise!Agree(p)
    BY <2>2, <2>3, <2>4, <2>5, <2>6 DEF Promise!Agree, stage, listed, retired
  <2> QED BY <2>7 DEF Promise!Next
<1>5. CASE CompleteBoth(p, u)
  <2> DEFINE W == Seen(MatchRow(p), Leaning(p))
  <2>1. W \in SUBSET Pending /\ p \in Pairs \ W
    BY OffersTyped, SeenTyped
  <2>2. /\ stage' = [Promise!Advance(W, "off") EXCEPT ![p] = Stage("completed")]
        /\ W \in SUBSET Promise!At({"proposed"})
    BY <1>5, <2>1, SettleAdvances DEF CompleteBoth, MatchStatus
  <2>3. stage[p] = "agreed" /\ Stage("completed") = "done"
    BY <1>5, StageIs DEF CompleteBoth, Left, Poised, Stage
  <2>4. listed' = listed /\ retired' = retired
    BY <1>3, <1>5 DEF CompleteBoth
  <2>5. Promise!CarryOut(p)
    BY <2>2, <2>3, <2>4 DEF Promise!CarryOut, stage, listed, retired
  <2> QED BY <2>5 DEF Promise!Next
<1>6. CASE AcceptUnavailable(p, u) \/ Decline(p, u)
  <2>1. /\ status[p] = "pending" /\ item' = item
        /\ \E s \in {"cancelled", "declined"} : status' = Settle(p, s, {})
    BY <1>6 DEF AcceptUnavailable, Decline, itemVars
  <2>2. \A q \in Pairs : stage'[q] = IF q = p THEN "off" ELSE stage[q]
    <3>1. \A q \in Pairs : Stage(status'[q]) = IF q = p THEN "off" ELSE Stage(status[q])
      BY <2>1, ClosedIsOff DEF Settle
    <3> QED BY <3>1 DEF stage
  <2>3. stage' = Promise!Advance({p}, "off")
    BY <2>2 DEF Promise!Advance, stage
  <2>4. {p} \in SUBSET Promise!At({"proposed"})
    BY <2>1, StageIs DEF Promise!At, stage
  <2>5. Promise!CallOff
    BY <2>1, <2>3, <2>4 DEF Promise!CallOff, stage
  <2> QED BY <2>5 DEF Promise!Next
<1>7. CASE Cancel(p, u)
  <2>1. status[p] = "accepted" /\ status' = Settle(p, "cancelled", {})
    BY <1>7 DEF Cancel
  <2>2. \A q \in Pairs : stage'[q] = IF q = p THEN "off" ELSE stage[q]
    <3>1. \A q \in Pairs : Stage(status'[q]) = IF q = p THEN "off" ELSE Stage(status[q])
      BY <2>1, ClosedIsOff DEF Settle
    <3> QED BY <3>1 DEF stage
  <2>3. stage' = Promise!Advance({p}, "off")
    BY <2>2 DEF Promise!Advance, stage
  <2>4. p \in Promise!At({"agreed"})
    BY <2>1, StageIs DEF Promise!At, stage
  <2>5. listed' = listed /\ retired' = retired
    BY <1>3, <1>7 DEF Cancel
  <2>6. Promise!CallOff
    BY <2>3, <2>4, <2>5 DEF Promise!CallOff, stage, listed, retired
  <2> QED BY <2>6 DEF Promise!Next
<1>8. CASE \/ AcceptFirst(p, u) \/ CompleteFirst(p, u)
           \/ \E x \in Plans : SetExchange(p, u, x)
  BY <1>8 DEF AcceptFirst, CompleteFirst, SetExchange, itemVars, Promise!vars
<1> QED BY <1>2, <1>4, <1>5, <1>6, <1>7, <1>8

\* The stored marketplace keeps the promises of Barter: every transaction is a
\* step Barter allows, or one that it does not see.
THEOREM Refinement == Spec => KeepsPromises
<1>1. TypeOK /\ TypeOK' /\ Poised /\ ItemsHeld /\ FoundListed /\ [Next]_vars
        => [Promise!Next]_(Promise!vars) /\ FoundListed'
  <2>1. ASSUME Idle PROVE UNCHANGED Promise!vars
    BY <2>1 DEF Idle, itemVars, matchVars, Promise!vars
  <2> QED BY <2>1, StepIs, FoundStaysListed, ItemMoveRefines, WantMoveRefines,
             PassStepRefines, MatchMoveRefines
<1> QED BY <1>1, InitRefines, Typing, Poising, Reservations, PTL
        DEF Spec, KeepsPromises, Promise!Spec
-----------------------------------------------------------------------------
(* Consent.                                                                *)

\* The users of a pair are two.
LEMMA TwoUsers ==
  ASSUME NEW p \in Pairs, NEW u \in UsersOf(p)
  PROVE  UsersOf(p) # {} /\ {u} # UsersOf(p) /\ UsersOf(p) \ {u} # {}
BY DEF Pairs, UsersOf

\* What ConsentComplete says of one match.
Consented(p) ==
  /\ status[p] \in {"accepted", "completed"} => accepted[p] = UsersOf(p)
  /\ confirmed[p] # {} => plan[p] # NoPlan
  /\ (confirmed[p] = UsersOf(p)) <=> (status[p] = "completed")
  /\ status[p] = "completed" => \A w \in relies[p] : want[w] # "active"

\* A match rests on wants that are stored, and so do the swaps of a snapshot.
WantsStored ==
  /\ \A p \in Pairs : \A w \in relies[p] : want[w] # "absent"
  /\ \A f \in found : want[f[2]] # "absent" /\ want[f[3]] # "absent"

FulfilledByMatch ==
  \A w \in Wants : want[w] = "fulfilled" =>
    \E p \in Pairs : status[p] = "completed" /\ w \in relies[p]

Consent == (\A p \in Pairs : Consented(p)) /\ FulfilledByMatch /\ WantsStored

\* A step that leaves the deals alone, and puts no want back on the market.
LEMMA ConsentQuiet ==
  ASSUME TypeOK, TypeOK', Consent, Quiet, UNCHANGED dealVars,
         \A p \in Pairs : status[p] \in Bound => relies'[p] = relies[p],
         \A p \in Pairs : \A w \in relies'[p] : want'[w] # "absent",
         \A f \in found' : want'[f[2]] # "absent" /\ want'[f[3]] # "absent",
         \A w \in Wants : want'[w] # want[w] => want[w] \in {"absent", "active"}
                                              /\ want'[w] \in {"active", "cancelled"},
         \A w \in Wants : want'[w] = "active" /\ want[w] # "active" => want[w] = "absent"
  PROVE  Consent'
<1>1. ASSUME NEW p \in Pairs PROVE Consented(p)'
  <2>1. /\ status'[p] \in Bound => status[p] = status'[p]
        /\ status[p] \in Bound => status[p] = status'[p]
    BY DEF Quiet
  <2>2. accepted'[p] = accepted[p] /\ confirmed'[p] = confirmed[p] /\ plan'[p] = plan[p]
    BY DEF dealVars
  <2>3. ASSUME status'[p] = "completed", NEW w \in relies'[p] PROVE want'[w] # "active"
    <3>1. w \in relies[p] /\ w \in Wants /\ status[p] = "completed"
      BY <2>1, <2>3 DEF Bound, TypeOK
    <3> QED BY <3>1 DEF Consent, Consented, WantsStored
  <2> QED BY <2>1, <2>2, <2>3 DEF Consent, Consented, Bound
<1>2. FulfilledByMatch'
  <2> SUFFICES ASSUME NEW w \in Wants, want'[w] = "fulfilled"
               PROVE  \E p \in Pairs : status'[p] = "completed" /\ w \in relies'[p]
    BY DEF FulfilledByMatch
  <2>1. want[w] = "fulfilled"
    OBVIOUS
  <2>2. PICK p \in Pairs : status[p] = "completed" /\ w \in relies[p]
    BY <2>1 DEF Consent, FulfilledByMatch
  <2>3. status'[p] = "completed" /\ w \in relies'[p]
    BY <2>2 DEF Quiet, Bound
  <2> QED BY <2>3
<1>3. WantsStored'
  BY DEF WantsStored
<1> QED BY <1>1, <1>2, <1>3 DEF Consent

LEMMA ConsentItemMove == ASSUME TypeOK, TypeOK', Poised, Consent, ItemMove PROVE Consent'
<1>1. UNCHANGED <<wantVars, relies, dealVars, passVars>>
  BY DEF ItemMove, Withdraw, CreateItem, CheckEdit, WriteEdit, DropEdit, matchVars
<1>2. UNCHANGED <<want, relies, found>>
  BY <1>1 DEF wantVars, passVars
<1> QED BY <1>1, <1>2, ItemMoveQuiet, ConsentQuiet DEF Consent, WantsStored

LEMMA ConsentWantMove == ASSUME TypeOK, TypeOK', Poised, Consent, WantMove PROVE Consent'
<1>1. UNCHANGED <<relies, dealVars, found>>
  BY DEF WantMove, CancelWant, CreateWant, UpdateWant, matchVars, passVars
<1>2. \/ UNCHANGED want
      \/ \E w \in Wants : want[w] = "absent" /\ want' = [want EXCEPT ![w] = "active"]
      \/ \E w \in Wants : want[w] = "active" /\ want' = [want EXCEPT ![w] = "cancelled"]
  BY DEF WantMove, CancelWant, CreateWant, UpdateWant, Left, Poised
<1>3. \A w \in Wants : /\ want'[w] # want[w] => want[w] \in {"absent", "active"}
                                                /\ want'[w] \in {"active", "cancelled"}
                       /\ want'[w] = "active" /\ want[w] # "active" => want[w] = "absent"
                       /\ want[w] # "absent" => want'[w] # "absent"
  BY <1>2 DEF TypeOK
<1>4. /\ \A p \in Pairs : \A w \in relies'[p] : want'[w] # "absent"
      /\ \A f \in found' : want'[f[2]] # "absent" /\ want'[f[3]] # "absent"
  BY <1>1, <1>3 DEF TypeOK, Consent, WantsStored
<1> QED BY <1>1, <1>3, <1>4, WantMoveQuiet, ConsentQuiet

LEMMA ConsentPassStep == ASSUME TypeOK, TypeOK', Consent, PassStep PROVE Consent'
<1>1. UNCHANGED <<want, dealVars>>
  BY DEF PassStep, BeginPass, EndPass, FailPass, wantVars, matchVars
<1>2. CASE BeginPass \/ FailPass
  <2>1. UNCHANGED relies
    BY <1>2 DEF BeginPass, FailPass, matchVars
  <2>2. \A f \in found' : want'[f[2]] # "absent" /\ want'[f[3]] # "absent"
    BY <1>1, <1>2 DEF BeginPass, FailPass, Swaps, IsSwap, Fits
  <2> QED BY <1>1, <2>1, <2>2, PassStepQuiet, ConsentQuiet DEF Consent, WantsStored
<1>3. CASE EndPass
  <2> DEFINE fresh == {p \in Pairs : status[p] = "none" /\ \E f \in found : f[1] = p}
  <2>1. PICK pick \in [fresh -> found] :
          relies' = [p \in Pairs |->
                       IF p \in fresh THEN {pick[p][2], pick[p][3]} ELSE relies[p]]
    BY <1>3 DEF EndPass
  <2>2. found' = {}
    BY <1>3 DEF EndPass
  <2>3. \A p \in Pairs : status[p] \in Bound => relies'[p] = relies[p]
    BY <2>1 DEF Bound
  <2>4. ASSUME NEW p \in Pairs, NEW w \in relies'[p] PROVE want'[w] # "absent"
    <3>1. CASE p \in fresh
      <4>1. pick[p] \in found /\ w \in {pick[p][2], pick[p][3]}
        BY <2>1, <2>4, <3>1
      <4> QED BY <1>1, <4>1 DEF Consent, WantsStored
    <3>2. CASE p \notin fresh
      BY <1>1, <2>1, <2>4, <3>2 DEF Consent, WantsStored
    <3> QED BY <3>1, <3>2
  <2> QED BY <1>1, <2>2, <2>3, <2>4, PassStepQuiet, ConsentQuiet
<1> QED BY <1>2, <1>3 DEF PassStep

\* A step of one match that leaves the wants alone: the others keep their
\* deals, and lose at most a proposal.
LEMMA ConsentDeal ==
  ASSUME TypeOK, TypeOK', Consent, NEW p \in Pairs, Consented(p)',
         UNCHANGED <<want, relies, found>>,
         status[p] # "completed",
         \A q \in Pairs \ {p} :
           /\ accepted'[q] = accepted[q] /\ plan'[q] = plan[q] /\ confirmed'[q] = confirmed[q]
           /\ status'[q] = status[q] \/ (status[q] = "pending" /\ status'[q] = "cancelled")
  PROVE  Consent'
<1>1. ASSUME NEW q \in Pairs \ {p} PROVE Consented(q)'
  BY DEF Consent, Consented
<1>2. FulfilledByMatch'
  <2> SUFFICES ASSUME NEW w \in Wants, want'[w] = "fulfilled"
               PROVE  \E q \in Pairs : status'[q] = "completed" /\ w \in relies'[q]
    BY DEF FulfilledByMatch
  <2>1. PICK q \in Pairs : status[q] = "completed" /\ w \in relies[q]
    BY DEF Consent, FulfilledByMatch
  <2>2. status'[q] = "completed"
    BY <2>1
  <2> QED BY <2>1, <2>2
<1> QED BY <1>1, <1>2 DEF Consent, WantsStored

LEMMA SettleIs ==
  ASSUME TypeOK, NEW p \in Pairs, NEW s, NEW W \in SUBSET (Pending \ {p}),
         status' = Settle(p, s, W)
  PROVE  /\ status'[p] = s
         /\ \A q \in Pairs \ {p} :
              status'[q] = status[q] \/ (status[q] = "pending" /\ status'[q] = "cancelled")
BY DEF TypeOK, Settle, Pending

\* The second confirmation: the wants are fulfilled by the match it completes.
LEMMA ConsentComplete2 ==
  ASSUME TypeOK, TypeOK', Poised, Consent, NEW p \in Pairs, NEW u \in UsersOf(p), CompleteBoth(p, u)
  PROVE  Consent'
<1>1. /\ status'[p] = "completed" /\ status[p] = "accepted"
      /\ \A q \in Pairs \ {p} :
           status'[q] = status[q] \/ (status[q] = "pending" /\ status'[q] = "cancelled")
  <2>1. Seen(MatchRow(p), Leaning(p)) \in SUBSET (Pending \ {p})
    BY OffersTyped, SeenTyped
  <2> QED BY <2>1, SettleIs DEF CompleteBoth, Left, Poised
<1>2. /\ confirmed'[p] = UsersOf(p) /\ plan[p] # NoPlan
      /\ \A q \in Pairs \ {p} : confirmed'[q] = confirmed[q]
      /\ UNCHANGED <<relies, accepted, plan, found>>
  BY DEF CompleteBoth, Left, Poised, TypeOK, passVars
<1>3. \A w \in Wants :
        want'[w] = IF w \in relies[p] /\ want[w] = "active" THEN "fulfilled" ELSE want[w]
  BY DEF CompleteBoth
<1>4. \A q \in Pairs : relies[q] \subseteq Wants
  BY DEF TypeOK
<1>5. Consented(p)'
  <2>1. accepted[p] = UsersOf(p)
    BY <1>1 DEF Consent, Consented
  <2>2. \A w \in relies'[p] : want'[w] # "active"
    BY <1>2, <1>3, <1>4
  <2> QED BY <1>1, <1>2, <2>1, <2>2 DEF Consented
<1>6. ASSUME NEW q \in Pairs \ {p} PROVE Consented(q)'
  <2>1. \A w \in relies[q] : want[w] # "active" => want'[w] # "active"
    BY <1>3, <1>4
  <2> QED BY <1>1, <1>2, <2>1 DEF Consent, Consented
<1>7. FulfilledByMatch'
  <2> SUFFICES ASSUME NEW w \in Wants, want'[w] = "fulfilled"
               PROVE  \E q \in Pairs : status'[q] = "completed" /\ w \in relies'[q]
    BY DEF FulfilledByMatch
  <2>1. CASE w \in relies[p]
    BY <1>1, <1>2, <2>1
  <2>2. CASE w \notin relies[p]
    <3>1. PICK q \in Pairs : status[q] = "completed" /\ w \in relies[q]
      BY <1>3, <2>2 DEF Consent, FulfilledByMatch
    <3>2. status'[q] = "completed"
      BY <1>1, <3>1
    <3> QED BY <1>2, <3>1, <3>2
  <2> QED BY <2>1, <2>2
<1>8. WantsStored'
  <2>1. \A w \in Wants : want[w] # "absent" => want'[w] # "absent"
    BY <1>3
  <2> QED BY <1>2, <1>4, <2>1 DEF Consent, WantsStored, TypeOK
<1> QED BY <1>5, <1>6, <1>7, <1>8 DEF Consent

LEMMA ConsentMatchMove == ASSUME TypeOK, TypeOK', Poised, Consent, MatchMove PROVE Consent'
<1>1. PICK p \in Pairs : \E u \in UsersOf(p) :
        \/ AcceptFirst(p, u) \/ AcceptBoth(p, u) \/ AcceptUnavailable(p, u)
        \/ Decline(p, u) \/ Cancel(p, u)
        \/ \E x \in Plans : SetExchange(p, u, x)
        \/ CompleteFirst(p, u) \/ CompleteBoth(p, u)
  BY DEF MatchMove
<1>2. PICK u \in UsersOf(p) :
        \/ AcceptFirst(p, u) \/ AcceptBoth(p, u) \/ AcceptUnavailable(p, u)
        \/ Decline(p, u) \/ Cancel(p, u)
        \/ \E x \in Plans : SetExchange(p, u, x)
        \/ CompleteFirst(p, u) \/ CompleteBoth(p, u)
  BY <1>1
<1>3. Consented(p) /\ UsersOf(p) # {} /\ {u} # UsersOf(p) /\ {} # UsersOf(p)
  BY TwoUsers DEF Consent
<1>4. CASE AcceptFirst(p, u)
  <2>1. Consented(p)'
    BY <1>3, <1>4 DEF AcceptFirst, Consented, TypeOK, wantVars
  <2> QED BY <1>4, <2>1, ConsentDeal DEF AcceptFirst, TypeOK, wantVars, passVars
<1>5. CASE AcceptBoth(p, u)
  <2>1. /\ status'[p] = "accepted"
        /\ \A q \in Pairs \ {p} :
             status'[q] = status[q] \/ (status[q] = "pending" /\ status'[q] = "cancelled")
    BY <1>5, OffersTyped, SettleIs DEF AcceptBoth
  <2>2. Consented(p)'
    BY <1>3, <1>5, <2>1 DEF AcceptBoth, Consented, TypeOK, wantVars
  <2> QED BY <1>5, <2>1, <2>2, ConsentDeal DEF AcceptBoth, TypeOK, wantVars, passVars
<1>6. CASE AcceptUnavailable(p, u) \/ Decline(p, u) \/ Cancel(p, u)
  <2>1. /\ status'[p] \in {"cancelled", "declined"}
        /\ \A q \in Pairs \ {p} : status'[q] = status[q]
    BY <1>6 DEF AcceptUnavailable, Decline, Cancel, Settle, TypeOK
  <2>2. Consented(p)'
    BY <1>3, <1>6, <2>1 DEF AcceptUnavailable, Decline, Cancel, Consented, TypeOK, wantVars
  <2> QED BY <1>6, <2>1, <2>2, ConsentDeal
          DEF AcceptUnavailable, Decline, Cancel, TypeOK, wantVars, passVars
<1>7. ASSUME NEW x \in Plans, SetExchange(p, u, x) PROVE Consent'
  <2>1. x # NoPlan
    BY PlansAssumption
  <2>2. Consented(p)'
    BY <1>3, <1>7, <2>1 DEF SetExchange, Consented, TypeOK, wantVars
  <2> QED BY <1>7, <2>2, ConsentDeal DEF SetExchange, TypeOK, wantVars, passVars
<1>8. CASE CompleteFirst(p, u)
  <2>1. Consented(p)'
    BY <1>3, <1>8 DEF CompleteFirst, Consented, TypeOK, wantVars
  <2> QED BY <1>8, <2>1, ConsentDeal DEF CompleteFirst, TypeOK, wantVars, passVars
<1>9. CASE CompleteBoth(p, u)
  BY <1>9, ConsentComplete2
<1> QED BY <1>2, <1>4, <1>5, <1>6, <1>7, <1>8, <1>9

LEMMA ConsentInit == Init => Consent
<1> SUFFICES ASSUME Init PROVE Consent
  OBVIOUS
<1>1. ASSUME NEW p \in Pairs PROVE Consented(p)
  <2>1. UsersOf(p) # {}
    BY DEF UsersOf
  <2> QED BY <2>1 DEF Init, Consented
<1> QED BY <1>1 DEF Init, Consent, FulfilledByMatch, WantsStored

\* Nobody is bound without having agreed, in any market: an agreed swap has two
\* acceptances, a completed one two confirmations of a plan, and a want is
\* fulfilled by a completed swap only.
THEOREM Consenting == Spec => []ConsentComplete
<1>1. TypeOK /\ TypeOK' /\ Poised /\ Consent /\ [Next]_vars => Consent'
  <2>1. ASSUME Consent, Idle PROVE Consent'
    BY <2>1 DEF Idle, wantVars, matchVars, dealVars, passVars,
                Consent, Consented, FulfilledByMatch, WantsStored
  <2> QED BY <2>1, StepIs, ConsentItemMove, ConsentWantMove, ConsentPassStep, ConsentMatchMove
<1>2. Consent => ConsentComplete
  BY DEF Consent, Consented, FulfilledByMatch, ConsentComplete
<1> QED BY <1>1, <1>2, ConsentInit, Typing, Poising, PTL DEF Spec
-----------------------------------------------------------------------------
(* What single steps may not do.                                           *)

\* Only SetExchange touches a plan, and a different plan drops the
\* confirmations.
LEMMA PlanStep ==
  ASSUME TypeOK, [Next]_vars, NEW p \in Pairs, confirmed[p] \cap confirmed'[p] # {}
  PROVE  plan'[p] = plan[p]
<1>1. ASSUME NEW q \in Pairs, NEW u \in UsersOf(q), NEW x \in Plans, SetExchange(q, u, x)
      PROVE  plan'[p] = plan[p]
  BY <1>1 DEF SetExchange, TypeOK
<1>2. CASE ItemMove \/ WantMove \/ PassStep \/ Idle
  BY <1>2 DEF Idle, ItemMove, Withdraw, CreateItem, CheckEdit, WriteEdit, DropEdit,
     WantMove, CancelWant, CreateWant, UpdateWant, PassStep, BeginPass, EndPass, FailPass,
     matchVars, dealVars
<1>3. CASE MatchMove
  BY <1>1, <1>3 DEF MatchMove, AcceptFirst, AcceptBoth, AcceptUnavailable, Decline, Cancel,
     CompleteFirst, CompleteBoth
<1> QED BY <1>2, <1>3, StepIs

\* A hand-over is confirmed for the plan that was confirmed, however many plans
\* there are.
THEOREM ConfirmedPlan == Spec => ConfirmationsBindPlan
<1>1. TypeOK /\ [Next]_vars =>
        [\A p \in Pairs : confirmed[p] \cap confirmed'[p] # {} => plan'[p] = plan[p]]_vars
  BY PlanStep
<1> QED BY <1>1, Typing, PTL DEF Spec, ConfirmationsBindPlan

\* What an open match rests on, and how a step may touch it.
Missed(p) == \E r \in leaving \ leaving' : <<r, p>> \in late
StillOpen ==
  \A p \in Pairs :
    status[p] = "pending" /\ Open(p) /\ status'[p] = "pending" => Open(p)' \/ Missed(p)

LEMMA OpenKept ==
  ASSUME TypeOK,
         \A p \in Pairs : status[p] = "pending" /\ status'[p] = "pending" /\ ~Missed(p) =>
           /\ relies'[p] = relies[p]
           /\ \A i \in ItemsOf(p) : item[i] = "available" => item'[i] = "available"
           /\ \A w \in relies[p] : want[w] = "active" => want'[w] = "active"
  PROVE  StillOpen
BY DEF StillOpen, Open, BothAvailable

LEMMA ItemMoveCleans == ASSUME TypeOK, ItemMove PROVE StillOpen
<1>0. UNCHANGED <<want, relies>>
  BY DEF ItemMove, Withdraw, CreateItem, CheckEdit, WriteEdit, DropEdit, wantVars, matchVars
<1>1. ASSUME NEW i \in Items, Withdraw(i) PROVE StillOpen
  <2>1. ASSUME NEW p \in Pairs, status[p] = "pending", status'[p] = "pending", ~Missed(p)
        PROVE  i \notin ItemsOf(p)
    <3>1. ItemRow(i) \in leaving \ leaving'
      BY <1>1 DEF Withdraw, Left
    <3>2. p \notin Seen(ItemRow(i), Offers(i))
      BY <1>1, <2>1 DEF Withdraw, CancelPending
    <3> QED BY <2>1, <3>1, <3>2 DEF Seen, Missed, Offers, Pending
  <2>2. \A j \in Items \ {i} : item'[j] = item[j]
    BY <1>1 DEF Withdraw, TypeOK
  <2> QED BY <1>0, <2>1, <2>2, PairTyped, OpenKept
<1>2. ASSUME NEW i \in Items, NEW l \in Listings,
             CreateItem(i, l) \/ CheckEdit(i, l) \/ WriteEdit(i, l) \/ DropEdit(i, l)
      PROVE  StillOpen
  <2>1. \A j \in Items : item[j] = "available" => item'[j] = "available"
    BY <1>2 DEF CreateItem, CheckEdit, WriteEdit, DropEdit, TypeOK
  <2> QED BY <1>0, <2>1, PairTyped, OpenKept
<1> QED BY <1>1, <1>2 DEF ItemMove

LEMMA WantMoveCleans == ASSUME TypeOK, WantMove PROVE StillOpen
<1>0. UNCHANGED <<item, relies>>
  BY DEF WantMove, CancelWant, CreateWant, UpdateWant, itemVars, matchVars
<1>1. ASSUME NEW w \in Wants, CancelWant(w) PROVE StillOpen
  <2>1. ASSUME NEW p \in Pairs, status[p] = "pending", status'[p] = "pending", ~Missed(p)
        PROVE  w \notin relies[p]
    <3>1. WantRow(w) \in leaving \ leaving'
      BY <1>1 DEF CancelWant, Left
    <3>2. p \notin Seen(WantRow(w), Serving(w))
      BY <1>1, <2>1 DEF CancelWant, CancelPending
    <3> QED BY <2>1, <3>1, <3>2 DEF Seen, Missed, Serving, Pending
  <2>2. \A v \in Wants \ {w} : want'[v] = want[v]
    BY <1>1 DEF CancelWant, TypeOK
  <2>3. \A p \in Pairs : relies[p] \subseteq Wants
    BY DEF TypeOK
  <2> QED BY <1>0, <2>1, <2>2, <2>3, OpenKept
<1>2. ASSUME NEW w \in Wants, NEW c \in Criteria, CreateWant(w, c) \/ UpdateWant(w, c)
      PROVE  StillOpen
  <2>1. \A v \in Wants : want[v] = "active" => want'[v] = "active"
    BY <1>2 DEF CreateWant, UpdateWant, TypeOK
  <2>2. \A p \in Pairs : relies[p] \subseteq Wants
    BY DEF TypeOK
  <2> QED BY <1>0, <2>1, <2>2, OpenKept
<1> QED BY <1>1, <1>2 DEF WantMove

LEMMA PassStepCleans == ASSUME TypeOK, PassStep PROVE StillOpen
<1>1. UNCHANGED <<item, want>>
  BY DEF PassStep, BeginPass, EndPass, FailPass, itemVars, wantVars
<1>2. \A p \in Pairs : status[p] = "pending" => relies'[p] = relies[p]
  BY DEF PassStep, BeginPass, EndPass, FailPass, matchVars
<1> QED BY <1>1, <1>2, OpenKept

LEMMA MatchMoveCleans == ASSUME TypeOK, Poised, MatchMove PROVE StillOpen
<1>0. UNCHANGED relies
  BY DEF MatchMove, AcceptFirst, AcceptBoth, AcceptUnavailable, Decline, Cancel, SetExchange,
         CompleteFirst, CompleteBoth
<1>1. PICK p \in Pairs : \E u \in UsersOf(p) :
        \/ AcceptFirst(p, u) \/ AcceptBoth(p, u) \/ AcceptUnavailable(p, u)
        \/ Decline(p, u) \/ Cancel(p, u)
        \/ \E x \in Plans : SetExchange(p, u, x)
        \/ CompleteFirst(p, u) \/ CompleteBoth(p, u)
  BY DEF MatchMove
<1>2. PICK u \in UsersOf(p) :
        \/ AcceptFirst(p, u) \/ AcceptBoth(p, u) \/ AcceptUnavailable(p, u)
        \/ Decline(p, u) \/ Cancel(p, u)
        \/ \E x \in Plans : SetExchange(p, u, x)
        \/ CompleteFirst(p, u) \/ CompleteBoth(p, u)
  BY <1>1
<1>3. CASE AcceptBoth(p, u)
  <2>1. UNCHANGED want /\ \A i \in Items \ ItemsOf(p) : item'[i] = item[i]
    BY <1>3 DEF AcceptBoth, MoveItems, wantVars, TypeOK
  <2>2. ASSUME NEW q \in Pairs, status[q] = "pending", status'[q] = "pending"
        PROVE  ItemsOf(q) \cap ItemsOf(p) = {}
    BY <1>3, <2>2 DEF AcceptBoth, Settle, Rivals, Pending
  <2> QED BY <1>0, <2>1, <2>2, PairTyped, OpenKept
<1>4. CASE CompleteBoth(p, u)
  <2>1. \A i \in Items : item[i] = "available" => item'[i] = "available"
    BY <1>4 DEF CompleteBoth, MoveItems, TypeOK
  <2>2. \A w \in Wants \ relies[p] : want'[w] = want[w]
    BY <1>4 DEF CompleteBoth
  <2>3. ASSUME NEW q \in Pairs, status[q] = "pending", status'[q] = "pending", ~Missed(q)
        PROVE  relies[q] \cap relies[p] = {}
    <3>1. MatchRow(p) \in leaving \ leaving' /\ status[p] = "accepted"
      BY <1>4 DEF CompleteBoth, Left, Poised
    <3>2. q \notin Seen(MatchRow(p), Leaning(p))
      BY <1>4, <2>3, <3>1 DEF CompleteBoth, Settle
    <3> QED BY <2>3, <3>1, <3>2 DEF Seen, Missed, Leaning, Pending
  <2>4. \A q \in Pairs : relies[q] \subseteq Wants
    BY DEF TypeOK
  <2> QED BY <1>0, <2>1, <2>2, <2>3, <2>4, PairTyped, OpenKept
<1>5. CASE ~(AcceptBoth(p, u) \/ CompleteBoth(p, u))
  <2>1. UNCHANGED want /\ \A i \in Items : item[i] = "available" => item'[i] = "available"
    BY <1>2, <1>5 DEF AcceptFirst, AcceptUnavailable, Decline, Cancel, SetExchange,
       CompleteFirst, MoveItems, itemVars, wantVars
  <2> QED BY <1>0, <2>1, PairTyped, OpenKept
<1> QED BY <1>3, <1>4, <1>5

\* No market has a step that takes an item or a want away from under a match and
\* leaves the match open, but for the matches that a pass has committed between
\* the sweep of that very transaction and its commit.
THEOREM NothingLeftBehind == Spec => CleanUp
<1>1. TypeOK /\ Poised /\ [Next]_vars => [StillOpen]_vars
  <2>1. ASSUME TypeOK, Idle PROVE StillOpen
    BY <2>1, OpenKept DEF Idle, itemVars, wantVars, matchVars
  <2> QED BY <2>1, StepIs, ItemMoveCleans, WantMoveCleans, PassStepCleans, MatchMoveCleans
<1> QED BY <1>1, Typing, Poising, PTL DEF Spec, CleanUp, StillOpen, Missed
-----------------------------------------------------------------------------
(* Who is told.                                                            *)

ClosedStates == {"declined", "cancelled"}

\* Nobody has closed a match that is not closed.
NotClosedYet == \A p \in Pairs : status[p] \notin ClosedStates => closedBy[p] = NoUser

\* What ClosureIsAnnounced says of one match.
Announced(p) ==
  status[p] \in ClosedStates =>
    /\ \E u \in UsersOf(p) : ToldClosed(u, p)
    /\ \A u \in UsersOf(p) :
         \/ ToldClosed(u, p)
         \/ closedBy[p] = u
         \/ closedBy[p] = NoUser /\ accepted[p] = UsersOf(p)

Telling == NotClosedYet /\ \A p \in Pairs : Announced(p)

\* A match that a step cancels among others, or leaves alone.
LEMMA AnnouncedKept ==
  ASSUME TypeOK, Telling, NEW p \in Pairs, inbox \subseteq inbox',
         accepted'[p] = accepted[p], closedBy'[p] = closedBy[p],
         \/ status'[p] = status[p]
         \/ status'[p] \notin ClosedStates /\ status[p] \notin ClosedStates
         \/ /\ status[p] \notin ClosedStates /\ status'[p] \in ClosedStates
            /\ \A u \in UsersOf(p) : ToldClosed(u, p)'
  PROVE  Announced(p)' /\ (status'[p] \notin ClosedStates => closedBy'[p] = NoUser)
<1>1. \A u \in UsersOf(p) : ToldClosed(u, p) => ToldClosed(u, p)'
  BY DEF ToldClosed
<1>2. UsersOf(p) # {}
  BY DEF UsersOf
<1> QED BY <1>1, <1>2 DEF Telling, NotClosedYet, Announced

\* Cancelled together: everybody is told.
LEMMA ToBothTells ==
  ASSUME "match_cancelled" \in Watched, NEW W \in SUBSET Pairs, NEW p \in W,
         ToBoth("match_cancelled", W) \subseteq inbox'
  PROVE  \A u \in UsersOf(p) : ToldClosed(u, p)'
<1>1. ASSUME NEW u \in UsersOf(p) PROVE <<u, "match_cancelled", p>> \in ToBoth("match_cancelled", W)
  BY PairTyped DEF ToBoth
<1> QED BY <1>1 DEF ToldClosed

LEMMA ToOtherTells ==
  ASSUME NEW t \in {"match_cancelled", "match_declined"}, t \in Watched,
         NEW p \in Pairs, NEW u, ToOther(u, t, p) \subseteq inbox'
  PROVE  \A v \in UsersOf(p) \ {u} : ToldClosed(v, p)'
<1>1. ASSUME NEW v \in UsersOf(p) \ {u} PROVE <<v, t, p>> \in ToOther(u, t, p)
  BY DEF ToOther
<1> QED BY <1>1 DEF ToldClosed

LEMMA CancelTells ==
  ASSUME TypeOK, Telling, "match_cancelled" \in Watched, NEW W \in SUBSET Pending,
         UNCHANGED <<accepted, closedBy>>, status' = CancelPending(W),
         inbox' = inbox \cup ToBoth("match_cancelled", W)
  PROVE  Telling'
<1>1. ASSUME NEW p \in Pairs
      PROVE  Announced(p)' /\ (status'[p] \notin ClosedStates => closedBy'[p] = NoUser)
  <2>1. CASE p \in W
    BY <2>1, ToBothTells, AnnouncedKept DEF CancelPending, Pending, ClosedStates
  <2>2. CASE p \notin W
    BY <2>2, AnnouncedKept DEF CancelPending
  <2> QED BY <2>1, <2>2
<1> QED BY <1>1 DEF Telling, NotClosedYet

\* The match of a step, beside those it cancels.
LEMMA SettleTells ==
  ASSUME TypeOK, Telling, "match_cancelled" \in Watched, NEW W \in SUBSET Pending,
         NEW p \in Pairs \ W, NEW s \in MatchStatus, status' = Settle(p, s, W),
         \A q \in Pairs \ {p} : accepted'[q] = accepted[q] /\ closedBy'[q] = closedBy[q],
         inbox \subseteq inbox', ToBoth("match_cancelled", W) \subseteq inbox',
         Announced(p)' /\ (s \notin ClosedStates => closedBy'[p] = NoUser)
  PROVE  Telling'
<1>1. ASSUME NEW q \in Pairs \ {p}
      PROVE  Announced(q)' /\ (status'[q] \notin ClosedStates => closedBy'[q] = NoUser)
  <2>1. CASE q \in W
    BY <2>1, ToBothTells, AnnouncedKept DEF Settle, Pending, ClosedStates
  <2>2. CASE q \notin W
    BY <2>2, AnnouncedKept DEF Settle
  <2> QED BY <2>1, <2>2
<1>2. status'[p] = s
  BY DEF Settle
<1> QED BY <1>1, <1>2 DEF Telling, NotClosedYet

LEMMA TellingMatchMove ==
  ASSUME TypeOK, Poised, Telling, {"match_declined", "match_cancelled"} \subseteq Watched, MatchMove
  PROVE  Telling'
<1>1. PICK p \in Pairs : \E u \in UsersOf(p) :
        \/ AcceptFirst(p, u) \/ AcceptBoth(p, u) \/ AcceptUnavailable(p, u)
        \/ Decline(p, u) \/ Cancel(p, u)
        \/ \E x \in Plans : SetExchange(p, u, x)
        \/ CompleteFirst(p, u) \/ CompleteBoth(p, u)
  BY DEF MatchMove
<1>2. PICK u \in UsersOf(p) :
        \/ AcceptFirst(p, u) \/ AcceptBoth(p, u) \/ AcceptUnavailable(p, u)
        \/ Decline(p, u) \/ Cancel(p, u)
        \/ \E x \in Plans : SetExchange(p, u, x)
        \/ CompleteFirst(p, u) \/ CompleteBoth(p, u)
  BY <1>1
<1>3. UsersOf(p) \ {u} # {}
  BY TwoUsers
<1>4. CASE AcceptFirst(p, u)
  <2>1. status'[p] \notin ClosedStates /\ closedBy' = closedBy /\ inbox \subseteq inbox'
    BY <1>4 DEF AcceptFirst, ClosedStates
  <2>2. \A q \in Pairs \ {p} : accepted'[q] = accepted[q] /\ status'[q] = status[q]
    BY <1>4 DEF AcceptFirst, TypeOK
  <2>3. status'[p] = status[p]
    BY <1>4 DEF AcceptFirst
  <2>4. \A q \in Pairs \ {p} :
          Announced(q)' /\ (status'[q] \notin ClosedStates => closedBy'[q] = NoUser)
    BY <2>1, <2>2, AnnouncedKept
  <2> QED BY <2>1, <2>3, <2>4 DEF Telling, NotClosedYet, Announced
<1>5. CASE AcceptBoth(p, u)
  <2>1. Rivals(p) \in SUBSET Pending /\ p \notin Rivals(p)
    BY OffersTyped
  <2>2. /\ status' = Settle(p, "accepted", Rivals(p)) /\ UNCHANGED closedBy
        /\ \A q \in Pairs \ {p} : accepted'[q] = accepted[q]
        /\ inbox \subseteq inbox' /\ ToBoth("match_cancelled", Rivals(p)) \subseteq inbox'
        /\ status[p] = "pending"
    BY <1>5 DEF AcceptBoth, TypeOK
  <2>3. Announced(p)' /\ closedBy'[p] = NoUser
    BY <2>2 DEF Announced, Settle, ClosedStates, Telling, NotClosedYet
  <2> QED BY <2>1, <2>2, <2>3, SettleTells DEF MatchStatus
<1>6. CASE AcceptUnavailable(p, u)
  <2>1. /\ status' = Settle(p, "cancelled", {}) /\ UNCHANGED closedBy
        /\ \A q \in Pairs \ {p} : accepted'[q] = accepted[q]
        /\ accepted'[p] = UsersOf(p) /\ status[p] = "pending"
        /\ inbox \subseteq inbox' /\ ToOther(u, "match_cancelled", p) \subseteq inbox'
    BY <1>6 DEF AcceptUnavailable, TypeOK
  <2>2. closedBy'[p] = NoUser /\ \A v \in UsersOf(p) \ {u} : ToldClosed(v, p)'
    BY <2>1, ToOtherTells DEF Telling, NotClosedYet, ClosedStates
  <2>3. Announced(p)'
    BY <1>3, <2>1, <2>2 DEF Announced
  <2>4. ToBoth("match_cancelled", {}) \subseteq inbox'
    BY DEF ToBoth
  <2> QED BY <2>1, <2>2, <2>3, <2>4, SettleTells DEF MatchStatus
<1>7. ASSUME NEW s \in ClosedStates, NEW t \in {"match_declined", "match_cancelled"},
             status' = Settle(p, s, {}), closedBy' = [closedBy EXCEPT ![p] = u],
             inbox' = inbox \cup ToOther(u, t, p), UNCHANGED accepted
      PROVE  Telling'
  <2>1. /\ closedBy'[p] = u /\ \A q \in Pairs \ {p} : closedBy'[q] = closedBy[q]
    BY <1>7 DEF TypeOK
  <2>2. \A v \in UsersOf(p) \ {u} : ToldClosed(v, p)'
    BY <1>7, ToOtherTells
  <2>3. Announced(p)'
    BY <1>3, <2>1, <2>2 DEF Announced
  <2>4. ToBoth("match_cancelled", {}) \subseteq inbox' /\ s \in MatchStatus
    BY DEF ToBoth, ClosedStates, MatchStatus
  <2> QED BY <1>7, <2>1, <2>3, <2>4, SettleTells
<1>8. CASE Decline(p, u) \/ Cancel(p, u)
  BY <1>7, <1>8 DEF Decline, Cancel, ClosedStates
<1>9. CASE CompleteFirst(p, u) \/ \E x \in Plans : SetExchange(p, u, x)
  <2>1. UNCHANGED <<status, accepted, closedBy>> /\ inbox \subseteq inbox'
    BY <1>9 DEF CompleteFirst, SetExchange
  <2> QED BY <2>1, AnnouncedKept DEF Telling, NotClosedYet
<1>10. CASE CompleteBoth(p, u)
  <2> DEFINE W == Seen(MatchRow(p), Leaning(p))
  <2>1. W \in SUBSET Pending /\ p \notin W
    BY OffersTyped, SeenTyped
  <2>2. /\ status' = Settle(p, "completed", W) /\ UNCHANGED <<accepted, closedBy>>
        /\ inbox \subseteq inbox' /\ ToBoth("match_cancelled", W) \subseteq inbox'
        /\ status[p] = "accepted"
    BY <1>10 DEF CompleteBoth, Left, Poised
  <2>3. Announced(p)' /\ closedBy'[p] = NoUser
    BY <2>2 DEF Announced, Settle, ClosedStates, Telling, NotClosedYet
  <2> QED BY <2>1, <2>2, <2>3, SettleTells DEF MatchStatus
<1> QED BY <1>2, <1>4, <1>5, <1>6, <1>8, <1>9, <1>10

LEMMA TellingStep ==
  ASSUME TypeOK, Poised, Telling, {"match_declined", "match_cancelled"} \subseteq Watched, [Next]_vars
  PROVE  Telling'
<1>1. CASE ItemMove
  <2>1. ASSUME NEW i \in Items, Withdraw(i) PROVE Telling'
    <3>1. Seen(ItemRow(i), Offers(i)) \in SUBSET Pending
      BY OffersTyped, SeenTyped
    <3> QED BY <2>1, <3>1, CancelTells DEF Withdraw, dealVars
  <2>2. CASE UNCHANGED <<status, accepted, closedBy, inbox>>
    BY <2>2, AnnouncedKept DEF Telling, NotClosedYet
  <2> QED BY <1>1, <2>1, <2>2 DEF ItemMove, CreateItem, CheckEdit, WriteEdit, DropEdit,
             matchVars, dealVars
<1>2. CASE WantMove
  <2>1. ASSUME NEW w \in Wants, CancelWant(w) PROVE Telling'
    <3>1. Seen(WantRow(w), Serving(w)) \in SUBSET Pending
      BY OffersTyped, SeenTyped
    <3> QED BY <2>1, <3>1, CancelTells DEF CancelWant, dealVars
  <2>2. CASE UNCHANGED <<status, accepted, closedBy, inbox>>
    BY <2>2, AnnouncedKept DEF Telling, NotClosedYet
  <2> QED BY <1>2, <2>1, <2>2 DEF WantMove, CreateWant, UpdateWant, matchVars, dealVars
<1>3. CASE PassStep \/ Idle
  <2>1. /\ UNCHANGED <<accepted, closedBy>> /\ inbox \subseteq inbox'
        /\ \A p \in Pairs : \/ status'[p] = status[p]
                            \/ status[p] = "none" /\ status'[p] = "pending"
    BY <1>3 DEF PassStep, BeginPass, EndPass, FailPass, Idle, matchVars, dealVars, TypeOK
  <2> QED BY <2>1, AnnouncedKept DEF Telling, NotClosedYet, ClosedStates
<1> QED BY <1>1, <1>2, <1>3, TellingMatchMove, StepIs

\* Nobody waits for an answer to a match that is closed, provided that the
\* notifications of closing are recorded.
THEOREM ClosureIsTold ==
  ASSUME {"match_declined", "match_cancelled"} \subseteq Watched
  PROVE  Spec => []ClosureIsAnnounced
<1>1. Init => Telling
  BY DEF Init, Telling, NotClosedYet, Announced, ClosedStates
<1>2. TypeOK /\ Poised /\ Telling /\ [Next]_vars => Telling'
  BY TellingStep
<1>3. Telling => ClosureIsAnnounced
  BY DEF Telling, Announced, ClosureIsAnnounced, ClosedStates
<1> QED BY <1>1, <1>2, <1>3, Typing, Poising, PTL DEF Spec
-----------------------------------------------------------------------------
(* What the promises of Barter come to for a single item, in any market that *)
(* keeps them.                                                             *)

CONSTANTS AnyItems, AnyPairs
VARIABLES anyStage, anyListed, anyRetired
Ideal == INSTANCE Barter WITH
  Items <- AnyItems, Pairs <- AnyPairs,
  stage <- anyStage, listed <- anyListed, retired <- anyRetired

\* OnePromisePerItem and RetiredIsFree are inductive together with the types:
\* only Agree binds items, and it asks for free ones.
PromiseInv == Ideal!TypeOK /\ Ideal!OnePromisePerItem /\ Ideal!RetiredIsFree

\* A step that binds no swap that was not bound before breaks neither.
LEMMA LooseningHolds ==
  ASSUME PromiseInv, Ideal!TypeOK', Ideal!At({"agreed", "done"})' \subseteq Ideal!At({"agreed", "done"}),
         \A i \in anyRetired' \ anyRetired : ~Ideal!Taken(i)
  PROVE  PromiseInv'
<1>1. Ideal!OnePromisePerItem' BY DEF PromiseInv, Ideal!OnePromisePerItem
<1>2. Ideal!RetiredIsFree'
  <2> SUFFICES ASSUME NEW i \in anyRetired', NEW p \in Ideal!At({"agreed", "done"})', i \in Ideal!ItemsOf(p)
               PROVE  FALSE
    BY DEF Ideal!RetiredIsFree, Ideal!Taken
  <2>1. p \in Ideal!At({"agreed", "done"}) /\ Ideal!Taken(i) BY DEF Ideal!Taken
  <2> QED BY <2>1 DEF PromiseInv, Ideal!RetiredIsFree
<1> QED BY <1>1, <1>2 DEF PromiseInv

\* Calling proposals off binds nothing.
LEMMA AdvanceOff ==
  ASSUME Ideal!TypeOK, NEW off \in SUBSET Ideal!At({"proposed"})
  PROVE  /\ Ideal!Advance(off, "off") \in [AnyPairs -> Ideal!Stages]
         /\ \A p \in AnyPairs :
              Ideal!Advance(off, "off")[p] \in {"agreed", "done"} => anyStage[p] = Ideal!Advance(off, "off")[p]
BY DEF Ideal!TypeOK, Ideal!Advance, Ideal!Stages

\* Every step keeps the invariant.
LEMMA PromiseHolds == ASSUME PromiseInv, [Ideal!Next]_(Ideal!vars) PROVE PromiseInv'
<1> USE DEF Ideal!Stages
<1>1. ASSUME NEW i \in AnyItems, Ideal!List(i) PROVE PromiseInv'
  BY <1>1, LooseningHolds DEF Ideal!List, PromiseInv, Ideal!TypeOK, Ideal!At
<1>2. ASSUME NEW i \in AnyItems, Ideal!Retire(i) PROVE PromiseInv'
  <2>1. PICK off \in SUBSET Ideal!At({"proposed"}) : anyStage' = Ideal!Advance(off, "off")
    BY <1>2 DEF Ideal!Retire
  <2>2. Ideal!At({"agreed", "done"})' \subseteq Ideal!At({"agreed", "done"})
    BY <2>1, AdvanceOff DEF PromiseInv, Ideal!At
  <2>3. Ideal!TypeOK' BY <1>2, <2>1, AdvanceOff DEF Ideal!Retire, PromiseInv, Ideal!TypeOK
  <2> QED BY <1>2, <2>2, <2>3, LooseningHolds DEF Ideal!Retire
<1>3. CASE Ideal!Propose
  <2>1. PICK new \in SUBSET Ideal!At({"none"}) : anyStage' = Ideal!Advance(new, "proposed")
    BY <1>3 DEF Ideal!Propose
  <2>2. Ideal!TypeOK' BY <1>3, <2>1 DEF Ideal!Propose, PromiseInv, Ideal!TypeOK, Ideal!Advance
  <2>3. Ideal!At({"agreed", "done"})' \subseteq Ideal!At({"agreed", "done"})
    BY <2>1 DEF PromiseInv, Ideal!TypeOK, Ideal!At, Ideal!Advance
  <2> QED BY <1>3, <2>2, <2>3, LooseningHolds DEF Ideal!Propose
<1>4. ASSUME NEW p \in AnyPairs, Ideal!Agree(p) PROVE PromiseInv'
  <2>1. PICK off \in SUBSET (Ideal!At({"proposed"}) \ {p}) :
          anyStage' = [Ideal!Advance(off, "off") EXCEPT ![p] = "agreed"]
    BY <1>4 DEF Ideal!Agree
  <2>2. /\ Ideal!TypeOK'
        /\ Ideal!At({"agreed", "done"})' \subseteq Ideal!At({"agreed", "done"}) \cup {p}
    BY <1>4, <2>1, AdvanceOff DEF Ideal!Agree, PromiseInv, Ideal!TypeOK, Ideal!At
  <2>3. ASSUME NEW q \in Ideal!At({"agreed", "done"}) PROVE Ideal!ItemsOf(p) \cap Ideal!ItemsOf(q) = {}
    BY <1>4, <2>3 DEF Ideal!Agree, Ideal!Taken
  <2>4. Ideal!OnePromisePerItem' BY <2>2, <2>3 DEF PromiseInv, Ideal!OnePromisePerItem
  <2>5. Ideal!RetiredIsFree' BY <1>4, <2>2 DEF Ideal!Agree, PromiseInv, Ideal!RetiredIsFree, Ideal!Taken
  <2> QED BY <2>2, <2>4, <2>5 DEF PromiseInv
<1>5. ASSUME NEW p \in AnyPairs, Ideal!CarryOut(p) PROVE PromiseInv'
  <2>1. PICK off \in SUBSET Ideal!At({"proposed"}) :
          anyStage' = [Ideal!Advance(off, "off") EXCEPT ![p] = "done"]
    BY <1>5 DEF Ideal!CarryOut
  <2>2. /\ Ideal!TypeOK'
        /\ Ideal!At({"agreed", "done"})' \subseteq Ideal!At({"agreed", "done"})
    BY <1>5, <2>1, AdvanceOff DEF Ideal!CarryOut, PromiseInv, Ideal!TypeOK, Ideal!At
  <2> QED BY <1>5, <2>2, LooseningHolds DEF Ideal!CarryOut
<1>6. CASE Ideal!CallOff
  <2>1. Ideal!TypeOK' /\ Ideal!At({"agreed", "done"})' \subseteq Ideal!At({"agreed", "done"})
    BY <1>6, AdvanceOff DEF Ideal!CallOff, PromiseInv, Ideal!TypeOK, Ideal!At, Ideal!Advance
  <2> QED BY <1>6, <2>1, LooseningHolds DEF Ideal!CallOff
<1>7. CASE UNCHANGED Ideal!vars
  BY <1>7, LooseningHolds DEF PromiseInv, Ideal!TypeOK, Ideal!At, Ideal!vars
<1> QED BY <1>1, <1>2, <1>3, <1>4, <1>5, <1>6, <1>7 DEF Ideal!Next

\* An item is promised to one swap at most, and to none once it is retired: so
\* it is in every system that implements Barter.
THEOREM OnePromise == Ideal!Spec => [](Ideal!OnePromisePerItem /\ Ideal!RetiredIsFree)
<1>1. Ideal!Init => PromiseInv
  BY DEF Ideal!Init, PromiseInv, Ideal!TypeOK, Ideal!OnePromisePerItem, Ideal!RetiredIsFree, Ideal!At, Ideal!Stages
<1>2. PromiseInv /\ [Ideal!Next]_(Ideal!vars) => PromiseInv' BY PromiseHolds
<1>3. PromiseInv => Ideal!OnePromisePerItem /\ Ideal!RetiredIsFree BY DEF PromiseInv
<1> QED BY <1>1, <1>2, <1>3, PTL DEF Ideal!Spec
=============================================================================
