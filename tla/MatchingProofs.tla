--------------------------- MODULE MatchingProofs ---------------------------
(***************************************************************************)
(* The matching statement finds what it is for, whatever people list and   *)
(* want; what they type is stored and found as they mean it; and the       *)
(* worker that runs the statement misses no change.                        *)
(***************************************************************************)
EXTENDS Discovery, MatchWorker, SequenceTheorems, WellFoundedInduction, TLAPS

\* A row of a table that its validation has accepted.
ItemRow(r) ==
  /\ r = [listing |-> r.listing, status |-> r.status]
  /\ r.listing.condition \in Range(Conditions)
  /\ r.listing.value \in Nat \cup {Missing}
WantRow(r) ==
  /\ r = [request |-> r.request, status |-> r.status]
  /\ r.request.min \in Range(Conditions) \cup {Missing}

Tables ==
  /\ DOMAIN items = Items /\ \A i \in Items : items[i] # Missing => ItemRow(items[i])
  /\ DOMAIN wants = Wants /\ \A w \in Wants : wants[w] # Missing => WantRow(wants[w])

\* The canonical order of the items of a match, which the table demands.
Ordered == \A row \in matches : row.itemA \in Items /\ row.itemB \in Items /\ row.itemA < row.itemB

Inv == Tables /\ Ordered /\ EverySwapOnce
-----------------------------------------------------------------------------
(* The tables.                                                             *)

\* What is saved of a listing is valid.
LEMMA SaveItemHolds ==
  ASSUME Tables, NEW i \in Items, NEW req \in Listings[i], SaveItem(i, req)
  PROVE  Tables'
<1> DEFINE listing == NormalListing(req)
<1>1. req \in Listing BY DiscoveryAssumption
<1>2. listing.value = req.value BY <1>1 DEF NormalListing, Listing
<1>3. listing.condition \in Range(Conditions) /\ (listing.value # Missing => listing.value >= 0)
  BY DEF SaveItem, ValidListing
<1>4. listing.value \in Nat \cup {Missing} BY <1>1, <1>2, <1>3 DEF Listing
<1> HIDE DEF listing
<1>5. ItemRow([listing |-> listing, status |-> "available"]) BY <1>3, <1>4 DEF ItemRow
<1>6. items' = [items EXCEPT ![i] = [listing |-> listing, status |-> "available"]] /\ wants' = wants
  BY DEF SaveItem, listing
<1> QED BY <1>5, <1>6 DEF Tables

\* What is saved of a want is valid.
LEMMA SaveWantHolds ==
  ASSUME Tables, NEW w \in Wants, NEW req \in Requests[w], SaveWant(w, req)
  PROVE  Tables'
<1> DEFINE sent == NormalRequest(req)
<1>1. sent.min \in Range(Conditions) \cup {Missing} BY DEF SaveWant, ValidRequest
<1> HIDE DEF sent
<1>2. WantRow([request |-> sent, status |-> "active"]) BY <1>1 DEF WantRow
<1>3. wants' = [wants EXCEPT ![w] = [request |-> sent, status |-> "active"]] /\ items' = items
  BY DEF SaveWant, sent
<1> QED BY <1>2, <1>3 DEF Tables

\* A row that only changes its status keeps the rest.
LEMMA LeaveHolds ==
  ASSUME Tables
  PROVE  /\ \A i \in Items : LeaveMarket(i) => Tables'
         /\ \A w \in Wants : CloseWant(w) => Tables'
<1>1. ASSUME NEW i \in Items, LeaveMarket(i) PROVE Tables'
  <2>1. ItemRow(items[i]) BY <1>1 DEF LeaveMarket, Available, Tables
  <2>2. [items[i] EXCEPT !.status = "gone"] = [listing |-> items[i].listing, status |-> "gone"]
    BY <2>1 DEF ItemRow
  <2>3. ItemRow([listing |-> items[i].listing, status |-> "gone"]) BY <2>1 DEF ItemRow
  <2>4. items' = [items EXCEPT ![i] = [listing |-> items[i].listing, status |-> "gone"]] /\ wants' = wants
    BY <1>1, <2>2 DEF LeaveMarket
  <2> QED BY <2>3, <2>4 DEF Tables
<1>2. ASSUME NEW w \in Wants, CloseWant(w) PROVE Tables'
  <2>1. WantRow(wants[w]) BY <1>2 DEF CloseWant, Active, Tables
  <2>2. [wants[w] EXCEPT !.status = "closed"] = [request |-> wants[w].request, status |-> "closed"]
    BY <2>1 DEF WantRow
  <2>3. WantRow([request |-> wants[w].request, status |-> "closed"]) BY <2>1 DEF WantRow
  <2>4. wants' = [wants EXCEPT ![w] = [request |-> wants[w].request, status |-> "closed"]] /\ items' = items
    BY <1>2, <2>2 DEF CloseWant
  <2> QED BY <2>3, <2>4 DEF Tables
<1> QED BY <1>1, <1>2

\* Every step leaves valid rows.
LEMMA TablesHold == ASSUME Tables, [Next]_vars PROVE Tables'
<1>1. ASSUME NEW i \in Items, CreateItem(i) \/ UpdateItem(i) PROVE Tables'
  BY <1>1, SaveItemHolds DEF CreateItem, UpdateItem
<1>2. ASSUME NEW w \in Wants, CreateWant(w) \/ UpdateWant(w) PROVE Tables'
  BY <1>2, SaveWantHolds DEF CreateWant, UpdateWant
<1>3. CASE Pass \/ UNCHANGED vars BY <1>3 DEF Pass, vars, Tables
<1> QED BY <1>1, <1>2, <1>3, LeaveHolds DEF Next
-----------------------------------------------------------------------------
(* The matching statement.                                                 *)

\* The place of a condition in the catalogue, the best first.
Place(c) == CHOOSE k \in DOMAIN Conditions : Conditions[k] = c

\* The rank of the database and the place in the catalogue order conditions alike.
LEMMA RanksArePlaces ==
  ASSUME NEW c \in Range(Conditions), NEW d \in Range(Conditions)
  PROVE  /\ Place(c) <= Place(d) <=> ConditionRank(c) >= ConditionRank(d)
         /\ ConditionRank(c) >= ConditionRank("poor")
<1>1. /\ Place(c) \in DOMAIN Conditions /\ Conditions[Place(c)] = c
      /\ Place(d) \in DOMAIN Conditions /\ Conditions[Place(d)] = d
  BY DEF Place, Range
<1>2. DOMAIN Conditions \subseteq Nat BY ConditionsAreRanked
<1>3. ConditionRank(c) \in 0..5 /\ ConditionRank(d) \in 0..5 /\ ConditionRank("poor") = 1
  BY DEF ConditionRank
<1>4. /\ Place(c) < Place(d) => ConditionRank(c) > ConditionRank(d)
      /\ Place(d) < Place(c) => ConditionRank(d) > ConditionRank(c)
      /\ ConditionRank(c) > 0
  BY <1>1, ConditionsAreRanked
<1>5. Place(c) = Place(d) => c = d BY <1>1
<1> QED BY <1>1, <1>2, <1>3, <1>4, <1>5

\* The entry of want_items for a want and an item.
Entry(w, i) ==
  [want |-> w, wanter |-> Wanter[w], item |-> i, owner |-> Owner[i], value |-> items[i].listing.value]

\* want_items has an entry for each want and each item that its user would take.
LEMMA WantItemsAre ==
  ASSUME Tables
  PROVE  /\ \A w \in Wants, i \in Items : WouldTake(w, i) => Entry(w, i) \in WantItems
         /\ \A x \in WantItems : \E w \in Wants, i \in Items : WouldTake(w, i) /\ x = Entry(w, i)
<1> DEFINE Fits(w, i) ==
      /\ Active(w) /\ Available(i)
      /\ items[i].listing.category = wants[w].request.category
      /\ Owner[i] # Wanter[w]
      /\ GoodEnough(items[i].listing, wants[w].request)
      /\ HasKeyword(items[i].listing, wants[w].request)
<1>1. ASSUME NEW w \in Wants, NEW i \in Items PROVE WouldTake(w, i) <=> Fits(w, i)
  <2>1. ASSUME Active(w), Available(i)
        PROVE  GoodEnough(items[i].listing, wants[w].request) <=>
                 (wants[w].request.min \in Range(Conditions) =>
                    Place(items[i].listing.condition) <= Place(wants[w].request.min))
    <3>1. /\ items[i].listing.condition \in Range(Conditions)
          /\ wants[w].request.min \in Range(Conditions) \cup {Missing}
      BY <2>1 DEF Active, Available, Tables, ItemRow, WantRow
    <3>2. CASE wants[w].request.min = Missing
      <4>1. Missing \notin Range(Conditions)
        BY DiscoveryAssumption, ConditionsAreRanked DEF Range
      <4> QED BY <3>1, <3>2, <4>1, RanksArePlaces DEF GoodEnough
    <3>3. CASE wants[w].request.min # Missing
      BY <3>1, <3>3, RanksArePlaces DEF GoodEnough
    <3> QED BY <3>2, <3>3
  <2> QED BY <2>1 DEF WouldTake, Place
<1>2. WantItems = {Entry(p[1], p[2]) : p \in {q \in Wants \X Items : Fits(q[1], q[2])}}
  BY DEF WantItems, Entry
<1> HIDE DEF Fits
<1>3. ASSUME NEW w \in Wants, NEW i \in Items, WouldTake(w, i) PROVE Entry(w, i) \in WantItems
  <2>1. <<w, i>> \in {q \in Wants \X Items : Fits(q[1], q[2])} BY <1>1, <1>3
  <2> QED BY <1>2, <2>1
<1>4. ASSUME NEW x \in WantItems PROVE \E w \in Wants, i \in Items : WouldTake(w, i) /\ x = Entry(w, i)
  <2>1. PICK p \in {q \in Wants \X Items : Fits(q[1], q[2])} : x = Entry(p[1], p[2]) BY <1>2
  <2> QED BY <1>1, <2>1
<1> QED BY <1>3, <1>4

\* The rows that the statement selects before it leaves out what is there.
Found == {Row(p[1], p[2]) : p \in {q \in WantItems \X WantItems : Joined(q[1], q[2])}}

\* The statement finds the swaps whose users would take each other's items, in
\* the orientation of the table.
LEMMA FoundAre ==
  ASSUME Tables
  PROVE  /\ \A v, w \in Wants, i, j \in Items :
              /\ WouldTake(v, i) /\ WouldTake(w, j) /\ i < j
              /\ Wanter[v] = Owner[j] /\ Wanter[w] = Owner[i]
              => Row(Entry(v, i), Entry(w, j)) \in Found
         /\ \A row \in Found : \E v, w \in Wants, i, j \in Items :
              /\ WouldTake(v, i) /\ WouldTake(w, j) /\ i < j
              /\ Wanter[v] = Owner[j] /\ Wanter[w] = Owner[i]
              /\ row = Row(Entry(v, i), Entry(w, j))
<1>1. ASSUME NEW v \in Wants, NEW w \in Wants, NEW i \in Items, NEW j \in Items,
             WouldTake(v, i), WouldTake(w, j), i < j, Wanter[v] = Owner[j], Wanter[w] = Owner[i]
      PROVE  Row(Entry(v, i), Entry(w, j)) \in Found
  <2>1. Joined(Entry(v, i), Entry(w, j)) BY <1>1 DEF Joined, Entry
  <2>2. Entry(v, i) \in WantItems /\ Entry(w, j) \in WantItems BY <1>1, WantItemsAre
  <2>3. <<Entry(v, i), Entry(w, j)>> \in {q \in WantItems \X WantItems : Joined(q[1], q[2])}
    BY <2>1, <2>2
  <2> QED BY <2>3 DEF Found
<1>2. ASSUME NEW row \in Found
      PROVE  \E v, w \in Wants, i, j \in Items :
              /\ WouldTake(v, i) /\ WouldTake(w, j) /\ i < j
              /\ Wanter[v] = Owner[j] /\ Wanter[w] = Owner[i]
              /\ row = Row(Entry(v, i), Entry(w, j))
  <2>1. PICK p \in {q \in WantItems \X WantItems : Joined(q[1], q[2])} : row = Row(p[1], p[2])
    BY DEF Found
  <2>2. PICK x \in WantItems, y \in WantItems : Joined(x, y) /\ row = Row(x, y) BY <2>1
  <2>3. PICK v \in Wants, i \in Items : WouldTake(v, i) /\ x = Entry(v, i) BY WantItemsAre
  <2>4. PICK w \in Wants, j \in Items : WouldTake(w, j) /\ y = Entry(w, j) BY WantItemsAre
  <2>5. i < j /\ Wanter[v] = Owner[j] /\ Wanter[w] = Owner[i]
    BY <2>2, <2>3, <2>4 DEF Joined, Entry
  <2> QED BY <2>2, <2>3, <2>4, <2>5
<1> QED BY <1>1, <1>2

\* What a pass inserts.
LEMMA PassInserts ==
  ASSUME Pass
  PROVE  /\ matches \subseteq matches' /\ matches' \ matches \subseteq Found
         /\ \A row \in Found : \E other \in matches' : PairOf(other) = PairOf(row)
         /\ \A row \in matches' \ matches :
              /\ \A other \in matches : PairOf(other) # PairOf(row)
              /\ \A other \in matches' \ matches : PairOf(other) = PairOf(row) => other = row
<1> DEFINE pairs == {PairOf(row) : row \in Found} \ {PairOf(row) : row \in matches}
<1>1. PICK kept \in [pairs -> Found] :
        (\A p \in pairs : PairOf(kept[p]) = p) /\ matches' = matches \cup Range(kept)
  BY DEF Pass, Found
<1>2. \A p \in pairs : kept[p] \in Found /\ PairOf(kept[p]) = p /\ kept[p] \in matches'
  BY <1>1 DEF Range
<1>3. \A row \in matches' \ matches : \E p \in pairs : row = kept[p] BY <1>1 DEF Range
<1>4. \A row \in Found : \E other \in matches' : PairOf(other) = PairOf(row)
  <2>1. ASSUME NEW row \in Found PROVE \E other \in matches' : PairOf(other) = PairOf(row)
    <3>1. CASE PairOf(row) \in pairs BY <1>2, <3>1
    <3>2. CASE PairOf(row) \notin pairs BY <1>1, <3>2
    <3> QED BY <3>1, <3>2
  <2> QED BY <2>1
<1>5. \A row \in matches' \ matches :
        /\ \A other \in matches : PairOf(other) # PairOf(row)
        /\ \A other \in matches' \ matches : PairOf(other) = PairOf(row) => other = row
  BY <1>2, <1>3
<1>6. matches' \ matches \subseteq Found BY <1>2, <1>3
<1> QED BY <1>1, <1>4, <1>5, <1>6

\* What the rows of a pass come from.
LEMMA FoundRow ==
  ASSUME NEW v, NEW w, NEW i, NEW j, NEW row, row = Row(Entry(v, i), Entry(w, j))
  PROVE  /\ row.itemA = i /\ row.itemB = j /\ PairOf(row) = <<i, j>>
         /\ row.userA = Owner[i] /\ row.userB = Owner[j]
         /\ row.wantA = w /\ row.wantB = v
         /\ row.score = Score(items[i].listing.value, items[j].listing.value)
BY DEF Row, Entry, PairOf

\* A row names its two items in their order, so a pair of items is one pair of ids.
LEMMA SamePair ==
  ASSUME NEW r, NEW s, r.itemA \in Nat, r.itemB \in Nat, r.itemA < r.itemB,
         s.itemA \in Nat, s.itemB \in Nat, s.itemA < s.itemB
  PROVE  {r.itemA, r.itemB} = {s.itemA, s.itemB} <=> PairOf(r) = PairOf(s)
<1>1. ASSUME {r.itemA, r.itemB} = {s.itemA, s.itemB} PROVE r.itemA = s.itemA /\ r.itemB = s.itemB
  <2>1. /\ r.itemA = s.itemA \/ r.itemA = s.itemB
        /\ r.itemB = s.itemA \/ r.itemB = s.itemB
    BY <1>1
  <2> QED BY <2>1
<1> QED BY <1>1 DEF PairOf

\* A pass keeps the order of the items and finds every swap once.
LEMMA PassKeeps ==
  ASSUME Inv, Pass
  PROVE  Ordered' /\ EverySwapOnce'
<1>1. UNCHANGED <<items, wants, typed>> BY DEF Pass
<1>2. \A row \in Found : row.itemA \in Items /\ row.itemB \in Items /\ row.itemA < row.itemB
  BY FoundAre, FoundRow DEF Inv
<1>3. Ordered' BY <1>2, PassInserts DEF Inv, Ordered
<1>4. ASSUME NEW i \in Items, NEW j \in Items, NEW v \in Wants, NEW w \in Wants,
             Wanter[v] = Owner[j], WouldTake(v, i), Wanter[w] = Owner[i], WouldTake(w, j)
      PROVE  \E row \in matches' : {row.itemA, row.itemB} = {i, j}
  <2>1. i # j BY <1>4 DEF WouldTake
  <2>2. ASSUME NEW row \in Found, {row.itemA, row.itemB} = {i, j}
        PROVE  \E other \in matches' : {other.itemA, other.itemB} = {i, j}
    <3>1. PICK other \in matches' : PairOf(other) = PairOf(row) BY PassInserts
    <3>2. other.itemA = row.itemA /\ other.itemB = row.itemB BY <3>1 DEF PairOf
    <3> QED BY <2>2, <3>1, <3>2
  <2>3. CASE i < j
    <3>1. Row(Entry(v, i), Entry(w, j)) \in Found BY <1>4, <2>3, FoundAre DEF Inv
    <3>2. PICK row \in Found : row.itemA = i /\ row.itemB = j BY <3>1, FoundRow
    <3> QED BY <2>2, <3>2
  <2>4. CASE j < i
    <3>1. Row(Entry(w, j), Entry(v, i)) \in Found BY <1>4, <2>4, FoundAre DEF Inv
    <3>2. PICK row \in Found : row.itemA = j /\ row.itemB = i BY <3>1, FoundRow
    <3> QED BY <2>2, <3>2
  <2> QED BY <2>1, <2>3, <2>4, DiscoveryAssumption
<1>5. ASSUME NEW row \in matches', NEW other \in matches',
             {row.itemA, row.itemB} = {other.itemA, other.itemB}
      PROVE  row = other
  <2>1. PairOf(row) = PairOf(other) BY <1>3, <1>5, SamePair, DiscoveryAssumption DEF Ordered
  <2>2. CASE row \in matches /\ other \in matches BY <1>5, <2>2 DEF Inv, EverySwapOnce
  <2>3. CASE row \notin matches BY <2>1, <2>3, PassInserts
  <2>4. CASE other \notin matches BY <2>1, <2>4, PassInserts
  <2> QED BY <2>2, <2>3, <2>4
<1>6. \A w \in Wants, i \in Items : WouldTake(w, i)' = WouldTake(w, i)
  BY <1>1 DEF WouldTake, Active, Available
<1>7. EverySwapOnce' BY <1>4, <1>5, <1>6 DEF EverySwapOnce
<1> QED BY <1>3, <1>7

\* So does every step: what changes the market unsettles it.
LEMMA StepHolds == ASSUME Inv, [Next]_vars PROVE Inv'
<1>1. Tables' BY TablesHold DEF Inv
<1>2. CASE Pass BY <1>1, <1>2, PassKeeps DEF Inv
<1>3. CASE matches' = matches /\ settled' = FALSE
  BY <1>1, <1>3 DEF Inv, Ordered, EverySwapOnce
<1>4. CASE UNCHANGED vars
  <2>1. \A w \in Wants, i \in Items : WouldTake(w, i)' = WouldTake(w, i)
    BY <1>4 DEF vars, WouldTake, Active, Available
  <2>2. EverySwapOnce' BY <1>4, <2>1 DEF vars, Inv, EverySwapOnce
  <2> QED BY <1>1, <1>4, <2>2 DEF vars, Inv, Ordered
<1>5. ASSUME NEW i \in Items, CreateItem(i) \/ UpdateItem(i) \/ LeaveMarket(i)
      PROVE  matches' = matches /\ settled' = FALSE
  BY <1>5 DEF CreateItem, UpdateItem, LeaveMarket, SaveItem
<1>6. ASSUME NEW w \in Wants, CreateWant(w) \/ UpdateWant(w) \/ CloseWant(w)
      PROVE  matches' = matches /\ settled' = FALSE
  BY <1>6 DEF CreateWant, UpdateWant, CloseWant, SaveWant
<1> QED BY <1>2, <1>3, <1>4, <1>5, <1>6 DEF Next

\* The empty market.
LEMMA InitHolds == Init => Inv
<1> SUFFICES ASSUME Init PROVE Inv OBVIOUS
<1>1. Tables BY DEF Init, Tables
<1>2. Ordered /\ EverySwapOnce BY DEF Init, Ordered, EverySwapOnce
<1> QED BY <1>1, <1>2 DEF Inv

\* After a pass every swap that two users would agree to is a match, and none is
\* one twice, for any listings and wants of any number of users.
THEOREM SwapsAreFoundOnce == Spec => []EverySwapOnce
<1>1. Inv /\ [Next]_vars => Inv' BY StepHolds
<1>2. Inv => EverySwapOnce BY DEF Inv
<1> QED BY <1>1, <1>2, InitHolds, PTL DEF Spec
-----------------------------------------------------------------------------
\* The score is a percentage, full for equal values and only for them.
LEMMA ScoreIs ==
  ASSUME NEW a \in Nat \cup {Missing}, NEW b \in Nat \cup {Missing}
  PROVE  Score(a, b) \in 0..100 /\ (Score(a, b) = 100 <=> (a = b /\ a # Missing))
<1>0. Missing \notin Nat BY DiscoveryAssumption
<1>1. CASE a = Missing \/ b = Missing BY <1>0, <1>1 DEF Score
<1>2. CASE a \in Nat /\ b \in Nat
  <2>1. ASSUME NEW l \in Nat, NEW g \in Nat, l <= g, g # 0
        PROVE  (l * 100) \div g \in 0..100 /\ ((l * 100) \div g = 100 <=> l = g)
    <3>1. g > 0 BY <2>1
    <3>2. (l * 100) \div g \in Int BY <3>1
    <3>3. (l * 100) \div g >= 0 BY <3>1
    <3>4. (l * 100) \div g <= 100 BY <2>1, <3>1
    <3>5. l < g => (l * 100) \div g < 100 BY <3>1
    <3>6. l = g => (l * 100) \div g = 100 BY <3>1
    <3> QED BY <2>1, <3>2, <3>3, <3>4, <3>5, <3>6
  <2>2. CASE a >= b BY <1>0, <1>2, <2>1, <2>2 DEF Score
  <2>3. CASE a < b BY <1>0, <1>2, <2>1, <2>3 DEF Score
  <2> QED BY <1>2, <2>2, <2>3
<1> QED BY <1>1, <1>2

\* A new match is a swap its users asked for, with the score it deserves.
THEOREM SuggestionsAreWanted == Spec => SuggestionsFit
<1>1. ASSUME Inv, Pass, NEW row \in matches' \ matches
      PROVE  /\ row.userA = Owner[row.itemA] /\ row.userB = Owner[row.itemB]
             /\ row.userA = Wanter[row.wantA] /\ WouldTake(row.wantA, row.itemB)
             /\ row.userB = Wanter[row.wantB] /\ WouldTake(row.wantB, row.itemA)
             /\ LET a == items[row.itemA].listing.value
                    b == items[row.itemB].listing.value
                IN  /\ row.score \in 0..100
                    /\ row.score = 100 <=> (a = b /\ a # Missing)
  <2>1. row \in Found BY <1>1, PassInserts
  <2>2. PICK v \in Wants, w \in Wants, i \in Items, j \in Items :
              /\ WouldTake(v, i) /\ WouldTake(w, j) /\ i < j
              /\ Wanter[v] = Owner[j] /\ Wanter[w] = Owner[i]
              /\ row = Row(Entry(v, i), Entry(w, j))
    BY <1>1, <2>1, FoundAre DEF Inv
  <2>3. /\ items[i].listing.value \in Nat \cup {Missing}
        /\ items[j].listing.value \in Nat \cup {Missing}
    BY <1>1, <2>2 DEF WouldTake, Available, Inv, Tables, ItemRow
  <2>4. /\ row.itemA = i /\ row.itemB = j
        /\ row.userA = Owner[i] /\ row.userB = Owner[j]
        /\ row.wantA = w /\ row.wantB = v
        /\ row.score = Score(items[i].listing.value, items[j].listing.value)
    BY <2>2, FoundRow
  <2>5. /\ row.score \in 0..100
        /\ row.score = 100 <=>
             (items[i].listing.value = items[j].listing.value /\ items[i].listing.value # Missing)
    <3>1. PICK a \in Nat \cup {Missing}, b \in Nat \cup {Missing} :
            a = items[i].listing.value /\ b = items[j].listing.value
      BY <2>3
    <3>2. Score(a, b) \in 0..100 /\ (Score(a, b) = 100 <=> (a = b /\ a # Missing)) BY ScoreIs
    <3> QED BY <2>4, <3>1, <3>2
  <2>6. /\ row.userA = Owner[row.itemA] /\ row.userB = Owner[row.itemB]
        /\ row.userA = Wanter[row.wantA] /\ WouldTake(row.wantA, row.itemB)
        /\ row.userB = Wanter[row.wantB] /\ WouldTake(row.wantB, row.itemA)
    BY <2>2, <2>4
  <2>7. row.score = 100 <=> ( /\ items[row.itemA].listing.value = items[row.itemB].listing.value
                              /\ items[row.itemA].listing.value # Missing )
    BY <2>4, <2>5
  <2> QED BY <2>5, <2>6, <2>7
<1>2. ASSUME Inv, [Next]_vars, NEW row \in matches' \ matches PROVE Pass
  BY <1>2 DEF Next, vars, CreateItem, UpdateItem, LeaveMarket, SaveItem,
              CreateWant, UpdateWant, CloseWant, SaveWant
<1>3. Inv /\ [Next]_vars =>
        [\A row \in matches' \ matches :
           /\ row.userA = Owner[row.itemA] /\ row.userB = Owner[row.itemB]
           /\ row.userA = Wanter[row.wantA] /\ WouldTake(row.wantA, row.itemB)
           /\ row.userB = Wanter[row.wantB] /\ WouldTake(row.wantB, row.itemA)
           /\ LET a == items[row.itemA].listing.value
                  b == items[row.itemB].listing.value
              IN  /\ row.score \in 0..100
                  /\ row.score = 100 <=> (a = b /\ a # Missing)]_vars
  BY <1>1, <1>2
<1>4. Inv /\ [Next]_vars => Inv' BY StepHolds
<1> QED BY <1>3, <1>4, InitHolds, PTL DEF Spec, SuggestionsFit
-----------------------------------------------------------------------------
(* Induction over numbers, and what it says of FlattenSeq.  The induction    *)
(* is over sets of numbers, with the least number of a set.                  *)

\* A set of numbers has a least one.
LEMMA Least ==
  ASSUME NEW T, T \subseteq Nat, T # {}
  PROVE  \E least \in T : \A n \in T : least <= n
<1>1. PICK least \in T : \A n \in T : <<n, least>> \notin OpToRel(<, Nat)
  BY NatLessThanWellFounded, WFMin
<1>2. ASSUME NEW n \in T, ~(least <= n) PROVE FALSE
  <2>1. n \in Nat /\ least \in Nat /\ n < least BY <1>2
  <2>2. <<n, least>> \in OpToRel(<, Nat) BY <2>1 DEF OpToRel
  <2> QED BY <1>1, <2>2
<1> QED BY <1>2

\* Induction over the numbers, for a set of them.
LEMMA Counting ==
  ASSUME NEW P, 0 \in P, \A n \in Nat : n \in P => n + 1 \in P
  PROVE  \A n \in Nat : n \in P
<1> DEFINE Out == Nat \ P
<1> SUFFICES ASSUME Out # {} PROVE FALSE OBVIOUS
<1>1. PICK n \in Out : \A m \in Out : n <= m BY Least
<1>2. n # 0 /\ n - 1 \in Nat OBVIOUS
<1>3. n - 1 \in Out BY <1>2
<1> QED BY <1>1, <1>2, <1>3

\* What FlattenSeq computes, as far as n: run[k] holds the first k pieces.
Flattens(seqs, run, n) ==
  \A k \in 1..n : run[k] = IF k = 1 THEN seqs[k] ELSE run[k - 1] \o seqs[k]

\* FlattenSeq joins the pieces from the first to the last.
LEMMA Flattening ==
  ASSUME NEW S, NEW seqs \in Seq(Seq(S)), Len(seqs) > 0
  PROVE  \E run \in [1..Len(seqs) -> Seq(S)] :
            /\ Flattens(seqs, run, Len(seqs))
            /\ FlattenSeq(seqs) = run[Len(seqs)]
<1> DEFINE N    == Len(seqs)
           Runs == [1..N -> Seq(S)]
           P    == {n \in Nat : n <= N => \E run \in Runs : Flattens(seqs, run, n)}
<1>0. N \in Nat \ {0} /\ \A k \in 1..N : seqs[k] \in Seq(S) OBVIOUS
<1>1. 0 \in P
  <2>1. [k \in 1..N |-> seqs[k]] \in Runs BY <1>0
  <2>2. \A run : Flattens(seqs, run, 0) BY DEF Flattens
  <2> QED BY <2>1, <2>2
<1>2. ASSUME NEW n \in Nat, n \in P PROVE n + 1 \in P
  <2> SUFFICES ASSUME n + 1 <= N PROVE \E run \in Runs : Flattens(seqs, run, n + 1) OBVIOUS
  <2>1. PICK run \in Runs : Flattens(seqs, run, n) BY <1>2
  <2> DEFINE piece == IF n + 1 = 1 THEN seqs[n + 1] ELSE run[n] \o seqs[n + 1]
             next  == [run EXCEPT ![n + 1] = piece]
  <2>2. piece \in Seq(S)
    <3>1. seqs[n + 1] \in Seq(S) BY <1>0
    <3>2. n > 0 => run[n] \in Seq(S) OBVIOUS
    <3>3. n > 0 => run[n] \o seqs[n + 1] \in Seq(S) BY <3>1, <3>2, ConcatProperties
    <3> QED BY <3>1, <3>3
  <2> HIDE DEF piece
  <2>3. next \in Runs BY <2>2
  <2>4. Flattens(seqs, next, n + 1)
    <3> SUFFICES ASSUME NEW k \in 1..n + 1
                 PROVE  next[k] = IF k = 1 THEN seqs[k] ELSE next[k - 1] \o seqs[k]
      BY DEF Flattens
    <3>1. CASE k = n + 1 BY <3>1 DEF piece
    <3>2. CASE k < n + 1
      <4>1. next[k] = run[k] /\ (k # 1 => next[k - 1] = run[k - 1]) BY <3>2
      <4> QED BY <3>2, <4>1, <2>1 DEF Flattens
    <3> QED BY <3>1, <3>2
  <2> QED BY <2>3, <2>4
<1>3. \A n \in Nat : n \in P
  <2> HIDE DEF P
  <2> QED BY <1>1, <1>2, Counting
<1>4. PICK run \in Runs : Flattens(seqs, run, N) BY <1>0, <1>3
<1> DEFINE flatten == CHOOSE f : f = [i \in 1..N |-> IF i = 1 THEN seqs[i] ELSE f[i - 1] \o seqs[i]]
<1>5. run = [i \in 1..N |-> IF i = 1 THEN seqs[i] ELSE run[i - 1] \o seqs[i]] BY <1>4 DEF Flattens
<1>6. flatten = [i \in 1..N |-> IF i = 1 THEN seqs[i] ELSE flatten[i - 1] \o seqs[i]]
  BY <1>5
<1>7. FlattenSeq(seqs) = flatten[N] BY <1>0 DEF FlattenSeq
<1> HIDE DEF flatten
<1>8. Flattens(seqs, flatten, N) BY <1>6 DEF Flattens
<1> DEFINE Q == {n \in Nat : n <= N => \A k \in 1..n : flatten[k] \in Seq(S)}
<1>9. \A n \in Nat : n \in Q
  <2>1. 0 \in Q OBVIOUS
  <2>2. ASSUME NEW n \in Nat, n \in Q PROVE n + 1 \in Q
    <3> SUFFICES ASSUME n + 1 <= N PROVE flatten[n + 1] \in Seq(S) BY <2>2
    <3>1. CASE n = 0 BY <3>1, <1>0, <1>8 DEF Flattens
    <3>2. CASE n > 0
      <4>1. flatten[n] \in Seq(S) BY <3>2, <2>2
      <4>2. n + 1 \in 1..N /\ n + 1 # 1 /\ (n + 1) - 1 = n BY <3>2, <1>0
      <4>3. flatten[n + 1] = flatten[(n + 1) - 1] \o seqs[n + 1] BY <4>2, <1>8 DEF Flattens
      <4>4. seqs[n + 1] \in Seq(S) BY <4>2, <1>0
      <4> QED BY <4>1, <4>2, <4>3, <4>4, ConcatProperties
    <3> QED BY <3>1, <3>2
  <2> HIDE DEF Q
  <2> QED BY <2>1, <2>2, Counting
<1>10. flatten \in Runs
  <2>1. \A k \in 1..N : flatten[k] \in Seq(S) BY <1>9, <1>0
  <2> QED BY <2>1, <1>6
<1> QED BY <1>7, <1>8, <1>10

\* Where the pieces of seqs are in flat: seqs[k] ends at at[k].
Places(seqs, flat, at, n) ==
  /\ \A k \in 1..n : \A a \in 1..Len(seqs[k]) :
        at[k - 1] + a <= at[n] /\ flat[at[k - 1] + a] = seqs[k][a]
  /\ \A j \in 1..at[n] : \E k \in 1..n : at[k - 1] < j /\ j <= at[k]

\* What FlattenSeq makes of the first k pieces.
Joins(seqs, pre) ==
  /\ pre[0] = <<>> /\ FlattenSeq(seqs) = pre[Len(seqs)]
  /\ \A k \in 1..Len(seqs) : pre[k] = pre[k - 1] \o seqs[k]

\* The pieces are joined one after the other.
LEMMA FlattenRun ==
  ASSUME NEW S, NEW seqs \in Seq(Seq(S))
  PROVE  \E pre \in [0..Len(seqs) -> Seq(S)] : Joins(seqs, pre)
<1> DEFINE N == Len(seqs)
<1>0. N \in Nat /\ <<>> \in Seq(S) /\ \A k \in 1..N : seqs[k] \in Seq(S) OBVIOUS
<1>1. CASE N = 0
  <2> DEFINE pre == [k \in 0..N |-> <<>>]
  <2>1. FlattenSeq(seqs) = seqs BY <1>1 DEF FlattenSeq
  <2>2. seqs = <<>> BY <1>1
  <2>3. pre \in [0..N -> Seq(S)] BY <1>0
  <2>4. Joins(seqs, pre) BY <1>1, <2>1, <2>2 DEF Joins
  <2> QED BY <2>3, <2>4
<1>2. CASE N > 0
  <2>1. PICK run \in [1..N -> Seq(S)] : Flattens(seqs, run, N) /\ FlattenSeq(seqs) = run[N]
    BY <1>2, Flattening
  <2> DEFINE pre == [k \in 0..N |-> IF k = 0 THEN <<>> ELSE run[k]]
  <2>2. pre \in [0..N -> Seq(S)] BY <1>0
  <2>3. pre[0] = <<>> /\ \A k \in 1..N : pre[k] = run[k] BY <1>0
  <2> HIDE DEF pre
  <2>4. ASSUME NEW k \in 1..N PROVE pre[k] = pre[k - 1] \o seqs[k]
    <3>1. CASE k = 1
      <4>1. run[k] = seqs[k] BY <3>1, <2>1 DEF Flattens
      <4>2. <<>> \o seqs[k] = seqs[k] BY <1>0, ConcatEmptySeq
      <4>3. pre[k - 1] = <<>> /\ pre[k] = run[k] BY <3>1, <2>3
      <4> QED BY <4>1, <4>2, <4>3
    <3>2. CASE k # 1
      <4>1. run[k] = run[k - 1] \o seqs[k] BY <3>2, <2>1 DEF Flattens
      <4>2. k - 1 \in 1..N BY <3>2
      <4>3. pre[k] = run[k] /\ pre[k - 1] = run[k - 1] BY <4>2, <2>3
      <4> QED BY <4>1, <4>3
    <3> QED BY <3>1, <3>2
  <2>5. pre[N] = run[N] BY <2>3, <1>0, <1>2
  <2>6. Joins(seqs, pre) BY <2>1, <2>3, <2>4, <2>5 DEF Joins
  <2> QED BY <2>2, <2>6
<1> QED BY <1>0, <1>1, <1>2

\* Each piece has its place in what FlattenSeq makes, and nothing else is in it.
LEMMA FlattenPlaces ==
  ASSUME NEW S, NEW seqs \in Seq(Seq(S))
  PROVE  \E at \in [0..Len(seqs) -> Nat] :
            /\ at[0] = 0
            /\ \A k \in 1..Len(seqs) : at[k] = at[k - 1] + Len(seqs[k])
            /\ FlattenSeq(seqs) \in Seq(S) /\ Len(FlattenSeq(seqs)) = at[Len(seqs)]
            /\ Places(seqs, FlattenSeq(seqs), at, Len(seqs))
<1> DEFINE N == Len(seqs)
<1>0. N \in Nat /\ \A k \in 1..N : seqs[k] \in Seq(S) /\ Len(seqs[k]) \in Nat OBVIOUS
<1>1. PICK pre \in [0..N -> Seq(S)] :
         /\ pre[0] = <<>> /\ FlattenSeq(seqs) = pre[N]
         /\ \A k \in 1..N : pre[k] = pre[k - 1] \o seqs[k]
  BY FlattenRun DEF Joins
<1> DEFINE at == [k \in 0..N |-> Len(pre[k])]
<1>2. at \in [0..N -> Nat] /\ \A k \in 0..N : at[k] = Len(pre[k]) OBVIOUS
<1>3. at[0] = 0 BY <1>1, <1>2
<1> HIDE DEF at
<1>4. ASSUME NEW k \in 1..N
      PROVE  /\ at[k] = at[k - 1] + Len(seqs[k])
             /\ \A j \in 1..at[k] : pre[k][j] = IF j <= at[k - 1] THEN pre[k - 1][j]
                                                ELSE seqs[k][j - at[k - 1]]
  <2> DEFINE left == pre[k - 1]
  <2>0. k - 1 \in 0..N /\ k \in 0..N OBVIOUS
  <2>1. left \in Seq(S) /\ seqs[k] \in Seq(S) BY <2>0, <1>0
  <2>2. pre[k] = left \o seqs[k] BY <1>1
  <2>3. at[k] = Len(pre[k]) /\ at[k - 1] = Len(left) BY <2>0, <1>2
  <2> HIDE DEF left
  <2>4. Len(left \o seqs[k]) = Len(left) + Len(seqs[k]) BY <2>1, ConcatProperties
  <2>5. \A j \in 1..Len(left) + Len(seqs[k]) :
           (left \o seqs[k])[j] = IF j <= Len(left) THEN left[j] ELSE seqs[k][j - Len(left)]
    BY <2>1, ConcatProperties
  <2>6. pre[k - 1] = left BY DEF left
  <2> QED BY <2>2, <2>3, <2>4, <2>5, <2>6
<1> DEFINE P == {n \in Nat : n <= N => Places(seqs, pre[n], at, n)}
<1>8. 0 \in P BY <1>3 DEF Places
<1>9. ASSUME NEW n \in Nat, n \in P PROVE n + 1 \in P
  <2> SUFFICES ASSUME n + 1 <= N PROVE Places(seqs, pre[n + 1], at, n + 1) OBVIOUS
  <2> DEFINE m == n + 1
  <2>0. m \in 1..N /\ m - 1 = n /\ at[n] \in Nat /\ at[m] \in Nat /\ Len(seqs[m]) \in Nat
    <3>1. m \in 1..N /\ m - 1 = n /\ n \in 0..N /\ m \in 0..N BY <1>0
    <3> QED BY <3>1, <1>0, <1>2
  <2>1. at[m] = at[n] + Len(seqs[m]) BY <1>4, <2>0
  <2>2. \A j \in 1..at[m] : pre[m][j] = IF j <= at[n] THEN pre[n][j] ELSE seqs[m][j - at[n]]
    BY <1>4, <2>0
  <2>3. Places(seqs, pre[n], at, n) BY <1>9
  <2>4. ASSUME NEW k \in 1..m, NEW a \in 1..Len(seqs[k])
        PROVE  at[k - 1] + a <= at[m] /\ pre[m][at[k - 1] + a] = seqs[k][a]
    <3>0. k \in 1..N /\ at[k - 1] \in Nat /\ Len(seqs[k]) \in Nat
      <4>1. k \in 1..N /\ k - 1 \in 0..N BY <2>0
      <4> QED BY <4>1, <1>2, <1>0
    <3>1. CASE k = m
      <4>1. at[k - 1] = at[n] BY <3>1
      <4>2. at[n] + a \in 1..at[m] /\ ~(at[n] + a <= at[n]) /\ (at[n] + a) - at[n] = a
        <5>1. PICK before \in Nat, len \in Nat : before = at[n] /\ len = Len(seqs[m]) BY <2>0
        <5>2. a \in 1..len /\ at[m] = before + len BY <2>1, <3>1, <5>1
        <5>3. before + a \in 1..before + len /\ ~(before + a <= before) /\ (before + a) - before = a
          BY <5>2
        <5> QED BY <5>1, <5>2, <5>3
      <4>3. pre[m][at[n] + a] = seqs[m][(at[n] + a) - at[n]] BY <4>2, <2>2
      <4>4. pre[m][at[n] + a] = seqs[m][a] BY <4>2, <4>3
      <4>5. at[n] + a <= at[m] BY <4>2
      <4> QED BY <4>1, <4>4, <4>5, <3>1
    <3>2. CASE k # m
      <4>1. k \in 1..n BY <3>2
      <4>2. at[k - 1] + a <= at[n] /\ pre[n][at[k - 1] + a] = seqs[k][a] BY <4>1, <2>3 DEF Places
      <4>3. a \in Nat /\ a >= 1 BY <3>0
      <4>4. at[n] <= at[m] BY <2>0, <2>1
      <4> DEFINE place == at[k - 1] + a
      <4>5. place \in Nat /\ place >= 1 BY <4>3, <3>0
      <4>6. place <= at[n] /\ pre[n][place] = seqs[k][a] BY <4>2
      <4> HIDE DEF place, m
      <4>7. place \in 1..at[m] /\ place <= at[m] BY <4>4, <4>5, <4>6, <2>0
      <4>8. pre[m][place] = pre[n][place] BY <4>6, <4>7, <2>2
      <4> QED BY <4>6, <4>7, <4>8 DEF place
    <3> QED BY <3>1, <3>2
  <2>5. ASSUME NEW j \in 1..at[m] PROVE \E k \in 1..m : at[k - 1] < j /\ j <= at[k]
    <3>1. CASE j <= at[n]
      <4>1. \E k \in 1..n : at[k - 1] < j /\ j <= at[k] BY <3>1, <2>3, <2>0 DEF Places
      <4> QED BY <4>1
    <3>2. CASE ~(j <= at[n])
      <4>1. at[m - 1] < j /\ j <= at[m] BY <3>2, <2>0
      <4> QED BY <4>1, <2>0
    <3> QED BY <3>1, <3>2
  <2> QED BY <2>4, <2>5 DEF Places
<1>10. \A n \in Nat : n \in P
  <2> HIDE DEF P
  <2> QED BY <1>8, <1>9, Counting
<1>11. Places(seqs, pre[N], at, N) BY <1>10, <1>0
<1>12. FlattenSeq(seqs) \in Seq(S) /\ Len(FlattenSeq(seqs)) = at[N] BY <1>1, <1>2, <1>0
<1> QED BY <1>1, <1>2, <1>3, <1>4, <1>11, <1>12

\* Pieces of one element or none, and what is made of them: the elements that
\* are kept come from pieces of their own, none is lost, and if no piece is
\* empty they stay in place.
Sifts(S, seqs, flat) ==
  /\ flat \in Seq(S)
  /\ \E from \in [1..Len(flat) -> 1..Len(seqs)] :
       /\ \A j \in 1..Len(flat) : Len(seqs[from[j]]) = 1 /\ flat[j] = seqs[from[j]][1]
       /\ \A i, j \in 1..Len(flat) : from[i] = from[j] => i = j
  /\ \A k \in 1..Len(seqs) :
       Len(seqs[k]) = 1 => \E j \in 1..Len(flat) : flat[j] = seqs[k][1]
  /\ (\A k \in 1..Len(seqs) : Len(seqs[k]) = 1) =>
       Len(flat) = Len(seqs) /\ \A k \in 1..Len(seqs) : flat[k] = seqs[k][1]

\* So it is with the sequences that keep some elements of another one.
LEMMA Sifting ==
  ASSUME NEW S, NEW seqs \in Seq(Seq(S)), \A k \in 1..Len(seqs) : Len(seqs[k]) <= 1
  PROVE  Sifts(S, seqs, FlattenSeq(seqs))
<1> DEFINE N    == Len(seqs)
           flat == FlattenSeq(seqs)
<1>0. N \in Nat /\ \A k \in 1..N : Len(seqs[k]) \in Nat /\ Len(seqs[k]) <= 1
  <2>1. \A k \in 1..N : seqs[k] \in Seq(S) OBVIOUS
  <2> QED BY <2>1, LenProperties
<1>1. PICK at \in [0..N -> Nat] :
         /\ at[0] = 0
         /\ \A k \in 1..N : at[k] = at[k - 1] + Len(seqs[k])
         /\ flat \in Seq(S) /\ Len(flat) = at[N]
         /\ Places(seqs, flat, at, N)
  BY FlattenPlaces
<1>2. \A k \in 1..N : at[k - 1] \in Nat /\ at[k] \in Nat
  <2>1. \A k \in 1..N : k - 1 \in 0..N /\ k \in 0..N BY <1>0
  <2> QED BY <2>1
<1> HIDE DEF flat, N
<1>3. ASSUME NEW j \in 1..Len(flat)
      PROVE  \E k \in 1..N : at[k] = j /\ Len(seqs[k]) = 1 /\ flat[j] = seqs[k][1]
  <2>0. j \in 1..at[N] BY <1>1
  <2>1. PICK k \in 1..N : at[k - 1] < j /\ j <= at[k] BY <2>0, <1>1 DEF Places
  <2>2. at[k] = at[k - 1] + Len(seqs[k]) /\ Len(seqs[k]) \in Nat /\ Len(seqs[k]) <= 1 BY <1>0, <1>1
  <2>3. at[k - 1] \in Nat /\ at[k] \in Nat /\ j \in Nat BY <1>1, <1>2
  <2> DEFINE before == at[k - 1]
             here   == at[k]
             len    == Len(seqs[k])
  <2>4. before < j /\ j <= here /\ here = before + len /\ len \in Nat /\ len <= 1 /\ before \in Nat
    BY <2>1, <2>2, <2>3
  <2> HIDE DEF before, here, len
  <2>5. len = 1 /\ here = j /\ before + 1 = j BY <2>3, <2>4
  <2>6. Len(seqs[k]) = 1 /\ at[k] = j /\ at[k - 1] + 1 = j BY <2>5 DEF before, here, len
  <2>7. flat[at[k - 1] + 1] = seqs[k][1]
    <3>1. 1 \in 1..Len(seqs[k]) BY <2>6
    <3> QED BY <3>1, <1>1 DEF Places
  <2> QED BY <2>6, <2>7
<1> DEFINE from == [j \in 1..Len(flat) |->
                      CHOOSE k \in 1..N : at[k] = j /\ Len(seqs[k]) = 1 /\ flat[j] = seqs[k][1]]
<1>4. \A j \in 1..Len(flat) : /\ from[j] \in 1..N /\ at[from[j]] = j
                              /\ Len(seqs[from[j]]) = 1 /\ flat[j] = seqs[from[j]][1]
  BY <1>3
<1>5. from \in [1..Len(flat) -> 1..N] BY <1>4
<1> HIDE DEF from
<1>6. \A i, j \in 1..Len(flat) : from[i] = from[j] => i = j BY <1>4
<1>7. ASSUME NEW k \in 1..N, Len(seqs[k]) = 1
      PROVE  \E j \in 1..Len(flat) : flat[j] = seqs[k][1]
  <2>1. 1 \in 1..Len(seqs[k]) BY <1>7
  <2>2. at[k - 1] + 1 <= at[N] /\ flat[at[k - 1] + 1] = seqs[k][1] BY <2>1, <1>1 DEF Places
  <2>3. at[k - 1] + 1 \in 1..Len(flat)
    <3> DEFINE before == at[k - 1]
    <3>1. before \in Nat /\ before + 1 <= Len(flat) /\ Len(flat) \in Nat BY <1>1, <1>2, <2>2
    <3> HIDE DEF before
    <3>2. before + 1 \in 1..Len(flat) BY <3>1
    <3> QED BY <3>2 DEF before
  <2> QED BY <2>2, <2>3
<1>8. ASSUME \A k \in 1..N : Len(seqs[k]) = 1
      PROVE  Len(flat) = N /\ \A k \in 1..N : flat[k] = seqs[k][1]
  <2> DEFINE P == {n \in Nat : n <= N => at[n] = n}
  <2>1. 0 \in P BY <1>1
  <2>2. ASSUME NEW n \in Nat, n \in P PROVE n + 1 \in P
    <3> SUFFICES ASSUME n + 1 <= N PROVE at[n + 1] = n + 1 OBVIOUS
    <3>1. n + 1 \in 1..N /\ (n + 1) - 1 = n BY <1>0
    <3>2. at[n + 1] = at[(n + 1) - 1] + 1 BY <3>1, <1>1, <1>8
    <3>3. at[n] = n BY <2>2, <1>0
    <3> QED BY <3>1, <3>2, <3>3
  <2>3. \A n \in Nat : n \in P
    <3> HIDE DEF P
    <3> QED BY <2>1, <2>2, Counting
  <2>4. \A n \in 0..N : at[n] = n BY <2>3
  <2>5. Len(flat) = N BY <2>4, <1>0, <1>1
  <2>6. ASSUME NEW k \in 1..N PROVE flat[k] = seqs[k][1]
    <3>0. Len(seqs[k]) = 1 BY <1>8
    <3>1. 1 \in 1..Len(seqs[k]) BY <3>0
    <3>2. flat[at[k - 1] + 1] = seqs[k][1] BY <3>1, <1>1 DEF Places
    <3>3. k - 1 \in 0..N BY <1>0
    <3>4. at[k - 1] + 1 = k BY <3>3, <2>4
    <3> QED BY <3>2, <3>4
  <2> QED BY <2>5, <2>6
<1>9. \E f \in [1..Len(flat) -> 1..N] :
         /\ \A j \in 1..Len(flat) : Len(seqs[f[j]]) = 1 /\ flat[j] = seqs[f[j]][1]
         /\ \A i, j \in 1..Len(flat) : f[i] = f[j] => i = j
  BY <1>4, <1>5, <1>6
<1>10. N = Len(seqs) BY DEF N
<1>11. Sifts(S, seqs, flat) BY <1>1, <1>7, <1>8, <1>9, <1>10 DEF Sifts
<1> QED BY <1>11 DEF flat

\* A finite set of numbers has a least and a greatest.
LEMMA Extremes ==
  ASSUME NEW n \in Nat, NEW T, T \subseteq 1..n, T # {}
  PROVE  /\ Min(T) \in T /\ \A k \in T : Min(T) <= k
         /\ Max(T) \in T /\ \A k \in T : k <= Max(T)
<1>1. T \subseteq Nat OBVIOUS
<1>2. PICK least \in T : \A k \in T : least <= k BY <1>1, Least
<1> DEFINE Mirror == {n - k : k \in T}
<1>3. PICK low \in Mirror : \A m \in Mirror : low <= m
  <2>1. Mirror \subseteq Nat /\ Mirror # {} OBVIOUS
  <2> HIDE DEF Mirror
  <2> QED BY <2>1, Least
<1>4. PICK greatest \in T : low = n - greatest OBVIOUS
<1>5. \A k \in T : k <= greatest
  <2> TAKE k \in T
  <2>1. n - greatest <= n - k BY <1>3, <1>4
  <2>2. k \in 1..n /\ greatest \in 1..n OBVIOUS
  <2> QED BY <2>1, <2>2
<1>6. Min(T) \in T /\ \A k \in T : Min(T) <= k BY <1>2 DEF Min
<1>7. Max(T) \in T /\ \A k \in T : k <= Max(T)
  <2>1. \E x \in T : \A y \in T : x >= y BY <1>5
  <2>2. Max(T) \in T /\ \A k \in T : Max(T) >= k BY <2>1 DEF Max
  <2> QED BY <2>2
<1> QED BY <1>6, <1>7
-----------------------------------------------------------------------------
(* Words.                                                                  *)

\* The strings.  The provers have to be told that those the code writes itself
\* are among them.
Chars == STRING \cup {"a", "%", "\\"}

\* Lower case, character by character.
LEMMA LowerChar ==
  ASSUME NEW c \in Chars
  PROVE  /\ Lower(c) \in Chars /\ Lower(Lower(c)) = Lower(c)
         /\ Lower(c) = " " <=> c = " "
         /\ Lower(c) \in Wildcards <=> c \in Wildcards
         /\ c \in Wildcards => Lower(c) = c
<1>1. CASE c = "A"
  <2>1. Lower(c) = "a" /\ Lower("a") = "a" BY <1>1 DEF Lower
  <2>2. "a" \notin Wildcards /\ c \notin Wildcards BY <1>1 DEF Wildcards
  <2>3. "a" # " " /\ c # " " /\ Lower(Lower(c)) = Lower(c) BY <1>1, <2>1
  <2>4. (Lower(c) = " ") = (c = " ") BY <2>1, <2>3
  <2>5. (Lower(c) \in Wildcards) = (c \in Wildcards) BY <2>1, <2>2
  <2>6. Lower(c) \in Chars BY <2>1 DEF Chars
  <2>7. Lower(c) = " " <=> c = " " BY <2>4
  <2>8. Lower(c) \in Wildcards <=> c \in Wildcards BY <2>5
  <2>9. c \in Wildcards => Lower(c) = c BY <2>2
  <2> QED BY <2>3, <2>6, <2>7, <2>8, <2>9
<1>2. CASE c # "A"
  <2>1. Lower(c) = c BY <1>2 DEF Lower
  <2> QED BY <2>1
<1> QED BY <1>1, <1>2

\* And of a word; once is enough.
LEMMA LowerWord ==
  ASSUME NEW word \in Seq(Chars)
  PROVE  /\ ToLower(word) \in Seq(Chars) /\ Len(ToLower(word)) = Len(word)
         /\ \A k \in 1..Len(word) : ToLower(word)[k] = Lower(word[k])
         /\ ToLower(ToLower(word)) = ToLower(word)
<1>1. DOMAIN word = 1..Len(word) /\ \A k \in 1..Len(word) : word[k] \in Chars OBVIOUS
<1>2. \A k \in 1..Len(word) : Lower(word[k]) \in Chars /\ Lower(Lower(word[k])) = Lower(word[k])
  BY <1>1, LowerChar
<1>3. ToLower(word) = [k \in 1..Len(word) |-> Lower(word[k])] BY <1>1 DEF ToLower
<1>4. ToLower(word) \in Seq(Chars) /\ Len(ToLower(word)) = Len(word) BY <1>2, <1>3
<1>5. DOMAIN ToLower(word) = 1..Len(word) BY <1>3
<1>6. ToLower(ToLower(word)) = [k \in 1..Len(word) |-> Lower(Lower(word[k]))]
  BY <1>3, <1>5 DEF ToLower
<1> QED BY <1>2, <1>3, <1>4, <1>6

\* There is no blank at either end.
Trimmed(word) == Len(word) = 0 \/ (word[1] # " " /\ word[Len(word)] # " ")

\* TrimSpace only drops characters, and drops none the second time.
LEMMA Trimming ==
  ASSUME NEW word \in Seq(Chars)
  PROVE  /\ TrimSpace(word) \in Seq(Chars) /\ Trimmed(TrimSpace(word))
         /\ \A j \in 1..Len(TrimSpace(word)) : \E k \in 1..Len(word) : TrimSpace(word)[j] = word[k]
         /\ Trimmed(word) => TrimSpace(word) = word
<1> DEFINE solid == {k \in DOMAIN word : word[k] # " "}
<1>1. PICK N \in Nat : N = Len(word) /\ DOMAIN word = 1..N BY LenProperties
<1>0. solid \subseteq 1..N /\ \A k \in 1..N : k \in solid <=> word[k] # " " BY <1>1
<1>2. CASE solid = {}
  <2>1. TrimSpace(word) = <<>> BY <1>2 DEF TrimSpace
  <2>2. ASSUME Trimmed(word), N # 0 PROVE FALSE
    <3>1. word[1] # " " BY <2>2, <1>1 DEF Trimmed
    <3>2. 1 \in 1..N BY <2>2
    <3> QED BY <3>1, <3>2, <1>0, <1>2
  <2>3. N = 0 => word = <<>> BY <1>1
  <2>4. <<>> \in Seq(Chars) /\ Len(<<>>) = 0 /\ Trimmed(<<>>) BY DEF Trimmed
  <2>5. \A j \in 1..Len(TrimSpace(word)) : FALSE BY <2>1, <2>4
  <2> QED BY <2>1, <2>2, <2>3, <2>4, <2>5
<1>3. CASE solid # {}
  <2>1. PICK m \in 1..N, n \in 1..N :
           /\ m = Min(solid) /\ n = Max(solid) /\ m \in solid /\ n \in solid
           /\ \A k \in solid : m <= k /\ k <= n
    <3> HIDE DEF solid
    <3> QED BY <1>0, <1>3, Extremes
  <2>2. TrimSpace(word) = SubSeq(word, m, n) BY <2>1, <1>3 DEF TrimSpace
  <2>3. word[m] # " " /\ word[n] # " " BY <2>1, <1>0
  <2>4. m <= n BY <2>1
  <2>0. m \in Nat /\ n \in Nat /\ 1 <= m /\ m <= n /\ n <= N BY <2>4
  <2>5. PICK s \in Seq(Chars) :
           /\ s = SubSeq(word, m, n) /\ Len(s) = n - m + 1
           /\ \A i \in 1..n - m + 1 : s[i] = word[m + i - 1]
    <3>1. m \in 1..Len(word) + 1 /\ n \in m - 1..Len(word) BY <2>0, <1>1
    <3>2. /\ SubSeq(word, m, n) \in Seq(Chars)
          /\ Len(SubSeq(word, m, n)) = IF m <= n THEN n - m + 1 ELSE 0
          /\ \A i \in 1..n - m + 1 : SubSeq(word, m, n)[i] = word[m + i - 1]
      BY <3>1, SubSeqProperties
    <3> QED BY <3>2, <2>4
  <2>6. s[1] = word[m] /\ s[Len(s)] = word[n]
    <3>1. 1 \in 1..n - m + 1 /\ n - m + 1 \in 1..n - m + 1 /\ m + 1 - 1 = m /\ m + (n - m + 1) - 1 = n
      BY <2>0
    <3> QED BY <3>1, <2>5
  <2>7. Trimmed(s) BY <2>3, <2>6 DEF Trimmed
  <2>8. \A j \in 1..Len(s) : \E k \in 1..Len(word) : s[j] = word[k]
    <3> TAKE j \in 1..Len(s)
    <3>1. j \in 1..n - m + 1 /\ m + j - 1 \in 1..N BY <2>0, <2>5
    <3> QED BY <3>1, <2>5, <1>1
  <2>9. ASSUME Trimmed(word) PROVE s = word
    <3>1. N # 0 /\ 1 \in 1..N /\ N \in 1..N BY <2>0
    <3>2. word[1] # " " /\ word[N] # " " BY <3>1, <1>1, <2>9 DEF Trimmed
    <3>3. 1 \in solid /\ N \in solid BY <3>1, <3>2, <1>0
    <3>4. m <= 1 /\ N <= n BY <3>3, <2>1
    <3>5. m = 1 /\ n = N BY <3>4, <2>0
    <3> QED BY <3>5, <2>5, <1>1, SubSeqFull
  <2> QED BY <2>2, <2>5, <2>7, <2>8, <2>9
<1> QED BY <1>2, <1>3

\* Stripping leaves no wildcard, and a word without one as it is.
LEMMA Stripping ==
  ASSUME NEW word \in Seq(Chars)
  PROVE  /\ Strip(word) \in Seq(Chars)
         /\ \A j \in 1..Len(Strip(word)) : Strip(word)[j] \notin Wildcards
         /\ (\A k \in 1..Len(word) : word[k] \notin Wildcards) => Strip(word) = word
<1> DEFINE N     == Len(word)
           piece(k) == IF word[k] \in Wildcards THEN <<>> ELSE <<word[k]>>
           seqs  == [k \in DOMAIN word |-> piece(k)]
<1>1. N \in Nat /\ DOMAIN word = 1..N /\ \A k \in 1..N : word[k] \in Chars BY LenProperties
<1>2. ASSUME NEW k \in 1..N
      PROVE  /\ piece(k) \in Seq(Chars) /\ Len(piece(k)) <= 1
             /\ Len(piece(k)) = 1 <=> word[k] \notin Wildcards
             /\ Len(piece(k)) = 1 => piece(k)[1] = word[k]
  <2>1. CASE word[k] \in Wildcards
    <3>1. piece(k) = <<>> BY <2>1
    <3> HIDE DEF piece
    <3> QED BY <2>1, <3>1
  <2>2. CASE word[k] \notin Wildcards
    <3>1. piece(k) = <<word[k]>> /\ word[k] \in Chars BY <2>2, <1>1
    <3> HIDE DEF piece
    <3> QED BY <2>2, <3>1
  <2> QED BY <2>1, <2>2
<1>3. seqs \in Seq(Seq(Chars)) /\ Len(seqs) = N /\ \A k \in 1..N : seqs[k] = piece(k)
  <2> HIDE DEF piece
  <2> QED BY <1>1, <1>2
<1>5. Strip(word) = FlattenSeq(seqs) BY DEF Strip, Replace
<1> HIDE DEF seqs, N, piece
<1>6. \A k \in 1..Len(seqs) : Len(seqs[k]) <= 1 BY <1>2, <1>3
<1>7. Sifts(Chars, seqs, Strip(word)) BY <1>3, <1>5, <1>6, Sifting
<1> DEFINE flat == Strip(word)
<1> HIDE DEF flat
<1>8. Sifts(Chars, seqs, flat) BY <1>7 DEF flat
<1>9. ASSUME NEW j \in 1..Len(flat) PROVE flat[j] \notin Wildcards
  <2>1. PICK k \in 1..Len(seqs) : Len(seqs[k]) = 1 /\ flat[j] = seqs[k][1] BY <1>8 DEF Sifts
  <2> QED BY <2>1, <1>2, <1>3
<1>10. ASSUME \A k \in 1..N : word[k] \notin Wildcards PROVE flat = word
  <2>1. Len(flat) = N /\ \A k \in 1..N : flat[k] = word[k] BY <1>2, <1>3, <1>8, <1>10 DEF Sifts
  <2>2. flat \in Seq(Chars) BY <1>8 DEF Sifts
  <2> QED BY <2>1, <2>2, SeqEqual DEF N
<1> QED BY <1>8, <1>9, <1>10 DEF Sifts, flat, N
-----------------------------------------------------------------------------
(* What is stored.                                                         *)

\* A function on 1..n is a sequence.
LEMMA AsSequence ==
  ASSUME NEW S, NEW n \in Nat, NEW f \in [1..n -> S]
  PROVE  f \in Seq(S) /\ Len(f) = n
OBVIOUS

\* A keyword is stored without wildcards, and is its own keyword.
LEMMA KeywordStays ==
  ASSUME NEW word \in Seq(Chars)
  PROVE  /\ Keyword(word) \in Seq(Chars) /\ Keyword(Keyword(word)) = Keyword(word)
         /\ \A k \in 1..Len(Keyword(word)) : Keyword(word)[k] \notin Wildcards
<1>1. PICK s \in Seq(Chars) : s = Strip(word) /\ \A k \in 1..Len(s) : s[k] \notin Wildcards
  BY Stripping
<1>2. PICK t \in Seq(Chars) :
         /\ t = TrimSpace(s) /\ Trimmed(t)
         /\ \A j \in 1..Len(t) : \E k \in 1..Len(s) : t[j] = s[k]
  BY Trimming
<1>3. PICK w \in Seq(Chars) :
         /\ w = ToLower(t) /\ Len(w) = Len(t) /\ ToLower(w) = w
         /\ \A k \in 1..Len(t) : w[k] = Lower(t[k])
  BY LowerWord
<1>4. Keyword(word) = w BY <1>1, <1>2, <1>3 DEF Keyword
<1>5. \A k \in 1..Len(t) : t[k] \in Chars /\ t[k] \notin Wildcards BY <1>1, <1>2
<1>6. ASSUME NEW k \in 1..Len(w) PROVE w[k] \notin Wildcards
  <2>1. t[k] \in Chars /\ t[k] \notin Wildcards /\ w[k] = Lower(t[k]) BY <1>3, <1>5
  <2> QED BY <2>1, LowerChar
<1>7. Trimmed(w)
  <2>1. CASE Len(t) = 0 BY <2>1, <1>3 DEF Trimmed
  <2>2. CASE Len(t) # 0
    <3>1. 1 \in 1..Len(t) /\ Len(t) \in 1..Len(t) BY <2>2
    <3>2. t[1] # " " /\ t[Len(t)] # " " BY <2>2, <1>2 DEF Trimmed
    <3>3. Lower(t[1]) # " " /\ Lower(t[Len(t)]) # " " BY <3>1, <3>2, <1>5, LowerChar
    <3> QED BY <3>1, <3>3, <1>3 DEF Trimmed
  <2> QED BY <2>1, <2>2
<1>8. Strip(w) = w BY <1>6, Stripping
<1>9. TrimSpace(w) = w BY <1>7, Trimming
<1>10. Keyword(w) = w BY <1>3, <1>8, <1>9 DEF Keyword
<1> QED BY <1>4, <1>6, <1>10

\* The keywords of a list are the words in it, each of them once, and if they
\* are keywords already, and each is there once, the list stays.
KeywordsOf(list, kept) ==
  /\ kept \in Seq(Seq(Chars))
  /\ \A j \in 1..Len(kept) :
       \E k \in 1..Len(list) : kept[j] = Keyword(list[k]) /\ Keyword(list[k]) # <<>>
  /\ \A k \in 1..Len(list) :
       Keyword(list[k]) # <<>> => \E j \in 1..Len(kept) : kept[j] = Keyword(list[k])
  /\ \A i, j \in 1..Len(kept) : kept[i] = kept[j] => i = j
  /\ ( /\ \A k \in 1..Len(list) : Keyword(list[k]) = list[k] /\ list[k] # <<>>
       /\ \A j, k \in 1..Len(list) : list[j] = list[k] => j = k )
     => kept = list

\* That is what Keywords computes.
LEMMA KeywordsKept ==
  ASSUME NEW list \in Seq(Seq(Chars))
  PROVE  KeywordsOf(list, Keywords(list))
<1> DEFINE words   == [k \in DOMAIN list |-> Keyword(list[k])]
           kept(k) == words[k] # <<>> /\ \A j \in 1..k - 1 : words[j] # words[k]
           pieces  == [k \in DOMAIN list |-> IF kept(k) THEN <<words[k]>> ELSE <<>>]
<1>1. Keywords(list) = FlattenSeq(pieces) BY DEF Keywords
<1>2. PICK N \in Nat : N = Len(list) /\ DOMAIN list = 1..N BY LenProperties
<1>3. \A k \in 1..N : words[k] = Keyword(list[k]) /\ words[k] \in Seq(Chars)
  BY <1>2, KeywordStays
<1> HIDE DEF words
<1>4. ASSUME NEW k \in 1..N
      PROVE  /\ pieces[k] \in Seq(Seq(Chars)) /\ Len(pieces[k]) <= 1
             /\ Len(pieces[k]) = 1 <=> kept(k)
             /\ Len(pieces[k]) = 1 => pieces[k][1] = words[k]
  <2>1. pieces[k] = IF kept(k) THEN <<words[k]>> ELSE <<>> BY <1>2
  <2> HIDE DEF pieces
  <2>2. CASE kept(k)
    <3>1. pieces[k] = <<words[k]>> BY <2>1, <2>2
    <3> HIDE DEF kept
    <3> QED BY <2>2, <3>1, <1>3
  <2>3. CASE ~kept(k)
    <3>1. pieces[k] = <<>> BY <2>1, <2>3
    <3> HIDE DEF kept
    <3> QED BY <2>3, <3>1
  <2> QED BY <2>2, <2>3
<1>5. pieces \in Seq(Seq(Seq(Chars))) /\ Len(pieces) = N
  <2>1. pieces = [k \in 1..N |-> pieces[k]] BY <1>2
  <2> HIDE DEF pieces, kept
  <2>2. \A k \in 1..N : pieces[k] \in Seq(Seq(Chars)) BY <1>4
  <2>3. pieces \in [1..N -> Seq(Seq(Chars))] BY <2>1, <2>2
  <2> QED BY <2>3, AsSequence
<1> HIDE DEF pieces
<1>6. PICK flat : flat = Keywords(list) /\ Sifts(Seq(Chars), pieces, flat)
  BY <1>1, <1>4, <1>5, Sifting
<1>7. ASSUME NEW j \in 1..Len(flat)
      PROVE  \E k \in 1..Len(list) : flat[j] = Keyword(list[k]) /\ Keyword(list[k]) # <<>>
  <2>0. PICK from \in [1..Len(flat) -> 1..Len(pieces)] :
           \A m \in 1..Len(flat) : Len(pieces[from[m]]) = 1 /\ flat[m] = pieces[from[m]][1]
    BY <1>6 DEF Sifts
  <2>1. PICK k \in 1..N : Len(pieces[k]) = 1 /\ flat[j] = pieces[k][1]
    <3>1. from[j] \in 1..N BY <1>5
    <3> QED BY <2>0, <3>1
  <2>2. kept(k) /\ flat[j] = words[k] BY <2>1, <1>4
  <2> QED BY <2>2, <1>2, <1>3
<1>8. ASSUME NEW k \in 1..Len(list), Keyword(list[k]) # <<>>
      PROVE  \E j \in 1..Len(flat) : flat[j] = Keyword(list[k])
  <2> DEFINE Same == {i \in 1..N : words[i] = words[k]}
  <2>1. Same \subseteq Nat /\ k \in Same BY <1>2
  <2>2. PICK i \in Same : \A j \in Same : i <= j
    <3> HIDE DEF Same
    <3> QED BY <2>1, Least
  <2>3. kept(i)
    <3>1. words[i] # <<>> BY <1>2, <1>3, <1>8, <2>1, <2>2
    <3>2. ASSUME NEW j \in 1..i - 1 PROVE words[j] # words[i]
      <4>1. j \in 1..N /\ ~(i <= j) BY <1>2
      <4>2. j \notin Same BY <4>1, <2>2
      <4> QED BY <4>1, <4>2
    <3> QED BY <3>1, <3>2
  <2>4. Len(pieces[i]) = 1 /\ pieces[i][1] = Keyword(list[k])
    <3>1. Len(pieces[i]) = 1 /\ pieces[i][1] = words[i] BY <2>3, <1>4
    <3> QED BY <3>1, <1>2, <1>3
  <2> QED BY <2>4, <1>5, <1>6 DEF Sifts
<1>9. ASSUME NEW i \in 1..Len(flat), NEW j \in 1..Len(flat), flat[i] = flat[j]
      PROVE  i = j
  <2>1. PICK from \in [1..Len(flat) -> 1..N] :
          /\ \A m \in 1..Len(flat) : Len(pieces[from[m]]) = 1 /\ flat[m] = pieces[from[m]][1]
          /\ \A m, n \in 1..Len(flat) : from[m] = from[n] => m = n
    BY <1>5, <1>6 DEF Sifts
  <2>2. PICK a \in 1..N, b \in 1..N : a = from[i] /\ b = from[j] OBVIOUS
  <2>3. kept(a) /\ kept(b) /\ words[a] = words[b] BY <1>4, <1>9, <2>1, <2>2
  <2>4. ~(a < b) /\ ~(b < a)
    <3>1. a < b => a \in 1..b - 1 OBVIOUS
    <3>2. b < a => b \in 1..a - 1 OBVIOUS
    <3> QED BY <3>1, <3>2, <2>3
  <2>5. a = b BY <2>4
  <2> QED BY <2>1, <2>2, <2>5
<1>10. ASSUME \A k \in 1..Len(list) : Keyword(list[k]) = list[k] /\ list[k] # <<>>,
              \A j, k \in 1..Len(list) : list[j] = list[k] => j = k
       PROVE  flat = list
  <2>1. ASSUME NEW k \in 1..N PROVE Len(pieces[k]) = 1
    <3>1. words[k] = list[k] /\ words[k] # <<>> BY <1>2, <1>3, <1>10
    <3>2. ASSUME NEW j \in 1..k - 1 PROVE words[j] # words[k]
      <4>1. j \in 1..N /\ j # k BY <1>2
      <4> QED BY <4>1, <3>1, <1>2, <1>3, <1>10
    <3>3. kept(k) BY <3>1, <3>2
    <3> QED BY <3>3, <1>4
  <2>2. flat \in Seq(Seq(Chars)) /\ Len(flat) = N /\ \A k \in 1..N : flat[k] = pieces[k][1]
    BY <2>1, <1>5, <1>6 DEF Sifts
  <2>3. \A k \in 1..N : flat[k] = list[k] BY <2>1, <2>2, <1>2, <1>3, <1>4, <1>10
  <2> QED BY <2>2, <2>3, <1>2, SeqEqual
<1>11. flat \in Seq(Seq(Chars)) BY <1>6 DEF Sifts
<1>12. KeywordsOf(list, flat) BY <1>7, <1>8, <1>9, <1>10, <1>11 DEF KeywordsOf
<1> QED BY <1>6, <1>12
-----------------------------------------------------------------------------
(* Patterns.                                                               *)

\* What ILike computes for place j of a pattern, from the two places after it.
Value(t, p, j, next, second) ==
  IF j > Len(p) THEN {Len(t) + 1}
  ELSE CASE p[j] = "%" -> {i \in 1..Len(t) + 1 : \E k \in next : i <= k}
         [] p[j] = "\\" -> {i \in 1..Len(t) : j < Len(p) /\ t[i] = p[j + 1] /\ i + 1 \in second}
         [] OTHER -> {i \in 1..Len(t) : p[j] \in {"_", t[i]} /\ i + 1 \in next}

\* It looks no further than the end.
LEMMA ValueLooksAhead ==
  ASSUME NEW t \in Seq(Chars), NEW p \in Seq(Chars), NEW j \in 1..Len(p) + 1,
         NEW next, NEW second, NEW next2, NEW second2,
         j <= Len(p) => next = next2, j < Len(p) => second = second2
  PROVE  Value(t, p, j, next, second) = Value(t, p, j, next2, second2)
<1>1. CASE j < Len(p) BY <1>1
<1>2. CASE j > Len(p) BY <1>2 DEF Value
<1>3. CASE ~(j < Len(p)) /\ ~(j > Len(p))
  <2>1. next = next2 BY <1>3
  <2>2. CASE p[j] = "\\"
    <3>1. "\\" # "%" OBVIOUS
    <3>2. Value(t, p, j, next, second) = {} BY <1>3, <2>2, <3>1 DEF Value
    <3>3. Value(t, p, j, next2, second2) = {} BY <1>3, <2>2, <3>1 DEF Value
    <3> QED BY <3>2, <3>3
  <2>3. CASE p[j] # "\\" BY <1>3, <2>1, <2>3 DEF Value
  <2> QED BY <2>2, <2>3
<1> QED BY <1>1, <1>2, <1>3

\* From the end of the pattern to its beginning, a value can be given to each place.
LEMMA ValuesExist ==
  ASSUME NEW t \in Seq(Chars), NEW p \in Seq(Chars)
  PROVE  \E f : f = [j \in 1..Len(p) + 1 |-> Value(t, p, j, f[j + 1], f[j + 2])]
<1>1. PICK M \in Nat : M = Len(p) + 1 BY LenProperties
<1> DEFINE Good(f, n) == /\ f = [j \in 1..M |-> f[j]]
                         /\ \A j \in 1..M : j > M - n => f[j] = Value(t, p, j, f[j + 1], f[j + 2])
           P == {n \in Nat : n <= M => \E f : Good(f, n)}
<1>2. 0 \in P
  <2> DEFINE f == [j \in 1..M |-> {}]
  <2>1. Good(f, 0) OBVIOUS
  <2> HIDE DEF Good
  <2> QED BY <2>1
<1>3. ASSUME NEW n \in Nat, n \in P PROVE n + 1 \in P
  <2> SUFFICES ASSUME n + 1 <= M PROVE \E f : Good(f, n + 1) OBVIOUS
  <2>1. PICK f : Good(f, n) BY <1>3
  <2>2. PICK here \in 1..M : here = M - n OBVIOUS
  <2>3. PICK v : v = Value(t, p, here, f[here + 1], f[here + 2]) OBVIOUS
  <2>4. PICK g : g = [f EXCEPT ![here] = v] OBVIOUS
  <2>5. DOMAIN f = 1..M BY <2>1
  <2>6. g = [j \in 1..M |-> g[j]] /\ g[here] = v /\ \A j \in 1..M : j # here => g[j] = f[j]
    BY <2>4, <2>5
  <2>7. ASSUME NEW j \in 1..M, j > M - (n + 1) PROVE g[j] = Value(t, p, j, g[j + 1], g[j + 2])
    <3>1. j >= here BY <2>2, <2>7
    <3>2. j <= Len(p) => g[j + 1] = f[j + 1] BY <1>1, <2>6, <3>1
    <3>3. j < Len(p) => g[j + 2] = f[j + 2] BY <1>1, <2>6, <3>1
    <3>4. Value(t, p, j, g[j + 1], g[j + 2]) = Value(t, p, j, f[j + 1], f[j + 2])
      <4>1. j \in 1..Len(p) + 1 BY <1>1
      <4> QED BY <3>2, <3>3, <4>1, ValueLooksAhead
    <3>5. CASE j = here BY <3>4, <3>5, <2>3, <2>6
    <3>6. CASE j # here
      <4>1. j > M - n BY <3>1, <3>6, <2>2
      <4>2. g[j] = f[j] /\ f[j] = Value(t, p, j, f[j + 1], f[j + 2]) BY <3>6, <4>1, <2>1, <2>6
      <4> QED BY <3>4, <4>2
    <3> QED BY <3>5, <3>6
  <2>8. Good(g, n + 1) BY <2>6, <2>7
  <2> HIDE DEF Good
  <2> QED BY <2>8
<1>4. \A n \in Nat : n \in P
  <2> HIDE DEF P
  <2> QED BY <1>2, <1>3, Counting
<1>5. PICK f : Good(f, M) BY <1>4
<1>6. \A j \in 1..M : f[j] = Value(t, p, j, f[j + 1], f[j + 2])
  <2>1. \A j \in 1..M : j > M - M OBVIOUS
  <2> QED BY <1>5, <2>1
<1>7. f = [j \in 1..M |-> f[j]] BY <1>5
<1>8. f = [j \in 1..M |-> Value(t, p, j, f[j + 1], f[j + 2])] BY <1>6, <1>7
<1> QED BY <1>1, <1>8

\* f has at each place of p the places of t that fit the rest of p.
Fitting(t, p, f) == \A j \in 1..Len(p) + 1 : f[j] = Value(t, p, j, f[j + 1], f[j + 2])

\* What ILike says.
LEMMA ILikeIs ==
  ASSUME NEW text \in Seq(Chars), NEW pattern \in Seq(Chars)
  PROVE  \E f : /\ Fitting(ToLower(text), ToLower(pattern), f)
                /\ ILike(text, pattern) <=> 1 \in f[1]
<1> DEFINE t == ToLower(text)
           p == ToLower(pattern)
           fits == CHOOSE f : f = [j \in 1..Len(p) + 1 |-> Value(t, p, j, f[j + 1], f[j + 2])]
<1>1. ILike(text, pattern) = (1 \in fits[1]) BY DEF ILike, Value
<1>2. t \in Seq(Chars) /\ p \in Seq(Chars) /\ Len(p) = Len(pattern) BY LowerWord
<1> HIDE DEF t, p
<1>3. \E f : f = [j \in 1..Len(p) + 1 |-> Value(t, p, j, f[j + 1], f[j + 2])] BY <1>2, ValuesExist
<1>4. fits = [j \in 1..Len(p) + 1 |-> Value(t, p, j, fits[j + 1], fits[j + 2])] BY <1>3
<1> HIDE DEF fits
<1>5. \A j \in 1..Len(p) + 1 : fits[j] = Value(t, p, j, fits[j + 1], fits[j + 2]) BY <1>4
<1> QED BY <1>1, <1>2, <1>5 DEF t, p, Fitting

\* Pattern p stands for word between two %: at[k] is the place of its k-th
\* character, which is there as it is, or after a backslash.
Reads(p, word, at) ==
  /\ at \in [1..Len(word) + 1 -> 2..Len(p)]
  /\ at[1] = 2 /\ at[Len(word) + 1] = Len(p) /\ p[1] = "%" /\ p[Len(p)] = "%"
  /\ \A k \in 1..Len(word) :
       \/ word[k] \notin Wildcards /\ p[at[k]] = word[k] /\ at[k + 1] = at[k] + 1
       \/ p[at[k]] = "\\" /\ p[at[k] + 1] = word[k] /\ at[k + 1] = at[k] + 2

\* The rest of word, from k on, is in text from place i on.
RestAt(text, word, i, k) ==
  /\ i + (Len(word) - k) <= Len(text)
  /\ \A m \in k..Len(word) : text[i + (m - k)] = word[m]

\* One character of it, and the rest of the rest.
LEMMA RestStep ==
  ASSUME NEW t \in Seq(Chars), NEW w \in Seq(Chars), NEW k \in 1..Len(w), NEW i \in 1..Len(t) + 1
  PROVE  RestAt(t, w, i, k) <=> i <= Len(t) /\ t[i] = w[k] /\ RestAt(t, w, i + 1, k + 1)
<1>1. PICK n \in Nat, L \in Nat : n = Len(t) /\ L = Len(w) BY LenProperties
<1>2. ASSUME RestAt(t, w, i, k) PROVE i <= n /\ t[i] = w[k] /\ RestAt(t, w, i + 1, k + 1)
  <2>1. i + (L - k) <= n /\ \A m \in k..L : t[i + (m - k)] = w[m] BY <1>1, <1>2 DEF RestAt
  <2>2. i <= n /\ (i + 1) + (L - (k + 1)) <= n BY <1>1, <2>1
  <2>3. t[i] = w[k]
    <3>1. k \in k..L /\ i + (k - k) = i BY <1>1
    <3> QED BY <2>1, <3>1
  <2>4. \A m \in k + 1..L : t[(i + 1) + (m - (k + 1))] = w[m]
    <3> TAKE m \in k + 1..L
    <3>1. m \in k..L /\ (i + 1) + (m - (k + 1)) = i + (m - k) BY <1>1
    <3> QED BY <2>1, <3>1
  <2> QED BY <1>1, <2>2, <2>3, <2>4 DEF RestAt
<1>3. ASSUME i <= n, t[i] = w[k], RestAt(t, w, i + 1, k + 1) PROVE RestAt(t, w, i, k)
  <2>1. (i + 1) + (L - (k + 1)) <= n /\ \A m \in k + 1..L : t[(i + 1) + (m - (k + 1))] = w[m]
    BY <1>1, <1>3 DEF RestAt
  <2>2. i + (L - k) <= n BY <1>1, <2>1
  <2>3. ASSUME NEW m \in k..L PROVE t[i + (m - k)] = w[m]
    <3>1. CASE m = k
      <4>1. i + (m - k) = i BY <1>1, <3>1
      <4> QED BY <1>3, <3>1, <4>1
    <3>2. CASE m # k
      <4>1. m \in k + 1..L /\ (i + 1) + (m - (k + 1)) = i + (m - k) BY <1>1, <3>2
      <4> QED BY <2>1, <4>1
    <3> QED BY <3>1, <3>2
  <2> QED BY <1>1, <2>2, <2>3 DEF RestAt
<1> QED BY <1>1, <1>2, <1>3

\* The places that ILike finds for the rest of such a pattern.
LEMMA PatternStep ==
  ASSUME NEW t \in Seq(Chars), NEW p \in Seq(Chars), NEW w \in Seq(Chars), NEW at, Reads(p, w, at),
         NEW f, Fitting(t, p, f),
         NEW k \in 1..Len(w)
  PROVE  \A i : i \in f[at[k]] <=> i \in 1..Len(t) /\ t[i] = w[k] /\ i + 1 \in f[at[k + 1]]
<1>1. PICK n \in Nat, M \in Nat, L \in Nat : n = Len(t) /\ M = Len(p) /\ L = Len(w)
  BY LenProperties
<1>2. k \in 1..L + 1 /\ k + 1 \in 1..L + 1 BY <1>1
<1>3. PICK j \in 2..M, next \in 2..M : j = at[k] /\ next = at[k + 1] BY <1>1, <1>2 DEF Reads
<1>4. f[j] = Value(t, p, j, f[j + 1], f[j + 2])
  <2>1. j \in 1..Len(p) + 1 BY <1>1
  <2> QED BY <2>1 DEF Fitting
<1>5. CASE w[k] \notin Wildcards /\ p[j] = w[k] /\ next = j + 1
  <2>1. p[j] # "%" /\ p[j] # "\\" /\ p[j] # "_" BY <1>5 DEF Wildcards
  <2>2. ~(j > Len(p)) BY <1>1
  <2>3. f[j] = {i \in 1..Len(t) : p[j] \in {"_", t[i]} /\ i + 1 \in f[j + 1]}
    BY <1>4, <2>1, <2>2 DEF Value
  <2>4. \A i : i \in f[j] <=> i \in 1..Len(t) /\ p[j] = t[i] /\ i + 1 \in f[j + 1] BY <2>1, <2>3
  <2> QED BY <1>3, <1>5, <2>4
<1>6. CASE p[j] = "\\" /\ p[j + 1] = w[k] /\ next = j + 2
  <2>1. p[j] # "%" BY <1>6
  <2>2. ~(j > Len(p)) /\ j < Len(p) BY <1>1, <1>6
  <2>3. f[j] = {i \in 1..Len(t) : t[i] = p[j + 1] /\ i + 1 \in f[j + 2]}
    BY <1>4, <1>6, <2>1, <2>2 DEF Value
  <2>4. \A i : i \in f[j] <=> i \in 1..Len(t) /\ t[i] = p[j + 1] /\ i + 1 \in f[j + 2] BY <2>3
  <2> QED BY <1>3, <1>6, <2>4
<1> QED BY <1>1, <1>3, <1>5, <1>6 DEF Reads

\* All of it: such a pattern fits exactly the texts that the word is in.
LEMMA PatternFits ==
  ASSUME NEW t \in Seq(Chars), NEW p \in Seq(Chars), NEW w \in Seq(Chars), NEW at, Reads(p, w, at),
         NEW f, Fitting(t, p, f)
  PROVE  1 \in f[1] <=> \E i \in 1..Len(t) + 1 : RestAt(t, w, i, 1)
<1>1. PICK n \in Nat, M \in Nat, L \in Nat : n = Len(t) /\ M = Len(p) /\ L = Len(w)
  BY LenProperties
<1>2. at[1] = 2 /\ at[L + 1] = M /\ p[1] = "%" /\ p[M] = "%" BY <1>1 DEF Reads
<1>3. M >= 2
  <2>1. 1 \in 1..L + 1 BY <1>1
  <2>2. at[1] \in 2..M BY <1>1, <2>1 DEF Reads
  <2> QED BY <2>2
<1>4. \A i : i \in f[M] <=> i \in 1..n + 1
  <2>1. M + 1 > Len(p) /\ M + 1 \in 1..Len(p) + 1 /\ M \in 1..Len(p) + 1 /\ ~(M > Len(p)) BY <1>1, <1>3
  <2>2. f[M + 1] = {n + 1} BY <1>1, <2>1 DEF Value, Fitting
  <2>3. f[M] = {i \in 1..n + 1 : \E k \in f[M + 1] : i <= k} BY <1>1, <1>2, <2>1 DEF Value, Fitting
  <2> QED BY <2>2, <2>3
<1> DEFINE P == {c \in Nat : \A k \in 1..L + 1 : k + c = L + 1 =>
                     \A i : i \in f[at[k]] <=> i \in 1..n + 1 /\ RestAt(t, w, i, k)}
<1>5. 0 \in P
  <2>1. \A i \in 1..n + 1 : RestAt(t, w, i, L + 1)
    <3> TAKE i \in 1..n + 1
    <3>1. i + (L - (L + 1)) <= n /\ \A m \in L + 1..L : FALSE BY <1>1
    <3> QED BY <1>1, <3>1 DEF RestAt
  <2>2. \A i : i \in f[at[L + 1]] <=> i \in 1..n + 1 /\ RestAt(t, w, i, L + 1)
    BY <1>2, <1>4, <2>1
  <2>3. \A k \in 1..L + 1 : k + 0 = L + 1 => k = L + 1 BY <1>1
  <2> QED BY <2>2, <2>3
<1>6. ASSUME NEW c \in Nat, c \in P PROVE c + 1 \in P
  <2>1. ASSUME NEW k \in 1..Len(w), k + (c + 1) = L + 1
        PROVE  \A i : i \in f[at[k]] <=> i \in 1..n + 1 /\ RestAt(t, w, i, k)
    <3>1. k + 1 \in 1..L + 1 /\ (k + 1) + c = L + 1 BY <1>1, <2>1
    <3>2. \A i : i \in f[at[k + 1]] <=> i \in 1..n + 1 /\ RestAt(t, w, i, k + 1) BY <1>6, <3>1
    <3>3. \A i : i \in f[at[k]] <=> i \in 1..n /\ t[i] = w[k] /\ i + 1 \in f[at[k + 1]]
      <4>1. \A i : i \in f[at[k]] <=> i \in 1..Len(t) /\ t[i] = w[k] /\ i + 1 \in f[at[k + 1]]
        BY PatternStep
      <4> QED BY <1>1, <4>1
    <3>4. ASSUME NEW i PROVE i \in f[at[k]] <=> i \in 1..n + 1 /\ RestAt(t, w, i, k)
      <4>1. CASE i \in 1..n + 1
        <5>1. i \in 1..n => i + 1 \in 1..n + 1 BY <1>1
        <5>2. i <= n <=> i \in 1..n BY <1>1, <4>1
        <5>3. RestAt(t, w, i, k) <=> i <= n /\ t[i] = w[k] /\ RestAt(t, w, i + 1, k + 1)
          BY <1>1, <4>1, RestStep
        <5> QED BY <3>2, <3>3, <4>1, <5>1, <5>2, <5>3
      <4>2. CASE i \notin 1..n + 1
        <5>1. i \notin 1..n BY <1>1, <4>2
        <5> QED BY <3>3, <4>2, <5>1
      <4> QED BY <4>1, <4>2
    <3> QED BY <3>4
  <2>2. \A k \in 1..L + 1 : k + (c + 1) = L + 1 => k \in 1..Len(w) BY <1>1
  <2> QED BY <2>1, <2>2
<1>7. \A c \in Nat : c \in P
  <2> HIDE DEF P
  <2> QED BY <1>5, <1>6, Counting
<1>8. \A i : i \in f[2] <=> i \in 1..n + 1 /\ RestAt(t, w, i, 1)
  <2>1. L \in P BY <1>1, <1>7
  <2>2. 1 \in 1..L + 1 /\ 1 + L = L + 1 BY <1>1
  <2> QED BY <1>2, <2>1, <2>2
<1>9. 1 \in f[1] <=> \E i \in f[2] : 1 <= i
  <2>1. 1 \in 1..Len(p) + 1 /\ ~(1 > Len(p)) /\ 1 + 1 = 2 /\ 1 \in 1..n + 1 BY <1>1, <1>3
  <2>2. f[1] = {i \in 1..n + 1 : \E k \in f[1 + 1] : i <= k} BY <1>1, <1>2, <2>1 DEF Value, Fitting
  <2> QED BY <2>1, <2>2
<1>10. \A i \in 1..n + 1 : 1 <= i BY <1>1
<1> QED BY <1>1, <1>8, <1>9, <1>10

\* Case does not matter for that.
LEMMA ReadsLower ==
  ASSUME NEW p \in Seq(Chars), NEW word \in Seq(Chars), NEW at, Reads(p, word, at)
  PROVE  Reads(ToLower(p), ToLower(word), at)
<1>1. PICK M \in Nat, L \in Nat : M = Len(p) /\ L = Len(word) BY LenProperties
<1>2. PICK q \in Seq(Chars), w \in Seq(Chars) :
         /\ q = ToLower(p) /\ Len(q) = M /\ \A j \in 1..M : q[j] = Lower(p[j])
         /\ w = ToLower(word) /\ Len(w) = L /\ \A k \in 1..L : w[k] = Lower(word[k])
  BY <1>1, LowerWord
<1>3. Lower("%") = "%" /\ Lower("\\") = "\\" BY DEF Lower
<1>4. at \in [1..L + 1 -> 2..M] /\ at[1] = 2 /\ at[L + 1] = M /\ p[1] = "%" /\ p[M] = "%"
  BY <1>1 DEF Reads
<1>5. at[1] \in 2..M
  <2>1. 1 \in 1..L + 1 BY <1>1
  <2> QED BY <1>4, <2>1
<1>6. q[1] = "%" /\ q[M] = "%"
  <2>1. 1 \in 1..M /\ M \in 1..M BY <1>1, <1>5
  <2> QED BY <1>2, <1>3, <1>4, <2>1
<1>7. ASSUME NEW k \in 1..L
      PROVE  \/ w[k] \notin Wildcards /\ q[at[k]] = w[k] /\ at[k + 1] = at[k] + 1
             \/ q[at[k]] = "\\" /\ q[at[k] + 1] = w[k] /\ at[k + 1] = at[k] + 2
  <2>1. k \in 1..L + 1 /\ k + 1 \in 1..L + 1 BY <1>1
  <2>2. PICK here \in 2..M, next \in 2..M : here = at[k] /\ next = at[k + 1] BY <1>4, <2>1
  <2>3. PICK char \in Chars : char = word[k] /\ w[k] = Lower(char) BY <1>1, <1>2
  <2>4. CASE char \notin Wildcards /\ p[here] = word[k] /\ next = here + 1
    <3>1. w[k] \notin Wildcards
      <4>1. Lower(char) \notin Wildcards BY <2>4, LowerChar
      <4> QED BY <2>3, <4>1
    <3>2. q[here] = Lower(p[here]) BY <1>1, <1>2
    <3> QED BY <2>2, <2>3, <2>4, <3>1, <3>2
  <2>5. CASE p[here] = "\\" /\ p[here + 1] = word[k] /\ next = here + 2
    <3>1. here \in 1..M /\ here + 1 \in 1..M BY <1>1, <2>5
    <3>2. q[here] = Lower(p[here]) /\ q[here + 1] = Lower(p[here + 1]) BY <1>2, <3>1
    <3> QED BY <1>3, <2>2, <2>3, <2>5, <3>2
  <2>6. \/ word[k] \notin Wildcards /\ p[at[k]] = word[k] /\ at[k + 1] = at[k] + 1
        \/ p[at[k]] = "\\" /\ p[at[k] + 1] = word[k] /\ at[k + 1] = at[k] + 2
    BY <1>1 DEF Reads
  <2> QED BY <2>2, <2>3, <2>4, <2>5, <2>6
<1>8. Reads(q, w, at) BY <1>2, <1>4, <1>6, <1>7 DEF Reads
<1> QED BY <1>2, <1>8

\* A word appears where all of it is, in lower case.
LEMMA AppearsIs ==
  ASSUME NEW word \in Seq(Chars), NEW text \in Seq(Chars)
  PROVE  Appears(word, text)
           <=> \E i \in 1..Len(text) + 1 : RestAt(ToLower(text), ToLower(word), i, 1)
<1>1. PICK n \in Nat, L \in Nat : n = Len(text) /\ L = Len(word) BY LenProperties
<1>2. PICK t \in Seq(Chars), w \in Seq(Chars) :
         /\ t = ToLower(text) /\ Len(t) = n /\ \A j \in 1..n : t[j] = Lower(text[j])
         /\ w = ToLower(word) /\ Len(w) = L
  BY <1>1, LowerWord
<1>3. ASSUME NEW k \in 0..n - L
      PROVE  ToLower(SubSeq(text, k + 1, k + L)) = w <=> RestAt(t, w, k + 1, 1)
  <2>1. PICK s \in Seq(Chars) :
           /\ s = SubSeq(text, k + 1, k + L) /\ Len(s) = L
           /\ \A m \in 1..L : s[m] = text[k + m]
    <3>1. k + 1 \in 1..Len(text) + 1 /\ k + L \in (k + 1) - 1..Len(text) BY <1>1
    <3>2. /\ SubSeq(text, k + 1, k + L) \in Seq(Chars)
          /\ Len(SubSeq(text, k + 1, k + L))
               = IF k + 1 <= k + L THEN (k + L) - (k + 1) + 1 ELSE 0
          /\ \A m \in 1..(k + L) - (k + 1) + 1 :
               SubSeq(text, k + 1, k + L)[m] = text[(k + 1) + m - 1]
      BY <3>1, SubSeqProperties
    <3>3. Len(SubSeq(text, k + 1, k + L)) = L BY <3>2, <1>1
    <3>4. ASSUME NEW m \in 1..L PROVE SubSeq(text, k + 1, k + L)[m] = text[k + m]
      <4>1. m \in 1..(k + L) - (k + 1) + 1 /\ (k + 1) + m - 1 = k + m BY <1>1
      <4> QED BY <3>2, <4>1
    <3> QED BY <3>2, <3>3, <3>4
  <2>2. PICK l \in Seq(Chars) :
           /\ l = ToLower(s) /\ Len(l) = L /\ \A m \in 1..L : l[m] = Lower(s[m])
    <3>1. /\ ToLower(s) \in Seq(Chars) /\ Len(ToLower(s)) = Len(s)
          /\ \A m \in 1..Len(s) : ToLower(s)[m] = Lower(s[m])
      BY LowerWord
    <3> QED BY <2>1, <3>1
  <2>3. \A m \in 1..L : l[m] = t[k + m]
    <3> TAKE m \in 1..L
    <3>1. k + m \in 1..n BY <1>1
    <3> QED BY <1>2, <2>1, <2>2, <3>1
  <2>4. l = w <=> \A m \in 1..L : t[k + m] = w[m]
    <3>1. l = w <=> \A m \in 1..L : l[m] = w[m] BY <1>2, <2>2, SeqEqual
    <3> QED BY <2>3, <3>1
  <2>5. RestAt(t, w, k + 1, 1) <=> \A m \in 1..L : t[k + m] = w[m]
    <3>1. (k + 1) + (L - 1) <= n BY <1>1
    <3>2. \A m \in 1..L : (k + 1) + (m - 1) = k + m BY <1>1
    <3> QED BY <1>2, <3>1, <3>2 DEF RestAt
  <2> QED BY <2>1, <2>2, <2>4, <2>5
<1>4. Appears(word, text) <=> \E k \in 0..n - L : RestAt(t, w, k + 1, 1)
  BY <1>1, <1>2, <1>3 DEF Appears
<1>5. ASSUME NEW i \in 1..n + 1, RestAt(t, w, i, 1)
      PROVE  \E k \in 0..n - L : RestAt(t, w, k + 1, 1)
  <2>1. i + (L - 1) <= n BY <1>2, <1>5 DEF RestAt
  <2>2. i - 1 \in 0..n - L /\ (i - 1) + 1 = i BY <1>1, <2>1
  <2> QED BY <1>5, <2>2
<1>6. \A k \in 0..n - L : k + 1 \in 1..n + 1 BY <1>1
<1> QED BY <1>1, <1>2, <1>4, <1>5, <1>6

\* So ILike finds exactly the texts in which the word appears.
LEMMA PatternMatches ==
  ASSUME NEW text \in Seq(Chars), NEW p \in Seq(Chars), NEW word \in Seq(Chars),
         NEW at, Reads(p, word, at)
  PROVE  ILike(text, p) <=> Appears(word, text)
<1>1. PICK t \in Seq(Chars), q \in Seq(Chars), w \in Seq(Chars) :
         t = ToLower(text) /\ q = ToLower(p) /\ w = ToLower(word) /\ Len(t) = Len(text)
  BY LowerWord
<1>2. PICK f : Fitting(t, q, f) /\ (ILike(text, p) <=> 1 \in f[1]) BY <1>1, ILikeIs
<1>3. Reads(q, w, at) BY <1>1, ReadsLower
<1>4. 1 \in f[1] <=> \E i \in 1..Len(t) + 1 : RestAt(t, w, i, 1) BY <1>2, <1>3, PatternFits
<1>5. Appears(word, text) <=> \E i \in 1..Len(text) + 1 : RestAt(t, w, i, 1) BY <1>1, AppearsIs
<1> QED BY <1>1, <1>2, <1>4, <1>5

\* Where the characters of a word are in its pattern.
LEMMA AroundIs ==
  ASSUME NEW word \in Seq(Chars)
  PROVE  /\ Around(word) \in Seq(Chars) /\ Len(Around(word)) = Len(word) + 2
         /\ Around(word)[1] = "%" /\ Around(word)[Len(word) + 2] = "%"
         /\ \A k \in 1..Len(word) : Around(word)[k + 1] = word[k]
<1>1. PICK L \in Nat : L = Len(word) BY LenProperties
<1>2. PICK mark \in Seq(Chars) : mark = <<"%">> /\ Len(mark) = 1 /\ mark[1] = "%"
  <2>1. "%" \in Chars BY DEF Chars
  <2>2. <<"%">> \in Seq(Chars) BY <2>1
  <2>3. Len(<<"%">>) = 1 /\ <<"%">>[1] = "%" OBVIOUS
  <2> QED BY <2>2, <2>3
<1>3. PICK s \in Seq(Chars) :
         /\ s = mark \o word /\ Len(s) = 1 + L
         /\ \A j \in 1..1 + L : s[j] = IF j <= 1 THEN mark[j] ELSE word[j - 1]
  <2>1. /\ mark \o word \in Seq(Chars) /\ Len(mark \o word) = Len(mark) + Len(word)
        /\ \A j \in 1..Len(mark) + Len(word) :
             (mark \o word)[j] = IF j <= Len(mark) THEN mark[j] ELSE word[j - Len(mark)]
    BY ConcatProperties
  <2> QED BY <1>1, <1>2, <2>1
<1>4. PICK p \in Seq(Chars) :
         /\ p = s \o mark /\ Len(p) = (1 + L) + 1
         /\ \A j \in 1..(1 + L) + 1 : p[j] = IF j <= 1 + L THEN s[j] ELSE mark[j - (1 + L)]
  <2>1. /\ s \o mark \in Seq(Chars) /\ Len(s \o mark) = Len(s) + Len(mark)
        /\ \A j \in 1..Len(s) + Len(mark) :
             (s \o mark)[j] = IF j <= Len(s) THEN s[j] ELSE mark[j - Len(s)]
    BY ConcatProperties
  <2>2. Len(s) = 1 + L /\ Len(mark) = 1 BY <1>2, <1>3
  <2> QED BY <2>1, <2>2
<1>5. Around(word) = p BY <1>2, <1>3, <1>4 DEF Around
<1>6. p[1] = "%"
  <2>1. 1 \in 1..1 + L /\ 1 \in 1..(1 + L) + 1 BY <1>1
  <2> QED BY <1>2, <1>3, <1>4, <2>1
<1>7. p[L + 2] = "%"
  <2>1. L + 2 \in 1..(1 + L) + 1 /\ ~(L + 2 <= 1 + L) /\ (L + 2) - (1 + L) = 1 BY <1>1
  <2> QED BY <1>2, <1>4, <2>1
<1>8. \A k \in 1..L : p[k + 1] = word[k]
  <2> TAKE k \in 1..L
  <2>1. k + 1 \in 1..1 + L /\ k + 1 \in 1..(1 + L) + 1 /\ ~(k + 1 <= 1) /\ (k + 1) - 1 = k BY <1>1
  <2>2. p[k + 1] = s[k + 1] BY <1>4, <2>1
  <2>3. s[k + 1] = word[(k + 1) - 1] BY <1>3, <2>1
  <2>4. s[k + 1] = word[k] BY <2>1, <2>3
  <2> QED BY <2>2, <2>4
<1>9. Len(p) = L + 2 BY <1>1, <1>4
<1> QED BY <1>1, <1>5, <1>6, <1>7, <1>8, <1>9

\* A word without wildcards needs no backslash.
LEMMA PlainPattern ==
  ASSUME NEW word \in Seq(Chars), \A k \in 1..Len(word) : word[k] \notin Wildcards,
         NEW text \in Seq(Chars)
  PROVE  ILike(text, Around(word)) <=> Appears(word, text)
<1>1. PICK L \in Nat : L = Len(word) BY LenProperties
<1>2. PICK p \in Seq(Chars) :
         /\ p = Around(word) /\ Len(p) = L + 2 /\ p[1] = "%" /\ p[L + 2] = "%"
         /\ \A k \in 1..L : p[k + 1] = word[k]
  BY <1>1, AroundIs
<1>3. PICK at : at = [k \in 1..L + 1 |-> k + 1] OBVIOUS
<1>4. at \in [1..L + 1 -> 2..L + 2] /\ at[1] = 2 /\ at[L + 1] = L + 2 BY <1>1, <1>3
<1>5. \A k \in 1..L : at[k] = k + 1 /\ at[k + 1] = (k + 1) + 1 BY <1>1, <1>3
<1>6. Reads(p, word, at) BY <1>1, <1>2, <1>4, <1>5 DEF Reads
<1> QED BY <1>2, <1>6, PatternMatches

\* An escaped word is read as it was before.
LEMMA EscapedPattern ==
  ASSUME NEW word \in Seq(Chars), NEW text \in Seq(Chars)
  PROVE  ILike(text, Around(EscapeLike(word))) <=> Appears(word, text)
<1> DEFINE piece(k) == IF word[k] \in Wildcards THEN <<"\\", word[k]>> ELSE <<word[k]>>
           seqs == [k \in DOMAIN word |-> piece(k)]
<1>1. PICK L \in Nat : L = Len(word) /\ DOMAIN word = 1..L /\ \A k \in 1..L : word[k] \in Chars
  BY LenProperties
<1>2. ASSUME NEW k \in 1..L
      PROVE  /\ piece(k) \in Seq(Chars)
             /\ \/ word[k] \notin Wildcards /\ Len(piece(k)) = 1 /\ piece(k)[1] = word[k]
                \/ Len(piece(k)) = 2 /\ piece(k)[1] = "\\" /\ piece(k)[2] = word[k]
  <2>0. word[k] \in Chars /\ "\\" \in Chars BY <1>1 DEF Chars
  <2>1. CASE word[k] \in Wildcards
    <3>1. piece(k) = <<"\\", word[k]>> BY <2>1
    <3> HIDE DEF piece
    <3> QED BY <2>0, <3>1
  <2>2. CASE word[k] \notin Wildcards
    <3>1. piece(k) = <<word[k]>> BY <2>2
    <3> HIDE DEF piece
    <3> QED BY <2>0, <2>2, <3>1
  <2> QED BY <2>1, <2>2
<1>3. EscapeLike(word) = FlattenSeq(seqs) BY DEF EscapeLike, Replace
<1>4. \A k \in 1..L : seqs[k] = piece(k) BY <1>1
<1> HIDE DEF piece
<1>5. seqs \in Seq(Seq(Chars)) /\ Len(seqs) = L BY <1>1, <1>2
<1> HIDE DEF seqs
<1>6. PICK ends \in [0..L -> Nat], flat \in Seq(Chars) :
         /\ flat = EscapeLike(word) /\ ends[0] = 0 /\ Len(flat) = ends[L]
         /\ \A k \in 1..L : ends[k] = ends[k - 1] + Len(seqs[k])
         /\ Places(seqs, flat, ends, L)
  BY <1>3, <1>5, FlattenPlaces
<1>7. PICK M \in Nat : M = Len(flat) BY LenProperties
<1>8. PICK p \in Seq(Chars) :
         /\ p = Around(flat) /\ Len(p) = M + 2 /\ p[1] = "%" /\ p[M + 2] = "%"
         /\ \A k \in 1..M : p[k + 1] = flat[k]
  BY <1>7, AroundIs
<1>9. PICK at : at = [k \in 1..L + 1 |-> ends[k - 1] + 2] OBVIOUS
<1>10. \A k \in 1..L + 1 : k - 1 \in 0..L /\ ends[k - 1] \in Nat /\ at[k] = ends[k - 1] + 2
  <2>1. \A k \in 1..L + 1 : k - 1 \in 0..L BY <1>1
  <2> QED BY <1>6, <1>9, <2>1
<1>11. ASSUME NEW k \in 1..L, NEW a \in 1..Len(seqs[k])
       PROVE  ends[k - 1] + a <= M /\ flat[ends[k - 1] + a] = seqs[k][a]
  BY <1>6, <1>7 DEF Places
<1>12. ASSUME NEW k \in 1..L
       PROVE  \/ word[k] \notin Wildcards /\ p[at[k]] = word[k] /\ at[k + 1] = at[k] + 1
              \/ p[at[k]] = "\\" /\ p[at[k] + 1] = word[k] /\ at[k + 1] = at[k] + 2
  <2>1. k \in 1..L + 1 /\ k + 1 \in 1..L + 1 /\ (k + 1) - 1 = k BY <1>1
  <2>2. PICK before \in Nat : before = ends[k - 1] /\ at[k] = before + 2 BY <1>10, <2>1
  <2>3. at[k + 1] = (before + Len(seqs[k])) + 2 BY <1>6, <1>10, <2>1, <2>2
  <2>4. CASE word[k] \notin Wildcards /\ Len(seqs[k]) = 1 /\ seqs[k][1] = word[k]
    <3>1. 1 \in 1..Len(seqs[k]) BY <2>4
    <3>2. before + 1 <= M /\ flat[before + 1] = word[k] BY <1>11, <2>2, <2>4, <3>1
    <3>3. before + 1 \in 1..M /\ (before + 1) + 1 = before + 2 BY <1>7, <3>2
    <3>4. p[before + 2] = word[k] BY <1>8, <3>2, <3>3
    <3> QED BY <2>2, <2>3, <2>4, <3>4
  <2>5. CASE Len(seqs[k]) = 2 /\ seqs[k][1] = "\\" /\ seqs[k][2] = word[k]
    <3>1. 1 \in 1..Len(seqs[k]) /\ 2 \in 1..Len(seqs[k]) BY <2>5
    <3>2. /\ before + 1 <= M /\ flat[before + 1] = "\\"
          /\ before + 2 <= M /\ flat[before + 2] = word[k]
      BY <1>11, <2>2, <2>5, <3>1
    <3>3. /\ before + 1 \in 1..M /\ (before + 1) + 1 = before + 2
          /\ before + 2 \in 1..M /\ (before + 2) + 1 = (before + 2) + 1
      BY <1>7, <3>2
    <3>4. p[before + 2] = "\\" /\ p[(before + 2) + 1] = word[k] BY <1>8, <3>2, <3>3
    <3> QED BY <2>2, <2>3, <2>5, <3>4
  <2> QED BY <1>2, <1>4, <2>4, <2>5
<1>13. at \in [1..L + 1 -> 2..M + 2]
  <2>1. ASSUME NEW k \in 1..L + 1 PROVE at[k] \in 2..M + 2
    <3>1. ends[k - 1] \in Nat /\ at[k] = ends[k - 1] + 2 BY <1>10
    <3>2. CASE k = L + 1
      <4>1. k - 1 = L BY <1>1, <3>2
      <4> QED BY <1>6, <1>7, <3>1, <4>1
    <3>3. CASE k # L + 1
      <4>1. k \in 1..L BY <1>1, <3>3
      <4>2. Len(piece(k)) = 1 \/ Len(piece(k)) = 2 BY <1>2, <4>1
      <4>3. 1 \in 1..Len(seqs[k])
        <5>1. CASE Len(seqs[k]) = 1 BY <5>1
        <5>2. CASE Len(seqs[k]) = 2 BY <5>2
        <5> QED BY <1>4, <4>1, <4>2, <5>1, <5>2
      <4>4. ends[k - 1] + 1 <= M BY <1>11, <4>1, <4>3
      <4> QED BY <1>7, <3>1, <4>4
    <3> QED BY <3>2, <3>3
  <2> QED BY <1>9, <2>1
<1>14. at[1] = 2 /\ at[L + 1] = M + 2
  <2>1. 1 \in 1..L + 1 /\ L + 1 \in 1..L + 1 /\ 1 - 1 = 0 /\ (L + 1) - 1 = L BY <1>1
  <2> QED BY <1>6, <1>7, <1>10, <2>1
<1>15. Reads(p, word, at) BY <1>1, <1>8, <1>12, <1>13, <1>14 DEF Reads
<1> QED BY <1>6, <1>8, <1>15, PatternMatches
-----------------------------------------------------------------------------
(* The rows of every state.                                                *)

\* The texts of the users are sequences of characters.
LEMMA TextsAreWords == Text \subseteq Seq(Chars) /\ Seq(Text) \subseteq Seq(Seq(Chars))
<1>1. STRING \subseteq Chars BY DEF Chars
<1>2. Text \subseteq Seq(Chars) BY <1>1, SeqMonotonic DEF Text
<1> QED BY <1>2, SeqMonotonic

\* What was normalised stays when it is normalised again.
LEMMA ListingStays ==
  ASSUME NEW req \in Listing
  PROVE  /\ NormalListing(req).title \in Seq(Chars) /\ NormalListing(req).description \in Seq(Chars)
         /\ NormalListing(NormalListing(req)) = NormalListing(req)
<1>1. req.title \in Seq(Chars) /\ req.description \in Seq(Chars) BY TextsAreWords DEF Listing
<1>2. PICK t \in Seq(Chars), d \in Seq(Chars) :
         /\ t = TrimSpace(req.title) /\ TrimSpace(t) = t
         /\ d = TrimSpace(req.description) /\ TrimSpace(d) = d
  <2>1. TrimSpace(req.title) \in Seq(Chars) /\ TrimSpace(TrimSpace(req.title)) = TrimSpace(req.title)
    BY <1>1, Trimming
  <2>2. /\ TrimSpace(req.description) \in Seq(Chars)
        /\ TrimSpace(TrimSpace(req.description)) = TrimSpace(req.description)
    BY <1>1, Trimming
  <2> QED BY <2>1, <2>2
<1>3. NormalListing(req) = [title |-> t, description |-> d, category |-> req.category,
                            condition |-> req.condition, value |-> req.value]
  <2>1. req = [title |-> req.title, description |-> req.description, category |-> req.category,
               condition |-> req.condition, value |-> req.value]
    BY DEF Listing
  <2>2. NormalListing(req) = [req EXCEPT !.title = t, !.description = d] BY <1>2 DEF NormalListing
  <2> QED BY <2>1, <2>2
<1>4. NormalListing(NormalListing(req)) = NormalListing(req)
  BY <1>2, <1>3 DEF NormalListing
<1> QED BY <1>2, <1>3, <1>4

\* The same for what is wanted.
LEMMA RequestStays ==
  ASSUME NEW req \in Request
  PROVE  /\ req.keywords \in Seq(Seq(Chars))
         /\ NormalRequest(req).keywords = Keywords(req.keywords)
         /\ NormalRequest(NormalRequest(req)) = NormalRequest(req)
<1>1. req.keywords \in Seq(Seq(Chars)) BY TextsAreWords DEF Request
<1>2. PICK k : k = Keywords(req.keywords) OBVIOUS
<1>3. PICK m : m = (IF req.min = "" THEN Missing ELSE req.min) OBVIOUS
<1>4. NormalRequest(req) = [category |-> req.category, keywords |-> k, min |-> m]
  <2>1. req = [category |-> req.category, keywords |-> req.keywords, min |-> req.min] BY DEF Request
  <2>2. NormalRequest(req) = [req EXCEPT !.keywords = k, !.min = m] BY <1>2, <1>3 DEF NormalRequest
  <2> QED BY <2>1, <2>2
<1>5. (IF m = "" THEN Missing ELSE m) = m BY <1>3
<1>6. Keywords(k) = k
  <2>0. PICK list \in Seq(Seq(Chars)) : list = req.keywords BY <1>1
  <2>1. KeywordsOf(list, k) BY <2>0, <1>2, KeywordsKept
  <2>3. \A i, j \in 1..Len(k) : k[i] = k[j] => i = j BY <2>1 DEF KeywordsOf
  <2>4. k \in Seq(Seq(Chars)) BY <2>1 DEF KeywordsOf
  <2>2. ASSUME NEW j \in 1..Len(k) PROVE Keyword(k[j]) = k[j] /\ k[j] # <<>>
    <3>1. PICK i \in 1..Len(list) : k[j] = Keyword(list[i]) /\ k[j] # <<>>
      BY <2>1 DEF KeywordsOf
    <3>2. list[i] \in Seq(Chars) OBVIOUS
    <3> QED BY <3>1, <3>2, KeywordStays
  <2>5. KeywordsOf(k, Keywords(k)) BY <2>4, KeywordsKept
  <2> QED BY <2>2, <2>3, <2>5 DEF KeywordsOf
<1>7. NormalRequest(NormalRequest(req)) = NormalRequest(req)
  BY <1>4, <1>5, <1>6 DEF NormalRequest
<1> QED BY <1>1, <1>2, <1>4, <1>7

\* Each row is what was last saved of it, normalised, and was accepted.
Saved ==
  /\ \A i \in Items : items[i] # Missing =>
       /\ \E req \in Listings[i] : items[i].listing = NormalListing(req)
       /\ ValidListing(items[i].listing)
  /\ DOMAIN typed = Wants
  /\ \A w \in Wants : wants[w] # Missing =>
       /\ typed[w] \in Requests[w] /\ wants[w].request = NormalRequest(typed[w])
       /\ ValidRequest(wants[w].request)

\* What is saved is normalised and valid.
LEMMA SavingHolds ==
  ASSUME Tables, Saved
  PROVE  /\ \A i \in Items : \A req \in Listings[i] : SaveItem(i, req) => Saved'
         /\ \A w \in Wants : \A req \in Requests[w] : SaveWant(w, req) => Saved'
<1>1. ASSUME NEW i \in Items, NEW req \in Listings[i], SaveItem(i, req) PROVE Saved'
  <2>1. PICK listing : listing = NormalListing(req) OBVIOUS
  <2>2. /\ ValidListing(listing)
        /\ items' = [items EXCEPT ![i] = [listing |-> listing, status |-> "available"]]
        /\ wants' = wants /\ typed' = typed
    BY <1>1, <2>1 DEF SaveItem
  <2>3. ASSUME NEW j \in Items, items'[j] # Missing
        PROVE  /\ \E r \in Listings[j] : items'[j].listing = NormalListing(r)
               /\ ValidListing(items'[j].listing)
    <3>1. CASE j = i
      <4>1. items'[j].listing = listing BY <2>2, <3>1 DEF Tables
      <4> QED BY <2>1, <2>2, <3>1, <4>1
    <3>2. CASE j # i
      <4>1. items'[j] = items[j] BY <2>2, <3>2 DEF Tables
      <4> QED BY <2>3, <4>1 DEF Saved
    <3> QED BY <3>1, <3>2
  <2> QED BY <2>2, <2>3 DEF Saved, ValidListing, ValidRequest
<1>2. ASSUME NEW w \in Wants, NEW req \in Requests[w], SaveWant(w, req) PROVE Saved'
  <2>1. PICK sent : sent = NormalRequest(req) OBVIOUS
  <2>2. /\ ValidRequest(sent)
        /\ wants' = [wants EXCEPT ![w] = [request |-> sent, status |-> "active"]]
        /\ typed' = [typed EXCEPT ![w] = req] /\ items' = items
    BY <1>2, <2>1 DEF SaveWant
  <2>3. ASSUME NEW v \in Wants, wants'[v] # Missing
        PROVE  /\ typed'[v] \in Requests[v] /\ wants'[v].request = NormalRequest(typed'[v])
               /\ ValidRequest(wants'[v].request)
    <3>1. CASE v = w
      <4>1. wants'[v].request = sent /\ typed'[v] = req BY <2>2, <3>1 DEF Tables, Saved
      <4> QED BY <2>1, <2>2, <3>1, <4>1
    <3>2. CASE v # w
      <4>1. wants'[v] = wants[v] /\ typed'[v] = typed[v] BY <2>2, <3>2 DEF Tables, Saved
      <4> QED BY <2>3, <4>1 DEF Saved
    <3> QED BY <3>1, <3>2
  <2>4. DOMAIN typed' = Wants BY <2>2 DEF Saved
  <2> QED BY <2>2, <2>3, <2>4 DEF Saved, ValidListing, ValidRequest
<1> QED BY <1>1, <1>2

\* A row that leaves the market keeps what was saved.
LEMMA LeavingHolds ==
  ASSUME Tables, Saved
  PROVE  /\ \A i \in Items : LeaveMarket(i) => Saved'
         /\ \A w \in Wants : CloseWant(w) => Saved'
<1>1. ASSUME NEW i \in Items, LeaveMarket(i) PROVE Saved'
  <2>1. items[i] # Missing /\ ItemRow(items[i]) BY <1>1 DEF LeaveMarket, Available, Tables
  <2>2. items' = [items EXCEPT ![i].status = "gone"] /\ wants' = wants /\ typed' = typed
    BY <1>1 DEF LeaveMarket
  <2>3. \A j \in Items : items'[j] # Missing => items[j] # Missing /\ items'[j].listing = items[j].listing
    BY <2>1, <2>2 DEF Tables, ItemRow
  <2> QED BY <2>2, <2>3 DEF Saved, ValidListing, ValidRequest
<1>2. ASSUME NEW w \in Wants, CloseWant(w) PROVE Saved'
  <2>1. wants[w] # Missing /\ WantRow(wants[w]) BY <1>2 DEF CloseWant, Active, Tables
  <2>2. wants' = [wants EXCEPT ![w].status = "closed"] /\ items' = items /\ typed' = typed
    BY <1>2 DEF CloseWant
  <2>3. \A v \in Wants : wants'[v] # Missing => wants[v] # Missing /\ wants'[v].request = wants[v].request
    BY <2>1, <2>2 DEF Tables, WantRow
  <2> QED BY <2>2, <2>3 DEF Saved, ValidListing, ValidRequest
<1> QED BY <1>1, <1>2

\* Every step leaves the rows as they were saved.
LEMMA SavedHolds == ASSUME Tables, Saved, [Next]_vars PROVE Saved'
<1>1. ASSUME NEW i \in Items, CreateItem(i) \/ UpdateItem(i) PROVE Saved'
  BY <1>1, SavingHolds DEF CreateItem, UpdateItem
<1>2. ASSUME NEW w \in Wants, CreateWant(w) \/ UpdateWant(w) PROVE Saved'
  BY <1>2, SavingHolds DEF CreateWant, UpdateWant
<1>3. CASE Pass \/ UNCHANGED vars BY <1>3 DEF Pass, vars, Saved, ValidListing, ValidRequest
<1> QED BY <1>1, <1>2, <1>3, LeavingHolds DEF Next

\* The rows of every state are as they were saved.
LEMMA AlwaysSaved == Spec => [](Tables /\ Saved)
<1>1. Init => Tables /\ Saved BY DEF Init, Tables, Saved
<1>2. Tables /\ Saved /\ [Next]_vars => (Tables /\ Saved)' BY TablesHold, SavedHolds
<1> QED BY <1>1, <1>2, PTL DEF Spec

\* What is stored would be stored and accepted again as it is, whatever was
\* typed (normalize, validate).
THEOREM WhatIsStoredStays == Spec => []RowsAreNormal
<1>1. Tables /\ Saved => RowsAreNormal
  <2> SUFFICES ASSUME Saved PROVE RowsAreNormal OBVIOUS
  <2>1. ASSUME NEW i \in Items, items[i] # Missing
        PROVE  NormalListing(items[i].listing) = items[i].listing /\ ValidListing(items[i].listing)
    <3>1. PICK req \in Listings[i] : items[i].listing = NormalListing(req) BY <2>1 DEF Saved
    <3>2. req \in Listing BY DiscoveryAssumption
    <3> QED BY <2>1, <3>1, <3>2, ListingStays DEF Saved
  <2>2. ASSUME NEW w \in Wants, wants[w] # Missing
        PROVE  NormalRequest(wants[w].request) = wants[w].request /\ ValidRequest(wants[w].request)
    <3>1. typed[w] \in Requests[w] /\ wants[w].request = NormalRequest(typed[w]) BY <2>2 DEF Saved
    <3>2. typed[w] \in Request BY <3>1, DiscoveryAssumption
    <3> QED BY <2>2, <3>1, <3>2, RequestStays DEF Saved
  <2> QED BY <2>1, <2>2 DEF RowsAreNormal
<1> QED BY <1>1, AlwaysSaved, PTL
-----------------------------------------------------------------------------
(* What is found.                                                          *)

\* Nothing appears in every text.
LEMMA NothingAppears == ASSUME NEW text \in Seq(Chars) PROVE Appears(<<>>, text)
<1>1. PICK n \in Nat : n = Len(text) BY LenProperties
<1>2. PICK none \in Seq(Chars) : none = <<>>
  <2>1. <<>> \in Seq(Chars) OBVIOUS
  <2> QED BY <2>1
<1>3. Len(none) = 0 /\ Len(ToLower(none)) = Len(none) /\ Len(ToLower(text)) = n
  BY <1>1, <1>2, LowerWord
<1>4. 1 + (0 - 1) <= n /\ 1 \in 1..n + 1 /\ \A m \in 1..0 : FALSE BY <1>1
<1>5. RestAt(ToLower(text), ToLower(none), 1, 1) BY <1>3, <1>4 DEF RestAt
<1> QED BY <1>1, <1>2, <1>4, <1>5, AppearsIs

\* The pattern of a keyword finds the texts in which the words it was typed
\* from appear.
LEMMA KeywordFinds ==
  ASSUME NEW x \in Seq(Chars)
  PROVE  /\ TrimSpace(Strip(x)) \in Seq(Chars)
         /\ Keyword(x) = <<>> <=> TrimSpace(Strip(x)) = <<>>
         /\ \A text \in Seq(Chars) :
              ILike(text, Around(Keyword(x))) <=> Appears(TrimSpace(Strip(x)), text)
<1>1. PICK s \in Seq(Chars) : s = Strip(x) BY Stripping
<1>2. PICK y \in Seq(Chars) : y = TrimSpace(s) BY Trimming
<1>3. PICK w \in Seq(Chars) :
         w = ToLower(y) /\ Len(w) = Len(y) /\ ToLower(w) = w /\ w = Keyword(x)
  BY <1>1, <1>2, LowerWord DEF Keyword
<1>4. w = <<>> <=> y = <<>> BY <1>3, EmptySeq
<1>5. \A k \in 1..Len(w) : w[k] \notin Wildcards BY <1>3, KeywordStays
<1>6. ASSUME NEW text \in Seq(Chars) PROVE ILike(text, Around(w)) <=> Appears(y, text)
  <2>1. ILike(text, Around(w)) <=> Appears(w, text) BY <1>5, PlainPattern
  <2>2. /\ Appears(w, text) <=> \E i \in 1..Len(text) + 1 : RestAt(ToLower(text), ToLower(w), i, 1)
        /\ Appears(y, text) <=> \E i \in 1..Len(text) + 1 : RestAt(ToLower(text), ToLower(y), i, 1)
    BY AppearsIs
  <2> QED BY <1>3, <2>1, <2>2
<1> QED BY <1>1, <1>2, <1>3, <1>4, <1>6

\* The texts of an item are words.
LEMMA TextsOfItems ==
  ASSUME Saved, NEW i \in Items, items[i] # Missing
  PROVE  items[i].listing.title \in Seq(Chars) /\ items[i].listing.description \in Seq(Chars)
<1>1. PICK req \in Listings[i] : items[i].listing = NormalListing(req) BY DEF Saved
<1>2. req \in Listing BY DiscoveryAssumption
<1> QED BY <1>1, <1>2, ListingStays

\* A search finds exactly the items on offer in which its words appear as they
\* were typed (escapeLike and Browse).
THEOREM SearchFindsTheWords == Spec => []SearchIsLiteral
<1>1. Tables /\ Saved => SearchIsLiteral
  <2> SUFFICES ASSUME Saved, NEW query \in Queries
               PROVE  Browse(Missing, "", query)
                        = {i \in Items : Available(i)
                              /\ \E text \in Texts(i) : Appears(TrimSpace(query), text)}
    BY DEF SearchIsLiteral
  <2>1. PICK word \in Seq(Chars) : word = TrimSpace(query)
    <3>1. query \in Seq(Chars) BY DiscoveryAssumption, TextsAreWords
    <3> QED BY <3>1, Trimming
  <2>2. PICK pattern : pattern = Around(EscapeLike(word)) OBVIOUS
  <2>3. ASSUME NEW i \in Items, Available(i)
        PROVE  /\ word = <<>> => Appears(word, items[i].listing.title)
               /\ ILike(items[i].listing.title, pattern) <=> Appears(word, items[i].listing.title)
               /\ ILike(items[i].listing.description, pattern)
                    <=> Appears(word, items[i].listing.description)
    <3>1. PICK title \in Seq(Chars), description \in Seq(Chars) :
            title = items[i].listing.title /\ description = items[i].listing.description
      BY <2>3, TextsOfItems DEF Available
    <3>2. word = <<>> => Appears(word, title) BY NothingAppears
    <3>3. ILike(title, pattern) <=> Appears(word, title) BY <2>2, EscapedPattern
    <3>4. ILike(description, pattern) <=> Appears(word, description) BY <2>2, EscapedPattern
    <3> QED BY <3>1, <3>2, <3>3, <3>4
  <2>4. Browse(Missing, "", query)
          = {i \in Items : Available(i)
                /\ (word # <<>> => \/ ILike(items[i].listing.title, pattern)
                                   \/ ILike(items[i].listing.description, pattern))}
    BY <2>1, <2>2 DEF Browse
  <2>5. \A i : (\E text \in Texts(i) : Appears(word, text))
                 <=> Appears(word, items[i].listing.title) \/ Appears(word, items[i].listing.description)
    BY DEF Texts
  <2> QED BY <2>1, <2>3, <2>4, <2>5
<1> QED BY <1>1, AlwaysSaved, PTL

\* A want takes exactly the items in which one of the words appears that its
\* user typed, less the wildcards, or every item if there is none (normalize in
\* wants.go, and the matching statement).
THEOREM KeywordsFindTheWords == Spec => []KeywordsArePlainWords
<1>1. Tables /\ Saved => KeywordsArePlainWords
  <2> SUFFICES ASSUME Saved PROVE KeywordsArePlainWords OBVIOUS
  <2>1. ASSUME NEW w \in Wants, NEW i \in Items, wants[w] # Missing, items[i] # Missing,
               NEW words,
               words = {TrimSpace(Strip(word)) : word \in Range(typed[w].keywords)} \ {<<>>}
        PROVE  HasKeyword(items[i].listing, wants[w].request)
                 <=> words = {} \/ \E word \in words, text \in Texts(i) : Appears(word, text)
    <3>1. PICK title \in Seq(Chars), description \in Seq(Chars) :
            title = items[i].listing.title /\ description = items[i].listing.description
      BY <2>1, TextsOfItems
    <3>2. Texts(i) = {title, description} BY <3>1 DEF Texts
    <3>3. typed[w] \in Request /\ wants[w].request = NormalRequest(typed[w])
      BY <2>1, DiscoveryAssumption DEF Saved
    <3>4. PICK list \in Seq(Seq(Chars)) : list = typed[w].keywords BY <3>3, RequestStays
    <3>5. PICK kept \in Seq(Seq(Chars)) :
            kept = wants[w].request.keywords /\ KeywordsOf(list, kept)
      <4>1. KeywordsOf(list, Keywords(list)) BY KeywordsKept
      <4>2. wants[w].request.keywords = Keywords(list) BY <3>3, <3>4, RequestStays
      <4> QED BY <4>1, <4>2 DEF KeywordsOf
    <3> DEFINE Shown(word) == Appears(word, title) \/ Appears(word, description)
               plain(k)    == TrimSpace(Strip(list[k]))
    <3>6. \A k \in 1..Len(list) :
            /\ Keyword(list[k]) = <<>> <=> plain(k) = <<>>
            /\ (\/ ILike(title, Around(Keyword(list[k])))
                \/ ILike(description, Around(Keyword(list[k])))) <=> Shown(plain(k))
      <4> TAKE k \in 1..Len(list)
      <4>1. list[k] \in Seq(Chars) OBVIOUS
      <4> QED BY <4>1, KeywordFinds
    <3>7. words = {plain(k) : k \in 1..Len(list)} \ {<<>>}
      <4>1. DOMAIN list = 1..Len(list) OBVIOUS
      <4> QED BY <2>1, <3>4, <4>1 DEF Range
    <3>8. HasKeyword(items[i].listing, wants[w].request)
            <=> \/ kept = <<>>
                \/ \E j \in 1..Len(kept) : \/ ILike(title, Around(kept[j]))
                                           \/ ILike(description, Around(kept[j]))
      <4>1. DOMAIN kept = 1..Len(kept) OBVIOUS
      <4> QED BY <3>1, <3>5, <4>1 DEF HasKeyword, Range
    <3>9. kept = <<>> <=> words = {}
      <4> HIDE DEF plain, Shown
      <4>1. kept = <<>> <=> Len(kept) = 0 BY EmptySeq
      <4>2. ASSUME Len(kept) = 0 PROVE words = {} BY <3>5, <3>6, <3>7, <4>2 DEF KeywordsOf
      <4>3. ASSUME Len(kept) # 0 PROVE words # {}
        <5>1. 1 \in 1..Len(kept) BY <4>3
        <5>2. PICK k \in 1..Len(list) : Keyword(list[k]) # <<>> BY <3>5, <5>1 DEF KeywordsOf
        <5>3. plain(k) # <<>> BY <3>6, <5>2
        <5> QED BY <3>7, <5>3
      <4> QED BY <4>1, <4>2, <4>3
    <3>10. (\E j \in 1..Len(kept) : \/ ILike(title, Around(kept[j]))
                                    \/ ILike(description, Around(kept[j])))
             <=> \E word \in words : Shown(word)
      <4> HIDE DEF plain, Shown
      <4>1. ASSUME NEW j \in 1..Len(kept),
                   ILike(title, Around(kept[j])) \/ ILike(description, Around(kept[j]))
            PROVE  \E word \in words : Shown(word)
        <5>1. PICK k \in 1..Len(list) : kept[j] = Keyword(list[k]) /\ Keyword(list[k]) # <<>>
          BY <3>5 DEF KeywordsOf
        <5>2. plain(k) \in words BY <3>6, <3>7, <5>1
        <5>3. Shown(plain(k)) BY <3>6, <4>1, <5>1
        <5> QED BY <5>2, <5>3
      <4>2. ASSUME NEW word \in words, Shown(word)
            PROVE  \E j \in 1..Len(kept) : \/ ILike(title, Around(kept[j]))
                                           \/ ILike(description, Around(kept[j]))
        <5>1. PICK k \in 1..Len(list) : word = plain(k) /\ plain(k) # <<>> BY <3>7
        <5>2. Keyword(list[k]) # <<>> BY <3>6, <5>1
        <5>3. PICK j \in 1..Len(kept) : kept[j] = Keyword(list[k]) BY <3>5, <5>2 DEF KeywordsOf
        <5> QED BY <3>6, <4>2, <5>1, <5>3
      <4> QED BY <4>1, <4>2
    <3> QED BY <3>2, <3>8, <3>9, <3>10
  <2> QED BY <2>1 DEF KeywordsArePlainWords, Strip
<1> QED BY <1>1, AlwaysSaved, PTL
-----------------------------------------------------------------------------
(* The worker that runs the statement, and the process around it, for any    *)
(* number of requests, changes, shutdowns and crashes.                     *)

\* The process starts well typed.
LEMMA WorkerStartsTyped == WorkerInit => TypeOK
BY WorkerAssumption DEF WorkerInit, Boot, TypeOK, RequestState

\* Requests and the passes of the worker keep the types.
LEMMA WorkStepTyped ==
  ASSUME TypeOK,
         \/ \E r \in Callers : Step(r)
         \/ Tick \/ TakeSnapshot \/ PassSucceeds \/ PassFails \/ Wake \/ StopWorker
  PROVE  TypeOK'
<1> USE WorkerAssumption DEF TypeOK
<1>1. ASSUME NEW r \in Callers, Step(r) PROVE TypeOK'
  <2>1. request' \in [Callers -> RequestState]
    BY <1>1 DEF Step, Accept, Acquire, Release, CommitChange, Refuse, Trigger, RequestState
  <2>2. changes' \in 0..MaxChanges
    BY <1>1 DEF Step, Accept, Acquire, Release, CommitChange, Refuse, Trigger
  <2>3. /\ trigger' \in BOOLEAN
        /\ UNCHANGED <<seen, stops, tried, tick, worker, snapshot, ctx, main>>
    BY <1>1 DEF Step, Accept, Acquire, Release, CommitChange, Refuse, Trigger
  <2> QED BY <2>1, <2>2, <2>3
<1>2. CASE Tick \/ Wake \/ StopWorker
  BY <1>2 DEF Tick, Wake, StopWorker
<1>3. CASE TakeSnapshot \/ PassSucceeds \/ PassFails
  BY <1>3 DEF TakeSnapshot, PassSucceeds, PassFails
<1> QED BY <1>1, <1>2, <1>3

\* So do the signals and what main does about them, a crash and a restart.
LEMMA ProcessStepTyped ==
  ASSUME TypeOK,
         Signal \/ Shutdown \/ Drained \/ ClosePool \/ Exit \/ Crash \/ Restart
  PROVE  TypeOK'
<1> USE WorkerAssumption DEF TypeOK
<1>1. CASE Signal \/ Shutdown \/ Drained \/ ClosePool \/ Exit \/ Crash
  BY <1>1 DEF Signal, Shutdown, Drained, ClosePool, Exit, Crash
<1>2. CASE Restart
  BY <1>2 DEF Restart, Boot, RequestState
<1> QED BY <1>1, <1>2

\* The state of the worker and the process is well typed.
THEOREM WorkerTyping == WorkerSpec => []TypeOK
<1>1. TypeOK /\ [WorkerNext]_workerVars => TypeOK'
  <2>1. TypeOK /\ UNCHANGED workerVars => TypeOK'
    BY DEF TypeOK, workerVars, procVars
  <2> QED BY <2>1, WorkStepTyped, ProcessStepTyped DEF WorkerNext
<1> QED BY WorkerStartsTyped, <1>1, PTL DEF WorkerSpec
-----------------------------------------------------------------------------
\* A request's step leaves behind its own promise to call Trigger, or a
\* trigger, for whatever it has committed.
LEMMA RequestKeepsWakeup ==
  ASSUME TypeOK, NoLostWakeup, NEW r \in Callers, Step(r)
  PROVE  NoLostWakeup'
<1>0. UNCHANGED <<tried, worker, main>>
  BY DEF Step, Accept, Acquire, Release, CommitChange, Refuse, Trigger
<1>1. CASE Accept(r) \/ Acquire(r) \/ Release(r) \/ Refuse(r)
  <2>1. \A s \in Callers : request[s] = "committed" => request'[s] = "committed"
    BY <1>1 DEF Accept, Acquire, Release, Refuse, TypeOK
  <2>2. UNCHANGED <<changes, trigger>>
    BY <1>1 DEF Accept, Acquire, Release, Refuse
  <2> QED BY <1>0, <2>1, <2>2 DEF NoLostWakeup
<1>2. CASE CommitChange(r)
  <2>1. request'[r] = "committed"
    BY <1>2 DEF CommitChange, TypeOK
  <2> QED BY <2>1 DEF NoLostWakeup
<1>3. CASE Trigger(r)
  BY <1>3 DEF Trigger, NoLostWakeup
<1> QED BY <1>1, <1>2, <1>3 DEF Step

\* What is taken from the channel starts a pass, and a pass that has begun
\* covers every change committed by then.
LEMMA WorkerKeepsWakeup ==
  ASSUME TypeOK, NoLostWakeup,
         Tick \/ TakeSnapshot \/ PassSucceeds \/ PassFails \/ Wake \/ StopWorker
  PROVE  NoLostWakeup'
<1>1. CASE Tick \/ StopWorker
  BY <1>1 DEF Tick, StopWorker, NoLostWakeup
<1>2. CASE TakeSnapshot
  <2>1. tried' = changes' /\ changes \in Nat
    BY <1>2 DEF TakeSnapshot, TypeOK
  <2>2. ~(tried' < changes')
    BY <1>2, <2>1 DEF TakeSnapshot
  <2> QED BY <2>2 DEF NoLostWakeup
<1>3. CASE PassSucceeds
  BY <1>3 DEF PassSucceeds, NoLostWakeup
<1>4. CASE PassFails
  <2>1. CASE worker = "starting"
    <3>1. ~(tried' < changes')
      BY <1>4, <2>1 DEF PassFails, TypeOK
    <3> QED BY <3>1 DEF NoLostWakeup
  <2>2. CASE worker # "starting"
    BY <1>4, <2>2 DEF PassFails, NoLostWakeup
  <2> QED BY <2>1, <2>2
<1>5. CASE Wake
  BY <1>5 DEF Wake, NoLostWakeup
<1> QED BY <1>1, <1>2, <1>3, <1>4, <1>5

\* A new process begins with a pass, which makes up for triggers that died with
\* the old one.
LEMMA ProcessKeepsWakeup ==
  ASSUME NoLostWakeup,
         Signal \/ Shutdown \/ Drained \/ ClosePool \/ Exit \/ Crash \/ Restart
  PROVE  NoLostWakeup'
<1>1. CASE Signal \/ Shutdown \/ Drained \/ ClosePool \/ Exit \/ Crash
  BY <1>1 DEF Signal, Shutdown, Drained, ClosePool, Exit, Crash, NoLostWakeup
<1>2. CASE Restart
  BY <1>2 DEF Restart, Boot, NoLostWakeup
<1> QED BY <1>1, <1>2

\* No wake-up is lost, with any number of requests triggering a channel that
\* holds one.
THEOREM NoWakeupIsLost == WorkerSpec => []NoLostWakeup
<1>1. WorkerInit => NoLostWakeup
  BY DEF WorkerInit, NoLostWakeup
<1>2. TypeOK /\ NoLostWakeup /\ [WorkerNext]_workerVars => NoLostWakeup'
  <2>1. NoLostWakeup /\ UNCHANGED workerVars => NoLostWakeup'
    BY DEF NoLostWakeup, workerVars, procVars
  <2> QED BY <2>1, RequestKeepsWakeup, WorkerKeepsWakeup, ProcessKeepsWakeup DEF WorkerNext
<1> QED BY <1>1, <1>2, WorkerTyping, PTL DEF WorkerSpec
=============================================================================
