----------------------------- MODULE Discovery -----------------------------
(***************************************************************************)
(* How offers are found: by people, who search the marketplace, and by the *)
(* matching statement, which compares wants with items.  Listings and      *)
(* wants are normalised and validated on their way into the tables; the    *)
(* search and the statement read what is stored there.                     *)
(*                                                                         *)
(* Exchange takes "the want fits the item" as given; here it is worked out *)
(* from category, condition and keywords.  What becomes of a match, and    *)
(* the order in which concurrent steps take effect, is the subject of      *)
(* Exchange and ExchangeTx: here each operation is one step.               *)
(***************************************************************************)
EXTENDS Words

CONSTANTS
  Items, Wants,      \* their identifiers; those of items are numbers
  Owner, Wanter,     \* [Items -> users], [Wants -> users]
  Categories,        \* catalog.Categories
  Conditions,        \* catalog.Conditions, a sequence, best first
  MaxTitle, MaxDescription, MaxKeywords, MaxKeyword,   \* limits of the two validations
  Listings, Requests,  \* for each item and each want, what its user may send
  Queries,           \* what they type into the search
  Missing            \* NULL

Text == Seq(STRING)
Listing == [title : Text, description : Text, category : STRING, condition : STRING,
            value : Int \cup {Missing}]
Request == [category : STRING, keywords : Seq(Text), min : STRING \cup {Missing}]

ASSUME DiscoveryAssumption ==
  /\ Items \subseteq Nat
  /\ DOMAIN Owner = Items /\ DOMAIN Wanter = Wants
  /\ Listings \in [Items -> SUBSET Listing] /\ Requests \in [Wants -> SUBSET Request]
  /\ Queries \subseteq Text
  /\ Missing \notin STRING \cup Int

VARIABLES
  items,    \* [Items -> [listing, status]], or Missing before it is created
  wants,    \* [Wants -> [request, status]], or Missing
  matches,  \* set of rows
  typed,    \* history: the request that each want was last saved from
  settled   \* history: nothing has changed since the last pass

vars == <<items, wants, matches, typed, settled>>

Init ==
  /\ items = [i \in Items |-> Missing]
  /\ wants = [w \in Wants |-> Missing]
  /\ matches = {}
  /\ typed = [w \in Wants |-> Missing]
  /\ settled = FALSE
-----------------------------------------------------------------------------
(* Items *)

\* A category or a condition is trimmed and lower-cased, too; here it is a value
\* that a request has in that form already.  Location and images are left out:
\* nothing looks for items by them.
NormalListing(req) ==
  [req EXCEPT !.title = TrimSpace(@), !.description = TrimSpace(@)]

ValidListing(req) ==
  /\ Len(req.title) \in 1..MaxTitle /\ Len(req.description) <= MaxDescription
  /\ req.category \in Categories
  /\ req.condition \in Range(Conditions)
  /\ req.value # Missing => req.value >= 0

\* What Create and Update have in common.
SaveItem(i, req) ==
  LET listing == NormalListing(req) IN
  /\ ValidListing(listing)
  /\ items' = [items EXCEPT ![i] = [listing |-> listing, status |-> "available"]]
  /\ settled' = FALSE
  /\ UNCHANGED <<wants, matches, typed>>

CreateItem(i) ==
  /\ items[i] = Missing
  /\ \E req \in Listings[i] : SaveItem(i, req)

Available(i) == items[i] # Missing /\ items[i].status = "available"

UpdateItem(i) == Available(i) /\ \E req \in Listings[i] : SaveItem(i, req)

\* Withdraw, or a match that reserves the item.  The matches stay as rows.
LeaveMarket(i) ==
  /\ Available(i)
  /\ items' = [items EXCEPT ![i].status = "gone"]
  /\ settled' = FALSE
  /\ UNCHANGED <<wants, matches, typed>>
-----------------------------------------------------------------------------
(* Wants *)

\* Mutant: trimmed first, so that a blank next to a wildcard stays.
KeywordTrimmedFirst(word) == ToLower(Strip(TrimSpace(word)))

Keyword(word) == ToLower(TrimSpace(Strip(word)))

\* Each keyword once, where it is first.
Keywords(list) ==
  LET words   == [k \in DOMAIN list |-> Keyword(list[k])]
      kept(k) == words[k] # <<>> /\ \A j \in 1..k - 1 : words[j] # words[k]
  IN  FlattenSeq([k \in DOMAIN list |-> IF kept(k) THEN <<words[k]>> ELSE <<>>])

NormalRequest(req) ==
  [req EXCEPT !.keywords = Keywords(@), !.min = IF @ = "" THEN Missing ELSE @]

ValidRequest(req) ==
  /\ req.category \in Categories
  /\ req.min # Missing => req.min \in Range(Conditions)
  /\ Len(req.keywords) <= MaxKeywords
  /\ \A word \in Range(req.keywords) : Len(word) <= MaxKeyword

SaveWant(w, req) ==
  LET request == NormalRequest(req) IN
  /\ ValidRequest(request)
  /\ wants' = [wants EXCEPT ![w] = [request |-> request, status |-> "active"]]
  /\ typed' = [typed EXCEPT ![w] = req]
  /\ settled' = FALSE
  /\ UNCHANGED <<items, matches>>

CreateWant(w) ==
  /\ wants[w] = Missing
  /\ \E req \in Requests[w] : SaveWant(w, req)

Active(w) == wants[w] # Missing /\ wants[w].status = "active"

UpdateWant(w) == Active(w) /\ \E req \in Requests[w] : SaveWant(w, req)

\* Cancel, or a match that fulfils the want.
CloseWant(w) ==
  /\ Active(w)
  /\ wants' = [wants EXCEPT ![w].status = "closed"]
  /\ settled' = FALSE
  /\ UNCHANGED <<items, matches, typed>>
-----------------------------------------------------------------------------
(* Search *)

\* Browse and List.  Order, limit and offset are left out.
Browse(owner, category, query) ==
  LET pattern == Around(EscapeLike(TrimSpace(query))) IN
  {i \in Items :
     /\ Available(i)
     /\ owner # Missing => Owner[i] = owner
     /\ category # "" => items[i].listing.category = category
     /\ TrimSpace(query) # <<>> =>
          \/ ILike(items[i].listing.title, pattern)
          \/ ILike(items[i].listing.description, pattern)}
-----------------------------------------------------------------------------
(* The matching statement *)

ConditionRank(condition) ==
  CASE condition = "poor" -> 1 [] condition = "fair" -> 2
    [] condition = "good" -> 3 [] condition = "like_new" -> 4
    [] condition = "new" -> 5 [] OTHER -> 0

\* The function in the database ranks the conditions of the catalogue, and as
\* the catalogue does.
ASSUME ConditionsAreRanked ==
  /\ Conditions \in Seq(STRING)
  /\ \A k \in DOMAIN Conditions : ConditionRank(Conditions[k]) > 0
  /\ \A j, k \in DOMAIN Conditions :
       j < k => ConditionRank(Conditions[j]) > ConditionRank(Conditions[k])

GoodEnough(listing, request) ==
  ConditionRank(listing.condition) >=
     ConditionRank(IF request.min = Missing THEN "poor" ELSE request.min)

HasKeyword(listing, request) ==
  \/ request.keywords = <<>>
  \/ \E word \in Range(request.keywords) :
       \/ ILike(listing.title, Around(word))
       \/ ILike(listing.description, Around(word))

WantItems ==
  {[want |-> p[1], wanter |-> Wanter[p[1]], item |-> p[2], owner |-> Owner[p[2]],
    value |-> items[p[2]].listing.value] :
   p \in {q \in Wants \X Items :
            /\ Active(q[1]) /\ Available(q[2])
            /\ LET request == wants[q[1]].request
                   listing == items[q[2]].listing
               IN  /\ listing.category = request.category
                   /\ Owner[q[2]] # Wanter[q[1]]
                   /\ GoodEnough(listing, request)
                   /\ HasKeyword(listing, request)}}

\* In hundredths, rounded down.
Score(a, b) ==
  LET greatest == IF a >= b THEN a ELSE b
      least    == IF a >= b THEN b ELSE a
  IN  CASE a = Missing \/ b = Missing -> 50
        [] a # Missing /\ b # Missing /\ greatest = 0 -> 100
        [] OTHER -> (least * 100) \div greatest

\* Mutant: every swap is taken from both sides.
EitherOrientation(ia, ib) == ib.wanter = ia.owner /\ ib.owner = ia.wanter

Joined(ia, ib) ==
  /\ ib.wanter = ia.owner /\ ib.owner = ia.wanter
  /\ ia.item < ib.item

\* Mutant: each side is given the want that its own item serves.
RowWithWantsSwapped(ia, ib) ==
  [userA |-> ia.owner, itemA |-> ia.item, wantA |-> ia.want,
   userB |-> ib.owner, itemB |-> ib.item, wantB |-> ib.want,
   score |-> Score(ia.value, ib.value)]

Row(ia, ib) ==
  [userA |-> ia.owner, itemA |-> ia.item, wantA |-> ib.want,
   userB |-> ib.owner, itemB |-> ib.item, wantB |-> ia.want,
   score |-> Score(ia.value, ib.value)]

PairOf(row) == <<row.itemA, row.itemB>>

\* DISTINCT ON: one row a pair; all have the same score, so any may be kept.
\* ON CONFLICT: a pair that has a row already keeps it.
Pass ==
  LET found == {Row(p[1], p[2]) :
                p \in {q \in WantItems \X WantItems : Joined(q[1], q[2])}}
      pairs == {PairOf(row) : row \in found} \ {PairOf(row) : row \in matches}
  IN  /\ \E kept \in [pairs -> found] :
           /\ \A p \in pairs : PairOf(kept[p]) = p
           /\ matches' = matches \cup Range(kept)
      /\ settled' = TRUE
      /\ UNCHANGED <<items, wants, typed>>
-----------------------------------------------------------------------------
Next ==
  \/ \E i \in Items : CreateItem(i) \/ UpdateItem(i) \/ LeaveMarket(i)
  \/ \E w \in Wants : CreateWant(w) \/ UpdateWant(w) \/ CloseWant(w)
  \/ Pass

Spec == Init /\ [][Next]_vars
-----------------------------------------------------------------------------
(* What it is for *)

Texts(i) == {items[i].listing.title, items[i].listing.description}

\* A search finds the items on offer in which the words appear as they were
\* typed, whatever characters they are made of: "wildcard search should be
\* literal" (escapeLike and Browse).
SearchIsLiteral ==
  \A query \in Queries :
     Browse(Missing, "", query)
       = {i \in Items : Available(i) /\ \E text \in Texts(i) : Appears(TrimSpace(query), text)}

\* Keywords behave as plain words: a want takes an item exactly if one of the
\* words its user typed, less the wildcards, appears in the item, or if nothing
\* but wildcards and blanks was typed.  What was typed is compared, not what is
\* stored, and in the pattern a keyword is not escaped (normalize in wants.go).
KeywordsArePlainWords ==
  \A w \in Wants, i \in Items :
     wants[w] # Missing /\ items[i] # Missing =>
       LET plain(word) == Replace(word, LAMBDA char : IF char \in Wildcards THEN <<>> ELSE <<char>>)
           words == {TrimSpace(plain(word)) : word \in Range(typed[w].keywords)} \ {<<>>}
       IN  HasKeyword(items[i].listing, wants[w].request)
             <=> \/ words = {}
                 \/ \E word \in words, text \in Texts(i) : Appears(word, text)

\* What is stored is in the form that a second save would give it, and would be
\* accepted again: an edit form that is sent back unchanged changes nothing and
\* is not refused (both normalize and validate).
RowsAreNormal ==
  /\ \A i \in Items : items[i] # Missing =>
       /\ NormalListing(items[i].listing) = items[i].listing
       /\ ValidListing(items[i].listing)
  /\ \A w \in Wants : wants[w] # Missing =>
       /\ NormalRequest(wants[w].request) = wants[w].request
       /\ ValidRequest(wants[w].request)

\* The user of want w would take item i: what the README says a match is.
WouldTake(w, i) ==
  LET place(condition) == CHOOSE k \in DOMAIN Conditions : Conditions[k] = condition
      listing == items[i].listing
  IN  /\ Active(w) /\ Available(i) /\ Wanter[w] # Owner[i]
      /\ listing.category = wants[w].request.category
      /\ wants[w].request.min \in Range(Conditions) =>
           place(listing.condition) <= place(wants[w].request.min)
      /\ HasKeyword(listing, wants[w].request)

\* After a pass every two items whose owners want each other's have their
\* match, and no two items ever have two of them: although every swap shows up
\* from both sides and once for every want, only one orientation is kept
\* (findMatchesSQL).
EverySwapOnce ==
  /\ settled =>
       \A i, j \in Items :
          (\E v, w \in Wants : /\ Wanter[v] = Owner[j] /\ WouldTake(v, i)
                               /\ Wanter[w] = Owner[i] /\ WouldTake(w, j))
            => \E row \in matches : {row.itemA, row.itemB} = {i, j}
  /\ \A row, other \in matches :
        {row.itemA, row.itemB} = {other.itemA, other.itemB} => row = other

\* A new match is a swap its users asked for: each side names its own user, its
\* own item and a want of its own that takes the item of the other side, and
\* the score is full for equal values and only for them (findMatchesSQL).
SuggestionsFit ==
  [][\A row \in matches' \ matches :
       /\ row.userA = Owner[row.itemA] /\ row.userB = Owner[row.itemB]
       /\ row.userA = Wanter[row.wantA] /\ WouldTake(row.wantA, row.itemB)
       /\ row.userB = Wanter[row.wantB] /\ WouldTake(row.wantB, row.itemA)
       /\ LET a == items[row.itemA].listing.value
              b == items[row.itemB].listing.value
          IN  /\ row.score \in 0..100
              /\ row.score = 100 <=> (a = b /\ a # Missing)]_vars
=============================================================================
