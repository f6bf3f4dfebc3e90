-------------------------- MODULE ExchangeTxProofs --------------------------
(***************************************************************************)
(* What row locks achieve, for any number of sessions, users, items, wants *)
(* and matches: in whatever order the statements of the transactions       *)
(* interleave, fail or are aborted, each commit changes the tables as one  *)
(* atomic step would.                                                      *)
(*                                                                         *)
(* The invariant says of each session what it may hold, and of each row it *)
(* has written how the new version compares with the committed one.  Locks *)
(* make that comparison last: nobody else commits to a row that is locked. *)
(***************************************************************************)
EXTENDS ExchangeTx, TLAPS

(* What the rows hold, and which of them a transaction may have in hand. *)

ItemStatuses == {"available", "reserved", "exchanged", "withdrawn"}
MatchStatuses == {"none", "pending", "accepted", "declined", "cancelled", "completed"}
MatchRows == [status : MatchStatuses, accepted : SUBSET Side, plan : Plans \cup {NoPlan},
              confirmed : SUBSET Side]
Modes == {"update", "nokey", "keyshare"}
OnMatch == {"accept", "decline", "cancel", "exchange", "complete"}
Statements == {"match", "items", "move", "want", "sweep", "insert"}

\* The rows of f, which may be some of the tables' rows, have values of their columns.
RowsOK(f) ==
  /\ DOMAIN f \subseteq Rows
  /\ \A i \in Items : I(i) \in DOMAIN f => f[I(i)] \in ItemStatuses
  /\ \A w \in Wants : W(w) \in DOMAIN f => f[W(w)] \in {"active", "fulfilled", "cancelled"}
  /\ \A p \in Pairs : M(p) \in DOMAIN f => f[M(p)] \in MatchRows

TypeOK ==
  /\ DOMAIN db = Rows /\ RowsOK(db)
  /\ DOMAIN mine = Tx /\ \A t \in Tx : RowsOK(mine[t])
  /\ held \in [Tx -> SUBSET (Rows \X Modes)]
  /\ txn \in [Tx -> [op : Operations \cup {"none"}, on : Rows \cup {NoRow},
                     arg : Side \cup Plans \cup {NoRow}, at : Statements \cup {"idle"},
                     todo : SUBSET Rows]]

\* The statements of each operation, and what it operates on.
Program(t) ==
  LET op == txn[t].op
      on == txn[t].on
  IN  /\ op \in {"none", "pass"} => on = NoRow
      /\ op \in OnMatch  => \E p \in Pairs : on = M(p) /\ db[M(p)].status # "none"
      /\ op = "withdraw" => \E i \in Items : on = I(i)
      /\ op = "unwant"   => \E w \in Wants : on = W(w)
      /\ op \in {"accept", "complete"} => txn[t].arg \in Side
      /\ op = "exchange" => txn[t].arg \in Plans
      /\ txn[t].at \in CASE op = "none"     -> {"idle"}
                         [] op = "accept"   -> {"match", "items", "sweep"}
                         [] op \in {"decline", "exchange"} -> {"match"}
                         [] op = "cancel"   -> {"match", "move"}
                         [] op = "complete" -> {"match", "move", "want", "sweep"}
                         [] op = "withdraw" -> {"move", "sweep"}
                         [] op = "unwant"   -> {"want", "sweep"}
                         [] op = "pass"     -> {"insert"}

\* The rows that t has still to lock are rows its statement may find.
Pending(t) ==
  LET todo == txn[t].todo
      at   == txn[t].at
  IN  /\ at = "idle"  => todo = {} /\ held[t] = {}
      /\ at = "match" => todo \subseteq {txn[t].on}
      /\ at \in {"items", "move"} => todo \subseteq {I(i) : i \in MyItems(t)}
      /\ at = "want"  => todo \subseteq {W(w) : w \in MyWants(t)}
      /\ at = "sweep" => todo \subseteq {M(p) : p \in Swept(t)}
      /\ at = "insert" => todo \subseteq {I(i) : i \in Items}

\* Its locks: nobody else can have written, or be about to write, what t has
\* written or was shown FOR UPDATE.
Has(t, r, modes) == \E m \in modes : <<r, m>> \in held[t]

Locked(t) ==
  /\ txn[t].op # "pass" => \A r \in DOMAIN mine[t] : Has(t, r, {"update", "nokey"})
  /\ txn[t].op \in OnMatch => txn[t].on \in txn[t].todo \/ Has(t, txn[t].on, {"update"})
  /\ txn[t].at = "items" =>
       \A i \in MyItems(t) : I(i) \in txn[t].todo \/ Has(t, I(i), {"update"})
  /\ txn[t].at = "sweep" /\ txn[t].op = "accept" =>
       \A i \in MyItems(t) : Has(t, I(i), {"update"})
  /\ txn[t].op = "pass" =>
       \A p \in Pairs : M(p) \in DOMAIN mine[t] =>
         \A i \in ItemsOf(p) : I(i) \in txn[t].todo \/ Has(t, I(i), {"keyshare"})

Exclusive ==
  \A s, t \in Tx : s # t =>
    \A g \in held[s], h \in held[t] : g[1] = h[1] => ~Conflicts(g[2], h[2])

\* What t has written so far, next to what is committed.
Source(op) == IF op \in {"withdraw", "accept"} THEN "available" ELSE "reserved"
Target(op) == IF op = "accept" THEN "reserved" ELSE To(op)

Closed(op) == IF op = "unwant" THEN "cancelled" ELSE "fulfilled"

\* The match operated on: m is committed, n is the new version.
OwnMatch(op, arg, at, m, n) ==
  CASE op = "accept" ->
         /\ m.status = "pending" /\ m.accepted # Side /\ m.accepted \cup {arg} = Side
         /\ n = [m EXCEPT !.accepted = Side,
                          !.status = IF at = "items" THEN "pending" ELSE "accepted"]
    [] op = "cancel" ->
         m.status = "accepted" /\ n = [m EXCEPT !.status = "cancelled"]
    [] op = "complete" ->
         /\ m.status = "accepted" /\ m.plan # NoPlan /\ m.confirmed \cup {arg} = Side
         /\ n = [m EXCEPT !.confirmed = Side, !.status = "completed"]
    [] OTHER -> FALSE

Written(t) ==
  LET op == txn[t].op IN
  /\ \A i \in Items : I(i) \in DOMAIN mine[t] =>
       /\ op \in {"withdraw", "accept", "cancel", "complete"} /\ i \in MyItems(t)
       /\ db[I(i)] = Source(op) /\ mine[t][I(i)] = Target(op)
  /\ \A w \in Wants : W(w) \in DOMAIN mine[t] =>
       /\ op \in {"unwant", "complete"} /\ w \in MyWants(t)
       /\ db[W(w)] = "active" /\ mine[t][W(w)] = Closed(op)
  /\ \A p \in Pairs : M(p) \in DOMAIN mine[t] =>
       \/ op = "pass" /\ db[M(p)].status = "none" /\ mine[t][M(p)] = Fresh
       \/ /\ op \in OnMatch /\ txn[t].on = M(p)
          /\ OwnMatch(op, txn[t].arg, txn[t].at, db[M(p)], mine[t][M(p)])
       \/ /\ txn[t].at = "sweep" /\ p \in Swept(t) /\ txn[t].on # M(p)
          /\ db[M(p)].status = "pending"
          /\ mine[t][M(p)] = [db[M(p)] EXCEPT !.status = "cancelled"]

\* How far t has come: what the statements behind it have written.
Progress(t) ==
  LET op == txn[t].op
      at == txn[t].at
      items == {I(i) : i \in MyItems(t)}
      wants == {W(w) : w \in MyWants(t)}
  IN  /\ at \in {"idle", "match"} => DOMAIN mine[t] = {}
      /\ op \in OnMatch /\ at # "match" => txn[t].on \in DOMAIN mine[t]
      /\ at = "items" => DOMAIN mine[t] = {txn[t].on}
      /\ at = "move" /\ op \in {"cancel", "complete"} =>
           items \subseteq txn[t].todo \cup DOMAIN mine[t]
      /\ at \in {"want", "sweep"} /\ op \in {"accept", "complete"} => items \subseteq DOMAIN mine[t]
      /\ at = "sweep" /\ op = "withdraw" => items \subseteq DOMAIN mine[t]
      /\ at = "move" /\ op = "withdraw" => DOMAIN mine[t] \subseteq items
      /\ at = "want" /\ op = "unwant" => DOMAIN mine[t] \subseteq wants
      /\ at = "sweep" /\ op = "unwant" => wants \subseteq DOMAIN mine[t]
      /\ at \in {"want", "sweep"} /\ op = "complete" =>
           \A w \in MyWants(t) : (at = "want" /\ W(w) \in txn[t].todo) \/ View(t, W(w)) # "active"

OnePass == \A s, t \in Tx : txn[s].op = "pass" /\ txn[t].op = "pass" => s = t

\* The committed tables: CommittedAgree, that a swap which is agreed or carried
\* out shares no item with another, and that what is no row yet is empty.
Taken == {"accepted", "completed"}

Agree(f) ==
  /\ \A i \in Items :
       /\ f[I(i)] = "reserved"  <=> \E p \in Pairs : f[M(p)].status = "accepted" /\ i \in ItemsOf(p)
       /\ f[I(i)] = "exchanged" <=> \E p \in Pairs : f[M(p)].status = "completed" /\ i \in ItemsOf(p)
  /\ \A p, q \in Pairs :
       f[M(p)].status \in Taken /\ f[M(q)].status \in Taken /\ p # q
         => ItemsOf(p) \cap ItemsOf(q) = {}
  /\ \A p \in Pairs :
       /\ f[M(p)].status = "none" =>
            f[M(p)].accepted = {} /\ f[M(p)].confirmed = {} /\ f[M(p)].plan = NoPlan
       /\ f[M(p)].status \in Taken => f[M(p)].accepted = Side
       /\ f[M(p)].status = "completed" <=> f[M(p)].confirmed = Side
       /\ f[M(p)].confirmed # {} => f[M(p)].plan # NoPlan
       /\ f[M(p)].status = "completed" => \A w \in Relies[p] : f[W(w)] # "active"

Transaction(t) == Program(t) /\ Pending(t) /\ Locked(t) /\ Written(t) /\ Progress(t)

Inv == TypeOK /\ (\A t \in Tx : Transaction(t)) /\ Exclusive /\ OnePass /\ Agree(db)
-----------------------------------------------------------------------------
(* What a commit may do to the tables: f before, g after it.               *)

\* A match that is neither bound nor released.
Loose(m, n) ==
  \/ n = m
  \/ /\ m.status # "none"
     /\ n.status = m.status \/ (m.status = "pending" /\ n.status \in {"declined", "cancelled"})
     /\ m.accepted \subseteq n.accepted
     /\ \/ n.plan = m.plan /\ m.confirmed \subseteq n.confirmed
        \/ n.plan # m.plan /\ n.confirmed = {} /\ m.status = "accepted"
     /\ n.confirmed = Side => m.confirmed = Side
     /\ n.confirmed = m.confirmed \/ n.plan # NoPlan

ItemsMove(f, g, S, from, to) ==
  \A i \in Items : IF i \in S THEN f[I(i)] = from /\ g[I(i)] = to ELSE g[I(i)] = f[I(i)]
WantsClose(f, g) == \A w \in Wants : g[W(w)] = "active" => f[W(w)] = "active"

Proposes(f, g) ==
  /\ ItemsMove(f, g, {}, "available", "available")
  /\ \A q \in Pairs : g[M(q)] = f[M(q)] \/ (f[M(q)].status = "none" /\ g[M(q)] = Fresh)
LetsGo(f, g) ==
  /\ ItemsMove(f, g, {}, "available", "available")
  /\ \A q \in Pairs : Loose(f[M(q)], g[M(q)])
Retires(f, g, i) ==
  /\ ItemsMove(f, g, {i}, "available", "withdrawn")
  /\ \A q \in Pairs : Loose(f[M(q)], g[M(q)])
Agrees(f, g, p) ==
  /\ ItemsMove(f, g, ItemsOf(p), "available", "reserved")
  /\ \A q \in Pairs \ {p} : Loose(f[M(q)], g[M(q)])
  /\ f[M(p)].status = "pending" /\ g[M(p)].status = "accepted"
  /\ g[M(p)].accepted = Side
  /\ g[M(p)].confirmed = f[M(p)].confirmed /\ g[M(p)].plan = f[M(p)].plan
Cancels(f, g, p) ==
  /\ ItemsMove(f, g, ItemsOf(p), "reserved", "available")
  /\ \A q \in Pairs \ {p} : g[M(q)] = f[M(q)]
  /\ f[M(p)].status = "accepted" /\ g[M(p)] = [f[M(p)] EXCEPT !.status = "cancelled"]
Completes(f, g, p) ==
  /\ ItemsMove(f, g, ItemsOf(p), "reserved", "exchanged")
  /\ \A q \in Pairs \ {p} : Loose(f[M(q)], g[M(q)])
  /\ f[M(p)].status = "accepted" /\ g[M(p)].status = "completed"
  /\ g[M(p)].accepted = f[M(p)].accepted /\ g[M(p)].confirmed = Side
  /\ g[M(p)].plan = f[M(p)].plan /\ f[M(p)].plan # NoPlan
  /\ \A w \in Relies[p] : g[W(w)] # "active"

Lawful(f, g) ==
  /\ WantsClose(f, g)
  /\ \/ Proposes(f, g) \/ LetsGo(f, g)
     \/ \E i \in Items : Retires(f, g, i)
     \/ \E p \in Pairs : Agrees(f, g, p) \/ Cancels(f, g, p) \/ Completes(f, g, p)
-----------------------------------------------------------------------------
\* Ids of rows of different tables differ, and a pair names items.
LEMMA Ids ==
  /\ \A i, j : I(i) = I(j) => i = j
  /\ \A p, q : M(p) = M(q) => p = q
  /\ \A v, w : W(v) = W(w) => v = w
  /\ \A i, p, w : I(i) # M(p) /\ I(i) # W(w) /\ M(p) # W(w)
  /\ \A i : I(i)[2] = i
  /\ \A p : M(p)[2] = p
  /\ \A w : W(w)[2] = w
BY DEF I, M, W

\* Every item, match and want is a row, and there are no others.
LEMMA InRows ==
  /\ \A i \in Items : I(i) \in Rows
  /\ \A p \in Pairs : M(p) \in Rows /\ ItemsOf(p) \subseteq Items
  /\ \A w \in Wants : W(w) \in Rows
  /\ \A r \in Rows : (\E i \in Items : r = I(i)) \/ (\E p \in Pairs : r = M(p)) \/ (\E w \in Wants : r = W(w))
<1>1. \A p \in Pairs : ItemsOf(p) \subseteq Items BY TxAssumption DEF ItemsOf
<1> QED BY <1>1 DEF Rows

\* Tables that agree still do after an atomic change.
LEMMA AgreeHolds ==
  ASSUME NEW f, NEW g, RowsOK(f), RowsOK(g), DOMAIN f = Rows, DOMAIN g = Rows,
         Agree(f), Lawful(f, g)
  PROVE  Agree(g)
<1> USE DEF Taken
<1>t. \A p \in Pairs : f[M(p)] \in MatchRows /\ g[M(p)] \in MatchRows
  BY InRows DEF RowsOK
<1>w. \A w \in Wants : g[W(w)] = "active" => f[W(w)] = "active" BY DEF Lawful, WantsClose
<1>r. Relies \in [Pairs -> SUBSET Wants] /\ Side # {} BY TxAssumption
\* A loose match keeps what is said of it.
<1>l. ASSUME NEW q \in Pairs, Loose(f[M(q)], g[M(q)])
      PROVE  /\ g[M(q)].status \in Taken <=> f[M(q)].status \in Taken
             /\ g[M(q)].status = "accepted" <=> f[M(q)].status = "accepted"
             /\ g[M(q)].status = "completed" <=> f[M(q)].status = "completed"
             /\ g[M(q)].status = "none" =>
                  g[M(q)].accepted = {} /\ g[M(q)].confirmed = {} /\ g[M(q)].plan = NoPlan
             /\ g[M(q)].status \in Taken => g[M(q)].accepted = Side
             /\ g[M(q)].status = "completed" <=> g[M(q)].confirmed = Side
             /\ g[M(q)].confirmed # {} => g[M(q)].plan # NoPlan
             /\ g[M(q)].status = "completed" => \A w \in Relies[q] : g[W(w)] # "active"
  BY <1>l, <1>t, <1>w, <1>r DEF Loose, Agree, MatchRows
<1>1. CASE Proposes(f, g)
  <2>1. \A q \in Pairs : /\ g[M(q)].status \in Taken <=> f[M(q)].status \in Taken
                         /\ g[M(q)].status = "accepted" <=> f[M(q)].status = "accepted"
                         /\ g[M(q)].status = "completed" <=> f[M(q)].status = "completed"
    BY <1>1 DEF Proposes, Fresh
  <2>2. \A i \in Items : g[I(i)] = f[I(i)] BY <1>1 DEF Proposes, ItemsMove
  <2>3. \A q \in Pairs :
             /\ g[M(q)].status = "none" =>
                  g[M(q)].accepted = {} /\ g[M(q)].confirmed = {} /\ g[M(q)].plan = NoPlan
             /\ g[M(q)].status \in Taken => g[M(q)].accepted = Side
             /\ g[M(q)].status = "completed" <=> g[M(q)].confirmed = Side
             /\ g[M(q)].confirmed # {} => g[M(q)].plan # NoPlan
             /\ g[M(q)].status = "completed" => \A w \in Relies[q] : g[W(w)] # "active"
    BY <1>1, <1>w, <1>r DEF Proposes, Fresh, Agree
  <2> QED BY <2>1, <2>2, <2>3 DEF Agree
<1>2. CASE LetsGo(f, g)
  <2>1. \A q \in Pairs : Loose(f[M(q)], g[M(q)]) BY <1>2 DEF LetsGo
  <2>2. \A i \in Items : g[I(i)] = f[I(i)] BY <1>2 DEF LetsGo, ItemsMove
  <2> QED BY <2>1, <2>2, <1>l DEF Agree
<1>3. ASSUME NEW i \in Items, Retires(f, g, i) PROVE Agree(g)
  <2>1. \A q \in Pairs : Loose(f[M(q)], g[M(q)]) BY <1>3 DEF Retires
  <2>2. \A j \in Items : /\ g[I(j)] = "reserved" <=> f[I(j)] = "reserved"
                         /\ g[I(j)] = "exchanged" <=> f[I(j)] = "exchanged"
    BY <1>3 DEF Retires, ItemsMove
  <2> QED BY <2>1, <2>2, <1>l DEF Agree
\* Three changes take one match p from bound to loose, or back.
<1>4. ASSUME NEW p \in Pairs, Agrees(f, g, p) \/ Cancels(f, g, p) \/ Completes(f, g, p)
      PROVE  Agree(g)
  <2>1. \A q \in Pairs \ {p} : Loose(f[M(q)], g[M(q)])
    BY <1>4 DEF Agrees, Cancels, Completes, Loose
  <2>2. \A q \in Pairs : f[M(q)].status \in Taken /\ q # p => ItemsOf(p) \cap ItemsOf(q) = {}
    <3>1. CASE Agrees(f, g, p)
      <4>1. \A i \in ItemsOf(p) : i \in Items /\ f[I(i)] = "available" BY <3>1, InRows DEF Agrees, ItemsMove
      <4> QED BY <4>1 DEF Agree
    <3>2. CASE Cancels(f, g, p) \/ Completes(f, g, p)
      BY <3>2 DEF Agree, Cancels, Completes
    <3> QED BY <1>4, <3>1, <3>2
  <2>3. \A q, r \in Pairs : g[M(q)].status \in Taken /\ g[M(r)].status \in Taken /\ q # r
                              => ItemsOf(q) \cap ItemsOf(r) = {}
    <3> SUFFICES ASSUME NEW q \in Pairs, NEW r \in Pairs, q # r,
                        g[M(q)].status \in Taken, g[M(r)].status \in Taken
                 PROVE  ItemsOf(q) \cap ItemsOf(r) = {}
      OBVIOUS
    <3>1. CASE q = p BY <3>1, <2>1, <2>2, <1>l
    <3>2. CASE r = p BY <3>2, <2>1, <2>2, <1>l
    <3>3. CASE q # p /\ r # p
      <4>1. f[M(q)].status \in Taken /\ f[M(r)].status \in Taken BY <3>3, <2>1, <1>l
      <4> QED BY <4>1 DEF Agree
    <3> QED BY <3>1, <3>2, <3>3
  <2>4. ASSUME NEW i \in Items, NEW s \in {<<"reserved", "accepted">>, <<"exchanged", "completed">>}
        PROVE  g[I(i)] = s[1] <=> \E q \in Pairs : g[M(q)].status = s[2] /\ i \in ItemsOf(q)
    <3>1. CASE i \in ItemsOf(p)
      <4>1. \A q \in Pairs \ {p} : i \in ItemsOf(q) => g[M(q)].status \notin Taken
        BY <3>1, <2>1, <2>2, <1>l
      <4>2. g[I(i)] = s[1] <=> g[M(p)].status = s[2]
        BY <1>4, <3>1, <1>t DEF Agrees, Cancels, Completes, ItemsMove, MatchRows
      <4> QED BY <3>1, <4>1, <4>2
    <3>2. CASE i \notin ItemsOf(p)
      <4>1. g[I(i)] = f[I(i)] BY <1>4, <3>2 DEF Agrees, Cancels, Completes, ItemsMove
      <4>2. \A q \in Pairs : i \in ItemsOf(q) => (g[M(q)].status = s[2] <=> f[M(q)].status = s[2])
        BY <3>2, <2>1, <1>l
      <4>3. f[I(i)] = s[1] <=> \E q \in Pairs : f[M(q)].status = s[2] /\ i \in ItemsOf(q)
        BY DEF Agree
      <4> QED BY <4>1, <4>2, <4>3
    <3> QED BY <3>1, <3>2
  <2>5. \A q \in Pairs :
             /\ g[M(q)].status = "none" =>
                  g[M(q)].accepted = {} /\ g[M(q)].confirmed = {} /\ g[M(q)].plan = NoPlan
             /\ g[M(q)].status \in Taken => g[M(q)].accepted = Side
             /\ g[M(q)].status = "completed" <=> g[M(q)].confirmed = Side
             /\ g[M(q)].confirmed # {} => g[M(q)].plan # NoPlan
             /\ g[M(q)].status = "completed" => \A w \in Relies[q] : g[W(w)] # "active"
    <3> SUFFICES ASSUME NEW q \in Pairs
                 PROVE /\ g[M(q)].status = "none" =>
                            g[M(q)].accepted = {} /\ g[M(q)].confirmed = {} /\ g[M(q)].plan = NoPlan
                       /\ g[M(q)].status \in Taken => g[M(q)].accepted = Side
                       /\ g[M(q)].status = "completed" <=> g[M(q)].confirmed = Side
                       /\ g[M(q)].confirmed # {} => g[M(q)].plan # NoPlan
                       /\ g[M(q)].status = "completed" => \A w \in Relies[q] : g[W(w)] # "active"
      OBVIOUS
    <3>1. CASE q # p BY <3>1, <2>1, <1>l
    <3>2. CASE q = p
      <4>1. CASE Agrees(f, g, p) BY <4>1, <3>2, <1>t DEF Agrees, Agree, MatchRows
      <4>2. CASE Cancels(f, g, p) BY <4>2, <3>2, <1>t DEF Cancels, Agree, MatchRows
      <4>3. CASE Completes(f, g, p) BY <4>3, <3>2, <1>t DEF Completes, Agree, MatchRows
      <4> QED BY <1>4, <4>1, <4>2, <4>3
    <3> QED BY <3>1, <3>2
  <2> QED BY <2>3, <2>4, <2>5 DEF Agree
<1> QED BY <1>1, <1>2, <1>3, <1>4 DEF Lawful
-----------------------------------------------------------------------------
(* What a step of one session leaves to the others.                        *)

\* The parts of the types that the proofs use.
LEMMA Types ==
  ASSUME TypeOK, NEW t \in Tx
  PROVE  /\ DOMAIN mine[t] \subseteq Rows
         /\ held[t] \subseteq Rows \X Modes
         /\ txn[t].op \in Operations \cup {"none"}
         /\ txn[t].on \in Rows \cup {NoRow}
         /\ txn[t].arg \in Side \cup Plans \cup {NoRow}
         /\ txn[t].at \in Statements \cup {"idle"}
         /\ txn[t].todo \subseteq Rows
         /\ \A i \in Items : db[I(i)] \in ItemStatuses
         /\ \A w \in Wants : db[W(w)] \in {"active", "fulfilled", "cancelled"}
         /\ \A p \in Pairs : db[M(p)] \in MatchRows
         /\ \A i \in Items : I(i) \in DOMAIN mine[t] => mine[t][I(i)] \in ItemStatuses
         /\ \A w \in Wants : W(w) \in DOMAIN mine[t] =>
              mine[t][W(w)] \in {"active", "fulfilled", "cancelled"}
         /\ \A p \in Pairs : M(p) \in DOMAIN mine[t] => mine[t][M(p)] \in MatchRows
<1>1. RowsOK(db) /\ RowsOK(mine[t]) /\ DOMAIN db = Rows BY DEF TypeOK
<1>2. /\ held[t] \subseteq Rows \X Modes
      /\ txn[t] \in [op : Operations \cup {"none"}, on : Rows \cup {NoRow},
                     arg : Side \cup Plans \cup {NoRow}, at : Statements \cup {"idle"},
                     todo : SUBSET Rows]
  BY DEF TypeOK
<1> QED BY <1>1, <1>2, InRows DEF RowsOK

\* The matching statement has only written matches that are not there yet.
LEMMA FreshRows ==
  ASSUME Inv, NEW t \in Tx, txn[t].op = "pass", NEW r \in DOMAIN mine[t]
  PROVE  \E p \in Pairs : r = M(p) /\ db[M(p)].status = "none" /\ mine[t][M(p)] = Fresh
<1>1. r \in Rows /\ Written(t) /\ Program(t) BY Types DEF Inv, Transaction
<1>2. txn[t].at = "insert" BY <1>1 DEF Program
<1>3. CASE \E i \in Items : r = I(i) BY <1>1, <1>3 DEF Written
<1>4. CASE \E w \in Wants : r = W(w) BY <1>1, <1>4 DEF Written
<1>5. CASE \E p \in Pairs : r = M(p) BY <1>1, <1>2, <1>5 DEF Written, OnMatch
<1> QED BY <1>1, <1>3, <1>4, <1>5, InRows

\* A row that one session has written, or read to write it, is nobody else's.
LEMMA OwnRows ==
  ASSUME Inv, NEW s \in Tx, NEW t \in Tx, s # t, NEW r \in DOMAIN mine[s],
         \/ r \in DOMAIN mine[t]
         \/ txn[t].op \in OnMatch /\ txn[t].on = r /\ Has(t, r, {"update"})
  PROVE  FALSE
<1> USE DEF Inv, Transaction
<1>1. CASE txn[s].op = "pass"
  <2>1. PICK p \in Pairs : r = M(p) /\ db[M(p)].status = "none"
    BY <1>1, FreshRows
  <2>2. txn[t].op # "pass" BY <1>1 DEF OnePass
  <2>3. CASE r \in DOMAIN mine[t]
    BY <2>1, <2>2, <2>3 DEF Written, OwnMatch
  <2>4. CASE txn[t].op \in OnMatch /\ txn[t].on = r
    BY <2>1, <2>4, Ids DEF Program
  <2> QED BY <2>3, <2>4
<1>2. CASE txn[s].op # "pass" /\ txn[t].op = "pass"
  <2>1. r \in DOMAIN mine[t] BY <1>2 DEF OnMatch
  <2>2. PICK p \in Pairs : r = M(p) /\ db[M(p)].status = "none"
    BY <2>1, <1>2, FreshRows
  <2> QED BY <1>2, <2>2 DEF Written, OwnMatch
<1>3. CASE txn[s].op # "pass" /\ txn[t].op # "pass"
  <2>1. Has(s, r, {"update", "nokey"}) /\ Has(t, r, {"update", "nokey"})
    BY <1>3 DEF Locked, Has
  <2>2. PICK m \in {"update", "nokey"}, n \in {"update", "nokey"} : <<r, m>> \in held[s] /\ <<r, n>> \in held[t]
    BY <2>1 DEF Has
  <2> QED BY <2>2 DEF Exclusive, Conflicts
<1> QED BY <1>1, <1>2, <1>3

\* A session that takes no step itself is in order as long as what it has
\* written keeps its committed value, and matches and wants only move on.
LEMMA OthersHold ==
  ASSUME Inv, NEW s \in Tx,
         mine'[s] = mine[s], held'[s] = held[s], txn'[s] = txn[s],
         \A r \in DOMAIN mine[s] : db'[r] = db[r],
         \A p \in Pairs : db[M(p)].status # "none" => db'[M(p)].status # "none",
         WantsClose(db, db')
  PROVE  Transaction(s)'
<1>1. Program(s)' BY DEF Inv, Transaction, Program
<1>2. MyItems(s)' = MyItems(s) /\ MyWants(s)' = MyWants(s) /\ Swept(s)' = Swept(s)
  BY DEF MyItems, MyWants, Swept, Of
<1>3. Pending(s)' BY <1>2 DEF Inv, Transaction, Pending
<1>4. Locked(s)' BY <1>2 DEF Inv, Transaction, Locked, Has
<1>5. Written(s)' BY <1>2 DEF Inv, Transaction, Written
<1>6. Progress(s)'
  <2>1. \A w \in MyWants(s) : txn[s].op = "complete" /\ View(s, W(w)) # "active" => View(s, W(w))' # "active"
    <3> SUFFICES ASSUME NEW w \in MyWants(s), txn[s].op = "complete", View(s, W(w)) # "active"
                 PROVE  View(s, W(w))' # "active"
      OBVIOUS
    <3>1. PICK p \in Pairs : txn[s].on = M(p) BY DEF Inv, Transaction, Program, OnMatch
    <3>2. w \in Wants BY <3>1, Ids, TxAssumption DEF MyWants, Of
    <3> QED BY <3>2 DEF View, WantsClose
  <2> QED BY <1>2, <2>1 DEF Inv, Transaction, Progress
<1> QED BY <1>1, <1>3, <1>4, <1>5, <1>6 DEF Transaction

\* Lawful changes leave no match without a row and open no want.
LEMMA MovesOn ==
  ASSUME NEW f, NEW g, RowsOK(f), DOMAIN f = Rows, Lawful(f, g)
  PROVE  /\ WantsClose(f, g)
         /\ \A p \in Pairs : f[M(p)].status # "none" => g[M(p)].status # "none"
<1>1. ASSUME NEW p \in Pairs, Loose(f[M(p)], g[M(p)]) \/ g[M(p)] = f[M(p)], f[M(p)].status # "none"
      PROVE  g[M(p)].status # "none"
  BY <1>1 DEF Loose
<1>2. \A p \in Pairs : \/ Loose(f[M(p)], g[M(p)]) \/ g[M(p)] = f[M(p)]
                       \/ f[M(p)].status = "none"
                       \/ g[M(p)].status \in {"accepted", "cancelled", "completed"}
  <2>1. \A p \in Pairs : f[M(p)] \in MatchRows BY InRows DEF RowsOK
  <2>2. ASSUME NEW q \in Pairs, Cancels(f, g, q)
        PROVE  \A p \in Pairs : g[M(p)] = f[M(p)] \/ g[M(p)].status = "cancelled"
    BY <2>1, <2>2 DEF Cancels, MatchRows
  <2> QED BY <2>2 DEF Lawful, Proposes, LetsGo, Retires, Agrees, Completes
<1> QED BY <1>1, <1>2 DEF Lawful

\* A transaction that ends is forgotten; what it committed is atomic.
LEMMA EndHolds ==
  ASSUME Inv, NEW t \in Tx, End(t),
         DOMAIN db' = Rows, RowsOK(db'), db' = db \/ Lawful(db, db'),
         \A s \in Tx \ {t} : \A r \in DOMAIN mine[s] : db'[r] = db[r]
  PROVE  Inv'
<1>1. /\ mine'[t] = <<>> /\ held'[t] = {} /\ txn'[t] = Idle
      /\ \A s \in Tx \ {t} : mine'[s] = mine[s] /\ held'[s] = held[s] /\ txn'[s] = txn[s]
      /\ DOMAIN mine' = Tx
  BY DEF End, Inv, TypeOK
<1>2. Agree(db')
  BY AgreeHolds DEF Inv, TypeOK
<1>3. WantsClose(db, db') /\ \A p \in Pairs : db[M(p)].status # "none" => db'[M(p)].status # "none"
  BY MovesOn DEF WantsClose, Inv, TypeOK
<1>4. ASSUME NEW s \in Tx \ {t} PROVE Transaction(s)'
  BY <1>1, <1>3, <1>4, OthersHold
<1>5. Transaction(t)'
  <2>1. DOMAIN mine'[t] = {} BY <1>1
  <2>2. Program(t)' BY <1>1 DEF Program, Idle, OnMatch
  <2>3. Pending(t)' BY <1>1 DEF Pending, Idle
  <2>4. Locked(t)' BY <1>1, <2>1 DEF Locked, Idle, OnMatch
  <2>5. Written(t)' BY <2>1 DEF Written
  <2>6. Progress(t)' BY <1>1, <2>1 DEF Progress, Idle, OnMatch
  <2> QED BY <2>2, <2>3, <2>4, <2>5, <2>6 DEF Transaction
<1>6. TypeOK'
  <2>1. RowsOK(mine'[t]) BY <1>1 DEF RowsOK
  <2>2. \A s \in Tx : RowsOK(mine'[s]) BY <1>1, <2>1 DEF Inv, TypeOK
  <2>3. held' \in [Tx -> SUBSET (Rows \X Modes)] BY DEF End, Inv, TypeOK
  <2>4. Idle \in [op : Operations \cup {"none"}, on : Rows \cup {NoRow}, arg : Side \cup Plans \cup {NoRow},
                  at : Statements \cup {"idle"}, todo : SUBSET Rows]
    BY DEF Idle
  <2>5. txn' \in [Tx -> [op : Operations \cup {"none"}, on : Rows \cup {NoRow}, arg : Side \cup Plans \cup {NoRow},
                         at : Statements \cup {"idle"}, todo : SUBSET Rows]]
    BY <2>4 DEF End, Inv, TypeOK
  <2> QED BY <1>1, <2>2, <2>3, <2>5 DEF TypeOK
<1>7. Exclusive' BY <1>1 DEF Inv, Exclusive
<1>8. OnePass' BY <1>1 DEF Inv, OnePass, Idle
<1> QED BY <1>2, <1>4, <1>5, <1>6, <1>7, <1>8 DEF Inv
-----------------------------------------------------------------------------
(* What the transactions commit.                                           *)

\* The tables as t will leave them if it commits now.
After(t) == [r \in Rows |-> View(t, r)]

\* The tables a commit leaves are full, and it opens no want.
LEMMA AfterRows ==
  ASSUME Inv, NEW t \in Tx
  PROVE  /\ DOMAIN After(t) = Rows /\ RowsOK(After(t))
         /\ \A i \in Items : After(t)[I(i)] = View(t, I(i))
         /\ \A p \in Pairs : After(t)[M(p)] = View(t, M(p)) /\ View(t, M(p)) \in MatchRows
         /\ \A w \in Wants : After(t)[W(w)] = View(t, W(w))
         /\ WantsClose(db, After(t))
<1>1. DOMAIN After(t) = Rows BY DEF After
<1>2. /\ \A i \in Items : After(t)[I(i)] = View(t, I(i))
      /\ \A p \in Pairs : After(t)[M(p)] = View(t, M(p))
      /\ \A w \in Wants : After(t)[W(w)] = View(t, W(w))
  BY InRows DEF After
<1>3. /\ \A i \in Items : View(t, I(i)) \in ItemStatuses
      /\ \A p \in Pairs : View(t, M(p)) \in MatchRows
      /\ \A w \in Wants : View(t, W(w)) \in {"active", "fulfilled", "cancelled"}
  BY Types DEF View, Inv
<1>4. RowsOK(After(t)) BY <1>1, <1>2, <1>3 DEF RowsOK
<1>5. WantsClose(db, After(t)) BY <1>2 DEF WantsClose, View, Inv, Transaction, Written
<1> QED BY <1>1, <1>2, <1>3, <1>4, <1>5

\* A transaction whose writes amount to an atomic change may commit them.
LEMMA CommitHolds ==
  ASSUME Inv, NEW t \in Tx, Commit(t), Lawful(db, After(t))
  PROVE  Inv'
<1>1. db' = After(t) /\ End(t) BY DEF Commit, After
<1>2. ASSUME NEW s \in Tx \ {t}, NEW r \in DOMAIN mine[s] PROVE db'[r] = db[r]
  <2>1. r \in Rows BY Types DEF Inv
  <2>2. r \notin DOMAIN mine[t] BY OwnRows
  <2> QED BY <1>1, <2>1, <2>2 DEF After, View
<1> QED BY <1>1, <1>2, AfterRows, EndHolds

\* commit(v) of AfterMatch and AfterItems: one match, which t has locked.
LEMMA SingleCommitHolds ==
  ASSUME Inv, NEW t \in Tx, NEW v \in MatchRows, txn[t].op \in OnMatch,
         Has(t, txn[t].on, {"update"}), Loose(db[txn[t].on], v),
         db' = [db EXCEPT ![txn[t].on] = v], End(t)
  PROVE  Inv' /\ Lawful(db, db')
<1>1. PICK p \in Pairs : txn[t].on = M(p) BY DEF Inv, Transaction, Program
<1>2. /\ DOMAIN db' = Rows /\ db'[M(p)] = v
      /\ \A r \in Rows : r # M(p) => db'[r] = db[r]
  BY <1>1, InRows DEF Inv, TypeOK
<1>3. RowsOK(db') BY <1>2, Ids, InRows DEF Inv, TypeOK, RowsOK
<1>4. LetsGo(db, db')
  BY <1>1, <1>2, Ids, InRows DEF LetsGo, ItemsMove, Loose
<1>5. Lawful(db, db') BY <1>2, <1>4, Ids, InRows DEF Lawful, WantsClose
<1>6. ASSUME NEW s \in Tx \ {t}, NEW r \in DOMAIN mine[s] PROVE db'[r] = db[r]
  <2>1. r \in Rows BY Types DEF Inv
  <2>2. r # M(p) BY <1>1, OwnRows
  <2> QED BY <1>2, <2>1, <2>2
<1> QED BY <1>2, <1>3, <1>5, <1>6, EndHolds

\* Matches that t has written besides the one it operates on are called off.
LEMMA SweptAreLoose ==
  ASSUME Inv, NEW t \in Tx, txn[t].op # "pass", NEW q \in Pairs, txn[t].on # M(q)
  PROVE  Loose(db[M(q)], After(t)[M(q)])
<1>1. db[M(q)] \in MatchRows BY Types DEF Inv
<1>2. After(t)[M(q)] = View(t, M(q)) BY AfterRows
<1>3. CASE M(q) \notin DOMAIN mine[t] BY <1>2, <1>3 DEF View, Loose
<1>4. CASE M(q) \in DOMAIN mine[t]
  <2>1. db[M(q)].status = "pending" /\ mine[t][M(q)] = [db[M(q)] EXCEPT !.status = "cancelled"]
    BY <1>4 DEF Inv, Transaction, Written
  <2> QED BY <1>1, <1>2, <1>4, <2>1 DEF View, Loose, MatchRows
<1> QED BY <1>3, <1>4

\* What a withdrawal has written when its sweep is over.
LEMMA WithdrawIsLawful ==
  ASSUME Inv, NEW t \in Tx, txn[t].op = "withdraw", txn[t].at = "sweep"
  PROVE  Lawful(db, After(t))
<1>1. PICK i \in Items : txn[t].on = I(i) BY DEF Inv, Transaction, Program
<1>2. MyItems(t) = {i} BY <1>1, Ids DEF MyItems, Of
<1>3. I(i) \in DOMAIN mine[t] BY <1>2 DEF Inv, Transaction, Progress
<1>4. ItemsMove(db, After(t), {i}, "available", "withdrawn")
  BY <1>2, <1>3, AfterRows DEF ItemsMove, View, Inv, Transaction, Written, Source, Target, To
<1>5. \A q \in Pairs : Loose(db[M(q)], After(t)[M(q)]) BY <1>1, Ids, SweptAreLoose
<1> QED BY <1>4, <1>5, AfterRows DEF Lawful, Retires

\* What the cancellation of a want has written when its sweep is over.
LEMMA UnwantIsLawful ==
  ASSUME Inv, NEW t \in Tx, txn[t].op = "unwant"
  PROVE  Lawful(db, After(t))
<1>1. PICK w \in Wants : txn[t].on = W(w) BY DEF Inv, Transaction, Program
<1>2. ItemsMove(db, After(t), {}, "available", "available")
  BY AfterRows DEF ItemsMove, View, Inv, Transaction, Written
<1>3. \A q \in Pairs : Loose(db[M(q)], After(t)[M(q)]) BY <1>1, Ids, SweptAreLoose
<1> QED BY <1>2, <1>3, AfterRows DEF Lawful, LetsGo

\* What the matching statement has written when its references are locked.
LEMMA PassIsLawful ==
  ASSUME Inv, NEW t \in Tx, txn[t].op = "pass"
  PROVE  Lawful(db, After(t))
<1>1. \A i \in Items : I(i) \notin DOMAIN mine[t] BY FreshRows, Ids
<1>2. ItemsMove(db, After(t), {}, "available", "available")
  BY <1>1, AfterRows DEF ItemsMove, View
<1>3. ASSUME NEW q \in Pairs
      PROVE  After(t)[M(q)] = db[M(q)] \/ (db[M(q)].status = "none" /\ After(t)[M(q)] = Fresh)
  BY FreshRows, AfterRows, Ids DEF View
<1> QED BY <1>2, <1>3, AfterRows DEF Lawful, Proposes

\* Acceptance by both sides, calling off and completion.
LEMMA SwapIsLawful ==
  ASSUME Inv, NEW t \in Tx,
         \/ txn[t].op \in {"accept", "complete"} /\ txn[t].at = "sweep"
         \/ txn[t].op = "cancel" /\ txn[t].at = "move" /\ txn[t].todo = {}
  PROVE  Lawful(db, After(t))
<1>1. PICK p \in Pairs : txn[t].on = M(p) BY DEF Inv, Transaction, Program, OnMatch
<1>2. MyItems(t) = ItemsOf(p) BY <1>1, Ids DEF MyItems, Of
<1>3. M(p) \in DOMAIN mine[t] /\ \A i \in ItemsOf(p) : I(i) \in DOMAIN mine[t]
  BY <1>1, <1>2 DEF Inv, Transaction, Progress, OnMatch
<1>4. ItemsMove(db, After(t), ItemsOf(p), Source(txn[t].op), Target(txn[t].op))
  BY <1>2, <1>3, AfterRows DEF ItemsMove, View, Inv, Transaction, Written
<1>5. OwnMatch(txn[t].op, txn[t].arg, txn[t].at, db[M(p)], After(t)[M(p)])
  <2>1. After(t)[M(p)] = mine[t][M(p)] BY <1>3, AfterRows DEF View
  <2> QED BY <1>1, <1>3, <2>1 DEF Inv, Transaction, Written
<1>t. db[M(p)] \in MatchRows BY Types DEF Inv
<1>6. \A q \in Pairs \ {p} : Loose(db[M(q)], After(t)[M(q)]) BY <1>1, Ids, SweptAreLoose
<1>7. CASE txn[t].op = "accept"
  <2>1. Agrees(db, After(t), p)
    BY <1>4, <1>5, <1>6, <1>7, <1>t DEF Agrees, OwnMatch, Source, Target, MatchRows
  <2> QED BY <2>1, AfterRows DEF Lawful
<1>8. CASE txn[t].op = "cancel"
  <2>1. \A q \in Pairs \ {p} : After(t)[M(q)] = db[M(q)]
    <3> SUFFICES ASSUME NEW q \in Pairs \ {p} PROVE M(q) \notin DOMAIN mine[t]
      BY AfterRows DEF View
    <3>1. txn[t].at = "move" /\ txn[t].on # M(q) BY <1>1, <1>8, Ids
    <3> QED BY <1>8, <3>1 DEF Inv, Transaction, Written
  <2>2. Cancels(db, After(t), p)
    BY <1>4, <1>5, <1>8, <2>1 DEF Cancels, OwnMatch, Source, Target, To
  <2> QED BY <2>2, AfterRows DEF Lawful
<1>9. CASE txn[t].op = "complete"
  <2>1. \A w \in Relies[p] : w \in Wants /\ After(t)[W(w)] # "active"
    <3>1. MyWants(t) = Relies[p] BY <1>1, <1>9, Ids DEF MyWants, Of
    <3>2. \A w \in Relies[p] : w \in Wants BY TxAssumption
    <3> QED BY <1>9, <3>1, <3>2, AfterRows DEF Inv, Transaction, Progress
  <2>2. Completes(db, After(t), p)
    BY <1>4, <1>5, <1>6, <1>9, <1>t, <2>1 DEF Completes, OwnMatch, Source, Target, To, MatchRows
  <2> QED BY <2>2, AfterRows DEF Lawful
<1> QED BY <1>7, <1>8, <1>9
-----------------------------------------------------------------------------
(* Steps inside a transaction.                                             *)

Records == [op : Operations \cup {"none"}, on : Rows \cup {NoRow},
            arg : Side \cup Plans \cup {NoRow}, at : Statements \cup {"idle"}, todo : SUBSET Rows]

\* What t has written becomes f; the others' writes stay.
OnlyMine(t, f) ==
  /\ DOMAIN mine' = Tx /\ mine'[t] = f
  /\ \A s \in Tx \ {t} : mine'[s] = mine[s]

\* A step of t that commits nothing: what is to be shown of it.
LEMMA SessionHolds ==
  ASSUME Inv, NEW t \in Tx, UNCHANGED db,
         NEW f, RowsOK(f), OnlyMine(t, f),
         NEW h \in SUBSET (Rows \X Modes), held' = [held EXCEPT ![t] = h],
         NEW x \in Records, txn' = [txn EXCEPT ![t] = x],
         x.op = "pass" => \A s \in Tx \ {t} : txn[s].op # "pass",
         \A s \in Tx \ {t} : \A g \in held[s], l \in h : g[1] = l[1] => ~Conflicts(g[2], l[2]),
         Transaction(t)'
  PROVE  Inv'
<1>1. /\ mine'[t] = f /\ held'[t] = h /\ txn'[t] = x
      /\ \A s \in Tx \ {t} : mine'[s] = mine[s] /\ held'[s] = held[s] /\ txn'[s] = txn[s]
      /\ DOMAIN mine' = Tx
  BY DEF Inv, TypeOK, OnlyMine
<1>2. TypeOK'
  <2>1. \A s \in Tx : RowsOK(mine'[s]) BY <1>1 DEF Inv, TypeOK
  <2>2. held' \in [Tx -> SUBSET (Rows \X Modes)] /\ txn' \in [Tx -> Records]
    BY DEF Inv, TypeOK, Records
  <2> QED BY <1>1, <2>1, <2>2 DEF Inv, TypeOK, Records
<1>3. ASSUME NEW s \in Tx PROVE Transaction(s)'
  BY <1>1, OthersHold DEF WantsClose
<1>4. Exclusive'
  <2> SUFFICES ASSUME NEW s \in Tx, NEW u \in Tx, s # u, NEW g \in held'[s], NEW l \in held'[u],
                      g[1] = l[1]
               PROVE  ~Conflicts(g[2], l[2])
    BY DEF Exclusive
  <2>1. CASE s = t BY <1>1, <2>1 DEF Conflicts
  <2>2. CASE u = t BY <1>1, <2>2
  <2>3. CASE s # t /\ u # t BY <1>1, <2>3 DEF Inv, Exclusive
  <2> QED BY <2>1, <2>2, <2>3
<1>5. OnePass' BY <1>1 DEF Inv, OnePass
<1>6. Agree(db)' BY DEF Inv
<1> QED BY <1>2, <1>3, <1>4, <1>5, <1>6 DEF Inv

\* A session that is idle holds nothing.
LEMMA IdleSession ==
  ASSUME Inv, NEW t \in Tx, txn[t].op = "none"
  PROVE  DOMAIN mine[t] = {} /\ held[t] = {}
BY DEF Inv, Transaction, Program, Pending, Progress

\* A session that was idle starts an operation.
LEMMA StartHolds ==
  ASSUME Inv, NEW t \in Tx, NEW op, NEW r \in Rows \cup {NoRow}, NEW k \in Side \cup Plans \cup {NoRow},
         NEW at \in Statements, NEW todo \in SUBSET Rows, Start(t, op, r, k, at, todo),
         NEW f, RowsOK(f), OnlyMine(t, f),
         op = "pass" => \A s \in Tx : txn[s].op # "pass",
         Transaction(t)'
  PROVE  Inv'
<1> DEFINE x == [op |-> op, on |-> r, arg |-> k, at |-> at, todo |-> todo]
<1>1. x \in Records /\ txn' = [txn EXCEPT ![t] = x] /\ x.op = op BY DEF Start, Records
<1>2. held[t] = {} /\ held' = [held EXCEPT ![t] = {}]
  BY IdleSession DEF Start, Inv, TypeOK
<1> HIDE DEF x
<1> QED BY <1>1, <1>2, SessionHolds DEF Start

\* Starting a match operation, a withdrawal or the cancellation of a want.
LEMMA PlainStart ==
  ASSUME Inv, NEW t \in Tx, NEW op, NEW r \in Rows, NEW k \in Side \cup Plans \cup {NoRow},
         NEW at, NEW todo \in SUBSET {r}, Start(t, op, r, k, at, todo), UNCHANGED mine,
         \/ /\ op \in OnMatch /\ at = "match" /\ todo = {r}
            /\ op \in {"accept", "complete"} => k \in Side
            /\ op = "exchange" => k \in Plans
            /\ \E p \in Pairs : r = M(p) /\ db[M(p)].status # "none"
         \/ op = "withdraw" /\ at = "move" /\ \E i \in Items : r = I(i)
         \/ op = "unwant" /\ at = "want" /\ \E w \in Wants : r = W(w)
  PROVE  Inv'
<1>1. DOMAIN mine[t] = {} /\ held[t] = {} BY IdleSession DEF Start
<1>2. RowsOK(mine[t]) /\ OnlyMine(t, mine[t]) BY DEF Inv, TypeOK, OnlyMine
<1>3. /\ txn'[t] = [op |-> op, on |-> r, arg |-> k, at |-> at, todo |-> todo]
      /\ mine'[t] = mine[t] /\ held'[t] = held[t] /\ db' = db
  BY DEF Start, Inv, TypeOK
<1>4. /\ txn'[t].op = op /\ txn'[t].on = r /\ txn'[t].arg = k
      /\ txn'[t].at = at /\ txn'[t].todo = todo
  BY <1>3
<1>5. Program(t)' BY <1>3, <1>4 DEF Program, OnMatch
<1>6. Pending(t)' BY <1>3, <1>4, Ids DEF Pending, MyItems, MyWants, Of, OnMatch
<1>7. Locked(t)' BY <1>1, <1>3, <1>4 DEF Locked, OnMatch
<1>8. Written(t)' BY <1>1, <1>3 DEF Written
<1>9. Progress(t)' BY <1>1, <1>3, <1>4 DEF Progress, OnMatch
<1>10. at \in Statements /\ todo \in SUBSET Rows BY DEF Statements
<1>11. op # "pass" BY DEF OnMatch
<1> QED BY <1>2, <1>5, <1>6, <1>7, <1>8, <1>9, <1>10, <1>11, StartHolds DEF Transaction

\* Whatever a session begins, the invariant holds.
LEMMA BeginHolds ==
  ASSUME Inv, NEW t \in Tx, Begin(t)
  PROVE  Inv'
<1>1. ASSUME NEW p \in Pairs, NEW op \in Operations \ {"withdraw", "unwant", "pass"}, NEW k \in Given(op),
             StartMatch(t, op, p, k)
      PROVE  Inv'
  <2>0. op \in OnMatch BY TxAssumption DEF OnMatch
  <2>1. /\ op \in {"accept", "complete"} => k \in Side
        /\ op = "exchange" => k \in Plans
        /\ k \in Side \cup Plans \cup {NoRow}
    BY <2>0 DEF Given, OnMatch
  <2>2. M(p) \in Rows BY InRows
  <2> QED BY <1>1, <2>0, <2>1, <2>2, PlainStart DEF StartMatch
<1>2. ASSUME NEW i \in Items, StartWithdraw(t, i) PROVE Inv'
  <2>1. I(i) \in Rows /\ {r \in {I(i)} : db[r] = "available"} \in SUBSET {I(i)} BY InRows
  <2> QED BY <1>2, <2>1, PlainStart DEF StartWithdraw
<1>3. ASSUME NEW w \in Wants, StartUnwant(t, w) PROVE Inv'
  <2>1. W(w) \in Rows /\ {r \in {W(w)} : db[r] = "active"} \in SUBSET {W(w)} BY InRows
  <2> QED BY <1>3, <2>1, PlainStart DEF StartUnwant
<1>4. CASE StartPass(t)
  <2>1. PICK new \in SUBSET {p \in Pairs : db[M(p)].status = "none"} :
          /\ \A s \in Tx : txn[s].op # "pass"
          /\ Start(t, "pass", NoRow, NoRow, "insert", {I(i) : i \in UNION {ItemsOf(p) : p \in new}})
          /\ mine' = [mine EXCEPT ![t] = [r \in {M(p) : p \in new} |-> Fresh]]
    BY <1>4 DEF StartPass
  <2> DEFINE f == [r \in {M(p) : p \in new} |-> Fresh]
             todo == {I(i) : i \in UNION {ItemsOf(p) : p \in new}}
  <2>2. RowsOK(f) BY InRows, Ids DEF RowsOK, Fresh, MatchRows, MatchStatuses
  <2>3. todo \subseteq {I(i) : i \in Items} /\ todo \in SUBSET Rows BY InRows
  <2>4. /\ txn'[t] = [op |-> "pass", on |-> NoRow, arg |-> NoRow, at |-> "insert", todo |-> todo]
        /\ mine'[t] = f /\ held'[t] = held[t] /\ db' = db
    BY <2>1 DEF Start, Inv, TypeOK
  <2>5. /\ txn'[t].op = "pass" /\ txn'[t].on = NoRow /\ txn'[t].at = "insert" /\ txn'[t].todo = todo
    BY <2>4
  <2>6. \A p \in Pairs : M(p) \in DOMAIN f => db[M(p)].status = "none" /\ f[M(p)] = Fresh
    BY Ids
  <2>7. /\ \A i \in Items : I(i) \notin DOMAIN f
        /\ \A w \in Wants : W(w) \notin DOMAIN f
    BY Ids
  <2>14. \A p \in Pairs : M(p) \in DOMAIN f => \A i \in ItemsOf(p) : I(i) \in todo
    BY Ids
  <2> HIDE DEF f, todo
  <2>8. Program(t)' BY <2>5 DEF Program, OnMatch
  <2>9. Pending(t)' BY <2>3, <2>5 DEF Pending
  <2>10. Locked(t)' BY <2>4, <2>5, <2>14 DEF Locked, OnMatch
  <2>11. Written(t)'
    <3>1. \A p \in Pairs : M(p) \in DOMAIN mine'[t] =>
            txn'[t].op = "pass" /\ db'[M(p)].status = "none" /\ mine'[t][M(p)] = Fresh
      BY <2>4, <2>5, <2>6
    <3>2. /\ \A i \in Items : I(i) \notin DOMAIN mine'[t]
          /\ \A w \in Wants : W(w) \notin DOMAIN mine'[t]
      BY <2>4, <2>7
    <3> QED BY <3>1, <3>2 DEF Written
  <2>12. Progress(t)' BY <2>5 DEF Progress, OnMatch
  <2>13. Start(t, "pass", NoRow, NoRow, "insert", todo) /\ OnlyMine(t, f)
    BY <2>1 DEF f, todo, Inv, TypeOK, OnlyMine
  <2> QED BY <2>1, <2>2, <2>3, <2>8, <2>9, <2>10, <2>11, <2>12, <2>13, StartHolds DEF Transaction, Statements
<1> QED BY <1>1, <1>2, <1>3, <1>4 DEF Begin
-----------------------------------------------------------------------------
(* The statements.                                                         *)

\* A session goes on within its operation, with more locks or more rows written.
LEMMA AdvanceHolds ==
  ASSUME Inv, NEW t \in Tx, UNCHANGED db,
         NEW at \in Statements, NEW todo \in SUBSET Rows,
         txn' = [txn EXCEPT ![t].at = at, ![t].todo = todo],
         txn[t].op # "none",
         NEW f, RowsOK(f), OnlyMine(t, f),
         NEW h \in SUBSET (Rows \X Modes), held' = [held EXCEPT ![t] = h],
         \A s \in Tx \ {t} : \A g \in held[s], l \in h : g[1] = l[1] => ~Conflicts(g[2], l[2]),
         Transaction(t)'
  PROVE  Inv'
<1> DEFINE x == [txn[t] EXCEPT !.at = at, !.todo = todo]
<1>1. txn[t] \in Records BY DEF Inv, TypeOK, Records
<1>2. x \in Records /\ x.op = txn[t].op BY <1>1 DEF Records
<1>3. txn' = [txn EXCEPT ![t] = x] OBVIOUS
<1>4. x.op = "pass" => \A s \in Tx \ {t} : txn[s].op # "pass" BY <1>2 DEF Inv, OnePass
<1> HIDE DEF x
<1> QED BY <1>2, <1>3, <1>4, SessionHolds

\* The operation of a transaction stays what it is.
LEMMA SameOperation ==
  ASSUME TypeOK, NEW t \in Tx, NEW at, NEW todo,
         txn' = [txn EXCEPT ![t].at = at, ![t].todo = todo]
  PROVE  /\ txn'[t].op = txn[t].op /\ txn'[t].on = txn[t].on /\ txn'[t].arg = txn[t].arg
         /\ txn'[t].at = at /\ txn'[t].todo = todo
         /\ MyItems(t)' = MyItems(t) /\ MyWants(t)' = MyWants(t) /\ Swept(t)' = Swept(t)
<1>1. txn[t] \in Records BY DEF TypeOK, Records
<1> DEFINE x == [txn[t] EXCEPT !.at = at, !.todo = todo]
<1>2. x.op = txn[t].op /\ x.on = txn[t].on /\ x.arg = txn[t].arg /\ x.at = at /\ x.todo = todo
  BY <1>1 DEF Records
<1>3. txn'[t] = x BY DEF TypeOK
<1> HIDE DEF x
<1>4. /\ txn'[t].op = txn[t].op /\ txn'[t].on = txn[t].on /\ txn'[t].arg = txn[t].arg
      /\ txn'[t].at = at /\ txn'[t].todo = todo
  BY <1>2, <1>3
<1>5. MyItems(t)' = MyItems(t)
  <2>1. Of(t)' = Of(t) BY <1>4 DEF Of
  <2> QED BY <1>4, <2>1 DEF MyItems
<1>6. MyWants(t)' = MyWants(t)
  <2>1. Of(t)' = Of(t) BY <1>4 DEF Of
  <2> QED BY <1>4, <2>1 DEF MyWants
<1>7. Swept(t)' = Swept(t) BY <1>4 DEF Swept, Of
<1> QED BY <1>4, <1>5, <1>6, <1>7

\* What Write puts over the earlier writes of t.
Over(t, new) ==
  [r \in DOMAIN mine[t] \cup DOMAIN new |-> IF r \in DOMAIN new THEN new[r] ELSE mine[t][r]]

\* Write(t, new) puts the rows of new over those of t, and touches nobody else's.
LEMMA WriteRows ==
  ASSUME TypeOK, NEW t \in Tx, NEW new, RowsOK(new), Write(t, new)
  PROVE  /\ RowsOK(Over(t, new)) /\ OnlyMine(t, Over(t, new))
         /\ mine'[t] = Over(t, new)
         /\ DOMAIN Over(t, new) = DOMAIN mine[t] \cup DOMAIN new
         /\ \A r \in DOMAIN new : Over(t, new)[r] = new[r]
         /\ \A r \in DOMAIN mine[t] \ DOMAIN new : Over(t, new)[r] = mine[t][r]
<1>1. /\ DOMAIN Over(t, new) = DOMAIN mine[t] \cup DOMAIN new
      /\ \A r \in DOMAIN new : Over(t, new)[r] = new[r]
      /\ \A r \in DOMAIN mine[t] \ DOMAIN new : Over(t, new)[r] = mine[t][r]
  BY DEF Over
<1>2. RowsOK(mine[t]) BY DEF TypeOK
<1>3. RowsOK(Over(t, new)) BY <1>1, <1>2 DEF RowsOK
<1>4. OnlyMine(t, Over(t, new)) /\ mine'[t] = Over(t, new) BY DEF Write, Over, OnlyMine, TypeOK
<1> QED BY <1>1, <1>3, <1>4

\* Which operations have which statements.
LEMMA AtWhich ==
  ASSUME Inv, NEW t \in Tx
  PROVE  /\ txn[t].at = "match" => txn[t].op \in OnMatch
         /\ txn[t].at = "items" => txn[t].op = "accept"
         /\ txn[t].at = "move"  => txn[t].op \in {"withdraw", "cancel", "complete"}
         /\ txn[t].at = "want"  => txn[t].op \in {"unwant", "complete"}
         /\ txn[t].at = "sweep" => txn[t].op \in {"withdraw", "unwant", "accept", "complete"}
         /\ txn[t].at = "insert" <=> txn[t].op = "pass"
         /\ txn[t].at = "idle" <=> txn[t].op = "none"
<1>1. txn[t].op \in {"none", "accept", "decline", "cancel", "exchange", "complete", "withdraw", "unwant", "pass"}
  BY Types, TxAssumption DEF Inv
<1>2. Program(t) BY DEF Inv, Transaction
<1> QED BY <1>1, <1>2 DEF Program, OnMatch

\* The rows of a statement are rows of its table.
LEMMA Operands ==
  ASSUME Inv, NEW t \in Tx
  PROVE  /\ txn[t].op \in OnMatch \cup {"withdraw"} => MyItems(t) \subseteq Items
         /\ txn[t].op \in {"unwant", "complete"} => MyWants(t) \subseteq Wants
         /\ Swept(t) \subseteq Pairs
         /\ \A p \in Swept(t) : txn[t].op \in {"withdraw", "unwant", "accept", "complete"} =>
                                  txn[t].on # M(p)
<1>1. CASE txn[t].op \in OnMatch
  <2>1. PICK p \in Pairs : txn[t].on = M(p) BY <1>1 DEF Inv, Transaction, Program
  <2>2. MyItems(t) \subseteq Items BY <1>1, <2>1, Ids, InRows DEF MyItems, Of, OnMatch
  <2>3. txn[t].op = "complete" => MyWants(t) \subseteq Wants
    BY <2>1, Ids, TxAssumption DEF MyWants, Of
  <2> QED BY <1>1, <2>1, <2>2, <2>3, Ids DEF Swept, Of, OnMatch
<1>2. CASE txn[t].op = "withdraw"
  <2>1. PICK i \in Items : txn[t].on = I(i) BY <1>2 DEF Inv, Transaction, Program
  <2> QED BY <1>2, <2>1, Ids DEF MyItems, Swept, Of
<1>3. CASE txn[t].op = "unwant"
  <2>1. PICK w \in Wants : txn[t].on = W(w) BY <1>3 DEF Inv, Transaction, Program
  <2> QED BY <1>3, <2>1, Ids DEF MyWants, Swept, Of, OnMatch
<1> QED BY <1>1, <1>2, <1>3 DEF Swept, OnMatch

\* What a row is that an UPDATE writes.
RowWritten(t, r, v) ==
  \/ \E i \in Items : /\ r = I(i) /\ i \in MyItems(t) /\ txn[t].at = "move"
                      /\ txn[t].op \in {"withdraw", "cancel", "complete"}
                      /\ db[r] = Source(txn[t].op) /\ v = Target(txn[t].op)
  \/ \E w \in Wants : /\ r = W(w) /\ w \in MyWants(t) /\ txn[t].at = "want"
                      /\ txn[t].op \in {"unwant", "complete"}
                      /\ db[r] = "active" /\ v = Closed(txn[t].op)
  \/ \E p \in Pairs : /\ r = M(p) /\ p \in Swept(t) /\ txn[t].at = "sweep" /\ txn[t].on # M(p)
                      /\ db[r].status = "pending" /\ v = [db[r] EXCEPT !.status = "cancelled"]

\* What an UPDATE writes is what Written says of the row.
LEMMA UpdateWrites ==
  ASSUME Inv, NEW t \in Tx, NEW r \in txn[t].todo, Writes(txn[t].at), Matches(t, txn[t].at, r)
  PROVE  RowWritten(t, r, NewValue(t, txn[t].at, r))
<1> DEFINE v == NewValue(t, txn[t].at, r)
<1>0. Program(t) /\ Pending(t) /\ Written(t) BY DEF Inv, Transaction
<1>1. CASE txn[t].at = "move"
  <2>1. txn[t].op \in {"withdraw", "cancel", "complete"}
    BY <1>1, AtWhich
  <2>2. PICK i \in MyItems(t) : r = I(i) BY <1>0, <1>1 DEF Pending
  <2>3. i \in Items BY <2>1, <2>2, Operands DEF OnMatch
  <2>4. View(t, r) = Source(txn[t].op) /\ v = Target(txn[t].op)
    BY <1>1, <2>1 DEF Matches, NewValue, From, Source, Target
  <2>5. r \notin DOMAIN mine[t]
    BY <1>0, <2>1, <2>2, <2>3, <2>4 DEF Written, View, Source, Target, To
  <2> HIDE DEF v
  <2> QED BY <1>1, <2>1, <2>2, <2>3, <2>4, <2>5 DEF RowWritten, View, v
<1>2. CASE txn[t].at = "want"
  <2>1. txn[t].op \in {"unwant", "complete"}
    BY <1>2, AtWhich
  <2>2. PICK w \in MyWants(t) : r = W(w) BY <1>0, <1>2 DEF Pending
  <2>3. w \in Wants BY <2>1, Operands
  <2>4. View(t, r) = "active" /\ v = Closed(txn[t].op)
    BY <1>2, <2>1 DEF Matches, NewValue, Closed
  <2>5. r \notin DOMAIN mine[t]
    BY <1>0, <2>1, <2>2, <2>3, <2>4 DEF Written, View, Closed
  <2> HIDE DEF v
  <2> QED BY <1>2, <2>1, <2>2, <2>3, <2>4, <2>5 DEF RowWritten, View, v
<1>3. CASE txn[t].at = "sweep"
  <2>1. txn[t].op \in {"withdraw", "unwant", "accept", "complete"}
    BY <1>3, AtWhich
  <2>2. PICK p \in Swept(t) : r = M(p) BY <1>0, <1>3 DEF Pending
  <2>3. p \in Pairs /\ txn[t].on # M(p) BY <2>1, Operands
  <2>4. View(t, r).status = "pending" /\ v = [View(t, r) EXCEPT !.status = "cancelled"]
    BY <1>3 DEF Matches, NewValue
  <2>5. r \notin DOMAIN mine[t]
    <3> SUFFICES ASSUME r \in DOMAIN mine[t] PROVE FALSE OBVIOUS
    <3>1. db[r] \in MatchRows BY <2>2, <2>3, Types DEF Inv
    <3>2. mine[t][r] = [db[r] EXCEPT !.status = "cancelled"]
      BY <1>0, <2>1, <2>2, <2>3 DEF Written
    <3> QED BY <2>4, <3>1, <3>2 DEF View, MatchRows
  <2> HIDE DEF v
  <2> QED BY <1>3, <2>2, <2>3, <2>4, <2>5 DEF RowWritten, View, v
<1> QED BY <1>1, <1>2, <1>3 DEF Writes

\* The next row is locked, and written if it still matches.
LEMMA LockRowHolds ==
  ASSUME Inv, NEW t \in Tx, LockRow(t)
  PROVE  Inv'
<1> DEFINE at == txn[t].at
<1>1. PICK r \in Upcoming(t) :
        /\ Holders(t, r, Mode(at)) = {}
        /\ held' = [held EXCEPT ![t] = @ \cup {<<r, Mode(at)>>}]
        /\ IF Writes(at) /\ Matches(t, at, r)
             THEN Write(t, [x \in {r} |-> NewValue(t, at, r)])
             ELSE UNCHANGED mine
        /\ txn' = [txn EXCEPT ![t].todo = @ \ {r}]
        /\ UNCHANGED db
  BY DEF LockRow
<1> DEFINE h == held[t] \cup {<<r, Mode(at)>>}
           todo == txn[t].todo \ {r}
<1>2. r \in txn[t].todo /\ r \in Rows BY <1>1, Types DEF Upcoming, Inv
<1>3. /\ Program(t) /\ Pending(t) /\ Locked(t) /\ Written(t) /\ Progress(t) /\ TypeOK
  BY DEF Inv, Transaction
<1>4. at \in Statements
  BY <1>2, <1>3, Types DEF Pending
<1>5. h \in SUBSET (Rows \X Modes)
  BY <1>2, <1>3, <1>4, Types DEF Mode, Modes, Statements
<1>6. \A s \in Tx \ {t} : \A g \in held[s], l \in h : g[1] = l[1] => ~Conflicts(g[2], l[2])
  <2> SUFFICES ASSUME NEW s \in Tx \ {t}, NEW g \in held[s], NEW l \in h, g[1] = l[1]
               PROVE  ~Conflicts(g[2], l[2])
    OBVIOUS
  <2>1. CASE l \in held[t] BY <2>1 DEF Inv, Exclusive
  <2>2. CASE l = <<r, Mode(at)>> BY <1>1, <2>2 DEF Holders
  <2> QED BY <2>1, <2>2
<1>7. todo \in SUBSET Rows BY <1>3, Types
<1>8. txn' = [txn EXCEPT ![t].at = at, ![t].todo = todo]
  <2>1. txn[t] \in Records BY <1>3 DEF TypeOK, Records
  <2>2. [txn[t] EXCEPT !.at = at, !.todo = todo] = [txn[t] EXCEPT !.todo = todo]
    BY <2>1 DEF Records
  <2>3. txn' = [txn EXCEPT ![t] = [txn[t] EXCEPT !.todo = todo]] BY <1>1
  <2> QED BY <2>2, <2>3
<1>9. txn[t].op # "none" BY <1>2, <1>3 DEF Program, Pending
<1>10. /\ txn'[t].op = txn[t].op /\ txn'[t].on = txn[t].on /\ txn'[t].arg = txn[t].arg
       /\ txn'[t].at = at /\ txn'[t].todo = todo
       /\ MyItems(t)' = MyItems(t) /\ MyWants(t)' = MyWants(t) /\ Swept(t)' = Swept(t)
  BY <1>3, <1>8, SameOperation
<1>11. held'[t] = h /\ held' = [held EXCEPT ![t] = h] /\ db' = db BY <1>1, <1>3 DEF TypeOK
<1> HIDE DEF at, h, todo
<1>12. Program(t)' BY <1>3, <1>10, <1>11 DEF Program, at
<1>13. Pending(t)' BY <1>3, <1>4, <1>10 DEF Pending, at, todo, Statements
\* What holds whether the row is written or not.
<1>14. ASSUME DOMAIN mine'[t] = DOMAIN mine[t] \/ (Writes(at) /\ DOMAIN mine'[t] = DOMAIN mine[t] \cup {r})
       PROVE  Locked(t)'
  <2>1. \A x, S : Has(t, x, S) => Has(t, x, S)' BY <1>11 DEF Has, h
  <2>2. \A S : Mode(at) \in S => Has(t, r, S)' BY <1>11 DEF Has, h
  <2>3. ASSUME NEW x \in DOMAIN mine'[t], txn'[t].op # "pass" PROVE Has(t, x, {"update", "nokey"})'
    <3>1. CASE x \in DOMAIN mine[t] BY <1>3, <1>10, <2>1, <2>3, <3>1 DEF Locked
    <3>2. CASE x = r /\ Writes(at) BY <2>2, <3>2 DEF Writes, Mode
    <3> QED BY <1>14, <2>3, <3>1, <3>2
  <2>4. txn'[t].op \in OnMatch => txn'[t].on \in txn'[t].todo \/ Has(t, txn[t].on, {"update"})'
    <3>1. CASE r = txn[t].on
      <4>1. txn[t].op \in OnMatch => at = "match"
        BY <1>2, <1>3, <1>4, <3>1, Operands, AtWhich, Ids DEF Pending, Program, Statements, at, OnMatch
      <4> QED BY <1>10, <2>2, <3>1, <4>1 DEF Mode
    <3>2. CASE r # txn[t].on BY <1>3, <1>10, <2>1, <3>2 DEF Locked, todo
    <3> QED BY <3>1, <3>2
  <2>5. txn'[t].at = "items" =>
          \A i \in MyItems(t) : I(i) \in txn'[t].todo \/ Has(t, I(i), {"update"})'
    BY <1>3, <1>10, <2>1, <2>2 DEF Locked, todo, Mode, at
  <2>6. txn'[t].at = "sweep" /\ txn'[t].op = "accept" => \A i \in MyItems(t) : Has(t, I(i), {"update"})'
    BY <1>3, <1>10, <2>1 DEF Locked, at
  <2>7. txn'[t].op = "pass" =>
          \A p \in Pairs : M(p) \in DOMAIN mine'[t] =>
            \A i \in ItemsOf(p) : I(i) \in todo \/ Has(t, I(i), {"keyshare"})'
    <3> SUFFICES ASSUME txn[t].op = "pass", NEW p \in Pairs, M(p) \in DOMAIN mine'[t],
                        NEW i \in ItemsOf(p), I(i) \notin todo
                 PROVE  Has(t, I(i), {"keyshare"})'
      BY <1>10
    <3>1. at = "insert" BY AtWhich DEF at
    <3>2. M(p) \in DOMAIN mine[t] BY <1>14, <3>1 DEF Writes
    <3>3. CASE I(i) = r BY <2>2, <3>1, <3>3 DEF Mode
    <3>4. CASE I(i) # r BY <1>3, <2>1, <3>2, <3>4 DEF Locked, todo
    <3> QED BY <3>3, <3>4
  <2> QED BY <1>10, <2>3, <2>4, <2>5, <2>6, <2>7 DEF Locked
<1>15. CASE Writes(at) /\ Matches(t, at, r)
  <2> DEFINE new == [x \in {r} |-> NewValue(t, at, r)]
  <2>1. RowWritten(t, r, new[r]) BY <1>2, <1>15, UpdateWrites DEF at
  <2>2. Write(t, new) BY <1>1, <1>15
  <2>3. DOMAIN new = {r} OBVIOUS
  <2> HIDE DEF new
  <2>4. RowsOK(new)
    <3>1. \A i \in Items : I(i) = r => new[r] \in ItemStatuses
      BY <2>1, Ids DEF RowWritten, ItemStatuses, Target, To
    <3>2. \A w \in Wants : W(w) = r => new[r] \in {"active", "fulfilled", "cancelled"}
      BY <2>1, Ids DEF RowWritten, Closed
    <3>3. \A p \in Pairs : M(p) = r => new[r] \in MatchRows
      BY <1>3, <2>1, Ids, Types DEF RowWritten, MatchRows, MatchStatuses
    <3> QED BY <1>2, <2>3, <3>1, <3>2, <3>3 DEF RowsOK
  <2>5. /\ RowsOK(Over(t, new)) /\ OnlyMine(t, Over(t, new))
        /\ DOMAIN mine'[t] = DOMAIN mine[t] \cup {r} /\ mine'[t][r] = new[r]
        /\ \A x \in DOMAIN mine[t] \ {r} : mine'[t][x] = mine[t][x]
    <3>1. /\ RowsOK(Over(t, new)) /\ OnlyMine(t, Over(t, new))
          /\ mine'[t] = Over(t, new)
          /\ DOMAIN Over(t, new) = DOMAIN mine[t] \cup DOMAIN new
          /\ \A x \in DOMAIN new : Over(t, new)[x] = new[x]
          /\ \A x \in DOMAIN mine[t] \ DOMAIN new : Over(t, new)[x] = mine[t][x]
      BY <1>3, <2>2, <2>4, WriteRows
    <3> HIDE DEF Over
    <3> QED BY <2>3, <3>1
  <2>6. Locked(t)' BY <1>14, <1>15, <2>5
  <2>7. Written(t)'
    <3>1. \A i \in Items : I(i) \in DOMAIN mine'[t] =>
            /\ txn[t].op \in {"withdraw", "accept", "cancel", "complete"} /\ i \in MyItems(t)
            /\ db[I(i)] = Source(txn[t].op) /\ mine'[t][I(i)] = Target(txn[t].op)
      BY <1>3, <2>1, <2>5, Ids DEF Written, RowWritten
    <3>2. \A w \in Wants : W(w) \in DOMAIN mine'[t] =>
            /\ txn[t].op \in {"unwant", "complete"} /\ w \in MyWants(t)
            /\ db[W(w)] = "active" /\ mine'[t][W(w)] = Closed(txn[t].op)
      BY <1>3, <2>1, <2>5, Ids DEF Written, RowWritten
    <3>3. \A p \in Pairs : M(p) \in DOMAIN mine'[t] =>
            \/ txn[t].op = "pass" /\ db[M(p)].status = "none" /\ mine'[t][M(p)] = Fresh
            \/ /\ txn[t].op \in OnMatch /\ txn[t].on = M(p)
               /\ OwnMatch(txn[t].op, txn[t].arg, at, db[M(p)], mine'[t][M(p)])
            \/ /\ at = "sweep" /\ p \in Swept(t) /\ txn[t].on # M(p) /\ db[M(p)].status = "pending"
               /\ mine'[t][M(p)] = [db[M(p)] EXCEPT !.status = "cancelled"]
      BY <1>3, <2>1, <2>5, Ids DEF Written, RowWritten, at
    <3> QED BY <1>10, <1>11, <3>1, <3>2, <3>3 DEF Written
  <2>8. Progress(t)'
    <3>1. at \notin {"idle", "match", "items"} BY <1>15 DEF Writes
    <3>2. txn[t].op \in OnMatch => txn[t].on \in DOMAIN mine'[t]
      BY <1>3, <2>5, <3>1 DEF Progress, at
    <3>3. \A S : S \subseteq txn[t].todo \cup DOMAIN mine[t] => S \subseteq todo \cup DOMAIN mine'[t]
      BY <2>5 DEF todo
    <3>4. \A S : S \subseteq DOMAIN mine[t] => S \subseteq DOMAIN mine'[t]
      BY <2>5
    <3>5. at = "move" /\ txn[t].op = "withdraw" => DOMAIN mine'[t] \subseteq {I(i) : i \in MyItems(t)}
      BY <1>3, <2>1, <2>5, Ids DEF Progress, RowWritten, at
    <3>6. at \in {"want", "sweep"} /\ txn[t].op = "complete" =>
            \A w \in MyWants(t) : (at = "want" /\ W(w) \in todo) \/ View(t, W(w))' # "active"
      <4> SUFFICES ASSUME at \in {"want", "sweep"}, txn[t].op = "complete", NEW w \in MyWants(t),
                          ~(at = "want" /\ W(w) \in todo)
                   PROVE  View(t, W(w))' # "active"
        OBVIOUS
      <4>1. CASE W(w) = r BY <2>1, <2>5, <4>1, Ids DEF RowWritten, View, Closed
      <4>2. CASE W(w) # r
        <5>1. View(t, W(w)) # "active" BY <1>3, <4>2 DEF Progress, at, todo
        <5>2. View(t, W(w))' = View(t, W(w)) BY <1>11, <2>5, <4>2 DEF View
        <5> QED BY <5>1, <5>2
      <4> QED BY <4>1, <4>2
    <3>7. at = "want" /\ txn[t].op = "unwant" => DOMAIN mine'[t] \subseteq {W(w) : w \in MyWants(t)}
      BY <1>3, <2>1, <2>5, Ids DEF Progress, RowWritten, at
    <3> QED BY <1>3, <1>10, <3>1, <3>2, <3>3, <3>4, <3>5, <3>6, <3>7 DEF Progress, at
  <2> QED BY <1>4, <1>5, <1>6, <1>7, <1>8, <1>9, <1>11, <1>12, <1>13, <2>5, <2>6, <2>7, <2>8, AdvanceHolds
             DEF Transaction
<1>16. CASE ~(Writes(at) /\ Matches(t, at, r))
  <2>1. mine' = mine BY <1>1, <1>16
  <2>2. RowsOK(mine[t]) /\ OnlyMine(t, mine[t]) BY <1>3, <2>1 DEF TypeOK, OnlyMine
  <2>3. Locked(t)' BY <1>14, <2>1
  <2>4. Written(t)' BY <1>3, <1>10, <1>11, <2>1 DEF Written, at
  <2>5. Progress(t)'
    \* An item that was to be moved is still reserved, because its match is.
    <3>1. at = "move" /\ txn[t].op \in {"cancel", "complete"} => r \in DOMAIN mine[t]
      <4> SUFFICES ASSUME at = "move", txn[t].op \in {"cancel", "complete"}, r \notin DOMAIN mine[t]
                   PROVE  FALSE
        OBVIOUS
      <4>1. PICK p \in Pairs : txn[t].on = M(p) BY <1>3 DEF Program, OnMatch
      <4>2. db[M(p)].status = "accepted"
        BY <1>3, <4>1 DEF Progress, Written, OwnMatch, OnMatch, at
      <4>3. PICK i \in ItemsOf(p) : r = I(i)
        BY <1>2, <1>3, <4>1, Ids DEF Pending, MyItems, Of, at
      <4>4. db[r] = "reserved" BY <4>1, <4>2, <4>3, InRows DEF Inv, Agree
      <4> QED BY <1>16, <4>4 DEF Writes, Matches, View, From
    <3>2. at = "want" /\ txn[t].op = "complete" => \A w \in MyWants(t) : W(w) = r => View(t, W(w)) # "active"
      BY <1>16 DEF Writes, Matches
    <3>3. \A w : View(t, W(w))' = View(t, W(w)) BY <1>11, <2>1 DEF View
    <3>4. at \in {"want", "sweep"} /\ txn[t].op = "complete" =>
            \A w \in MyWants(t) : (at = "want" /\ W(w) \in todo) \/ View(t, W(w))' # "active"
      BY <1>3, <3>2, <3>3 DEF Progress, at, todo
    <3>5. at = "move" /\ txn[t].op \in {"cancel", "complete"} =>
            {I(i) : i \in MyItems(t)} \subseteq todo \cup DOMAIN mine[t]
      BY <1>3, <3>1 DEF Progress, at, todo
    <3> QED BY <1>3, <1>10, <2>1, <3>4, <3>5 DEF Progress, at
  <2> QED BY <1>4, <1>5, <1>6, <1>7, <1>8, <1>9, <1>11, <1>12, <1>13, <2>2, <2>3, <2>4, <2>5, AdvanceHolds
             DEF Transaction
<1> QED BY <1>15, <1>16

\* A transaction is given up: nothing is committed.
LEMMA RollbackHolds ==
  ASSUME Inv, NEW t \in Tx, Rollback(t)
  PROVE  Inv'
BY EndHolds DEF Rollback, Inv, TypeOK

\* The next statement finds its rows.
LEMMA GoToHolds ==
  ASSUME Inv, NEW t \in Tx, UNCHANGED <<db, held>>, NEW at, GoTo(t, at),
         \/ at = "items" /\ txn[t].op = "accept"
         \/ at = "move"  /\ txn[t].op \in {"cancel", "complete"}
         \/ at = "want"  /\ txn[t].op = "complete"
         \/ at = "sweep" /\ txn[t].op \in {"withdraw", "unwant", "accept", "complete"},
         NEW f, RowsOK(f), OnlyMine(t, f),
         Locked(t)', Written(t)', Progress(t)'
  PROVE  Inv'
<1> DEFINE todo == Found(t, at)
<1>1. txn' = [txn EXCEPT ![t].at = at, ![t].todo = todo] BY DEF GoTo
<1>2. /\ at \in {"items", "move"} => todo \subseteq {I(i) : i \in MyItems(t)}
      /\ at = "want"  => todo \subseteq {W(w) : w \in MyWants(t)}
      /\ at = "sweep" => todo \subseteq {M(p) : p \in Swept(t)}
  BY DEF Found
<1>3. todo \in SUBSET Rows BY <1>2, Operands, InRows DEF OnMatch
<1> HIDE DEF todo
<1>4. /\ txn'[t].op = txn[t].op /\ txn'[t].on = txn[t].on /\ txn'[t].arg = txn[t].arg
      /\ txn'[t].at = at /\ txn'[t].todo = todo
      /\ MyItems(t)' = MyItems(t) /\ MyWants(t)' = MyWants(t) /\ Swept(t)' = Swept(t)
  BY <1>1, SameOperation DEF Inv
<1>5. Program(t)' BY <1>4 DEF Inv, Transaction, Program
<1>6. Pending(t)' BY <1>2, <1>4 DEF Pending
<1>7. Transaction(t)' BY <1>5, <1>6 DEF Transaction
<1>8. held[t] \in SUBSET (Rows \X Modes) /\ held' = [held EXCEPT ![t] = held[t]]
  BY DEF Inv, TypeOK
<1>9. \A s \in Tx \ {t} : \A g \in held[s], l \in held[t] : g[1] = l[1] => ~Conflicts(g[2], l[2])
  BY DEF Inv, Exclusive
<1>10. at \in Statements /\ txn[t].op # "none" BY DEF Statements
<1> QED BY <1>1, <1>3, <1>7, <1>8, <1>9, <1>10, AdvanceHolds

\* save(v, at) of AfterMatch.
LEMMA SaveHolds ==
  ASSUME Inv, NEW t \in Tx, NEW p \in Pairs, txn[t].on = M(p), Finished(t, "match"),
         NEW v \in MatchRows, NEW at, GoTo(t, at),
         NEW new, DOMAIN new = {M(p)}, new[M(p)] = v, Write(t, new),
         UNCHANGED <<db, held>>,
         \/ /\ at = "items" /\ txn[t].op = "accept" /\ db[M(p)].status = "pending"
            /\ db[M(p)].accepted # Side /\ db[M(p)].accepted \cup {txn[t].arg} = Side
            /\ v = [db[M(p)] EXCEPT !.accepted = Side, !.status = "pending"]
         \/ /\ at = "move" /\ txn[t].op = "cancel" /\ db[M(p)].status = "accepted"
            /\ v = [db[M(p)] EXCEPT !.status = "cancelled"]
         \/ /\ at = "move" /\ txn[t].op = "complete" /\ db[M(p)].status = "accepted"
            /\ db[M(p)].plan # NoPlan /\ db[M(p)].confirmed \cup {txn[t].arg} = Side
            /\ v = [db[M(p)] EXCEPT !.confirmed = Side, !.status = "completed"]
  PROVE  Inv'
<1> DEFINE f == Over(t, new)
<1>0. /\ Program(t) /\ Locked(t) /\ Progress(t) /\ TypeOK /\ txn[t].todo = {} /\ txn[t].at = "match"
      /\ txn[t].op \in OnMatch
  BY DEF Inv, Transaction, Finished, OnMatch
<1>2. RowsOK(new) BY InRows, Ids DEF RowsOK
<1>3. DOMAIN mine[t] = {} BY <1>0 DEF Progress
<1>4. RowsOK(f) /\ OnlyMine(t, f) /\ mine'[t] = f /\ DOMAIN f = {M(p)} /\ f[M(p)] = v
  <2>1. /\ RowsOK(Over(t, new)) /\ OnlyMine(t, Over(t, new)) /\ mine'[t] = Over(t, new)
        /\ DOMAIN Over(t, new) = DOMAIN mine[t] \cup DOMAIN new
        /\ \A r \in DOMAIN new : Over(t, new)[r] = new[r]
    BY <1>0, <1>2, WriteRows
  <2> QED BY <1>3, <2>1
<1> HIDE DEF f
<1>5. /\ txn'[t].op = txn[t].op /\ txn'[t].on = txn[t].on /\ txn'[t].arg = txn[t].arg
      /\ txn'[t].at = at /\ txn'[t].todo = Found(t, at) /\ MyItems(t)' = MyItems(t) /\ MyWants(t)' = MyWants(t)
  <2> DEFINE todo == Found(t, at)
  <2>1. txn' = [txn EXCEPT ![t].at = at, ![t].todo = todo] BY DEF GoTo
  <2> HIDE DEF todo
  <2>2. /\ txn'[t].op = txn[t].op /\ txn'[t].on = txn[t].on /\ txn'[t].arg = txn[t].arg
        /\ txn'[t].at = at /\ txn'[t].todo = todo
        /\ MyItems(t)' = MyItems(t) /\ MyWants(t)' = MyWants(t) /\ Swept(t)' = Swept(t)
    BY <2>1, SameOperation DEF Inv
  <2> QED BY <2>2 DEF todo
<1>6. MyItems(t) = ItemsOf(p) BY <1>0, Ids DEF MyItems, Of, OnMatch
<1>7. Locked(t)'
  <2>1. Has(t, M(p), {"update"}) BY <1>0 DEF Locked
  <2>2. Has(t, M(p), {"update"})' /\ Has(t, M(p), {"update", "nokey"})' BY <2>1 DEF Has
  <2>3. \A i \in MyItems(t) : at = "items" => I(i) \in Found(t, at) BY DEF Found, Matches
  <2> QED BY <1>4, <1>5, <2>2, <2>3 DEF Locked, Has
<1>8. Written(t)'
  <2>1. OwnMatch(txn[t].op, txn[t].arg, at, db[M(p)], v) BY DEF OwnMatch
  <2>2. /\ \A i \in Items : I(i) \notin DOMAIN mine'[t]
        /\ \A w \in Wants : W(w) \notin DOMAIN mine'[t]
        /\ \A q \in Pairs : M(q) \in DOMAIN mine'[t] => q = p
    BY <1>4, Ids
  <2> QED BY <1>0, <1>4, <1>5, <2>1, <2>2 DEF Written
<1>9. Progress(t)'
  <2>1. at = "move" => \A i \in MyItems(t) : I(i) \in Found(t, at)
    <3> SUFFICES ASSUME at = "move", NEW i \in MyItems(t) PROVE I(i) \in Found(t, at)
      OBVIOUS
    <3>1. db[I(i)] = "reserved" BY <1>6, InRows DEF Inv, Agree
    <3>2. View(t, I(i)) = From(txn[t].op) BY <1>3, <3>1 DEF View, From
    <3> QED BY <3>2 DEF Found, Matches
  <2> QED BY <1>0, <1>4, <1>5, <2>1 DEF Progress
<1> QED BY <1>4, <1>7, <1>8, <1>9, GoToHolds

\* The match is locked: go on, or commit the match alone, or give up.
LEMMA AfterMatchHolds ==
  ASSUME Inv, NEW t \in Tx, AfterMatch(t)
  PROVE  Inv' /\ (db' = db \/ Lawful(db, db'))
<1>0. /\ Program(t) /\ Locked(t) /\ Progress(t) /\ TypeOK /\ txn[t].todo = {} /\ txn[t].at = "match"
  BY DEF Inv, Transaction, AfterMatch, Finished
<1>1. txn[t].op \in OnMatch BY <1>0, AtWhich
<1>2. PICK p \in Pairs : txn[t].on = M(p) BY <1>0, <1>1 DEF Program
<1> DEFINE r == txn[t].on
           m == View(t, r)
           k == {txn[t].arg}
<1>3. m = db[M(p)] /\ m \in MatchRows BY <1>0, <1>2, Types DEF View, Progress
<1>4. Has(t, r, {"update"}) BY <1>0, <1>1 DEF Locked
<1>5. CASE txn[t].op = "accept" /\ m.status = "pending"
  <2> DEFINE v == [m EXCEPT !.accepted = @ \cup k]
  <2>0. k \subseteq Side BY <1>0, <1>5 DEF Program
  <2>1. /\ v \in MatchRows /\ v.status = m.status /\ v.confirmed = m.confirmed
        /\ v.accepted = m.accepted \cup k /\ v.plan = m.plan
    BY <1>3, <2>0 DEF MatchRows
  <2>2. \/ /\ v.accepted = Side /\ v # m
           /\ Write(t, [x \in {r} |-> v]) /\ GoTo(t, "items") /\ UNCHANGED <<db, held>>
        \/ db' = [db EXCEPT ![r] = v] /\ End(t)
    BY <1>5 DEF AfterMatch
  <2>7. v.accepted = Side => v = [m EXCEPT !.accepted = Side, !.status = "pending"]
    BY <1>3, <1>5, <2>1 DEF MatchRows
  <2>8. m.accepted = Side => v = m BY <1>3, <2>0 DEF MatchRows
  <2> HIDE DEF v
  <2>3. Loose(db[r], v) BY <1>2, <1>3, <1>5, <2>1 DEF Loose
  <2>4. CASE db' = [db EXCEPT ![r] = v] /\ End(t)
    BY <1>1, <1>4, <2>1, <2>3, <2>4, SingleCommitHolds
  <2>5. CASE /\ v.accepted = Side /\ v # m
             /\ Write(t, [x \in {r} |-> v]) /\ GoTo(t, "items") /\ UNCHANGED <<db, held>>
    <3> DEFINE new == [x \in {r} |-> v]
    <3>1. DOMAIN new = {M(p)} /\ new[M(p)] = v /\ Write(t, new) BY <1>2, <2>5
    <3>2. v.accepted = Side /\ GoTo(t, "items") /\ UNCHANGED <<db, held>> BY <2>5
    <3>3. /\ db[M(p)].status = "pending" /\ db[M(p)].accepted # Side
          /\ db[M(p)].accepted \cup {txn[t].arg} = Side
          /\ v = [db[M(p)] EXCEPT !.accepted = Side, !.status = "pending"]
      BY <1>3, <1>5, <2>1, <2>5, <2>7, <2>8
    <3> HIDE DEF new
    <3>4. Inv' BY <1>0, <1>2, <1>5, <2>1, <3>1, <3>2, <3>3, SaveHolds DEF Finished
    <3> QED BY <3>2, <3>4
  <2> QED BY <2>2, <2>4, <2>5
<1>6. CASE txn[t].op = "decline" /\ m.status = "pending"
  <2> DEFINE v == [m EXCEPT !.status = "declined"]
  <2>1. v \in MatchRows /\ Loose(db[r], v)
    BY <1>2, <1>3, <1>6 DEF Loose, MatchRows, MatchStatuses
  <2>2. db' = [db EXCEPT ![r] = v] /\ End(t) BY <1>6 DEF AfterMatch
  <2> HIDE DEF v
  <2> QED BY <1>1, <1>4, <2>1, <2>2, SingleCommitHolds
<1>7. CASE txn[t].op = "cancel" /\ m.status = "accepted"
  <2> DEFINE v == [m EXCEPT !.status = "cancelled"]
  <2>1. v \in MatchRows /\ v = [db[M(p)] EXCEPT !.status = "cancelled"]
    BY <1>3 DEF MatchRows, MatchStatuses
  <2>2. Write(t, [x \in {r} |-> v]) /\ GoTo(t, "move") /\ UNCHANGED <<db, held>>
    BY <1>7 DEF AfterMatch
  <2> HIDE DEF v
  <2> DEFINE new == [x \in {r} |-> v]
  <2>3. DOMAIN new = {M(p)} /\ new[M(p)] = v /\ Write(t, new) BY <1>2, <2>2
  <2>4. GoTo(t, "move") /\ UNCHANGED <<db, held>> BY <2>2
  <2> HIDE DEF new
  <2>5. Inv' BY <1>0, <1>2, <1>3, <1>7, <2>1, <2>3, <2>4, SaveHolds DEF Finished
  <2> QED BY <2>4, <2>5
<1>8. CASE txn[t].op = "complete" /\ m.status = "accepted" /\ m.plan # NoPlan
  <2> DEFINE v == [m EXCEPT !.confirmed = @ \cup k]
             u == [v EXCEPT !.status = "completed"]
  <2>0. k \subseteq Side BY <1>0, <1>8 DEF Program
  <2>1. /\ v \in MatchRows /\ v.status = m.status /\ v.accepted = m.accepted
        /\ v.confirmed = m.confirmed \cup k /\ v.plan = m.plan
    BY <1>3, <2>0 DEF MatchRows
  <2>2. \/ v.confirmed = Side /\ Write(t, [x \in {r} |-> u]) /\ GoTo(t, "move") /\ UNCHANGED <<db, held>>
        \/ v.confirmed # Side /\ db' = [db EXCEPT ![r] = v] /\ End(t)
    BY <1>8 DEF AfterMatch
  <2>3. u \in MatchRows BY <2>1 DEF MatchRows, MatchStatuses
  <2>6. v.confirmed = Side => u = [m EXCEPT !.confirmed = Side, !.status = "completed"]
    BY <1>3, <2>1 DEF MatchRows
  <2> HIDE DEF v, u
  <2>4. CASE v.confirmed # Side /\ db' = [db EXCEPT ![r] = v] /\ End(t)
    <3>1. Loose(db[r], v) BY <1>2, <1>3, <1>8, <2>1, <2>4 DEF Loose
    <3> QED BY <1>1, <1>4, <2>1, <2>4, <3>1, SingleCommitHolds
  <2>5. CASE v.confirmed = Side /\ Write(t, [x \in {r} |-> u]) /\ GoTo(t, "move") /\ UNCHANGED <<db, held>>
    <3> DEFINE new == [x \in {r} |-> u]
    <3>1. DOMAIN new = {M(p)} /\ new[M(p)] = u /\ Write(t, new) BY <1>2, <2>5
    <3>2. GoTo(t, "move") /\ UNCHANGED <<db, held>> BY <2>5
    <3>3. /\ db[M(p)].status = "accepted" /\ db[M(p)].plan # NoPlan
          /\ db[M(p)].confirmed \cup {txn[t].arg} = Side
          /\ u = [db[M(p)] EXCEPT !.confirmed = Side, !.status = "completed"]
      BY <1>3, <1>8, <2>1, <2>5, <2>6
    <3> HIDE DEF new
    <3>4. Inv' BY <1>0, <1>2, <1>8, <2>3, <3>1, <3>2, <3>3, SaveHolds DEF Finished
    <3> QED BY <3>2, <3>4
  <2> QED BY <2>2, <2>4, <2>5
<1>10. CASE txn[t].op = "exchange" /\ m.status = "accepted"
  <2> DEFINE v == Planned(m, txn[t].arg)
  <2>0. txn[t].arg \in Plans BY <1>0, <1>10 DEF Program
  <2>1. v \in MatchRows /\ Loose(db[r], v)
    <3>1. /\ v \in MatchRows /\ v.status = m.status /\ v.accepted = m.accepted
          /\ v.plan = txn[t].arg
          /\ v.confirmed = IF m.plan = txn[t].arg THEN m.confirmed ELSE {}
      BY <1>3, <2>0 DEF Planned, MatchRows
    <3>2. NoPlan \notin Plans /\ Side # {} BY TxAssumption
    <3>3. db[r] = m BY <1>2, <1>3
    <3> HIDE DEF v
    <3> QED BY <1>10, <2>0, <3>1, <3>2, <3>3 DEF Loose
  <2>2. db' = [db EXCEPT ![r] = v] /\ End(t) BY <1>10 DEF AfterMatch
  <2> HIDE DEF v
  <2> QED BY <1>1, <1>4, <2>1, <2>2, SingleCommitHolds
<1>9. CASE /\ ~(txn[t].op = "accept" /\ m.status = "pending")
           /\ ~(txn[t].op = "decline" /\ m.status = "pending")
           /\ ~(txn[t].op = "cancel" /\ m.status = "accepted")
           /\ ~(txn[t].op = "exchange" /\ m.status = "accepted")
           /\ ~(txn[t].op = "complete" /\ m.status = "accepted" /\ m.plan # NoPlan)
  <2>1. Rollback(t) BY <1>9 DEF AfterMatch
  <2> QED BY <2>1, RollbackHolds DEF Rollback
<1> QED BY <1>5, <1>6, <1>7, <1>8, <1>9, <1>10

\* Both items are still there, and reserved; or the match is closed.
LEMMA AfterItemsHolds ==
  ASSUME Inv, NEW t \in Tx, AfterItems(t)
  PROVE  Inv' /\ (db' = db \/ Lawful(db, db'))
<1>0. /\ Program(t) /\ Locked(t) /\ Written(t) /\ Progress(t) /\ TypeOK
      /\ txn[t].todo = {} /\ txn[t].at = "items" /\ txn[t].op = "accept"
  BY AtWhich DEF Inv, Transaction, AfterItems, Finished
<1>1. PICK p \in Pairs : txn[t].on = M(p) BY <1>0 DEF Program, OnMatch
<1>2. DOMAIN mine[t] = {M(p)} BY <1>0, <1>1 DEF Progress
<1>3. /\ db[M(p)] \in MatchRows /\ mine[t][M(p)] \in MatchRows /\ db[M(p)].status = "pending"
      /\ db[M(p)].accepted # Side /\ db[M(p)].accepted \cup {txn[t].arg} = Side
      /\ mine[t][M(p)] = [db[M(p)] EXCEPT !.accepted = Side, !.status = "pending"]
  <2>1. db[M(p)] \in MatchRows /\ mine[t][M(p)] \in MatchRows BY <1>0, <1>2, Types
  <2>2. OwnMatch("accept", txn[t].arg, "items", db[M(p)], mine[t][M(p)])
    BY <1>0, <1>1, <1>2 DEF Written, OnMatch
  <2> QED BY <2>1, <2>2 DEF OwnMatch
<1>4. MyItems(t) = ItemsOf(p) BY <1>0, <1>1, Ids DEF MyItems, Of
<1> DEFINE m == View(t, M(p))
           both == {I(i) : i \in MyItems(t)}
           u == [m EXCEPT !.status = "cancelled"]
<1>5. m = mine[t][M(p)] BY <1>2 DEF View
<1>6. /\ u \in MatchRows /\ u.status = "cancelled" /\ u.accepted = Side
      /\ u.confirmed = db[M(p)].confirmed /\ u.plan = db[M(p)].plan
  BY <1>3, <1>5 DEF MatchRows, MatchStatuses
<1>7. CASE \A i \in both : View(t, i) = "available"
  <2>0. PICK v \in MatchRows : v = [m EXCEPT !.status = "accepted"]
    BY <1>3, <1>5 DEF MatchRows, MatchStatuses
  <2>9. v = [db[M(p)] EXCEPT !.accepted = Side, !.status = "accepted"]
    BY <1>3, <1>5, <2>0 DEF MatchRows
  <2> DEFINE new == [x \in both \cup {M(p)} |-> IF x = M(p) THEN v ELSE "reserved"]
             f == Over(t, new)
  <2>1. Write(t, new) /\ GoTo(t, "sweep") /\ UNCHANGED <<db, held>>
    BY <1>1, <1>7, <2>0 DEF AfterItems
  <2>2. /\ DOMAIN new = both \cup {M(p)} /\ new[M(p)] = v
        /\ \A i \in ItemsOf(p) : new[I(i)] = "reserved"
    BY <1>4, Ids
  <2> HIDE DEF new, u
  <2>3. RowsOK(new)
    BY <1>4, <2>2, InRows, Ids DEF RowsOK, ItemStatuses
  <2>4. /\ RowsOK(f) /\ OnlyMine(t, f) /\ mine'[t] = f /\ DOMAIN f = both \cup {M(p)}
        /\ f[M(p)] = v /\ \A i \in ItemsOf(p) : f[I(i)] = "reserved"
    <3>1. /\ RowsOK(Over(t, new)) /\ OnlyMine(t, Over(t, new)) /\ mine'[t] = Over(t, new)
          /\ DOMAIN Over(t, new) = DOMAIN mine[t] \cup DOMAIN new
          /\ \A r \in DOMAIN new : Over(t, new)[r] = new[r]
      BY <1>0, <2>1, <2>3, WriteRows
    <3> QED BY <1>2, <1>4, <2>2, <3>1
  <2> HIDE DEF f
  <2>5. /\ txn'[t].op = "accept" /\ txn'[t].on = M(p) /\ txn'[t].at = "sweep"
        /\ txn'[t].arg = txn[t].arg
        /\ MyItems(t)' = MyItems(t)
    BY <1>0, <1>1, <2>1, SameOperation DEF GoTo
  <2>6. Locked(t)'
    <3>1. Has(t, M(p), {"update"}) /\ \A i \in ItemsOf(p) : Has(t, I(i), {"update"})
      BY <1>0, <1>1, <1>4 DEF Locked, OnMatch
    <3>2. \A r \in DOMAIN f : Has(t, r, {"update", "nokey"})'
      BY <1>4, <2>1, <2>4, <3>1 DEF Has
    <3>3. Has(t, M(p), {"update"})' BY <2>1, <3>1 DEF Has
    <3>4. \A i \in MyItems(t)' : Has(t, I(i), {"update"})'
      BY <1>4, <2>1, <2>5, <3>1 DEF Has
    <3> QED BY <2>4, <2>5, <3>2, <3>3, <3>4 DEF Locked
  <2>7. Written(t)'
    <3>1. OwnMatch("accept", txn[t].arg, "sweep", db[M(p)], v) BY <1>3, <2>9 DEF OwnMatch
    <3>2. \A i \in ItemsOf(p) : db[I(i)] = "available" BY <1>2, <1>4, <1>7, Ids DEF View
    <3>3. \A i \in Items : I(i) \in DOMAIN f => i \in ItemsOf(p) BY <1>4, <2>4, Ids
    <3>4. \A w \in Wants : W(w) \notin DOMAIN f BY <2>4, Ids
    <3>5. \A q \in Pairs : M(q) \in DOMAIN f => q = p BY <2>4, Ids
    <3>6. \A i \in Items : I(i) \in DOMAIN mine'[t] =>
            /\ i \in MyItems(t) /\ db'[I(i)] = Source("accept") /\ mine'[t][I(i)] = Target("accept")
      BY <1>4, <2>1, <2>4, <3>2, <3>3 DEF Source, Target
    <3> QED BY <2>1, <2>4, <2>5, <3>1, <3>4, <3>5, <3>6 DEF Written, OnMatch
  <2>8. Progress(t)' BY <2>4, <2>5 DEF Progress
  <2> QED BY <1>0, <2>1, <2>4, <2>6, <2>7, <2>8, GoToHolds
<1>8. CASE ~\A i \in both : View(t, i) = "available"
  <2>1. db' = [db EXCEPT ![M(p)] = u] /\ End(t) BY <1>1, <1>8 DEF AfterItems
  <2>2. Loose(db[M(p)], u) BY <1>3, <1>6 DEF Loose, MatchRows
  <2>3. Has(t, M(p), {"update"}) BY <1>0, <1>1 DEF Locked, OnMatch
  <2> HIDE DEF u
  <2> QED BY <1>0, <1>1, <1>6, <2>1, <2>2, <2>3, SingleCommitHolds DEF OnMatch
<1> QED BY <1>7, <1>8

\* An UPDATE has written all its rows: on to the next statement.
LEMMA NextStatementHolds ==
  ASSUME Inv, NEW t \in Tx, UNCHANGED <<db, mine, held>>, txn[t].todo = {},
         NEW at, GoTo(t, at), DOMAIN mine[t] # {},
         \/ at = "sweep" /\ txn[t].op = "withdraw" /\ txn[t].at = "move"
         \/ at = "want"  /\ txn[t].op = "complete" /\ txn[t].at = "move"
         \/ at = "sweep" /\ txn[t].op \in {"unwant", "complete"} /\ txn[t].at = "want"
  PROVE  Inv'
<1>0. /\ Program(t) /\ Locked(t) /\ Written(t) /\ Progress(t) /\ TypeOK
  BY DEF Inv, Transaction
<1>1. RowsOK(mine[t]) /\ OnlyMine(t, mine[t]) BY <1>0 DEF TypeOK, OnlyMine
<1>2. /\ txn'[t].op = txn[t].op /\ txn'[t].on = txn[t].on /\ txn'[t].arg = txn[t].arg
      /\ txn'[t].at = at /\ txn'[t].todo = Found(t, at)
      /\ MyItems(t)' = MyItems(t) /\ MyWants(t)' = MyWants(t) /\ Swept(t)' = Swept(t)
  <2> DEFINE todo == Found(t, at)
  <2>1. txn' = [txn EXCEPT ![t].at = at, ![t].todo = todo] BY DEF GoTo
  <2> HIDE DEF todo
  <2>2. /\ txn'[t].op = txn[t].op /\ txn'[t].on = txn[t].on /\ txn'[t].arg = txn[t].arg
        /\ txn'[t].at = at /\ txn'[t].todo = todo
        /\ MyItems(t)' = MyItems(t) /\ MyWants(t)' = MyWants(t) /\ Swept(t)' = Swept(t)
    BY <2>1, SameOperation DEF Inv
  <2> QED BY <2>2 DEF todo
<1>3. Locked(t)'
  <2>1. txn[t].op \in OnMatch => Has(t, txn[t].on, {"update"})
    BY <1>0 DEF Locked
  <2> QED BY <1>0, <1>2, <2>1 DEF Locked, Has
<1>4. Written(t)' BY <1>0, <1>2 DEF Written, OwnMatch
<1>5. Progress(t)'
  <2>1. txn[t].op = "withdraw" => {I(i) : i \in MyItems(t)} \subseteq DOMAIN mine[t]
    <3> SUFFICES ASSUME txn[t].op = "withdraw" PROVE {I(i) : i \in MyItems(t)} \subseteq DOMAIN mine[t]
      OBVIOUS
    <3>1. DOMAIN mine[t] \subseteq {I(Of(t))} BY <1>0 DEF Progress, MyItems
    <3> QED BY <3>1 DEF MyItems
  <2>2. txn[t].op = "complete" => {I(i) : i \in MyItems(t)} \subseteq DOMAIN mine[t]
    BY <1>0 DEF Progress
  <2>3. txn[t].op = "complete" => txn[t].on \in DOMAIN mine[t] BY <1>0 DEF Progress, OnMatch
  <2>4. \A w : View(t, W(w))' = View(t, W(w)) BY DEF View
  <2>5. txn[t].op = "complete" => \A w \in MyWants(t) :
          (at = "want" /\ W(w) \in Found(t, at)) \/ View(t, W(w))' # "active"
    <3>1. CASE at = "want" BY <2>4, <3>1 DEF Found, Matches
    <3>2. CASE at = "sweep" BY <1>0, <2>4, <3>2 DEF Progress
    <3> QED BY <3>1, <3>2
  <2>6. txn[t].op = "unwant" => {W(w) : w \in MyWants(t)} \subseteq DOMAIN mine[t]
    <3> SUFFICES ASSUME txn[t].op = "unwant" PROVE {W(w) : w \in MyWants(t)} \subseteq DOMAIN mine[t]
      OBVIOUS
    <3>1. DOMAIN mine[t] \subseteq {W(Of(t))} BY <1>0 DEF Progress, MyWants
    <3> QED BY <3>1 DEF MyWants
  <2> QED BY <1>2, <2>1, <2>2, <2>3, <2>5, <2>6 DEF Progress, OnMatch
<1> QED BY <1>1, <1>3, <1>4, <1>5, GoToHolds

\* After an UPDATE: go on, commit everything, or give up.
LEMMA AfterUpdateHolds ==
  ASSUME Inv, NEW t \in Tx, AfterMove(t) \/ AfterWant(t) \/ AfterSweep(t)
  PROVE  Inv' /\ (db' = db \/ Lawful(db, db'))
<1>1. ASSUME Rollback(t) PROVE Inv' /\ db' = db BY <1>1, RollbackHolds DEF Rollback
<1>2. ASSUME Commit(t), Lawful(db, After(t)) PROVE Inv' /\ Lawful(db, db')
  BY <1>2, CommitHolds DEF Commit, After
<1>3. CASE \/ AfterUpdate(t, "move", "withdraw", "sweep")
           \/ AfterUpdate(t, "move", "complete", "want")
           \/ AfterUpdate(t, "want", "unwant", "sweep")
           \/ AfterUpdate(t, "want", "complete", "sweep")
  <2>1. CASE Rollback(t) BY <1>1, <2>1
  <2>2. CASE ~Rollback(t)
    <3>1. DOMAIN mine[t] # {} /\ txn[t].todo = {} /\ UNCHANGED <<db, mine, held>>
      BY <1>3, <2>2 DEF AfterUpdate, Finished
    <3>2. \/ GoTo(t, "sweep") /\ txn[t].op = "withdraw" /\ txn[t].at = "move"
          \/ GoTo(t, "want") /\ txn[t].op = "complete" /\ txn[t].at = "move"
          \/ GoTo(t, "sweep") /\ txn[t].op \in {"unwant", "complete"} /\ txn[t].at = "want"
      BY <1>3, <2>2 DEF AfterUpdate, Finished
    <3> QED BY <3>1, <3>2, NextStatementHolds
  <2> QED BY <2>1, <2>2
<1>4. CASE AfterUpdate(t, "move", "cancel", "commit")
  <2>1. txn[t].op = "cancel" /\ txn[t].at = "move" /\ txn[t].todo = {} /\ (Rollback(t) \/ Commit(t))
    BY <1>4 DEF AfterUpdate, Finished
  <2>2. Lawful(db, After(t)) BY <2>1, SwapIsLawful
  <2> QED BY <1>1, <1>2, <2>1, <2>2
<1>5. ASSUME NEW op \in {"withdraw", "unwant", "accept", "complete"}, AfterUpdate(t, "sweep", op, "commit")
      PROVE  Inv' /\ (db' = db \/ Lawful(db, db'))
  <2>1. txn[t].op = op /\ txn[t].at = "sweep" /\ (Rollback(t) \/ Commit(t))
    BY <1>5 DEF AfterUpdate, Finished
  <2>2. Lawful(db, After(t)) BY <2>1, WithdrawIsLawful, UnwantIsLawful, SwapIsLawful
  <2> QED BY <1>1, <1>2, <2>1, <2>2
<1> QED BY <1>3, <1>4, <1>5 DEF AfterMove, AfterWant, AfterSweep

\* The matching statement commits its rows.
LEMMA AfterInsertHolds ==
  ASSUME Inv, NEW t \in Tx, AfterInsert(t)
  PROVE  Inv' /\ Lawful(db, db')
<1>1. txn[t].op = "pass" BY AtWhich DEF AfterInsert, Finished
<1>2. Lawful(db, After(t)) BY <1>1, PassIsLawful
<1> QED BY <1>2, CommitHolds DEF AfterInsert, Commit, After

\* Every step keeps the invariant and changes the tables, if at all, in one of
\* the ways of Lawful.
LEMMA StepHolds ==
  ASSUME Inv, [Next]_vars
  PROVE  Inv' /\ (db' = db \/ Lawful(db, db'))
<1>1. CASE UNCHANGED vars
  <2>1. \A s \in Tx : Transaction(s)'
    BY <1>1, OthersHold DEF vars, WantsClose, Inv
  <2> QED BY <1>1, <2>1 DEF vars, Inv, TypeOK, Exclusive, OnePass
<1>2. ASSUME NEW t \in Tx, Begin(t) \/ Work(t) \/ Deadlock(t) \/ Fail(t)
      PROVE  Inv' /\ (db' = db \/ Lawful(db, db'))
  <2>1. CASE Begin(t)
    <3>1. db' = db BY <2>1 DEF Begin, StartMatch, StartWithdraw, StartUnwant, StartPass, Start
    <3> QED BY <2>1, <3>1, BeginHolds
  <2>2. CASE LockRow(t)
    <3>1. db' = db BY <2>2 DEF LockRow
    <3> QED BY <2>2, <3>1, LockRowHolds
  <2>3. CASE AfterMatch(t) BY <2>3, AfterMatchHolds
  <2>4. CASE AfterItems(t) BY <2>4, AfterItemsHolds
  <2>5. CASE AfterMove(t) \/ AfterWant(t) \/ AfterSweep(t) BY <2>5, AfterUpdateHolds
  <2>6. CASE AfterInsert(t) BY <2>6, AfterInsertHolds
  <2>7. CASE Deadlock(t) \/ Fail(t)
    <3>1. Rollback(t) BY <2>7 DEF Deadlock, Fail
    <3> QED BY <3>1, RollbackHolds DEF Rollback
  <2> QED BY <1>2, <2>1, <2>2, <2>3, <2>4, <2>5, <2>6, <2>7 DEF Work
<1> QED BY <1>1, <1>2 DEF Next

\* The first state: everything available, nothing matched, nobody at work.
LEMMA InitHolds == Init => Inv
<1> SUFFICES ASSUME Init PROVE Inv OBVIOUS
<1>1. /\ \A i \in Items : db[I(i)] = "available"
      /\ \A w \in Wants : db[W(w)] = "active"
      /\ \A p \in Pairs : db[M(p)] = [Fresh EXCEPT !.status = "none"]
      /\ DOMAIN db = Rows
  <2>1. \A i \in Items : I(i)[1] = "item" BY DEF I
  <2>2. \A w \in Wants : W(w)[1] = "want" BY DEF W
  <2>3. \A p \in Pairs : M(p)[1] = "match" BY DEF M
  <2> QED BY <2>1, <2>2, <2>3, InRows DEF Init
<1>2. [Fresh EXCEPT !.status = "none"] = [status |-> "none", accepted |-> {}, plan |-> NoPlan, confirmed |-> {}]
  BY DEF Fresh
<1>3. \A t \in Tx : mine[t] = <<>> /\ DOMAIN mine[t] = {} /\ held[t] = {} /\ txn[t] = Idle
  BY DEF Init
<1>4. TypeOK
  <2>1. RowsOK(db)
    BY <1>1, <1>2 DEF RowsOK, ItemStatuses, MatchRows, MatchStatuses
  <2>2. \A t \in Tx : RowsOK(mine[t]) BY <1>3 DEF RowsOK
  <2>3. Idle \in Records BY DEF Idle, Records
  <2> QED BY <1>1, <2>1, <2>2, <2>3 DEF Init, TypeOK, Records
<1>5. ASSUME NEW t \in Tx PROVE Transaction(t)
  <2>1. Program(t) BY <1>3 DEF Program, Idle, OnMatch
  <2>2. Pending(t) BY <1>3 DEF Pending, Idle
  <2>3. Locked(t) BY <1>3 DEF Locked, Idle, OnMatch
  <2>4. Written(t) BY <1>3 DEF Written
  <2>5. Progress(t) BY <1>3 DEF Progress, Idle, OnMatch
  <2> QED BY <2>1, <2>2, <2>3, <2>4, <2>5 DEF Transaction
<1>6. Exclusive /\ OnePass BY <1>3 DEF Exclusive, OnePass, Idle
<1>7. Agree(db)
  BY <1>1, <1>2, TxAssumption DEF Agree, Taken
<1> QED BY <1>4, <1>5, <1>6, <1>7 DEF Inv

\* The invariant holds in every state.
LEMMA Inductive == Spec => []Inv
<1>1. Inv /\ [Next]_vars => Inv' BY StepHolds
<1> QED BY <1>1, InitHolds, PTL DEF Spec
-----------------------------------------------------------------------------
(* What each transaction commits, to the row: f before, g after it.        *)

WantsMove(f, g, S, to) ==
  \A w \in Wants : g[W(w)] = IF w \in S /\ f[W(w)] = "active" THEN to ELSE f[W(w)]

\* Of the matches not in own, those of S are called off if they are pending.
CallsOff(f, g, S, own) ==
  \A q \in Pairs \ own :
    g[M(q)] = IF q \in S /\ f[M(q)].status = "pending"
                THEN [f[M(q)] EXCEPT !.status = "cancelled"] ELSE f[M(q)]

OneRow(f, g, p, v) ==
  /\ ItemsMove(f, g, {}, "available", "available") /\ WantsMove(f, g, {}, "fulfilled")
  /\ CallsOff(f, g, {}, {p}) /\ g[M(p)] = v

SharingItems(S) == {q \in Pairs : ItemsOf(q) \cap S # {}}
SharingWants(S) == {q \in Pairs : Relies[q] \cap S # {}}

Inserts(f, g) == Proposes(f, g) /\ WantsMove(f, g, {}, "fulfilled")
Withdraws(f, g, i, late) ==
  /\ ItemsMove(f, g, {i}, "available", "withdrawn") /\ WantsMove(f, g, {}, "fulfilled")
  /\ CallsOff(f, g, SharingItems({i}) \ late, {})
Unwants(f, g, w, late) ==
  /\ f[W(w)] = "active"
  /\ ItemsMove(f, g, {}, "available", "available") /\ WantsMove(f, g, {w}, "cancelled")
  /\ CallsOff(f, g, SharingWants({w}) \ late, {})
Accepts(f, g, p, k) ==
  LET m == f[M(p)]
      n == [m EXCEPT !.accepted = @ \cup {k}]
  IN  /\ m.status = "pending"
      /\ IF n.accepted # Side \/ n = m THEN OneRow(f, g, p, n)
         ELSE IF \A i \in ItemsOf(p) : f[I(i)] = "available"
         THEN /\ ItemsMove(f, g, ItemsOf(p), "available", "reserved")
              /\ WantsMove(f, g, {}, "fulfilled")
              /\ CallsOff(f, g, SharingItems(ItemsOf(p)), {p})
              /\ g[M(p)] = [n EXCEPT !.status = "accepted"]
         ELSE OneRow(f, g, p, [n EXCEPT !.status = "cancelled"])
Declines(f, g, p) ==
  f[M(p)].status = "pending" /\ OneRow(f, g, p, [f[M(p)] EXCEPT !.status = "declined"])
Revokes(f, g, p) == Cancels(f, g, p) /\ WantsMove(f, g, {}, "fulfilled")
SetsPlan(f, g, p, plan) ==
  f[M(p)].status = "accepted" /\ OneRow(f, g, p, Planned(f[M(p)], plan))
Confirms(f, g, p, k, late) ==
  LET m == f[M(p)]
      n == [m EXCEPT !.confirmed = @ \cup {k}]
  IN  /\ m.status = "accepted" /\ m.plan # NoPlan
      /\ IF n.confirmed # Side THEN OneRow(f, g, p, n)
         ELSE /\ ItemsMove(f, g, ItemsOf(p), "reserved", "exchanged")
              /\ WantsMove(f, g, Relies[p], "fulfilled")
              /\ CallsOff(f, g, SharingWants(Relies[p]) \ late, {p})
              /\ g[M(p)] = [n EXCEPT !.status = "completed"]

\* The operation of t, run on the tables f alone, leaves the tables g; but the
\* matches of late are none of those that its sweep calls off.
Does(t, f, g, late) ==
  LET op == txn[t].op
      on == txn[t].on
      k  == txn[t].arg
  IN  \/ op = "pass" /\ Inserts(f, g)
      \/ op = "withdraw" /\ \E i \in Items : on = I(i) /\ Withdraws(f, g, i, late)
      \/ op = "unwant" /\ \E w \in Wants : on = W(w) /\ Unwants(f, g, w, late)
      \/ \E p \in Pairs : /\ on = M(p)
                          /\ \/ op = "accept" /\ Accepts(f, g, p, k)
                             \/ op = "decline" /\ Declines(f, g, p)
                             \/ op = "cancel" /\ Revokes(f, g, p)
                             \/ op = "exchange" /\ SetsPlan(f, g, p, k)
                             \/ op = "complete" /\ Confirms(f, g, p, k, late)

CommitsAlone == [][db' = db \/ \E t \in Tx : Does(t, db, db', missed[t])]_vars

\* A sweep has in hand, or has written, every match it is to call off that is
\* pending, but for those that a pass has committed since it began; and an
\* acceptance misses none, because it holds the items that a pass refers to.
Thorough(t) ==
  /\ txn[t].at # "sweep" => missed[t] = {}
  /\ txn[t].at = "sweep" => \A q \in Swept(t) :
       /\ Status(q) = "none" => M(q) \notin txn[t].todo
       /\ q \in missed[t] => M(q) \notin txn[t].todo \cup DOMAIN mine[t]
       /\ Status(q) = "pending" => M(q) \in txn[t].todo \cup DOMAIN mine[t] \/ q \in missed[t]
       /\ txn[t].op = "accept" => q \notin missed[t]

Takes(t) == Begin(t) \/ Work(t) \/ Deadlock(t) \/ Fail(t)

\* A sweep that is over has called off what it is to call off, and nothing else.
LEMMA SweepDoes ==
  ASSUME Inv, NEW t \in Tx, Thorough(t), txn[t].at = "sweep", txn[t].todo = {},
         NEW q \in Pairs, txn[t].on # M(q)
  PROVE  After(t)[M(q)] = IF q \in Swept(t) \ missed[t] /\ db[M(q)].status = "pending"
                            THEN [db[M(q)] EXCEPT !.status = "cancelled"] ELSE db[M(q)]
<1>1. Written(t) /\ After(t)[M(q)] = View(t, M(q)) BY AfterRows DEF Inv, Transaction
<1>2. CASE M(q) \in DOMAIN mine[t]
  <2>1. txn[t].op # "pass" BY AtWhich
  <2>2. /\ q \in Swept(t) /\ db[M(q)].status = "pending"
        /\ mine[t][M(q)] = [db[M(q)] EXCEPT !.status = "cancelled"]
    BY <1>1, <1>2, <2>1 DEF Written
  <2>3. q \notin missed[t] BY <1>2, <2>2 DEF Thorough
  <2> QED BY <1>1, <1>2, <2>2, <2>3 DEF View
<1>3. CASE M(q) \notin DOMAIN mine[t]
  <2>1. ~(q \in Swept(t) \ missed[t] /\ db[M(q)].status = "pending")
    BY <1>3 DEF Thorough, Status
  <2> QED BY <1>1, <1>3, <2>1 DEF View
<1> QED BY <1>2, <1>3

\* The items of an operation that has written them all.
LEMMA ItemsDone ==
  ASSUME Inv, NEW t \in Tx, txn[t].op \in {"withdraw", "accept", "cancel", "complete"},
         \A i \in MyItems(t) : I(i) \in DOMAIN mine[t]
  PROVE  ItemsMove(db, After(t), MyItems(t), Source(txn[t].op), Target(txn[t].op))
<1>1. Written(t) BY DEF Inv, Transaction
<1> QED BY <1>1, AfterRows DEF Written, ItemsMove, View

\* The wants of an operation that has written them all.
LEMMA WantsDone ==
  ASSUME Inv, NEW t \in Tx
  PROVE  /\ txn[t].op \notin {"unwant", "complete"} => WantsMove(db, After(t), {}, "fulfilled")
         /\ txn[t].op \in {"unwant", "complete"} /\ txn[t].at = "sweep" =>
              WantsMove(db, After(t), MyWants(t), Closed(txn[t].op))
<1>1. Written(t) /\ Progress(t) BY DEF Inv, Transaction
<1>2. CASE txn[t].op \notin {"unwant", "complete"}
  BY <1>1, <1>2, AfterRows DEF Written, WantsMove, View
<1>3. CASE txn[t].op \in {"unwant", "complete"} /\ txn[t].at = "sweep"
  <2> SUFFICES ASSUME NEW w \in Wants
               PROVE  After(t)[W(w)] = IF w \in MyWants(t) /\ db[W(w)] = "active"
                                         THEN Closed(txn[t].op) ELSE db[W(w)]
    BY <1>3 DEF WantsMove
  <2>1. After(t)[W(w)] = View(t, W(w)) BY AfterRows
  <2>2. CASE W(w) \in DOMAIN mine[t] BY <1>1, <2>1, <2>2 DEF Written, View
  <2>3. CASE W(w) \notin DOMAIN mine[t]
    <3>1. w \in MyWants(t) => db[W(w)] # "active"
      BY <1>1, <1>3, <2>3 DEF Progress, View
    <3> QED BY <2>1, <2>3, <3>1 DEF View
  <2> QED BY <2>2, <2>3
<1> QED BY <1>2, <1>3

\* A withdrawal.
LEMMA WithdrawDoes ==
  ASSUME Inv, NEW t \in Tx, Thorough(t), txn[t].op = "withdraw", txn[t].at = "sweep", txn[t].todo = {}
  PROVE  Does(t, db, After(t), missed[t])
<1>1. PICK i \in Items : txn[t].on = I(i) BY DEF Inv, Transaction, Program
<1>2. MyItems(t) = {i} /\ Swept(t) = SharingItems({i})
  BY <1>1, Ids DEF MyItems, Of, Swept, SharingItems
<1>3. ItemsMove(db, After(t), {i}, "available", "withdrawn")
  <2>1. I(i) \in DOMAIN mine[t] BY <1>2 DEF Inv, Transaction, Progress
  <2> QED BY <1>2, <2>1, ItemsDone DEF Source, Target, To
<1>4. CallsOff(db, After(t), SharingItems({i}) \ missed[t], {})
  BY <1>1, <1>2, Ids, SweepDoes DEF CallsOff
<1> QED BY <1>1, <1>3, <1>4, WantsDone DEF Does, Withdraws

\* The cancellation of a want.
LEMMA UnwantDoes ==
  ASSUME Inv, NEW t \in Tx, Thorough(t), txn[t].op = "unwant", txn[t].at = "sweep", txn[t].todo = {}
  PROVE  Does(t, db, After(t), missed[t])
<1>1. PICK w \in Wants : txn[t].on = W(w) BY DEF Inv, Transaction, Program
<1>2. MyWants(t) = {w} /\ Swept(t) = SharingWants({w})
  BY <1>1, Ids DEF MyWants, Of, Swept, SharingWants
<1>3. db[W(w)] = "active" BY <1>2 DEF Inv, Transaction, Progress, Written
<1>4. ItemsMove(db, After(t), {}, "available", "available")
  BY AfterRows DEF ItemsMove, View, Inv, Transaction, Written
<1>5. WantsMove(db, After(t), {w}, "cancelled") BY <1>2, WantsDone DEF Closed
<1>6. CallsOff(db, After(t), SharingWants({w}) \ missed[t], {})
  BY <1>1, <1>2, Ids, SweepDoes DEF CallsOff
<1> QED BY <1>1, <1>3, <1>4, <1>5, <1>6 DEF Does, Unwants

\* A matching pass.
LEMMA PassDoes ==
  ASSUME Inv, NEW t \in Tx, txn[t].op = "pass"
  PROVE  Does(t, db, After(t), missed[t])
<1>1. \A i \in Items : I(i) \notin DOMAIN mine[t] BY FreshRows, Ids
<1>2. ItemsMove(db, After(t), {}, "available", "available")
  BY <1>1, AfterRows DEF ItemsMove, View
<1>3. ASSUME NEW q \in Pairs
      PROVE  After(t)[M(q)] = db[M(q)] \/ (db[M(q)].status = "none" /\ After(t)[M(q)] = Fresh)
  BY FreshRows, AfterRows, Ids DEF View
<1> QED BY <1>2, <1>3, WantsDone DEF Does, Inserts, Proposes

\* The second acceptance, the cancellation and the completion of a swap.
LEMMA SwapDoes ==
  ASSUME Inv, NEW t \in Tx, Thorough(t), txn[t].todo = {},
         \/ txn[t].op \in {"accept", "complete"} /\ txn[t].at = "sweep"
         \/ txn[t].op = "cancel" /\ txn[t].at = "move"
  PROVE  Does(t, db, After(t), missed[t])
<1>1. PICK p \in Pairs : txn[t].on = M(p) BY DEF Inv, Transaction, Program, OnMatch
<1>2. MyItems(t) = ItemsOf(p) BY <1>1, Ids DEF MyItems, Of
<1>3. M(p) \in DOMAIN mine[t] /\ \A i \in ItemsOf(p) : I(i) \in DOMAIN mine[t]
  BY <1>1, <1>2 DEF Inv, Transaction, Progress, OnMatch
<1>4. ItemsMove(db, After(t), ItemsOf(p), Source(txn[t].op), Target(txn[t].op))
  BY <1>2, <1>3, ItemsDone
<1>5. OwnMatch(txn[t].op, txn[t].arg, txn[t].at, db[M(p)], After(t)[M(p)])
  <2>1. After(t)[M(p)] = mine[t][M(p)] BY <1>3, AfterRows DEF View
  <2> QED BY <1>1, <1>3, <2>1 DEF Inv, Transaction, Written
<1>6. db[M(p)] \in MatchRows /\ After(t)[M(p)] \in MatchRows BY AfterRows, Types DEF Inv
<1> DEFINE m == db[M(p)]
<1>7. CASE txn[t].op = "accept"
  <2> DEFINE n == [m EXCEPT !.accepted = @ \cup {txn[t].arg}]
  <2>1. Swept(t) = SharingItems(ItemsOf(p)) \ {p} BY <1>1, <1>7, Ids DEF Swept, Of, SharingItems
  <2>2. \A q \in Swept(t) : q \notin missed[t] BY <1>7 DEF Thorough
  <2>3. CallsOff(db, After(t), SharingItems(ItemsOf(p)), {p})
    BY <1>1, <1>7, <2>1, <2>2, Ids, SweepDoes DEF CallsOff
  <2>4. /\ m.status = "pending" /\ m.accepted # Side /\ n.accepted = Side
        /\ After(t)[M(p)] = [m EXCEPT !.accepted = Side, !.status = "accepted"]
    BY <1>5, <1>6, <1>7 DEF OwnMatch, MatchRows
  <2>5. After(t)[M(p)] = [n EXCEPT !.status = "accepted"] BY <1>6, <2>4 DEF MatchRows
  <2>6. n # m BY <2>4
  <2>7. \A i \in ItemsOf(p) : db[I(i)] = "available"
    BY <1>4, <1>7, InRows DEF ItemsMove, Source
  <2>8. WantsMove(db, After(t), {}, "fulfilled") BY <1>7, WantsDone
  <2>9. ItemsMove(db, After(t), ItemsOf(p), "available", "reserved") BY <1>4, <1>7 DEF Source, Target
  <2>10. Accepts(db, After(t), p, txn[t].arg)
    BY <2>3, <2>4, <2>5, <2>6, <2>7, <2>8, <2>9 DEF Accepts
  <2> QED BY <1>1, <1>7, <2>10 DEF Does
<1>8. CASE txn[t].op = "cancel"
  <2>1. \A q \in Pairs \ {p} : After(t)[M(q)] = db[M(q)]
    <3> SUFFICES ASSUME NEW q \in Pairs \ {p} PROVE M(q) \notin DOMAIN mine[t]
      BY AfterRows DEF View
    <3>1. txn[t].at = "move" /\ txn[t].on # M(q) BY <1>1, <1>8, Ids
    <3> QED BY <1>8, <3>1 DEF Inv, Transaction, Written
  <2>2. Cancels(db, After(t), p)
    BY <1>4, <1>5, <1>8, <2>1 DEF Cancels, OwnMatch, Source, Target, To
  <2> QED BY <1>1, <1>8, <2>2, WantsDone DEF Does, Revokes
<1>9. CASE txn[t].op = "complete"
  <2> DEFINE n == [m EXCEPT !.confirmed = @ \cup {txn[t].arg}]
  <2>1. MyWants(t) = Relies[p] /\ Swept(t) = SharingWants(Relies[p]) \ {p}
    BY <1>1, <1>9, Ids DEF MyWants, Swept, Of, SharingWants
  <2>2. CallsOff(db, After(t), SharingWants(Relies[p]) \ missed[t], {p})
    BY <1>1, <1>9, <2>1, Ids, SweepDoes DEF CallsOff
  <2>3. /\ m.status = "accepted" /\ m.plan # NoPlan /\ n.confirmed = Side
        /\ After(t)[M(p)] = [m EXCEPT !.confirmed = Side, !.status = "completed"]
    BY <1>5, <1>6, <1>9 DEF OwnMatch, MatchRows
  <2>4. After(t)[M(p)] = [n EXCEPT !.status = "completed"] BY <1>6, <2>3 DEF MatchRows
  <2>5. WantsMove(db, After(t), Relies[p], "fulfilled") BY <1>9, <2>1, WantsDone DEF Closed
  <2>6. ItemsMove(db, After(t), ItemsOf(p), "reserved", "exchanged")
    BY <1>4, <1>9 DEF Source, Target, To
  <2>7. Confirms(db, After(t), p, txn[t].arg, missed[t])
    BY <2>2, <2>3, <2>4, <2>5, <2>6 DEF Confirms
  <2> QED BY <1>1, <1>9, <2>7 DEF Does
<1> QED BY <1>7, <1>8, <1>9

\* A commit of one match leaves every other row as it is.
LEMMA RowDoes ==
  ASSUME Inv, NEW p \in Pairs, NEW v, db' = [db EXCEPT ![M(p)] = v]
  PROVE  OneRow(db, db', p, v)
<1>1. DOMAIN db = Rows BY DEF Inv, TypeOK
<1>2. db'[M(p)] = v /\ \A r \in Rows : r # M(p) => db'[r] = db[r] BY <1>1, InRows
<1> QED BY <1>2, InRows, Ids DEF OneRow, ItemsMove, WantsMove, CallsOff

\* What follows the lock on the match: at most that match is committed.
LEMMA AfterMatchDoes ==
  ASSUME Inv, NEW t \in Tx, AfterMatch(t)
  PROVE  db' = db \/ Does(t, db, db', missed[t])
<1>0. /\ Program(t) /\ Progress(t) /\ txn[t].at = "match" /\ txn[t].op \in OnMatch
  BY AtWhich DEF Inv, Transaction, AfterMatch, Finished
<1>1. PICK p \in Pairs : txn[t].on = M(p) BY <1>0 DEF Program
<1> DEFINE m == db[M(p)]
           k == {txn[t].arg}
<1>2. View(t, txn[t].on) = m BY <1>0, <1>1 DEF View, Progress
<1>3. CASE txn[t].op = "accept" /\ m.status = "pending"
  <2> DEFINE v == [m EXCEPT !.accepted = @ \cup k]
  <2>1. db' = db \/ (~(v.accepted = Side /\ v # m) /\ db' = [db EXCEPT ![M(p)] = v])
    BY <1>1, <1>2, <1>3 DEF AfterMatch
  <2>2. CASE ~(v.accepted = Side /\ v # m) /\ db' = [db EXCEPT ![M(p)] = v]
    <3>1. OneRow(db, db', p, v) BY <2>2, RowDoes
    <3> QED BY <1>1, <1>3, <2>2, <3>1 DEF Does, Accepts
  <2> QED BY <2>1, <2>2
<1>4. CASE txn[t].op = "decline" /\ m.status = "pending"
  <2> DEFINE v == [m EXCEPT !.status = "declined"]
  <2>1. db' = [db EXCEPT ![M(p)] = v] BY <1>1, <1>2, <1>4 DEF AfterMatch
  <2>2. OneRow(db, db', p, v) BY <2>1, RowDoes
  <2> QED BY <1>1, <1>4, <2>2 DEF Does, Declines
<1>5. CASE txn[t].op = "exchange" /\ m.status = "accepted"
  <2> DEFINE v == Planned(m, txn[t].arg)
  <2>1. db' = [db EXCEPT ![M(p)] = v] BY <1>1, <1>2, <1>5 DEF AfterMatch
  <2>2. OneRow(db, db', p, v) BY <2>1, RowDoes
  <2> QED BY <1>1, <1>5, <2>2 DEF Does, SetsPlan
<1>6. CASE txn[t].op = "complete" /\ m.status = "accepted" /\ m.plan # NoPlan
  <2> DEFINE v == [m EXCEPT !.confirmed = @ \cup k]
  <2>1. db' = db \/ (v.confirmed # Side /\ db' = [db EXCEPT ![M(p)] = v])
    BY <1>1, <1>2, <1>6 DEF AfterMatch
  <2>2. CASE v.confirmed # Side /\ db' = [db EXCEPT ![M(p)] = v]
    <3>1. OneRow(db, db', p, v) BY <2>2, RowDoes
    <3> QED BY <1>1, <1>6, <2>2, <3>1 DEF Does, Confirms
  <2> QED BY <2>1, <2>2
<1>7. CASE /\ ~(txn[t].op = "accept" /\ m.status = "pending")
           /\ ~(txn[t].op = "decline" /\ m.status = "pending")
           /\ ~(txn[t].op = "exchange" /\ m.status = "accepted")
           /\ ~(txn[t].op = "complete" /\ m.status = "accepted" /\ m.plan # NoPlan)
  <2>1. db' = db BY <1>2, <1>7 DEF AfterMatch, Rollback
  <2> QED BY <2>1
<1> QED BY <1>3, <1>4, <1>5, <1>6, <1>7

\* An acceptance that came too late calls its own match off.
LEMMA AfterItemsDoes ==
  ASSUME Inv, NEW t \in Tx, AfterItems(t)
  PROVE  db' = db \/ Does(t, db, db', missed[t])
<1>0. /\ Program(t) /\ Written(t) /\ Progress(t) /\ txn[t].at = "items" /\ txn[t].op = "accept"
  BY AtWhich DEF Inv, Transaction, AfterItems, Finished
<1>1. PICK p \in Pairs : txn[t].on = M(p) BY <1>0 DEF Program, OnMatch
<1>2. DOMAIN mine[t] = {M(p)} /\ MyItems(t) = ItemsOf(p)
  BY <1>0, <1>1, Ids DEF Progress, MyItems, Of
<1> DEFINE m == db[M(p)]
           n == [m EXCEPT !.accepted = @ \cup {txn[t].arg}]
           u == [mine[t][M(p)] EXCEPT !.status = "cancelled"]
<1>3. /\ m.status = "pending" /\ m.accepted # Side /\ n.accepted = Side
      /\ u = [n EXCEPT !.status = "cancelled"]
  <2>1. OwnMatch("accept", txn[t].arg, "items", m, mine[t][M(p)])
    BY <1>0, <1>1, <1>2 DEF Written, OnMatch
  <2>2. m \in MatchRows /\ mine[t][M(p)] \in MatchRows BY <1>2, Types DEF Inv
  <2> QED BY <2>1, <2>2 DEF OwnMatch, MatchRows
<1>4. \A i \in ItemsOf(p) : View(t, I(i)) = db[I(i)] BY <1>2, Ids DEF View
<1>5. \/ db' = db
      \/ /\ db' = [db EXCEPT ![M(p)] = u]
         /\ ~\A i \in ItemsOf(p) : db[I(i)] = "available"
  <2>1. View(t, M(p)) = mine[t][M(p)] BY <1>2 DEF View
  <2> QED BY <1>1, <1>2, <1>4, <2>1 DEF AfterItems
<1>6. CASE db' = [db EXCEPT ![M(p)] = u] /\ ~\A i \in ItemsOf(p) : db[I(i)] = "available"
  <2>1. OneRow(db, db', p, u) BY <1>6, RowDoes
  <2>2. n # m BY <1>3
  <2>3. Accepts(db, db', p, txn[t].arg) BY <1>3, <1>6, <2>1, <2>2 DEF Accepts
  <2> QED BY <1>0, <1>1, <2>3 DEF Does
<1> QED BY <1>5, <1>6

\* A step of a session commits nothing, or what its operation does alone.
LEMMA Effects ==
  ASSUME Inv, NEW t \in Tx, Thorough(t), Takes(t)
  PROVE  db' = db \/ Does(t, db, db', missed[t])
<1>1. CASE Begin(t) BY <1>1 DEF Begin, StartMatch, StartWithdraw, StartUnwant, StartPass, Start
<1>2. CASE LockRow(t) BY <1>2 DEF LockRow
<1>3. CASE AfterMatch(t) BY <1>3, AfterMatchDoes
<1>4. CASE AfterItems(t) BY <1>4, AfterItemsDoes
<1>5. CASE AfterMove(t) \/ AfterWant(t) \/ AfterSweep(t)
  <2>1. \/ db' = db
        \/ /\ db' = After(t) /\ txn[t].todo = {}
           /\ \/ txn[t].op \in {"withdraw", "unwant", "accept", "complete"} /\ txn[t].at = "sweep"
              \/ txn[t].op = "cancel" /\ txn[t].at = "move"
    BY <1>5 DEF AfterMove, AfterWant, AfterSweep, AfterUpdate, Finished, Commit, Rollback, After
  <2> QED BY <2>1, WithdrawDoes, UnwantDoes, SwapDoes
<1>6. CASE AfterInsert(t)
  <2>1. txn[t].op = "pass" /\ db' = After(t) BY <1>6, AtWhich DEF AfterInsert, Finished, Commit, After
  <2> QED BY <2>1, PassDoes
<1>7. CASE Deadlock(t) \/ Fail(t) BY <1>7 DEF Deadlock, Fail, Rollback
<1> QED BY <1>1, <1>2, <1>3, <1>4, <1>5, <1>6, <1>7 DEF Takes, Work

\* Only a pass makes matches: those it has written, with its references locked.
LEMMA Creation ==
  ASSUME Inv, NEW t \in Tx, Takes(t), Thorough(t), NEW q \in Pairs,
         Status(q) = "none", Status(q)' # "none"
  PROVE  txn[t].op = "pass" /\ txn[t].todo = {} /\ M(q) \in DOMAIN mine[t]
<1>1. db[M(q)].status = "none" /\ db'[M(q)].status # "none" /\ db' # db BY DEF Status
<1>2. Does(t, db, db', missed[t]) BY <1>1, Effects
<1>3. txn[t].op = "pass"
  <2> SUFFICES ASSUME txn[t].op # "pass" PROVE FALSE OBVIOUS
  <2>1. db'[M(q)] = db[M(q)] \/ db[M(q)].status \in {"pending", "accepted"}
    BY <1>2 DEF Does, Withdraws, Unwants, Accepts, Declines, Revokes, Cancels, SetsPlan, Confirms,
                OneRow, CallsOff
  <2> QED BY <1>1, <2>1
<1>4. txn[t].at = "insert" BY <1>3, AtWhich
<1>5. AfterInsert(t)
  BY <1>1, <1>3, <1>4 DEF Takes, Begin, StartMatch, StartWithdraw, StartUnwant, StartPass, Start,
     Work, LockRow, AfterMatch, AfterItems, AfterMove, AfterWant, AfterSweep, AfterUpdate, Finished,
     Deadlock, Fail, Rollback
<1>6. db'[M(q)] = View(t, M(q)) BY <1>5, InRows DEF AfterInsert, Commit
<1> QED BY <1>1, <1>3, <1>5, <1>6 DEF AfterInsert, Finished, View

\* A step of one session is no step of another.
LEMMA Frame ==
  ASSUME TypeOK, NEW t \in Tx, Takes(t), NEW s \in Tx \ {t}
  PROVE  txn'[s] = txn[s] /\ mine'[s] = mine[s]
<1>0. DOMAIN txn = Tx /\ DOMAIN mine = Tx BY DEF TypeOK
<1>1. ASSUME End(t) PROVE txn'[s] = txn[s] /\ mine'[s] = mine[s] BY <1>0, <1>1 DEF End
<1>2. ASSUME NEW at, GoTo(t, at) PROVE txn'[s] = txn[s] BY <1>0, <1>2 DEF GoTo
<1>3. ASSUME NEW new, Write(t, new) PROVE mine'[s] = mine[s] BY <1>0, <1>3 DEF Write
<1>4. CASE Begin(t) BY <1>0, <1>4 DEF Begin, StartMatch, StartWithdraw, StartUnwant, StartPass, Start
<1>5. CASE LockRow(t) BY <1>0, <1>3, <1>5 DEF LockRow
<1>6. CASE AfterMatch(t) BY <1>1, <1>2, <1>3, <1>6 DEF AfterMatch, Rollback
<1>7. CASE AfterItems(t) BY <1>1, <1>2, <1>3, <1>7 DEF AfterItems
<1>8. CASE AfterMove(t) \/ AfterWant(t) \/ AfterSweep(t)
  BY <1>1, <1>2, <1>8 DEF AfterMove, AfterWant, AfterSweep, AfterUpdate, Rollback, Commit
<1>9. CASE AfterInsert(t) \/ Deadlock(t) \/ Fail(t)
  BY <1>1, <1>9 DEF AfterInsert, Deadlock, Fail, Rollback, Commit
<1> QED BY <1>4, <1>5, <1>6, <1>7, <1>8, <1>9 DEF Takes, Work

\* A session that sweeps after its step has locked a row, or is at the start.
LEMMA Sweeping ==
  ASSUME Inv, NEW t \in Tx, Takes(t), txn'[t].at = "sweep"
  PROVE  \/ LockRow(t) /\ txn[t].at = "sweep"
         \/ /\ txn[t].at # "sweep" /\ GoTo(t, "sweep") /\ db' = db
            /\ txn[t].op \in {"withdraw", "unwant", "accept", "complete"}
<1>0. DOMAIN txn = Tx /\ txn[t] \in Records BY DEF Inv, TypeOK, Records
<1>1. ~End(t) BY <1>0 DEF End, Idle
<1>2. ASSUME NEW at, GoTo(t, at) PROVE at = "sweep" BY <1>0, <1>2 DEF GoTo, Records
<1>3. ~Begin(t)
  BY <1>0 DEF Begin, StartMatch, StartWithdraw, StartUnwant, StartPass, Start
<1>4. CASE LockRow(t) BY <1>0, <1>4 DEF LockRow, Records
<1>5. ~AfterMatch(t) BY <1>1, <1>2 DEF AfterMatch, Rollback
<1>6. CASE AfterItems(t) BY <1>1, <1>6, AtWhich DEF AfterItems, Finished
<1>7. CASE AfterMove(t) \/ AfterWant(t) \/ AfterSweep(t)
  BY <1>1, <1>2, <1>7 DEF AfterMove, AfterWant, AfterSweep, AfterUpdate, Finished, Rollback, Commit
<1>8. ~(AfterInsert(t) \/ Deadlock(t) \/ Fail(t))
  BY <1>1 DEF AfterInsert, Deadlock, Fail, Rollback, Commit
<1> QED BY <1>3, <1>4, <1>5, <1>6, <1>7, <1>8 DEF Takes, Work

\* The session that takes the step sweeps as it should.
LEMMA OwnSweep ==
  ASSUME Inv, NEW t \in Tx, Thorough(t), Takes(t), Overlook
  PROVE  Thorough(t)'
<1>1. CASE txn'[t].at # "sweep" BY <1>1 DEF Thorough, Overlook
<1>2. CASE LockRow(t) /\ txn[t].at = "sweep"
  <2> DEFINE at == txn[t].at
  <2>1. PICK r \in Upcoming(t) :
          /\ IF Writes(at) /\ Matches(t, at, r)
               THEN Write(t, [x \in {r} |-> NewValue(t, at, r)])
               ELSE UNCHANGED mine
          /\ txn' = [txn EXCEPT ![t].todo = @ \ {r}]
          /\ UNCHANGED db
    BY <1>2 DEF LockRow
  <2> DEFINE todo == txn[t].todo \ {r}
  <2>2. txn' = [txn EXCEPT ![t].at = at, ![t].todo = todo]
    <3>1. txn[t] \in Records BY DEF Inv, TypeOK, Records
    <3>2. [txn[t] EXCEPT !.at = at, !.todo = todo] = [txn[t] EXCEPT !.todo = todo]
      BY <3>1 DEF Records
    <3>3. txn' = [txn EXCEPT ![t] = [txn[t] EXCEPT !.todo = todo]] BY <2>1
    <3> QED BY <3>2, <3>3
  <2> HIDE DEF todo, at
  <2>3. /\ txn'[t].op = txn[t].op /\ txn'[t].on = txn[t].on /\ txn'[t].arg = txn[t].arg
        /\ txn'[t].at = at /\ txn'[t].todo = todo
        /\ MyItems(t)' = MyItems(t) /\ MyWants(t)' = MyWants(t) /\ Swept(t)' = Swept(t)
    BY <2>2, SameOperation DEF Inv
  <2>7. Swept(t) \subseteq Pairs BY Operands
  <2>4. missed'[t] = missed[t] /\ \A q \in Pairs : Status(q)' = Status(q)
    BY <1>2, <2>1, <2>3 DEF Overlook, Status, at
  <2>5. CASE Matches(t, at, r)
    <3> DEFINE new == [x \in {r} |-> NewValue(t, at, r)]
    <3>1. mine'[t] = Over(t, new) BY <1>2, <2>1, <2>5 DEF Writes, Write, Over, Inv, TypeOK, at
    <3>2. DOMAIN mine'[t] = DOMAIN mine[t] \cup {r} BY <3>1 DEF Over
    <3>3. \A q \in Swept(t) : q \in missed[t] => r # M(q)
      BY <1>2, <2>1 DEF Thorough, Upcoming
    <3> QED BY <1>2, <2>3, <2>4, <2>7, <3>2, <3>3 DEF Thorough, at, todo
  <2>6. CASE ~Matches(t, at, r)
    <3>1. mine' = mine BY <2>1, <2>6
    <3>2. ASSUME NEW q \in Swept(t), r = M(q), Status(q) = "pending", M(q) \notin DOMAIN mine[t] PROVE FALSE
      BY <1>2, <2>6, <3>2 DEF Matches, View, Status, at
    <3> QED BY <1>2, <2>3, <2>4, <2>7, <3>1, <3>2 DEF Thorough, at, todo
  <2> QED BY <2>5, <2>6
<1>3. CASE /\ txn[t].at # "sweep" /\ GoTo(t, "sweep") /\ db' = db
           /\ txn[t].op \in {"withdraw", "unwant", "accept", "complete"}
  <2> DEFINE todo == Found(t, "sweep")
  <2>1. txn' = [txn EXCEPT ![t].at = "sweep", ![t].todo = todo] BY <1>3 DEF GoTo
  <2> HIDE DEF todo
  <2>2. /\ txn'[t].op = txn[t].op /\ txn'[t].on = txn[t].on /\ txn'[t].arg = txn[t].arg
        /\ txn'[t].at = "sweep" /\ txn'[t].todo = todo
        /\ MyItems(t)' = MyItems(t) /\ MyWants(t)' = MyWants(t) /\ Swept(t)' = Swept(t)
    BY <2>1, SameOperation DEF Inv
  <2>3. missed'[t] = {} /\ \A q \in Pairs : Status(q)' = Status(q)
    BY <1>3, <2>2 DEF Overlook, Status, Thorough
  <2>4. ASSUME NEW q \in Swept(t) PROVE q \in Pairs /\ (M(q) \in todo <=> Status(q) = "pending")
    <3>1. q \in Pairs /\ M(q) \notin DOMAIN mine[t]
      <4>1. q \in Pairs BY Operands
      <4>2. txn[t].op # "pass" /\ txn[t].on # M(q) BY <1>3, Operands
      <4> QED BY <1>3, <4>1, <4>2 DEF Inv, Transaction, Written
    <3> QED BY <3>1, Ids DEF todo, Found, Matches, View, Status
  <2> QED BY <2>2, <2>3, <2>4 DEF Thorough
<1> QED BY <1>1, <1>2, <1>3, Sweeping

\* What becomes of the status of a match.
LEMMA DoesStatus ==
  ASSUME NEW t \in Tx, NEW f, NEW g, NEW late, Does(t, f, g, late),
         NEW q \in Pairs, f[M(q)] \in MatchRows
  PROVE  \/ g[M(q)] = f[M(q)]
         \/ f[M(q)].status = "none" /\ g[M(q)] = Fresh
         \/ g[M(q)].status \in {f[M(q)].status, "accepted", "declined", "cancelled", "completed"}
<1>1. CASE txn[t].op = "pass" /\ Inserts(f, g) BY <1>1 DEF Inserts, Proposes
<1>2. ASSUME NEW S, NEW own, CallsOff(f, g, S, own), q \notin own
      PROVE  g[M(q)] = f[M(q)] \/ g[M(q)].status = "cancelled"
  BY <1>2 DEF CallsOff, MatchRows
<1>3. ASSUME NEW i \in Items, Withdraws(f, g, i, late)
      PROVE  g[M(q)] = f[M(q)] \/ g[M(q)].status = "cancelled"
  BY <1>2, <1>3 DEF Withdraws
<1>4. ASSUME NEW w \in Wants, Unwants(f, g, w, late)
      PROVE  g[M(q)] = f[M(q)] \/ g[M(q)].status = "cancelled"
  BY <1>2, <1>4 DEF Unwants
<1>5. ASSUME NEW p \in Pairs, NEW k,
             \/ Accepts(f, g, p, k) \/ Declines(f, g, p) \/ Revokes(f, g, p)
             \/ SetsPlan(f, g, p, k) \/ Confirms(f, g, p, k, late)
      PROVE  \/ g[M(q)] = f[M(q)]
             \/ g[M(q)].status \in {f[M(q)].status, "accepted", "declined", "cancelled", "completed"}
  <2>1. CASE p # q
    BY <1>2, <1>5, <2>1 DEF Accepts, Declines, Revokes, Cancels, SetsPlan, Confirms, OneRow
  <2>2. CASE p = q
    BY <1>5, <2>2 DEF Accepts, Declines, Revokes, Cancels, SetsPlan, Confirms, OneRow, Planned, MatchRows
  <2> QED BY <2>1, <2>2
<1> QED BY <1>1, <1>3, <1>4, <1>5 DEF Does

\* So do the others: what a pass commits in the meantime they miss.
LEMMA OtherSweep ==
  ASSUME Inv, NEW t \in Tx, Thorough(t), Takes(t), Overlook,
         NEW s \in Tx \ {t}, Thorough(s)
  PROVE  Thorough(s)'
<1>1. txn'[s] = txn[s] /\ mine'[s] = mine[s] BY Frame DEF Inv
<1>2. Swept(s)' = Swept(s) /\ Swept(s) \subseteq Pairs BY <1>1, Operands DEF Swept, Of
<1>3. CASE txn[s].at # "sweep" BY <1>1, <1>3 DEF Thorough, Overlook
<1>4. CASE txn[s].at = "sweep"
  <2> DEFINE new == {p \in Pairs : Status(p) = "none" /\ Status(p)' = "pending"}
  <2>1. missed'[s] = missed[s] \cup new BY <1>1, <1>4 DEF Overlook
  <2> SUFFICES ASSUME NEW q \in Swept(s)
               PROVE  /\ Status(q)' = "none" => M(q) \notin txn[s].todo
                      /\ q \in missed[s] \cup new => M(q) \notin txn[s].todo \cup DOMAIN mine[s]
                      /\ Status(q)' = "pending" =>
                           M(q) \in txn[s].todo \cup DOMAIN mine[s] \/ q \in missed[s] \cup new
                      /\ txn[s].op = "accept" => q \notin missed[s] \cup new
    BY <1>1, <1>2, <1>4, <2>1 DEF Thorough
  <2>2. q \in Pairs /\ Status(q) \in MatchStatuses BY <1>2, Types DEF Status, Inv, MatchRows
  <2>3. db' = db \/ Does(t, db, db', missed[t]) BY Effects
  <2>4. Status(q)' = Status(q) \/ (Status(q)' # "none" /\ (Status(q)' = "pending" => q \in new))
    <3>1. ASSUME Does(t, db, db', missed[t])
          PROVE  \/ db'[M(q)] = db[M(q)]
                 \/ Status(q) = "none" /\ db'[M(q)] = Fresh
                 \/ Status(q)' \in {Status(q), "accepted", "declined", "cancelled", "completed"}
      <4>1. db[M(q)] \in MatchRows BY <2>2, Types DEF Inv
      <4> QED BY <2>2, <3>1, <4>1, DoesStatus DEF Status
    <3> QED BY <2>2, <2>3, <3>1 DEF Status, Fresh
  <2>5. q \in new => M(q) \notin txn[s].todo \cup DOMAIN mine[s]
    <3> SUFFICES ASSUME Status(q) = "none" PROVE M(q) \notin txn[s].todo \cup DOMAIN mine[s]
      OBVIOUS
    <3>1. txn[s].op # "pass" /\ txn[s].on # M(q) BY <1>4, AtWhich, Operands
    <3> QED BY <1>4, <2>2, <3>1 DEF Thorough, Status, Inv, Transaction, Written
  <2>6. txn[s].op = "accept" => q \notin new
    <3> SUFFICES ASSUME txn[s].op = "accept", q \in new PROVE FALSE OBVIOUS
    <3>1. txn[t].op = "pass" /\ txn[t].todo = {} /\ M(q) \in DOMAIN mine[t] BY <2>2, Creation
    <3>2. PICK p \in Pairs : txn[s].on = M(p) BY DEF Inv, Transaction, Program, OnMatch
    <3>3. PICK i \in ItemsOf(q) : i \in MyItems(s) BY <3>2, Ids DEF Swept, MyItems, Of
    <3>4. Has(t, I(i), {"keyshare"}) BY <2>2, <3>1, <3>3 DEF Inv, Transaction, Locked
    <3>5. Has(s, I(i), {"update"}) BY <1>4, <3>3 DEF Inv, Transaction, Locked
    <3> QED BY <3>4, <3>5 DEF Has, Inv, Exclusive, Conflicts
  <2> QED BY <1>4, <2>4, <2>5, <2>6 DEF Thorough
<1> QED BY <1>3, <1>4

\* Every sweep is thorough, always.
SweepInv == \A t \in Tx : Thorough(t)

LEMMA SweepHolds ==
  ASSUME Inv, SweepInv, [Next]_vars
  PROVE  SweepInv' /\ (db' = db \/ \E t \in Tx : Does(t, db, db', missed[t]))
<1>1. CASE UNCHANGED vars
  <2>1. \A t \in Tx : Swept(t)' = Swept(t) BY <1>1 DEF vars, Swept, Of
  <2>2. \A q \in Pairs : Status(q)' = Status(q) BY <1>1 DEF vars, Status
  <2>3. \A t \in Tx : Swept(t) \subseteq Pairs BY Operands
  <2> QED BY <1>1, <2>1, <2>2, <2>3 DEF vars, SweepInv, Thorough
<1>2. CASE Next
  <2>1. PICK t \in Tx : Takes(t) BY <1>2 DEF Next, Takes
  <2>2. Overlook BY <1>2 DEF Next
  <2>3. \A s \in Tx : Thorough(s)' BY <2>1, <2>2, OwnSweep, OtherSweep DEF SweepInv
  <2>4. db' = db \/ Does(t, db, db', missed[t]) BY <2>1, Effects DEF SweepInv
  <2> QED BY <2>3, <2>4 DEF SweepInv
<1> QED BY <1>1, <1>2

LEMMA AlwaysThorough == Spec => [](Inv /\ SweepInv)
<1>1. Init => SweepInv BY DEF Init, SweepInv, Thorough, Idle
<1>2. Inv /\ SweepInv /\ [Next]_vars => Inv' /\ SweepInv' BY StepHolds, SweepHolds
<1> QED BY <1>1, <1>2, InitHolds, PTL DEF Spec
-----------------------------------------------------------------------------
\* What is stored, locked and written has its type, for any number of sessions.
THEOREM Typing == Spec => []TypeOK
<1>1. Inv => TypeOK BY DEF Inv
<1> QED BY <1>1, Inductive, PTL

\* No two transactions hold conflicting locks on a row.
THEOREM LocksExclude == Spec => []Exclusive
<1>1. Inv => Exclusive BY DEF Inv
<1> QED BY <1>1, Inductive, PTL

\* The committed rows of items, matches and wants agree at all times, in however
\* many statements and sessions they are written.
THEOREM TablesAgree == Spec => []CommittedAgree
<1>1. Inv => CommittedAgree
  <2> SUFFICES ASSUME Agree(db) PROVE CommittedAgree BY DEF Inv
  <2>1. ASSUME NEW i \in Items, NEW s \in {<<"reserved", "accepted">>, <<"exchanged", "completed">>}
        PROVE  db[I(i)] = s[1] <=> \E p \in Pairs : Status(p) = s[2] /\ i \in ItemsOf(p)
    BY <2>1 DEF Agree, Status
  <2>2. ASSUME NEW p \in Pairs
        PROVE  /\ Status(p) \in {"accepted", "completed"} => db[M(p)].accepted = Side
               /\ Status(p) = "completed" <=> db[M(p)].confirmed = Side
               /\ db[M(p)].confirmed # {} => db[M(p)].plan # NoPlan
               /\ Status(p) = "completed" => \A w \in Relies[p] : db[W(w)] # "active"
    BY DEF Agree, Status, Taken
  <2> QED BY <2>1, <2>2 DEF CommittedAgree
<1> QED BY <1>1, Inductive, PTL

\* Whatever a transaction commits is what its operation does, alone, to the tables
\* as they were committed just before, to the last row: which items, wants and
\* matches change, and from which values to which.  With one exception, which the
\* row locks leave open: of the matches that a withdrawal, the cancellation of a want
\* or a completion calls off, those are left out that a pass has committed between
\* its sweep and its commit.
THEOREM CommitsAreAtomic == Spec => CommitsAlone
<1>1. Inv /\ SweepInv /\ [Next]_vars => [db' = db \/ \E t \in Tx : Does(t, db, db', missed[t])]_vars
  BY SweepHolds
<1> QED BY <1>1, AlwaysThorough, PTL DEF Spec, CommitsAlone

\* An acceptance or a plan, once committed, is never overwritten, and a confirmation
\* is taken back by the proposal of another plan only.
THEOREM NothingIsOverwritten == Spec => NoLostUpdate
<1> DEFINE Kept(p, m, n) ==
             /\ m.accepted \subseteq n.accepted
             /\ n.plan = m.plan => m.confirmed \subseteq n.confirmed
             /\ n.plan # m.plan =>
                  /\ n.confirmed = {}
                  /\ \E t \in Tx : /\ txn[t].op = "exchange" /\ txn[t].on = M(p)
                                   /\ txn[t].arg = n.plan
<1>1. ASSUME Inv, NEW t \in Tx, Does(t, db, db', missed[t]), NEW q \in Pairs
      PROVE  Kept(q, db[M(q)], db'[M(q)])
  <2> DEFINE m == db[M(q)]
             n == db'[M(q)]
  <2>0. m \in MatchRows /\ Agree(db) BY <1>1, Types DEF Inv
  <2>1. CASE n = m BY <2>1
  <2>2. CASE m.status = "none" /\ n = Fresh BY <2>0, <2>2 DEF Agree, Fresh
  <2>3. ASSUME NEW S, NEW own, CallsOff(db, db', S, own), q \notin own
        PROVE  n = m \/ n = [m EXCEPT !.status = "cancelled"]
    BY <2>3 DEF CallsOff
  <2>4. CASE n = [m EXCEPT !.status = "cancelled"] BY <2>0, <2>4 DEF MatchRows
  <2>5. ASSUME NEW p \in Pairs, p # q,
               \/ Accepts(db, db', p, txn[t].arg) \/ Declines(db, db', p) \/ Revokes(db, db', p)
               \/ SetsPlan(db, db', p, txn[t].arg) \/ Confirms(db, db', p, txn[t].arg, missed[t])
        PROVE  n = m \/ n = [m EXCEPT !.status = "cancelled"]
    BY <2>3, <2>5 DEF Accepts, Declines, Revokes, Cancels, SetsPlan, Confirms, OneRow
  <2>6. CASE Accepts(db, db', q, txn[t].arg) \/ Declines(db, db', q) \/ Revokes(db, db', q)
    BY <2>0, <2>6 DEF Accepts, Declines, Revokes, Cancels, OneRow, MatchRows
  <2>7. CASE Confirms(db, db', q, txn[t].arg, missed[t])
    BY <2>0, <2>7 DEF Confirms, OneRow, MatchRows
  <2>8. CASE SetsPlan(db, db', q, txn[t].arg) /\ txn[t].op = "exchange" /\ txn[t].on = M(q)
    <3>1. n = Planned(m, txn[t].arg) BY <2>8 DEF SetsPlan, OneRow
    <3>2. /\ n.plan = txn[t].arg /\ n.accepted = m.accepted
          /\ n.confirmed = IF m.plan = txn[t].arg THEN m.confirmed ELSE {}
      BY <2>0, <3>1 DEF Planned, MatchRows
    <3> QED BY <2>8, <3>2
  <2>9. \/ txn[t].op = "pass" /\ Inserts(db, db')
        \/ \E i \in Items : Withdraws(db, db', i, missed[t])
        \/ \E w \in Wants : Unwants(db, db', w, missed[t])
        \/ \E p \in Pairs :
             \/ Accepts(db, db', p, txn[t].arg) \/ Declines(db, db', p) \/ Revokes(db, db', p)
             \/ Confirms(db, db', p, txn[t].arg, missed[t])
             \/ SetsPlan(db, db', p, txn[t].arg) /\ txn[t].op = "exchange" /\ txn[t].on = M(p)
    BY <1>1 DEF Does
  <2>10. CASE Inserts(db, db') BY <2>1, <2>2, <2>10 DEF Inserts, Proposes
  <2>11. ASSUME NEW i \in Items, Withdraws(db, db', i, missed[t])
         PROVE  n = m \/ n = [m EXCEPT !.status = "cancelled"]
    BY <2>3, <2>11 DEF Withdraws
  <2>12. ASSUME NEW w \in Wants, Unwants(db, db', w, missed[t])
         PROVE  n = m \/ n = [m EXCEPT !.status = "cancelled"]
    BY <2>3, <2>12 DEF Unwants
  <2> HIDE DEF Kept, m, n
  <2> QED BY <2>1, <2>4, <2>5, <2>6, <2>7, <2>8, <2>9, <2>10, <2>11, <2>12 DEF m, n
<1>2. ASSUME Inv, NEW q \in Pairs, db' = db PROVE Kept(q, db[M(q)], db'[M(q)])
  BY <1>2
<1>3. Inv /\ SweepInv /\ [Next]_vars => [\A p \in Pairs : Kept(p, db[M(p)], db'[M(p)])]_vars
  <2> HIDE DEF Kept
  <2> QED BY <1>1, <1>2, SweepHolds
<1>4. Inv /\ SweepInv /\ [Next]_vars =>
        [\A p \in Pairs :
           LET m == db[M(p)]
               n == db'[M(p)]
           IN  /\ m.accepted \subseteq n.accepted
               /\ n.plan = m.plan => m.confirmed \subseteq n.confirmed
               /\ n.plan # m.plan =>
                    /\ n.confirmed = {}
                    /\ \E t \in Tx : /\ txn[t].op = "exchange" /\ txn[t].on = M(p)
                                     /\ txn[t].arg = n.plan]_vars
  BY <1>3
<1> QED BY <1>4, AlwaysThorough, PTL DEF Spec, NoLostUpdate
-----------------------------------------------------------------------------
(* Barter, implemented by the committed tables.                            *)

\* Its stages and retired items, for the rows f.
StageOf(f) == [p \in Pairs |-> Stage(f[M(p)].status)]
RetiredOf(f) == {i \in Items : f[I(i)] = "withdrawn"}

LEMMA StageIs ==
  ASSUME NEW f, RowsOK(f), DOMAIN f = Rows
  PROVE  \A p \in Pairs :
           /\ f[M(p)] \in MatchRows
           /\ StageOf(f)[p] = Stage(f[M(p)].status)
           /\ StageOf(f)[p] = "none" <=> f[M(p)].status = "none"
           /\ StageOf(f)[p] = "proposed" <=> f[M(p)].status = "pending"
           /\ StageOf(f)[p] = "agreed" <=> f[M(p)].status = "accepted"
           /\ StageOf(f)[p] = "done" <=> f[M(p)].status = "completed"
           /\ StageOf(f)[p] = "off" <=> f[M(p)].status \in {"declined", "cancelled"}
<1> SUFFICES ASSUME NEW p \in Pairs
             PROVE  /\ f[M(p)] \in MatchRows
                    /\ StageOf(f)[p] = Stage(f[M(p)].status)
                    /\ StageOf(f)[p] = "none" <=> f[M(p)].status = "none"
                    /\ StageOf(f)[p] = "proposed" <=> f[M(p)].status = "pending"
                    /\ StageOf(f)[p] = "agreed" <=> f[M(p)].status = "accepted"
                    /\ StageOf(f)[p] = "done" <=> f[M(p)].status = "completed"
                    /\ StageOf(f)[p] = "off" <=> f[M(p)].status \in {"declined", "cancelled"}
  OBVIOUS
<1>1. f[M(p)] \in MatchRows BY InRows DEF RowsOK
<1>2. f[M(p)].status \in MatchStatuses BY <1>1 DEF MatchRows
<1>3. StageOf(f)[p] = Stage(f[M(p)].status) BY DEF StageOf
<1> QED BY <1>1, <1>2, <1>3 DEF MatchStatuses, Stage

Full(f) == RowsOK(f) /\ DOMAIN f = Rows

\* From the stages a to b, matches of S only fall away, as proposals.
FallAway(a, b, S) ==
  \E off \in SUBSET {q \in S : a[q] = "proposed"} :
    \A q \in S : b[q] = IF q \in off THEN "off" ELSE a[q]

\* Loose matches stay at their stages, or are proposals that are called off.
LEMMA LooseStage ==
  ASSUME NEW f, NEW g, Full(f), Full(g), NEW S \in SUBSET Pairs,
         \A q \in S : Loose(f[M(q)], g[M(q)])
  PROVE  FallAway(StageOf(f), StageOf(g), S)
<1> DEFINE off == {q \in S : StageOf(f)[q] = "proposed" /\ StageOf(g)[q] = "off"}
<1>1. ASSUME NEW q \in S PROVE StageOf(g)[q] = StageOf(f)[q] \/ q \in off
  <2>0. /\ f[M(q)].status = "pending" => StageOf(f)[q] = "proposed"
        /\ g[M(q)].status \in {"declined", "cancelled"} => StageOf(g)[q] = "off"
    BY StageIs DEF Full
  <2>1. g[M(q)].status = f[M(q)].status \/ (StageOf(f)[q] = "proposed" /\ StageOf(g)[q] = "off")
    BY <2>0 DEF Loose
  <2>2. StageOf(f)[q] = Stage(f[M(q)].status) /\ StageOf(g)[q] = Stage(g[M(q)].status)
    BY StageIs DEF Full
  <2> QED BY <2>1, <2>2
<1>2. off \in SUBSET {q \in S : StageOf(f)[q] = "proposed"} OBVIOUS
<1> QED BY <1>1, <1>2 DEF FallAway

\* An available item is free to be promised.
LEMMA FreeItems ==
  ASSUME NEW f, Full(f), Agree(f), NEW i \in Items, f[I(i)] = "available"
  PROVE  /\ i \notin RetiredOf(f)
         /\ \A q \in Pairs : StageOf(f)[q] \in {"agreed", "done"} => i \notin ItemsOf(q)
<1>1. i \notin RetiredOf(f) BY DEF RetiredOf
<1>2. ASSUME NEW q \in Pairs, StageOf(f)[q] \in {"agreed", "done"}, i \in ItemsOf(q) PROVE FALSE
  <2>1. f[M(q)].status \in {"accepted", "completed"} BY <1>2, StageIs DEF Full
  <2> QED BY <1>2, <2>1 DEF Agree
<1> QED BY <1>1, <1>2

\* Barter's variables are those functions of the committed rows.
LEMMA BarterSteps ==
  ASSUME NEW a, NEW b, a = StageOf(db), b = StageOf(db'),
         NEW x, NEW y, x = RetiredOf(db), y = RetiredOf(db')
  PROVE  /\ \A new \in SUBSET {q \in Pairs : a[q] = "none"} :
              /\ \A p \in new : ItemsOf(p) \subseteq Items
              /\ b = [q \in Pairs |-> IF q \in new THEN "proposed" ELSE a[q]]
              /\ y = x
              => Promise!Propose
         /\ \A off \in SUBSET {q \in Pairs : a[q] = "proposed"} :
              /\ b = [q \in Pairs |-> IF q \in off THEN "off" ELSE a[q]]
              /\ y = x
              => Promise!CallOff
         /\ \A i \in Items : \A off \in SUBSET {q \in Pairs : a[q] = "proposed"} :
              /\ b = [q \in Pairs |-> IF q \in off THEN "off" ELSE a[q]]
              /\ i \notin x /\ y = x \cup {i}
              /\ \A q \in Pairs : a[q] \in {"agreed", "done"} => i \notin ItemsOf(q)
              => Promise!Retire(i)
         /\ \A p \in Pairs : \A off \in SUBSET {q \in Pairs \ {p} : a[q] = "proposed"} :
              /\ a[p] = "proposed"
              /\ b = [q \in Pairs |-> IF q = p THEN "agreed" ELSE IF q \in off THEN "off" ELSE a[q]]
              /\ y = x
              /\ \A i \in ItemsOf(p) : /\ i \notin x
                                       /\ \A q \in Pairs : a[q] \in {"agreed", "done"} => i \notin ItemsOf(q)
              => Promise!Agree(p)
         /\ \A p \in Pairs :
              /\ a[p] = "agreed"
              /\ b = [q \in Pairs |-> IF q = p THEN "off" ELSE a[q]]
              /\ y = x
              => Promise!CallOff
         /\ \A p \in Pairs : \A off \in SUBSET {q \in Pairs \ {p} : a[q] = "proposed"} :
              /\ a[p] = "agreed"
              /\ b = [q \in Pairs |-> IF q = p THEN "done" ELSE IF q \in off THEN "off" ELSE a[q]]
              /\ y = x
              => Promise!CarryOut(p)
<1>0. ASSUME NEW off \in SUBSET Pairs, NEW to
      PROVE  Promise!Advance(off, to) = [q \in Pairs |-> IF q \in off THEN to ELSE a[q]]
  BY DEF Promise!Advance, StageOf, Status
<1>1. ASSUME NEW T PROVE Promise!At(T) = {q \in Pairs : a[q] \in T}
  BY DEF Promise!At, StageOf, Status
<1>2. ASSUME NEW i PROVE Promise!Taken(i) <=> \E q \in Pairs : a[q] \in {"agreed", "done"} /\ i \in ItemsOf(q)
  BY <1>1 DEF Promise!Taken, Promise!ItemsOf, ItemsOf
<1>3. /\ [q \in Pairs |-> Stage(Status(q))] = a /\ [q \in Pairs |-> Stage(Status(q))]' = b
      /\ {i \in Items : db[I(i)] = "withdrawn"} = x /\ {i \in Items : db[I(i)] = "withdrawn"}' = y
  BY DEF StageOf, RetiredOf, Status
<1>4. ASSUME NEW new \in SUBSET {q \in Pairs : a[q] = "none"},
             \A p \in new : ItemsOf(p) \subseteq Items,
             b = [q \in Pairs |-> IF q \in new THEN "proposed" ELSE a[q]], y = x
      PROVE  Promise!Propose
  <2>1. b = Promise!Advance(new, "proposed") BY <1>0, <1>4
  <2>2. new \in SUBSET Promise!At({"none"}) BY <1>1
  <2>3. \A p \in new : Promise!ItemsOf(p) \subseteq Items BY <1>4 DEF Promise!ItemsOf, ItemsOf
  <2> QED BY <1>3, <1>4, <2>1, <2>2, <2>3 DEF Promise!Propose
<1>5. ASSUME NEW off \in SUBSET {q \in Pairs : a[q] = "proposed"},
             b = [q \in Pairs |-> IF q \in off THEN "off" ELSE a[q]]
      PROVE  /\ y = x => Promise!CallOff
             /\ \A i \in Items :
                  /\ i \notin x /\ y = x \cup {i}
                  /\ \A q \in Pairs : a[q] \in {"agreed", "done"} => i \notin ItemsOf(q)
                  => Promise!Retire(i)
  <2>1. b = Promise!Advance(off, "off") BY <1>0, <1>5
  <2>2. off \in SUBSET Promise!At({"proposed"}) BY <1>1
  <2>3. y = x => Promise!CallOff BY <1>3, <2>1, <2>2 DEF Promise!CallOff
  <2>4. ASSUME NEW i \in Items, i \notin x, y = x \cup {i},
               \A q \in Pairs : a[q] \in {"agreed", "done"} => i \notin ItemsOf(q)
        PROVE  Promise!Retire(i)
    <3>1. ~Promise!Taken(i) BY <1>2, <2>4
    <3>2. i \in Items \ x BY <2>4
    <3> QED BY <1>3, <2>1, <2>2, <2>4, <3>1, <3>2 DEF Promise!Retire
  <2> QED BY <2>3, <2>4
<1>6. ASSUME NEW p \in Pairs, NEW off \in SUBSET {q \in Pairs \ {p} : a[q] = "proposed"}, y = x,
             NEW from, NEW to, a[p] = from,
             b = [q \in Pairs |-> IF q = p THEN to ELSE IF q \in off THEN "off" ELSE a[q]]
      PROVE  /\ off \in SUBSET (Promise!At({"proposed"}) \ {p})
             /\ b = [Promise!Advance(off, "off") EXCEPT ![p] = to]
  BY <1>0, <1>1, <1>6
<1>7. ASSUME NEW p \in Pairs, NEW off \in SUBSET {q \in Pairs \ {p} : a[q] = "proposed"}, y = x,
             a[p] = "proposed",
             b = [q \in Pairs |-> IF q = p THEN "agreed" ELSE IF q \in off THEN "off" ELSE a[q]],
             \A i \in ItemsOf(p) : /\ i \notin x
                                   /\ \A q \in Pairs : a[q] \in {"agreed", "done"} => i \notin ItemsOf(q)
      PROVE  Promise!Agree(p)
  <2>1. /\ off \in SUBSET (Promise!At({"proposed"}) \ {p})
        /\ b = [Promise!Advance(off, "off") EXCEPT ![p] = "agreed"]
    BY <1>6, <1>7
  <2>2. \A i \in Promise!ItemsOf(p) : i \notin x /\ ~Promise!Taken(i)
    BY <1>2, <1>7 DEF Promise!ItemsOf, ItemsOf
  <2> QED BY <1>3, <1>7, <2>1, <2>2 DEF Promise!Agree
<1>8. ASSUME NEW p \in Pairs, NEW off \in SUBSET {q \in Pairs \ {p} : a[q] = "proposed"}, y = x,
             a[p] = "agreed",
             b = [q \in Pairs |-> IF q = p THEN "done" ELSE IF q \in off THEN "off" ELSE a[q]]
      PROVE  Promise!CarryOut(p)
  <2>1. /\ off \in SUBSET Promise!At({"proposed"})
        /\ b = [Promise!Advance(off, "off") EXCEPT ![p] = "done"]
    BY <1>6, <1>8
  <2> QED BY <1>3, <1>8, <2>1 DEF Promise!CarryOut
<1>9. ASSUME NEW p \in Pairs, y = x, a[p] = "agreed",
             b = [q \in Pairs |-> IF q = p THEN "off" ELSE a[q]]
      PROVE  Promise!CallOff
  <2>1. p \in Promise!At({"agreed"}) /\ b = Promise!Advance({p}, "off")
    BY <1>0, <1>1, <1>9
  <2> QED BY <1>3, <1>9, <2>1 DEF Promise!CallOff
<1> QED BY <1>4, <1>5, <1>7, <1>8, <1>9

\* Every atomic change is a step of Barter.
LEMMA LawfulIsPromised ==
  ASSUME Inv, Inv', Lawful(db, db')
  PROVE  Promise!Next
<1>0. PICK f : f = db OBVIOUS
<1>1. PICK g : g = db' OBVIOUS
<1>2. /\ RowsOK(f) /\ DOMAIN f = Rows /\ RowsOK(g) /\ DOMAIN g = Rows
      /\ Full(f) /\ Full(g) /\ Agree(f) /\ Lawful(f, g)
  BY <1>0, <1>1 DEF Inv, TypeOK, Full
<1>3. PICK a, b, x, y : a = StageOf(f) /\ b = StageOf(g) /\ x = RetiredOf(f) /\ y = RetiredOf(g)
  OBVIOUS
<1>4. /\ a = StageOf(db) /\ b = StageOf(db') /\ x = RetiredOf(db) /\ y = RetiredOf(db')
  BY <1>0, <1>1, <1>3
<1>5. b = [q \in Pairs |-> b[q]] BY <1>3 DEF StageOf
<1>6. CASE Proposes(f, g)
  <2> DEFINE new == {q \in Pairs : a[q] = "none" /\ b[q] = "proposed"}
  <2>1. ASSUME NEW q \in Pairs PROVE b[q] = IF q \in new THEN "proposed" ELSE a[q]
    <3>1. CASE g[M(q)] = f[M(q)] BY <3>1, <1>2, <1>3, StageIs
    <3>2. CASE f[M(q)].status = "none" /\ g[M(q)] = Fresh BY <3>2, <1>2, <1>3, StageIs DEF Fresh
    <3> QED BY <1>6, <3>1, <3>2 DEF Proposes
  <2>2. b = [q \in Pairs |-> IF q \in new THEN "proposed" ELSE a[q]] BY <1>5, <2>1
  <2>3. y = x BY <1>3, <1>6 DEF Proposes, ItemsMove, RetiredOf
  <2>4. \A p \in new : ItemsOf(p) \subseteq Items BY InRows
  <2>5. new \in SUBSET {q \in Pairs : a[q] = "none"} OBVIOUS
  <2> HIDE DEF new
  <2>6. Promise!Propose BY <1>4, <2>2, <2>3, <2>4, <2>5, BarterSteps
  <2> QED BY <2>6 DEF Promise!Next
<1>7. ASSUME NEW S \in SUBSET Pairs, \A q \in S : Loose(f[M(q)], g[M(q)])
      PROVE  FallAway(a, b, S)
  BY <1>2, <1>3, <1>7, LooseStage
<1>8. ASSUME \A q \in Pairs : Loose(f[M(q)], g[M(q)])
      PROVE  \E off \in SUBSET {q \in Pairs : a[q] = "proposed"} :
               b = [q \in Pairs |-> IF q \in off THEN "off" ELSE a[q]]
  <2>1. PICK off \in SUBSET {q \in Pairs : a[q] = "proposed"} :
          \A q \in Pairs : b[q] = IF q \in off THEN "off" ELSE a[q]
    BY <1>7, <1>8 DEF FallAway
  <2>2. b = [q \in Pairs |-> IF q \in off THEN "off" ELSE a[q]] BY <1>5, <2>1
  <2> QED BY <2>2
<1>9. ASSUME NEW p \in Pairs, \A q \in Pairs \ {p} : Loose(f[M(q)], g[M(q)])
      PROVE  \E off \in SUBSET {q \in Pairs \ {p} : a[q] = "proposed"} :
               b = [q \in Pairs |-> IF q = p THEN b[p] ELSE IF q \in off THEN "off" ELSE a[q]]
  <2>1. Pairs \ {p} \in SUBSET Pairs OBVIOUS
  <2>2. PICK off \in SUBSET {q \in Pairs \ {p} : a[q] = "proposed"} :
               \A q \in Pairs \ {p} : b[q] = IF q \in off THEN "off" ELSE a[q]
    BY <1>7, <1>9, <2>1 DEF FallAway
  <2>3. b = [q \in Pairs |-> IF q = p THEN b[p] ELSE IF q \in off THEN "off" ELSE a[q]]
    BY <1>5, <2>2
  <2> QED BY <2>3
<1>10. CASE LetsGo(f, g)
  <2>1. y = x BY <1>3, <1>10 DEF LetsGo, ItemsMove, RetiredOf
  <2>2. Promise!CallOff BY <1>4, <1>8, <1>10, <2>1, BarterSteps DEF LetsGo
  <2> QED BY <2>2 DEF Promise!Next
<1>11. ASSUME NEW i \in Items, Retires(f, g, i) PROVE Promise!Next
  <2>1. PICK off \in SUBSET {q \in Pairs : a[q] = "proposed"} :
          b = [q \in Pairs |-> IF q \in off THEN "off" ELSE a[q]]
    BY <1>8, <1>11 DEF Retires
  <2>2. f[I(i)] = "available" BY <1>11 DEF Retires, ItemsMove
  <2>3. /\ i \notin x
        /\ \A q \in Pairs : a[q] \in {"agreed", "done"} => i \notin ItemsOf(q)
    BY <1>2, <1>3, <2>2, FreeItems
  <2>4. y = x \cup {i} BY <1>3, <1>11 DEF Retires, ItemsMove, RetiredOf
  <2>5. Promise!Retire(i)
    <3>1. i \in Items /\ i \notin x /\ y = x \cup {i} BY <1>11, <2>3, <2>4
    <3>2. \A q \in Pairs : a[q] \in {"agreed", "done"} => i \notin ItemsOf(q) BY <2>3
    <3> QED BY <1>4, <2>1, <3>1, <3>2, BarterSteps
  <2> QED BY <2>5 DEF Promise!Next
<1>12. ASSUME NEW p \in Pairs, Agrees(f, g, p) PROVE Promise!Next
  <2>1. a[p] = "proposed" /\ b[p] = "agreed" BY <1>2, <1>3, <1>12, StageIs DEF Agrees
  <2>2. PICK off \in SUBSET {q \in Pairs \ {p} : a[q] = "proposed"} :
          b = [q \in Pairs |-> IF q = p THEN "agreed" ELSE IF q \in off THEN "off" ELSE a[q]]
    BY <1>9, <1>12, <2>1 DEF Agrees
  <2>3. ASSUME NEW i \in ItemsOf(p)
        PROVE  i \notin x /\ \A q \in Pairs : a[q] \in {"agreed", "done"} => i \notin ItemsOf(q)
    <3>1. i \in Items BY InRows
    <3>2. f[I(i)] = "available" BY <1>12, <3>1 DEF Agrees, ItemsMove
    <3> QED BY <1>2, <1>3, <3>1, <3>2, FreeItems
  <2>4. y = x BY <1>3, <1>12 DEF Agrees, ItemsMove, RetiredOf
  <2>5. Promise!Agree(p) BY <1>4, <2>1, <2>2, <2>3, <2>4, BarterSteps
  <2> QED BY <2>5 DEF Promise!Next
<1>13. ASSUME NEW p \in Pairs, Cancels(f, g, p) PROVE Promise!Next
  <2>1. \A q \in Pairs \ {p} : b[q] = a[q] BY <1>3, <1>13 DEF Cancels, StageOf
  <2>2. a[p] = "agreed" /\ b[p] = "off"
    <3>1. f[M(p)] \in MatchRows BY <1>2, StageIs
    <3>2. f[M(p)].status = "accepted" /\ g[M(p)].status = "cancelled"
      BY <1>13, <3>1 DEF Cancels, MatchRows
    <3> QED BY <1>2, <1>3, <3>2, StageIs
  <2>3. b = [q \in Pairs |-> IF q = p THEN "off" ELSE a[q]] BY <1>5, <2>1, <2>2
  <2>4. y = x BY <1>3, <1>13 DEF Cancels, ItemsMove, RetiredOf
  <2>5. Promise!CallOff BY <1>4, <2>2, <2>3, <2>4, BarterSteps
  <2> QED BY <2>5 DEF Promise!Next
<1>14. ASSUME NEW p \in Pairs, Completes(f, g, p) PROVE Promise!Next
  <2>1. a[p] = "agreed" /\ b[p] = "done" BY <1>2, <1>3, <1>14, StageIs DEF Completes
  <2>2. PICK off \in SUBSET {q \in Pairs \ {p} : a[q] = "proposed"} :
          b = [q \in Pairs |-> IF q = p THEN "done" ELSE IF q \in off THEN "off" ELSE a[q]]
    BY <1>9, <1>14, <2>1 DEF Completes
  <2>3. y = x BY <1>3, <1>14 DEF Completes, ItemsMove, RetiredOf
  <2>4. Promise!CarryOut(p) BY <1>4, <2>1, <2>2, <2>3, BarterSteps
  <2> QED BY <2>4 DEF Promise!Next
<1> QED BY <1>2, <1>6, <1>10, <1>11, <1>12, <1>13, <1>14 DEF Lawful

\* Under row locks the transactions implement Barter, as the atomic steps of
\* Exchange do: no interleaving of their statements breaks a promise.
THEOREM Refinement == Spec => KeepsPromises
<1>1. Init => Promise!Init
  <2> SUFFICES ASSUME Init PROVE Promise!Init OBVIOUS
  <2>1. \A i \in Items : db[I(i)] = "available" BY InRows, Ids DEF Init, I
  <2>2. \A p \in Pairs : db[M(p)].status = "none"
    <3>1. \A p \in Pairs : db[M(p)] = [Fresh EXCEPT !.status = "none"] BY InRows DEF Init, M
    <3> QED BY <3>1 DEF Fresh
  <2>3. [p \in Pairs |-> Stage(Status(p))] = [p \in Pairs |-> "none"] BY <2>2 DEF Status, Stage
  <2>4. {i \in Items : db[I(i)] = "withdrawn"} = {} BY <2>1
  <2> QED BY <2>3, <2>4 DEF Promise!Init
<1>2. Inv /\ Inv' /\ [Next]_vars => [UNCHANGED db \/ Promise!Next]_vars
  BY StepHolds, LawfulIsPromised
<1> QED BY <1>1, <1>2, Inductive, PTL DEF Spec, KeepsPromises
=============================================================================
