----------------------------- MODULE ExchangeTx -----------------------------
(***************************************************************************)
(* The transactions of Exchange, statement by statement, as PostgreSQL     *)
(* runs them under READ COMMITTED.                                         *)
(*                                                                         *)
(* A statement picks its rows from what is committed when it starts, then  *)
(* locks them one after the other, waiting for whoever holds a conflicting *)
(* lock, and looks at the newest version of each row once it has the lock. *)
(* Locks and writes are kept until the transaction ends; nobody else sees  *)
(* the writes before it commits.  A transaction that waits in a circle is  *)
(* aborted by the server, and one may fail for other reasons at any time.  *)
(*                                                                         *)
(* Only what the locks protect is here: statuses, and the plan and the     *)
(* two-sided acceptances and confirmations of a match.  Notifications are  *)
(* rows of their own, which no transaction here reads.                     *)
(***************************************************************************)
EXTENDS Naturals, FiniteSets

CONSTANTS
  Items,       \* item ids, in the order of ORDER BY id
  Pairs,       \* the pairs of items that can be matched
  Wants,
  Relies,      \* [Pairs -> SUBSET Wants]: the wants a pair is matched for
  Side,        \* the two users of a match
  Plans, NoPlan,   \* method and details of an exchange
  Tx,          \* database sessions that run transactions
  NoRow,
  Operations   \* bound: the kinds of transaction that are run

ASSUME TxAssumption ==
  /\ Items \subseteq Nat
  /\ Pairs \subseteq {p \in Items \X Items : p[1] < p[2]}
  /\ Relies \in [Pairs -> SUBSET Wants]
  /\ Side # {} /\ NoPlan \notin Plans
  /\ Operations \subseteq
       {"accept", "decline", "cancel", "exchange", "complete", "withdraw", "unwant", "pass"}

VARIABLES
  db,      \* the committed rows
  mine,    \* [Tx -> function]: the rows a transaction has written, unseen by others
  held,    \* [Tx -> set of <<row, mode>>]: its row locks
  txn,     \* [Tx -> record]: its operation and what it is given, the statement it is
           \* at, the rows still to lock
  missed   \* history, [Tx -> SUBSET Pairs]: the matches that a pass has committed
           \* since a transaction's sweep looked for its rows

vars == <<db, mine, held, txn, missed>>

\* Rows of the three tables.
I(i) == <<"item", i>>
M(p) == <<"match", p>>
W(w) == <<"want", w>>
Rows == {I(i) : i \in Items} \cup {M(p) : p \in Pairs} \cup {W(w) : w \in Wants}

\* FOR UPDATE, the FOR NO KEY UPDATE of a plain UPDATE, and the FOR KEY SHARE
\* that an insert takes on the rows it refers to.
Conflicts(a, b) == "update" \in {a, b} \/ (a = "nokey" /\ b = "nokey")

View(t, r) == IF r \in DOMAIN mine[t] THEN mine[t][r] ELSE db[r]
Holders(t, r, mode) ==
  {s \in Tx \ {t} : \E h \in held[s] : h[1] = r /\ Conflicts(h[2], mode)}

ItemsOf(p) == {p[1], p[2]}
Fresh == [status |-> "pending", accepted |-> {}, plan |-> NoPlan, confirmed |-> {}]
Idle == [op |-> "none", on |-> NoRow, arg |-> NoRow, at |-> "idle", todo |-> {}]
-----------------------------------------------------------------------------
(* What each statement does for the operation of t: the rows that its WHERE *)
(* finds, the lock it takes, and the new value of a row that still matches. *)

Of(t) == txn[t].on[2]       \* the pair, item or want operated on

\* Status the items move from and to.
From(op) == IF op = "withdraw" THEN "available" ELSE "reserved"
To(op) == CASE op = "withdraw" -> "withdrawn"
            [] op = "cancel"   -> "available"
            [] op = "complete" -> "exchanged"

\* Mutant: only the first item of the match is taken.
MyFirstItem(t) == IF txn[t].op = "withdraw" THEN {Of(t)} ELSE {Of(t)[1]}
MyItems(t) == IF txn[t].op = "withdraw" THEN {Of(t)} ELSE ItemsOf(Of(t))
MyWants(t) == IF txn[t].op = "unwant" THEN {Of(t)} ELSE Relies[Of(t)]

\* The WHERE conditions of CancelPendingMatches.
Swept(t) ==
  {p \in Pairs :
     CASE txn[t].op = "withdraw" -> Of(t) \in ItemsOf(p)
       [] txn[t].op = "unwant"   -> Of(t) \in Relies[p]
       [] txn[t].op = "accept"   -> p # Of(t) /\ ItemsOf(p) \cap ItemsOf(Of(t)) # {}
       [] txn[t].op = "complete" -> p # Of(t) /\ Relies[p] \cap Relies[Of(t)] # {}}

Matches(t, at, r) ==
  CASE at = "move"  -> View(t, r) = From(txn[t].op)
    [] at = "want"  -> View(t, r) = "active"
    [] at = "sweep" -> View(t, r).status = "pending"
    [] OTHER        -> TRUE

Found(t, at) ==
  {r \in CASE at \in {"items", "move"} -> {I(i) : i \in MyItems(t)}
           [] at = "want"  -> {W(w) : w \in MyWants(t)}
           [] at = "sweep" -> {M(p) : p \in Swept(t)}
     : Matches(t, at, r)}

\* Mutants: no FOR UPDATE on the match, or none on the items.
ModeMatchUnlocked(at) == CASE at = "items" -> "update"
                           [] at \in {"move", "want", "sweep"} -> "nokey"
                           [] at \in {"match", "insert"} -> "keyshare"
ModeItemsUnlocked(at) == CASE at = "match" -> "update"
                           [] at \in {"move", "want", "sweep"} -> "nokey"
                           [] at \in {"items", "insert"} -> "keyshare"
Mode(at) == CASE at \in {"match", "items"} -> "update"
              [] at \in {"move", "want", "sweep"} -> "nokey"
              [] at = "insert" -> "keyshare"

NewValue(t, at, r) ==
  CASE at = "move"  -> To(txn[t].op)
    [] at = "want"  -> IF txn[t].op = "unwant" THEN "cancelled" ELSE "fulfilled"
    [] at = "sweep" -> [View(t, r) EXCEPT !.status = "cancelled"]

\* The rows it may lock next: SELECT ... ORDER BY id takes them by their ids, a
\* plan may give the rows of an UPDATE in any order, and the references of new
\* rows are taken in any order here.
Upcoming(t) ==
  {r \in txn[t].todo : txn[t].at = "items" => \A s \in txn[t].todo : r[2] <= s[2]}

Writes(at) == at \in {"move", "want", "sweep"}

GoTo(t, at) == txn' = [txn EXCEPT ![t].at = at, ![t].todo = Found(t, at)]

Write(t, new) ==
  mine' = [mine EXCEPT ![t] = [r \in DOMAIN mine[t] \cup DOMAIN new |->
                                 IF r \in DOMAIN new THEN new[r] ELSE mine[t][r]]]

End(t) ==
  /\ mine' = [mine EXCEPT ![t] = <<>>]
  /\ held' = [held EXCEPT ![t] = {}]
  /\ txn'  = [txn EXCEPT ![t] = Idle]

Rollback(t) == End(t) /\ UNCHANGED db
Commit(t) == db' = [r \in Rows |-> View(t, r)] /\ End(t)
-----------------------------------------------------------------------------
Init ==
  /\ db = [r \in Rows |->
             CASE r[1] = "item"  -> "available"
               [] r[1] = "want"  -> "active"
               [] r[1] = "match" -> [Fresh EXCEPT !.status = "none"]]
  /\ mine = [t \in Tx |-> <<>>]
  /\ held = [t \in Tx |-> {}]
  /\ txn = [t \in Tx |-> Idle]
  /\ missed = [t \in Tx |-> {}]

Start(t, op, r, k, at, todo) ==
  /\ op \in Operations
  /\ txn[t].op = "none"
  /\ txn' = [txn EXCEPT ![t] = [op |-> op, on |-> r, arg |-> k, at |-> at, todo |-> todo]]
  /\ UNCHANGED <<db, held>>

\* What an operation on a match is given: the side it is for, or the new plan.
Given(op) == CASE op \in {"accept", "complete"} -> Side
               [] op = "exchange"              -> Plans
               [] op \in {"decline", "cancel"} -> {NoRow}

\* matches.Service: mutate locks the match first.
StartMatch(t, op, p, k) ==
  /\ k \in Given(op)
  /\ db[M(p)].status # "none"
  /\ Start(t, op, M(p), k, "match", {M(p)})
  /\ UNCHANGED mine

\* items.Repository.Withdraw and wants.Repository.Cancel: their first UPDATE.
StartWithdraw(t, i) ==
  /\ Start(t, "withdraw", I(i), NoRow, "move", {r \in {I(i)} : db[r] = "available"})
  /\ UNCHANGED mine
StartUnwant(t, w) ==
  /\ Start(t, "unwant", W(w), NoRow, "want", {r \in {W(w)} : db[r] = "active"})
  /\ UNCHANGED mine

\* The matching statement: its snapshot settles which matches it inserts, and
\* the references of each new row are locked as it is checked.
StartPass(t) ==
  LET new == {p \in Pairs :
                /\ db[M(p)].status = "none"
                /\ \A i \in ItemsOf(p) : db[I(i)] = "available"
                /\ \A w \in Relies[p] : db[W(w)] = "active"}
  IN  /\ new # {} /\ \A s \in Tx : txn[s].op # "pass"
      /\ Start(t, "pass", NoRow, NoRow, "insert", {I(i) : i \in UNION {ItemsOf(p) : p \in new}})
      /\ mine' = [mine EXCEPT ![t] = [r \in {M(p) : p \in new} |-> Fresh]]

\* The next row: lock it as soon as nobody is in the way, look at it again, and
\* let an UPDATE write it if it still matches.
LockRow(t) ==
  \E r \in Upcoming(t) :
    LET at == txn[t].at
    IN  /\ Holders(t, r, Mode(at)) = {}
        /\ held' = [held EXCEPT ![t] = @ \cup {<<r, Mode(at)>>}]
        /\ IF Writes(at) /\ Matches(t, at, r)
             THEN Write(t, [x \in {r} |-> NewValue(t, at, r)])
             ELSE UNCHANGED mine
        /\ txn' = [txn EXCEPT ![t].todo = @ \ {r}]
        /\ UNCHANGED db
-----------------------------------------------------------------------------
(* What follows each statement, once all its rows are locked.              *)

Finished(t, at) == txn[t].at = at /\ txn[t].todo = {}

\* SetExchange: another plan takes the confirmations of the old one with it.
Planned(m, plan) ==
  [m EXCEPT !.plan = plan, !.confirmed = IF m.plan = plan THEN @ ELSE {}]

AfterMatch(t) ==
  /\ Finished(t, "match")
  /\ LET r == txn[t].on
         k == {txn[t].arg}
         m == View(t, r)
         save(v, at) == Write(t, [x \in {r} |-> v]) /\ GoTo(t, at) /\ UNCHANGED <<db, held>>
         commit(v) == db' = [db EXCEPT ![r] = v] /\ End(t)
     IN  CASE txn[t].op = "accept" /\ m.status = "pending" ->
                LET v == [m EXCEPT !.accepted = @ \cup k]
                IN  IF v.accepted = Side /\ v # m THEN save(v, "items") ELSE commit(v)
           [] txn[t].op = "decline" /\ m.status = "pending" ->
                commit([m EXCEPT !.status = "declined"])
           [] txn[t].op = "cancel" /\ m.status = "accepted" ->
                save([m EXCEPT !.status = "cancelled"], "move")
           [] txn[t].op = "exchange" /\ m.status = "accepted" ->
                commit(Planned(m, txn[t].arg))
           [] txn[t].op = "complete" /\ m.status = "accepted" /\ m.plan # NoPlan ->
                LET v == [m EXCEPT !.confirmed = @ \cup k]
                IN  IF v.confirmed = Side THEN save([v EXCEPT !.status = "completed"], "move")
                                          ELSE commit(v)
           [] OTHER -> Rollback(t)

\* lockAvailableItems has both rows: reserve them, or close the match.
AfterItems(t) ==
  /\ Finished(t, "items")
  /\ LET r == txn[t].on
         m == View(t, r)
         both == {I(i) : i \in MyItems(t)}
     IN  IF \A i \in both : View(t, i) = "available"
           THEN /\ Write(t, [x \in both \cup {r} |->
                              IF x = r THEN [m EXCEPT !.status = "accepted"] ELSE "reserved"])
                /\ GoTo(t, "sweep")
                /\ UNCHANGED <<db, held>>
           ELSE db' = [db EXCEPT ![r] = [m EXCEPT !.status = "cancelled"]] /\ End(t)

\* "No rows affected" makes Withdraw and Cancel of a want roll back.
AfterUpdate(t, at, op, next) ==
  /\ Finished(t, at)
  /\ txn[t].op = op
  /\ IF DOMAIN mine[t] = {} THEN Rollback(t)
     ELSE IF next = "commit" THEN Commit(t)
     ELSE GoTo(t, next) /\ UNCHANGED <<db, mine, held>>

AfterMove(t) == \/ AfterUpdate(t, "move", "withdraw", "sweep")
                \/ AfterUpdate(t, "move", "cancel", "commit")
                \/ AfterUpdate(t, "move", "complete", "want")
AfterWant(t) == \/ AfterUpdate(t, "want", "unwant", "sweep")
                \/ AfterUpdate(t, "want", "complete", "sweep")
AfterSweep(t) == \E op \in {"withdraw", "unwant", "accept", "complete"} :
                   AfterUpdate(t, "sweep", op, "commit")

AfterInsert(t) == Finished(t, "insert") /\ Commit(t)
-----------------------------------------------------------------------------
(* Waiting, and what ends it.                                              *)

\* Any of the rows it may lock next can be the one it has come to.
WaitsFor(t) == UNION {Holders(t, r, Mode(txn[t].at)) : r \in Upcoming(t)}

InCircle(t) ==
  WaitsFor(t) # {} /\
  \E n \in 2..Cardinality(Tx) : \E c \in [1..n -> Tx] :
    c[1] = t /\ \A k \in 1..n : c[(k % n) + 1] \in WaitsFor(c[k])

\* The deadlock detector of the session that looks first aborts it.
Deadlock(t) == InCircle(t) /\ Rollback(t)

\* A timeout, a cancelled request, a lost connection, a dying server.
Fail(t) == txn[t].op # "none" /\ Rollback(t)
-----------------------------------------------------------------------------
Begin(t) ==
  /\ txn[t].op = "none"
  /\ \/ \E p \in Pairs, op \in Operations \ {"withdraw", "unwant", "pass"} :
          \E k \in Given(op) : StartMatch(t, op, p, k)
     \/ \E i \in Items : StartWithdraw(t, i)
     \/ \E w \in Wants : StartUnwant(t, w)
     \/ StartPass(t)

\* The statements of t, one after the other.
Work(t) ==
  \/ LockRow(t)
  \/ AfterMatch(t) \/ AfterItems(t) \/ AfterMove(t) \/ AfterWant(t)
  \/ AfterSweep(t) \/ AfterInsert(t)

\* A match that is committed while a sweep goes on is none of the sweep's rows.
Status(p) == db[M(p)].status
Overlook ==
  missed' = [t \in Tx |->
    IF txn'[t].at = "sweep"
      THEN missed[t] \cup {p \in Pairs : Status(p) = "none" /\ Status(p)' = "pending"}
      ELSE {}]

Next ==
  /\ \E t \in Tx : Begin(t) \/ Work(t) \/ Deadlock(t) \/ Fail(t)
  /\ Overlook

Spec == Init /\ [][Next]_vars
-----------------------------------------------------------------------------

\* Committed rows agree across the tables, although each transaction writes
\* them one by one: what Exchange takes for granted of its atomic steps.
CommittedAgree ==
  /\ \A i \in Items, s \in {<<"reserved", "accepted">>, <<"exchanged", "completed">>} :
       db[I(i)] = s[1] <=> \E p \in Pairs : Status(p) = s[2] /\ i \in ItemsOf(p)
  /\ \A p \in Pairs :
       /\ Status(p) \in {"accepted", "completed"} => db[M(p)].accepted = Side
       /\ Status(p) = "completed" <=> db[M(p)].confirmed = Side
       /\ db[M(p)].confirmed # {} => db[M(p)].plan # NoPlan
       /\ Status(p) = "completed" => \A w \in Relies[p] : db[W(w)] # "active"

\* No acceptance, plan or confirmation that was committed is ever overwritten by
\* a transaction that had read the match before: a plan gives way only to one
\* that is proposed, and with it go all confirmations, which nothing else takes.
NoLostUpdate ==
  [][\A p \in Pairs :
       LET m == db[M(p)]
           n == db'[M(p)]
       IN  /\ m.accepted \subseteq n.accepted
           /\ n.plan = m.plan => m.confirmed \subseteq n.confirmed
           /\ n.plan # m.plan =>
                /\ n.confirmed = {}
                /\ \E t \in Tx : /\ txn[t].op = "exchange" /\ txn[t].on = M(p)
                                 /\ txn[t].arg = n.plan]_vars

\* lockAvailableItems: both items are locked in a stable order, to avoid
\* deadlocks; so transactions should never wait in a circle.
NoCircle == \A t \in Tx : ~InCircle(t)

Stage(s) ==
  CASE s = "none"      -> "none"
    [] s = "pending"   -> "proposed"
    [] s = "accepted"  -> "agreed"
    [] s = "completed" -> "done"
    [] s \in {"declined", "cancelled"} -> "off"

Promise == INSTANCE Barter WITH
  stage   <- [p \in Pairs |-> Stage(Status(p))],
  listed  <- Items,
  retired <- {i \in Items : db[I(i)] = "withdrawn"}

KeepsPromises == Promise!Init /\ [][UNCHANGED db \/ Promise!Next]_vars
=============================================================================
