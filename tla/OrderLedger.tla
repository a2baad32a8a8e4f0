------------------------------ MODULE OrderLedger ------------------------------
(***************************************************************************)
(* Orders, stock balances and store accounts of the backend:               *)
(* create_order and update_status (modules/orders/service.py) run as       *)
(* PostgreSQL transactions of concurrent sessions.  A session reads        *)
(* committed data only (READ COMMITTED), takes the row lock of a balance   *)
(* with SELECT ... FOR UPDATE, keeps it until its transaction ends, and    *)
(* publishes all its writes at once, in Commit (core/db.py, get_db).  The  *)
(* Redis idempotency key is written before that commit and survives its    *)
(* rollback.                                                               *)
(*                                                                         *)
(* Append-only StockMovement and LedgerEntry rows are kept as totals per   *)
(* order and product: taken/returned for the movements "out"/"in",         *)
(* debited/credited for the entries.  A balance row that does not exist    *)
(* yet is a balance of 0.                                                  *)
(***************************************************************************)
EXTENDS Integers, FiniteSets, FiniteSetsExt, Functions

CONSTANTS
    Sessions,      \* database sessions: one per request being served
    OrderIds,      \* uuid7 values create_order may draw
    Products,      \* (product, warehouse) pairs: one stock balance row each
    Stores,        \* stores: one account balance row each
    Actors,        \* users that send requests
    Agents,        \* the actors with role "agent"
    Uuids,         \* client_uuid values
    None,          \* no client_uuid, no agent, no cached id, no order
    Quotes,        \* <<lines summed per product, total>>: what the catalogue
                   \* and the promotions can make of a request's lines
    Targets,       \* statuses the clients ask for
    InitStock,     \* stock on hand at the start
    MaxMoved,      \* bound, per product, on the net of the other movements
    MaxPosted      \* bound, per store, on the net of the other entries

Statuses == {"draft", "confirmed", "packed", "delivering", "delivered", "canceled"}

ASSUME ConstantsAssumption ==
    /\ IsFiniteSet(OrderIds)                    \* 128 bits
    /\ Agents \subseteq Actors
    /\ None \notin Actors \cup Uuids \cup OrderIds
    /\ Quotes \subseteq [Products -> Nat] \X Nat
    /\ Targets \subseteq Statuses
    /\ InitStock \in [Products -> Nat]
    /\ MaxMoved \in [Products -> Nat]
    /\ MaxPosted \in [Stores -> Nat]

VARIABLES
    orders,        \* committed order rows
    minted,        \* order ids drawn for an inserted row
    stock,         \* stock_balance.qty_on_hand
    account,       \* account_balance.balance
    taken,         \* movements out, per order and product
    returned,      \* movements in (ref_type "order_cancel")
    debited,       \* ledger debits per order
    credited,      \* ledger credits (ref_type "order_cancel")
    moved,         \* net quantity of the other movements, per product
    posted,        \* net amount of the other ledger entries, per store
    events,        \* outbox events of orders: <<order, version, status>>
    redis,         \* idempotency keys <<actor, store, client_uuid>>
    tx,            \* the transaction of each session
    acked          \* replies to creations with a client_uuid that reached
                   \* the client: <<store, uuid, order>>

ledgers == <<taken, returned, debited, credited>>
others  == <<moved, posted>>
db      == <<orders, stock, account, ledgers, others, events>>
vars    == <<db, minted, redis, tx, acked>>

\* VALID_TRANSITIONS
NextStatuses ==
    [draft      |-> {"confirmed", "canceled"},
     confirmed  |-> {"packed", "canceled"},
     packed     |-> {"delivering", "canceled"},
     delivering |-> {"delivered", "canceled"},
     delivered  |-> {},
     canceled   |-> {}]

\* Mutated: the courier's leg is forgotten.
CompensableForgotten == {"confirmed", "packed"}

Compensable == {"confirmed", "packed", "delivering"}

\* An order starts at version 1 and its longest life has three more.
Versions == 1..4

OrderRows ==
    [store : Stores, uuid : Uuids \cup {None}, agent : Agents \cup {None},
     basket : [Products -> Nat], amount : Nat, status : Statuses, version : Nat]

\* None is no order row.
ASSUME NoneAssumption == None \notin OrderRows

Keys == Actors \X Stores \X Uuids

Idle == [pc |-> "idle"]

(***************************************************************************)
(* A transaction in progress.  row is the order to insert, or the order    *)
(* as update_status read it; base[p] is the quantity read under the lock   *)
(* of p, for p in held; bal is the balance read under the account's lock   *)
(* when acct is true.                                                      *)
(***************************************************************************)
Transactions ==
    [pc : {"insert", "stock", "publish", "commit"},
     kind : {"create", "update"},
     order : OrderIds \cup {None}, row : OrderRows,
     to : Statuses, actor : Actors \cup {None}, keyed : BOOLEAN,
     todo : SUBSET Products, held : SUBSET Products,
     base : [Products -> Int], acct : BOOLEAN, bal : Int]

Active(s) == tx[s].pc # "idle"
Exists(o) == orders[o] # None

Inserted(s) == /\ Active(s)
               /\ tx[s].kind = "create"
               /\ tx[s].pc # "insert"

\* The transaction moves goods and money: a creation, or a cancellation of
\* an order whose stock was taken.
Compensates(t) == t.to = "canceled" /\ t.row.status \in Compensable
Posts(t)       == t.kind = "create" \/ Compensates(t)

HoldsStock(s, p)    == Active(s) /\ p \in tx[s].held
HoldsAccount(s, st) == Active(s) /\ tx[s].acct /\ tx[s].row.store = st

\* Mutated: SELECT without FOR UPDATE.
StockUnlocked(s, p)    == TRUE
AccountUnlocked(s, st) == TRUE

StockFree(s, p)    == \A t \in Sessions \ {s} : ~HoldsStock(t, p)
AccountFree(s, st) == \A t \in Sessions \ {s} : ~HoldsAccount(t, st)

\* A transaction that ends without a commit leaves only the Redis key it may
\* have written.
RollBack(s) ==
    /\ tx' = [tx EXCEPT ![s] = Idle]
    /\ UNCHANGED <<db, minted, redis, acked>>

Lines(row) == {p \in Products : row.basket[p] > 0}

Zero == [p \in Products |-> 0]

Init ==
    /\ orders = [o \in OrderIds |-> None]
    /\ minted = {}
    /\ stock = InitStock
    /\ account = [st \in Stores |-> 0]
    /\ taken = [o \in OrderIds |-> Zero]
    /\ returned = [o \in OrderIds |-> Zero]
    /\ debited = [o \in OrderIds |-> 0]
    /\ credited = [o \in OrderIds |-> 0]
    /\ moved = Zero
    /\ posted = [st \in Stores |-> 0]
    /\ events = {}
    /\ redis = [k \in Keys |-> None]
    /\ tx = [s \in Sessions |-> Idle]
    /\ acked = {}

-----------------------------------------------------------------------------
(* create_order *)

\* Mutated: the cached id is not looked up in the database.
HitUnverified(k) == redis[k] # None

\* The cached id of a key, when Redis answers; a key whose order was never
\* committed is ignored.
Hit(k) == redis[k] # None /\ Exists(redis[k])

\* A retry answered from Redis: nothing but the order's existence is checked.
ReplyFromCache(a, st, u) ==
    /\ Hit(<<a, st, u>>)
    /\ acked' = acked \cup {<<st, u, redis[<<a, st, u>>]>>}
    /\ UNCHANGED <<db, minted, redis, tx>>

\* Bound: a creation starts only while an order id is left for it.
IdLeft == Cardinality({s \in Sessions : tx[s].pc = "insert"})
            < Cardinality(OrderIds \ minted)

\* Past the Redis lookup and the validations, which end a bad request
\* without a trace.  up: Redis answered, so the key is kept for later.
BeginCreate(s, a, st, u, q, up) ==
    /\ ~Active(s)
    /\ IdLeft
    /\ up /\ u # None => ~Hit(<<a, st, u>>)
    /\ tx' = [tx EXCEPT ![s] =
        [pc |-> "insert", kind |-> "create", order |-> None,
         row |-> [store |-> st, uuid |-> u,
                  agent |-> IF a \in Agents THEN a ELSE None,
                  basket |-> q[1], amount |-> q[2],
                  status |-> "confirmed", version |-> 1],
         to |-> "confirmed", actor |-> a, keyed |-> up /\ u # None,
         todo |-> {p \in Products : q[1][p] > 0}, held |-> {},
         base |-> Zero, acct |-> FALSE, bal |-> 0]]
    /\ UNCHANGED <<db, minted, redis, acked>>

SameRequest(r1, r2) == r1.store = r2.store /\ r1.uuid = r2.uuid /\ r1.uuid # None

\* Orders that make the INSERT fail on unique (store_id, client_uuid).
Twins(s) == {o \in OrderIds : Exists(o) /\ SameRequest(orders[o], tx[s].row)}

\* Mutated: duplicates are looked for, but no unique index backs the search.
MayInsertUnindexed(s) == TRUE

\* The unique index makes the INSERT wait for a transaction that inserted
\* the same pair and has not ended.
MayInsert(s) ==
    \A t \in Sessions \ {s} : Inserted(t) => ~SameRequest(tx[t].row, tx[s].row)

\* Mutated: the id is not set before the flush.
InsertWithoutId(s) ==
    /\ Active(s) /\ tx[s].pc = "insert"
    /\ MayInsert(s)
    /\ Twins(s) = {}
    /\ tx' = [tx EXCEPT ![s] = [@ EXCEPT !.pc = "stock"]]
    /\ UNCHANGED <<db, minted, redis, acked>>

\* The fresh id of a row that is not inserted leaves no trace and is not
\* counted as drawn.
InsertOrder(s) ==
    /\ Active(s) /\ tx[s].pc = "insert"
    /\ MayInsert(s)
    /\ Twins(s) = {}
    /\ \E o \in OrderIds \ minted :
        /\ minted' = minted \cup {o}
        /\ tx' = [tx EXCEPT ![s] = [@ EXCEPT !.pc = "stock", !.order = o]]
    /\ UNCHANGED <<db, redis, acked>>

\* IntegrityError: the existing order is returned to the same agent, or to
\* anyone when it has no agent; otherwise idempotency_conflict.
ResolveDuplicate(s) ==
    /\ Active(s) /\ tx[s].pc = "insert"
    /\ MayInsert(s)
    /\ \E o \in Twins(s) :
        acked' = IF orders[o].agent \in {None, tx[s].actor}
                 THEN acked \cup {<<tx[s].row.store, tx[s].row.uuid, o>>}
                 ELSE acked
    /\ tx' = [tx EXCEPT ![s] = Idle]
    /\ UNCHANGED <<db, minted, redis>>

-----------------------------------------------------------------------------
(* update_status *)

\* The row is read without a lock; v is the version the client sent.
BeginUpdate(s, o, to, v) ==
    /\ ~Active(s)
    /\ Exists(o)
    /\ orders[o].version = v
    /\ to \in NextStatuses[orders[o].status]
    /\ LET row == orders[o]
           posts == to = "canceled" /\ row.status \in Compensable
       IN  tx' = [tx EXCEPT ![s] =
            [pc |-> IF posts THEN "stock" ELSE "commit", kind |-> "update",
             order |-> o, row |-> row, to |-> to, actor |-> None,
             keyed |-> FALSE, todo |-> IF posts THEN Lines(row) ELSE {},
             held |-> {}, base |-> Zero, acct |-> FALSE, bal |-> 0]]
    /\ UNCHANGED <<db, minted, redis, acked>>

-----------------------------------------------------------------------------
(* _record_movement_tx and _record_entry_tx, called by both *)

\* Mutated: the quantity is not checked under the lock.
LockStockUnchecked(s, p) ==
    /\ Active(s) /\ tx[s].pc = "stock"
    /\ p \in tx[s].todo
    /\ StockFree(s, p)
    /\ tx' = [tx EXCEPT ![s] =
                [@ EXCEPT !.todo = tx[s].todo \ {p},
                          !.held = tx[s].held \cup {p},
                          !.base = [tx[s].base EXCEPT ![p] = stock[p]]]]
    /\ UNCHANGED <<db, minted, redis, acked>>

\* Lines are served in the order the request, or the relation, lists them:
\* any order.  The balance is read under its row lock.
LockStock(s, p) ==
    /\ Active(s) /\ tx[s].pc = "stock"
    /\ p \in tx[s].todo
    /\ StockFree(s, p)
    /\ tx[s].kind = "create" => stock[p] >= tx[s].row.basket[p]
    /\ tx' = [tx EXCEPT ![s] =
                [@ EXCEPT !.todo = tx[s].todo \ {p},
                          !.held = tx[s].held \cup {p},
                          !.base = [tx[s].base EXCEPT ![p] = stock[p]]]]
    /\ UNCHANGED <<db, minted, redis, acked>>

\* Mutated: the savepoint of the order row is released too early, and the row
\* survives the rollback (the comment above begin_nested in create_order).
InsufficientStockKeepsOrder(s, p) ==
    /\ Active(s) /\ tx[s].pc = "stock"
    /\ tx[s].kind = "create"
    /\ p \in tx[s].todo
    /\ StockFree(s, p)
    /\ stock[p] < tx[s].row.basket[p]
    /\ orders' = [orders EXCEPT ![tx[s].order] = tx[s].row]
    /\ tx' = [tx EXCEPT ![s] = Idle]
    /\ UNCHANGED <<stock, account, ledgers, others, events, minted, redis, acked>>

\* insufficient_stock: the whole transaction is rolled back.
InsufficientStock(s, p) ==
    /\ Active(s) /\ tx[s].pc = "stock"
    /\ tx[s].kind = "create"
    /\ p \in tx[s].todo
    /\ StockFree(s, p)
    /\ stock[p] < tx[s].row.basket[p]
    /\ RollBack(s)

\* After the last line.  An order of total 0 has no ledger entry.
LockAccount(s) ==
    /\ Active(s) /\ tx[s].pc = "stock"
    /\ tx[s].todo = {}
    /\ tx[s].row.amount > 0
    /\ AccountFree(s, tx[s].row.store)
    /\ tx' = [tx EXCEPT ![s] = [@ EXCEPT !.pc = "publish",
                                         !.acct = TRUE,
                                         !.bal = account[tx[s].row.store]]]
    /\ UNCHANGED <<db, minted, redis, acked>>

SkipAccount(s) ==
    /\ Active(s) /\ tx[s].pc = "stock"
    /\ tx[s].todo = {}
    /\ tx[s].row.amount = 0
    /\ tx' = [tx EXCEPT ![s] = [@ EXCEPT !.pc = "publish"]]
    /\ UNCHANGED <<db, minted, redis, acked>>

\* create_order stores the Redis key (SET NX) before the commit; ok: Redis
\* took the write.
PublishKey(s, ok) ==
    /\ Active(s) /\ tx[s].pc = "publish"
    /\ LET k == <<tx[s].actor, tx[s].row.store, tx[s].row.uuid>>
       IN  redis' = IF tx[s].keyed /\ ok /\ redis[k] = None
                    THEN [redis EXCEPT ![k] = tx[s].order]
                    ELSE redis
    /\ tx' = [tx EXCEPT ![s] = [@ EXCEPT !.pc = "commit"]]
    /\ UNCHANGED <<db, minted, acked>>

WaitsForStock(s, p) ==
    /\ Active(s) /\ tx[s].pc = "stock"
    /\ p \in tx[s].todo
    /\ \A q \in tx[s].todo : ~StockFree(s, q)

-----------------------------------------------------------------------------
(* The end of a transaction *)

\* The quantities and the balance the transaction leaves, from what it read
\* under the locks.
StockAfter(t) ==
    [p \in Products |->
        IF p \notin t.held THEN stock[p]
        ELSE IF t.kind = "create" THEN t.base[p] - t.row.basket[p]
                                  ELSE t.base[p] + t.row.basket[p]]

AccountAfter(t) ==
    IF ~t.acct THEN account
    ELSE [account EXCEPT ![t.row.store] =
            IF t.kind = "create" THEN t.bal + t.row.amount
                                 ELSE t.bal - t.row.amount]

\* told: the reply reached the client.
CommitCreate(s, told) ==
    LET t == tx[s] IN
    /\ t.pc = "commit" /\ t.kind = "create"
    /\ orders' = [orders EXCEPT ![t.order] = t.row]
    /\ taken' = [taken EXCEPT ![t.order] = t.row.basket]
    /\ debited' = [debited EXCEPT ![t.order] = t.row.amount]
    /\ stock' = StockAfter(t)
    /\ account' = AccountAfter(t)
    /\ events' = events \cup {<<t.order, t.row.version, t.row.status>>}
    /\ acked' = IF told /\ t.row.uuid # None THEN
                    acked \cup {<<t.row.store, t.row.uuid, t.order>>}
                ELSE acked
    /\ tx' = [tx EXCEPT ![s] = Idle]
    /\ UNCHANGED <<returned, credited, others, minted, redis>>

\* The UPDATE names the row by its id alone and writes the version that was
\* read, plus one.
CommitUpdate(s) ==
    LET t == tx[s] IN
    /\ t.pc = "commit" /\ t.kind = "update"
    /\ orders' = [orders EXCEPT ![t.order] =
                    [@ EXCEPT !.status = t.to, !.version = t.row.version + 1]]
    /\ IF Compensates(t)
       THEN /\ returned' = [returned EXCEPT ![t.order] =
                                [p \in Products |-> @[p] + t.row.basket[p]]]
            /\ credited' = [credited EXCEPT ![t.order] = @ + t.row.amount]
       ELSE UNCHANGED <<returned, credited>>
    /\ stock' = StockAfter(t)
    /\ account' = AccountAfter(t)
    /\ events' = events \cup {<<t.order, t.row.version + 1, t.to>>}
    /\ tx' = [tx EXCEPT ![s] = Idle]
    /\ UNCHANGED <<taken, debited, others, minted, redis, acked>>

\* Two transactions that each wait for a stock row of the other.
StockCycle(s, t) ==
    /\ s # t
    /\ \E p \in Products : WaitsForStock(s, p) /\ HoldsStock(t, p)
    /\ \E q \in Products : WaitsForStock(t, q) /\ HoldsStock(s, q)

\* Mutated: deadlocks are not detected.
NoDeadlockDetector(s) == FALSE

\* PostgreSQL rolls back a transaction of a wait cycle after deadlock_timeout.
DeadlockVictim(s) ==
    /\ \E t \in Sessions : StockCycle(s, t)
    /\ RollBack(s)

\* Rollback: an exception, a lost connection or a killed worker.
Abort(s) ==
    /\ Active(s)
    /\ RollBack(s)

-----------------------------------------------------------------------------
(* The rest of the system *)

\* The key's 24 hours end, or Redis loses it.
ExpireKey(k) ==
    /\ redis[k] # None
    /\ redis' = [redis EXCEPT ![k] = None]
    /\ UNCHANGED <<db, minted, tx, acked>>

\* stock.record_movement: one balance row, so one step under its lock.
\* "in" and "adjust" add, "out" and "transfer" remove what is there.
RecordMovement(p, d) ==
    /\ \A s \in Sessions : ~HoldsStock(s, p)
    /\ stock[p] + d >= 0
    /\ moved[p] + d \in 0..MaxMoved[p]
    /\ stock' = [stock EXCEPT ![p] = @ + d]
    /\ moved' = [moved EXCEPT ![p] = @ + d]
    /\ UNCHANGED <<orders, account, ledgers, posted, events, minted, redis, tx, acked>>

\* finance.record_entry: debits add, credits remove.
RecordEntry(st, d) ==
    /\ \A s \in Sessions : ~HoldsAccount(s, st)
    /\ posted[st] + d \in 0..MaxPosted[st]
    /\ account' = [account EXCEPT ![st] = @ + d]
    /\ posted' = [posted EXCEPT ![st] = @ + d]
    /\ UNCHANGED <<orders, stock, ledgers, moved, events, minted, redis, tx, acked>>

-----------------------------------------------------------------------------

Request(s) ==
    \/ \E a \in Actors, st \in Stores, u \in Uuids \cup {None}, q \in Quotes,
          up \in BOOLEAN : BeginCreate(s, a, st, u, q, up)
    \/ \E o \in OrderIds, to \in Targets, v \in Versions : BeginUpdate(s, o, to, v)

\* One step of a transaction under way.
Step(s) ==
    \/ InsertOrder(s) \/ ResolveDuplicate(s)
    \/ \E p \in Products : LockStock(s, p) \/ InsufficientStock(s, p)
    \/ LockAccount(s) \/ SkipAccount(s)
    \/ \E ok \in BOOLEAN : PublishKey(s, ok)
    \/ \E told \in BOOLEAN : CommitCreate(s, told)
    \/ CommitUpdate(s)
    \/ DeadlockVictim(s)

Environment ==
    \/ \E a \in Actors, st \in Stores, u \in Uuids : ReplyFromCache(a, st, u)
    \/ \E k \in Keys : ExpireKey(k)
    \/ \E p \in Products, d \in {-1, 1} : RecordMovement(p, d)
    \/ \E st \in Stores, d \in {-1, 1} : RecordEntry(st, d)

Next ==
    \/ \E s \in Sessions : Request(s) \/ Step(s) \/ Abort(s)
    \/ Environment

Spec == Init /\ [][Next]_vars

\* A request that can go on goes on: a worker's event loop serves every task,
\* and PostgreSQL grants a row lock to its waiters in their order.
Fairness == \A s \in Sessions : SF_vars(Step(s))

FairSpec == Spec /\ Fairness

-----------------------------------------------------------------------------
(* Properties *)

\* The state is well formed: every row, key and transaction has its shape.
TypeOK ==
    /\ orders \in [OrderIds -> OrderRows \cup {None}]
    /\ minted \subseteq OrderIds
    /\ stock \in [Products -> Int]
    /\ account \in [Stores -> Int]
    /\ taken \in [OrderIds -> [Products -> Nat]]
    /\ returned \in [OrderIds -> [Products -> Nat]]
    /\ debited \in [OrderIds -> Nat]
    /\ credited \in [OrderIds -> Nat]
    /\ moved \in [Products -> Int]
    /\ posted \in [Stores -> Int]
    /\ events \subseteq OrderIds \X Nat \X Statuses
    /\ redis \in [Keys -> OrderIds \cup {None}]
    /\ tx \in [Sessions -> Transactions \cup {Idle}]
    /\ acked \subseteq Stores \X Uuids \X OrderIds

\* The stock balance is what the append-only movement log adds up to: no
\* concurrent order, cancellation or movement is lost (the FOR UPDATE of
\* _record_movement_tx).
StockMatchesLog ==
    \A p \in Products :
        stock[p] = InitStock[p] + moved[p]
                   - SumFunctionOnSet([o \in OrderIds |-> taken[o][p]], OrderIds)
                   + SumFunctionOnSet([o \in OrderIds |-> returned[o][p]], OrderIds)

\* Stock on hand is never negative, whatever orders run against the same
\* balance (the check in _record_movement_tx is made under the lock).
NoNegativeStock == \A p \in Products : stock[p] >= 0

OrdersOf(st) == {o \in OrderIds : Exists(o) /\ orders[o].store = st}

\* A store's balance is the sum of its ledger entries (the FOR UPDATE of
\* _record_entry_tx).
AccountMatchesLedger ==
    \A st \in Stores :
        account[st] = posted[st]
                      + SumFunctionOnSet(debited, OrdersOf(st))
                      - SumFunctionOnSet(credited, OrdersOf(st))

\* create_order is all or nothing: an order that exists has taken the stock
\* of each of its lines, has debited its total and is announced; an order
\* that does not exist has left no trace in any ledger.
AllOrNothing ==
    \A o \in OrderIds :
        IF Exists(o)
        THEN /\ taken[o] = orders[o].basket
             /\ debited[o] = orders[o].amount
             /\ <<o, 1, "confirmed">> \in events
        ELSE /\ taken[o] = Zero /\ returned[o] = Zero
             /\ debited[o] = 0 /\ credited[o] = 0
             /\ \A e \in events : e[1] # o

\* A client_uuid makes at most one order in a store, with Redis up, down,
\* expired or holding the key of a creation that was rolled back.
OneOrderPerUuid ==
    \A o1, o2 \in OrderIds :
        Exists(o1) /\ Exists(o2) /\ SameRequest(orders[o1], orders[o2]) => o1 = o2

\* A client told that its order was accepted was told of a committed order,
\* its own, and every retry of the same client_uuid names the same order.
AckedOrderExists ==
    \A a \in acked :
        /\ Exists(a[3])
        /\ orders[a[3]].store = a[1] /\ orders[a[3]].uuid = a[2]
        /\ \A b \in acked : a[1] = b[1] /\ a[2] = b[2] => a[3] = b[3]

\* A canceled order has given back all it took, however its cancellation ran
\* against other updates (section 5 of docs/ORDERS.md).
CanceledIsReturned ==
    \A o \in OrderIds :
        Exists(o) /\ orders[o].status = "canceled" =>
            /\ \A p \in Products : returned[o][p] >= taken[o][p]
            /\ credited[o] >= debited[o]

\* What a transaction read under its row locks is still in the rows when it
\* commits, and no row is locked twice: the invariant every balance rests on.
LockedIsCurrent ==
    /\ \A s \in Sessions : Active(s) =>
        /\ \A p \in tx[s].held : tx[s].base[p] = stock[p]
        /\ tx[s].acct => tx[s].bal = account[tx[s].row.store]
    /\ \A s, t \in Sessions : s # t /\ Active(s) /\ Active(t) =>
        /\ tx[s].held \cap tx[t].held = {}
        /\ ~(tx[s].acct /\ tx[t].acct /\ tx[s].row.store = tx[t].row.store)

\* The stock of an order is returned at most once: an order that is already
\* canceled is not canceled again (section 5 of docs/ORDERS.md).
ReturnedAtMostOnce ==
    \A o \in OrderIds, p \in Products : returned[o][p] <= taken[o][p]

\* The log only grows, and a balance moves in the same step as the log, by
\* as much: no step changes a balance behind the log's back.
StockStepLogged ==
    [][\A p \in Products :
        \/ /\ stock'[p] - stock[p] = moved'[p] - moved[p]
           /\ \A o \in OrderIds : taken'[o][p] = taken[o][p]
                               /\ returned'[o][p] = returned[o][p]
        \/ \E o \in OrderIds :
             /\ stock'[p] - stock[p] = (returned'[o][p] - returned[o][p])
                                       - (taken'[o][p] - taken[o][p])
             /\ taken'[o][p] >= taken[o][p] /\ returned'[o][p] >= returned[o][p]
             /\ moved'[p] = moved[p]
             /\ \A q \in OrderIds \ {o} : taken'[q][p] = taken[q][p]
                                         /\ returned'[q][p] = returned[q][p]
      ]_vars

\* Orders, stock and accounts change together, in the single steps that
\* AtomicOrders promises, although a transaction reads and locks them one by
\* one.
Atomic == INSTANCE AtomicOrders WITH
               orders <- orders, stock <- stock, account <- account,
               OrderIds <- OrderIds, Products <- Products, Stores <- Stores,
               None <- None, InitStock <- InitStock
ImplementsAtomicOrders == Atomic!Spec

\* No request hangs on a row lock: its transaction commits or rolls back.
EveryRequestEnds == \A s \in Sessions : Active(s) ~> ~Active(s)
=============================================================================
