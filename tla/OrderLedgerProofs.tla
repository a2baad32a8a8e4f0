-------------------------- MODULE OrderLedgerProofs --------------------------
(***************************************************************************)
(* Proofs about OrderLedger for every set of sessions, orders, products    *)
(* and stores: the locks and identities, the effects of orders, the        *)
(* balances as sums of their logs, the replies of create_order, and that   *)
(* OrderLedger implements AtomicOrders.                                    *)
(***************************************************************************)
EXTENDS OrderLedger, FiniteSetTheorems, WellFoundedInduction, TLAPS

\* What a session knows about the order of its transaction.
SameOrder(r1, r2) ==
    /\ r1.store = r2.store /\ r1.uuid = r2.uuid
    /\ r1.basket = r2.basket /\ r1.amount = r2.amount

OrderKnown(s) ==
    LET t == tx[s] IN
    /\ t.pc # "insert" => t.order \in minted
    /\ t.pc = "insert" => t.kind = "create"
    /\ t.kind = "create" =>
        /\ t.row.status = "confirmed" /\ t.row.version = 1
        /\ t.pc # "insert" => ~Exists(t.order)
    /\ t.kind = "update" =>
        /\ Exists(t.order) /\ SameOrder(orders[t.order], t.row)
        /\ t.to \in NextStatuses[t.row.status]
        /\ t.row.status # "draft"

OrdersKnown ==
    /\ \A s \in Sessions : Active(s) => OrderKnown(s)
    /\ \A o \in OrderIds : Exists(o) => o \in minted /\ orders[o].status # "draft"

LEMMA InitTypeOK == Init => TypeOK /\ OrdersKnown
  BY ConstantsAssumption
  DEF Init, TypeOK, OrdersKnown, Active, Idle, Exists, Zero, Keys

LEMMA NextTypeOK ==
  ASSUME TypeOK, OrdersKnown, [Next]_vars
  PROVE  TypeOK'
<1> USE ConstantsAssumption
<1> USE DEF TypeOK, db, ledgers, others
<1>1. ASSUME NEW s \in Sessions, NEW a \in Actors, NEW st \in Stores,
             NEW u \in Uuids \cup {None}, NEW q \in Quotes, NEW up \in BOOLEAN,
             BeginCreate(s, a, st, u, q, up)
      PROVE  TypeOK'
  <2> DEFINE row == [store |-> st, uuid |-> u,
                     agent |-> IF a \in Agents THEN a ELSE None,
                     basket |-> q[1], amount |-> q[2],
                     status |-> "confirmed", version |-> 1]
  <2>1. row \in OrderRows
    <3>1. q[1] \in [Products -> Nat] /\ q[2] \in Nat
      OBVIOUS
    <3>. QED  BY <3>1 DEF OrderRows, Statuses
  <2>2. tx'[s] \in Transactions
    BY <1>1, <2>1 DEF BeginCreate, Transactions, Statuses, Zero
  <2>3. tx' = [tx EXCEPT ![s] = tx'[s]]
    BY <1>1 DEF BeginCreate
  <2>. QED  BY <1>1, <2>2, <2>3 DEF BeginCreate
<1>2. ASSUME NEW s \in Sessions, NEW o \in OrderIds, NEW to \in Targets,
             NEW v \in Versions, BeginUpdate(s, o, to, v)
      PROVE  TypeOK'
  BY <1>2 DEF BeginUpdate, Transactions, OrderRows, Exists, Lines, Zero
<1>3. ASSUME NEW s \in Sessions, InsertOrder(s) PROVE TypeOK'
  <2>1. PICK o \in OrderIds \ minted :
           /\ minted' = minted \cup {o}
           /\ tx' = [tx EXCEPT ![s] = [@ EXCEPT !.pc = "stock", !.order = o]]
    BY <1>3 DEF InsertOrder
  <2>2. tx[s] \in Transactions
    BY <1>3 DEF InsertOrder, Active, Idle
  <2>3. [tx[s] EXCEPT !.pc = "stock", !.order = o] \in Transactions
    BY <2>2 DEF Transactions
  <2>. QED  BY <1>3, <2>1, <2>3 DEF InsertOrder
<1>4. ASSUME NEW s \in Sessions, ResolveDuplicate(s) PROVE TypeOK'
  <2>1. tx[s] \in Transactions /\ tx[s].row \in OrderRows
    BY <1>4 DEF ResolveDuplicate, Active, Idle, Transactions
  <2>2. acked' \subseteq Stores \X Uuids \X OrderIds
    BY <1>4, <2>1 DEF ResolveDuplicate, OrderRows, Twins, SameRequest
  <2>. QED  BY <1>4, <2>2 DEF ResolveDuplicate
<1>5. ASSUME NEW s \in Sessions, NEW p \in Products, LockStock(s, p)
      PROVE  TypeOK'
  <2>1. tx[s] \in Transactions
    BY <1>5 DEF LockStock, Active, Idle
  <2>2. [tx[s] EXCEPT !.todo = tx[s].todo \ {p},
                      !.held = tx[s].held \cup {p},
                      !.base = [tx[s].base EXCEPT ![p] = stock[p]]] \in Transactions
    BY <2>1 DEF Transactions
  <2>. QED  BY <1>5, <2>2 DEF LockStock
<1>6. ASSUME NEW s \in Sessions, LockAccount(s) PROVE TypeOK'
  <2>1. tx[s] \in Transactions /\ tx[s].row.store \in Stores
    BY <1>6 DEF LockAccount, Active, Idle, Transactions, OrderRows
  <2>2. [tx[s] EXCEPT !.pc = "publish", !.acct = TRUE,
                      !.bal = account[tx[s].row.store]] \in Transactions
    BY <2>1 DEF Transactions
  <2>. QED  BY <1>6, <2>2 DEF LockAccount
<1>7. ASSUME NEW s \in Sessions, SkipAccount(s) PROVE TypeOK'
  <2>1. tx[s] \in Transactions
    BY <1>7 DEF SkipAccount, Active, Idle
  <2>2. [tx[s] EXCEPT !.pc = "publish"] \in Transactions
    BY <2>1 DEF Transactions
  <2>. QED  BY <1>7, <2>2 DEF SkipAccount
<1>8. ASSUME NEW s \in Sessions, NEW ok \in BOOLEAN, PublishKey(s, ok)
      PROVE  TypeOK'
  <2>1. tx[s] \in Transactions /\ tx[s].order \in OrderIds
    BY <1>8 DEF PublishKey, OrdersKnown, OrderKnown, Active, Idle, Transactions
  <2>2. [tx[s] EXCEPT !.pc = "commit"] \in Transactions
    BY <2>1 DEF Transactions
  <2>. QED  BY <1>8, <2>1, <2>2 DEF PublishKey
<1>9. ASSUME NEW s \in Sessions, NEW told \in BOOLEAN, CommitCreate(s, told)
      PROVE  TypeOK'
  <2>1. /\ tx[s] \in Transactions /\ tx[s].row \in OrderRows
        /\ tx[s].order \in OrderIds
    BY <1>9 DEF CommitCreate, OrdersKnown, OrderKnown, Active, Idle, Transactions
  <2>2. stock' \in [Products -> Int]
    BY <1>9, <2>1 DEF CommitCreate, StockAfter, Transactions, OrderRows
  <2>3. account' \in [Stores -> Int]
    BY <1>9, <2>1 DEF CommitCreate, AccountAfter, Transactions, OrderRows
  <2>4. acked' \subseteq Stores \X Uuids \X OrderIds
    BY <1>9, <2>1 DEF CommitCreate, OrderRows
  <2>5. /\ taken' \in [OrderIds -> [Products -> Nat]]
        /\ debited' \in [OrderIds -> Nat]
        /\ events' \subseteq OrderIds \X Nat \X Statuses
    BY <1>9, <2>1 DEF CommitCreate, OrderRows
  <2>. QED  BY <1>9, <2>1, <2>2, <2>3, <2>4, <2>5 DEF CommitCreate
<1>10. ASSUME NEW s \in Sessions, CommitUpdate(s) PROVE TypeOK'
  <2>1. /\ tx[s] \in Transactions /\ tx[s].row \in OrderRows
        /\ tx[s].order \in OrderIds /\ Exists(tx[s].order)
    BY <1>10 DEF CommitUpdate, OrdersKnown, OrderKnown, Active, Idle, Transactions
  <2>2. stock' \in [Products -> Int]
    BY <1>10, <2>1 DEF CommitUpdate, StockAfter, Transactions, OrderRows
  <2>3. account' \in [Stores -> Int]
    BY <1>10, <2>1 DEF CommitUpdate, AccountAfter, Transactions, OrderRows
  <2>4. orders' \in [OrderIds -> OrderRows \cup {None}]
    <3>1. /\ orders[tx[s].order] \in OrderRows /\ tx[s].to \in Statuses
          /\ tx[s].row.version + 1 \in Nat
      BY <2>1 DEF Exists, Transactions, OrderRows
    <3>2. [orders[tx[s].order] EXCEPT !.status = tx[s].to,
             !.version = tx[s].row.version + 1] \in OrderRows
      BY <2>1, <3>1 DEF OrderRows
    <3>. QED  BY <1>10, <2>1, <3>2 DEF CommitUpdate
  <2>5. /\ returned' \in [OrderIds -> [Products -> Nat]]
        /\ credited' \in [OrderIds -> Nat]
    <3>1. CASE Compensates(tx[s])
      <4>1. [p \in Products |-> returned[tx[s].order][p] + tx[s].row.basket[p]]
              \in [Products -> Nat]
        BY <2>1 DEF OrderRows
      <4>2. credited[tx[s].order] + tx[s].row.amount \in Nat
        BY <2>1 DEF OrderRows
      <4>3. returned' = [returned EXCEPT ![tx[s].order] =
                [p \in Products |-> returned[tx[s].order][p] + tx[s].row.basket[p]]]
        BY <1>10, <3>1 DEF CommitUpdate
      <4>4. credited' = [credited EXCEPT ![tx[s].order] =
                credited[tx[s].order] + tx[s].row.amount]
        BY <1>10, <3>1 DEF CommitUpdate
      <4>. QED  BY <4>1, <4>2, <4>3, <4>4
    <3>2. CASE ~Compensates(tx[s])
      BY <1>10, <3>2 DEF CommitUpdate
    <3>. QED  BY <3>1, <3>2
  <2>6. events' \subseteq OrderIds \X Nat \X Statuses
    BY <1>10, <2>1 DEF CommitUpdate, OrderRows, Transactions
  <2>. QED  BY <1>10, <2>2, <2>3, <2>4, <2>5, <2>6 DEF CommitUpdate
<1>11. ASSUME NEW s \in Sessions, RollBack(s) PROVE TypeOK'
  BY <1>11 DEF RollBack
<1>12. ASSUME NEW a \in Actors, NEW st \in Stores, NEW u \in Uuids,
              ReplyFromCache(a, st, u)
       PROVE  TypeOK'
  <2>1. redis[<<a, st, u>>] \in OrderIds
    BY <1>12 DEF ReplyFromCache, Hit, Keys
  <2>. QED  BY <1>12, <2>1 DEF ReplyFromCache
<1>13. ASSUME NEW k \in Keys, ExpireKey(k) PROVE TypeOK'
  BY <1>13 DEF ExpireKey
<1>14. ASSUME NEW p \in Products, NEW d \in {-1, 1}, RecordMovement(p, d)
       PROVE  TypeOK'
  BY <1>14 DEF RecordMovement
<1>15. ASSUME NEW st \in Stores, NEW d \in {-1, 1}, RecordEntry(st, d)
       PROVE  TypeOK'
  BY <1>15 DEF RecordEntry
<1>16. CASE UNCHANGED vars
  BY <1>16 DEF vars
<1>17. ASSUME NEW s \in Sessions, Step(s) PROVE TypeOK'
  BY <1>3, <1>4, <1>5, <1>6, <1>7, <1>8, <1>9, <1>10, <1>11, <1>17
  DEF Step, InsufficientStock, DeadlockVictim, RollBack
<1>18. ASSUME NEW s \in Sessions, Request(s) PROVE TypeOK'
  BY <1>1, <1>2, <1>18 DEF Request
<1>. QED
  <2>1. CASE Environment
    BY <1>12, <1>13, <1>14, <1>15, <2>1 DEF Environment
  <2>2. ASSUME NEW s \in Sessions, Abort(s) PROVE TypeOK'
    BY <1>11, <2>2 DEF Abort, RollBack
  <2>. QED  BY <1>16, <1>17, <1>18, <2>1, <2>2 DEF Next

\* A step of a transaction past its insert that changes nothing in the
\* database but takes a lock.
Proceed(s) ==
    /\ Active(s) /\ tx[s].pc # "insert" /\ tx'[s].pc # "insert" /\ Active(s)'
    /\ tx'[s].kind = tx[s].kind /\ tx'[s].order = tx[s].order
    /\ tx'[s].row = tx[s].row /\ tx'[s].to = tx[s].to
    /\ tx' = [tx EXCEPT ![s] = tx'[s]]
    /\ UNCHANGED <<db, minted>>

LEMMA ProceedSteps ==
  ASSUME TypeOK, NEW s \in Sessions,
         \/ \E p \in Products : LockStock(s, p)
         \/ LockAccount(s) \/ SkipAccount(s)
         \/ \E ok \in BOOLEAN : PublishKey(s, ok)
  PROVE  Proceed(s)
<1>1. tx[s] \in Transactions /\ tx \in [Sessions -> Transactions \cup {Idle}]
  <2>1. Active(s)
    BY DEF LockStock, LockAccount, SkipAccount, PublishKey
  <2>. QED  BY <2>1 DEF TypeOK, Active, Idle
<1>2. ASSUME NEW p \in Products, LockStock(s, p) PROVE Proceed(s)
  <2>1. tx'[s] = [tx[s] EXCEPT !.todo = tx[s].todo \ {p},
                               !.held = tx[s].held \cup {p},
                               !.base = [tx[s].base EXCEPT ![p] = stock[p]]]
    BY <1>1, <1>2 DEF LockStock
  <2>. QED  BY <1>1, <1>2, <2>1 DEF LockStock, Proceed, Active, Transactions
<1>3. CASE LockAccount(s)
  <2>1. tx'[s] = [tx[s] EXCEPT !.pc = "publish", !.acct = TRUE,
                               !.bal = account[tx[s].row.store]]
    BY <1>1, <1>3 DEF LockAccount
  <2>. QED  BY <1>1, <1>3, <2>1 DEF LockAccount, Proceed, Active, Transactions
<1>4. CASE SkipAccount(s)
  <2>1. tx'[s] = [tx[s] EXCEPT !.pc = "publish"]
    BY <1>1, <1>4 DEF SkipAccount
  <2>. QED  BY <1>1, <1>4, <2>1 DEF SkipAccount, Proceed, Active, Transactions
<1>5. ASSUME NEW ok \in BOOLEAN, PublishKey(s, ok) PROVE Proceed(s)
  <2>1. tx'[s] = [tx[s] EXCEPT !.pc = "commit"]
    BY <1>1, <1>5 DEF PublishKey
  <2>. QED  BY <1>1, <1>5, <2>1 DEF PublishKey, Proceed, Active, Transactions
<1>. QED  BY <1>2, <1>3, <1>4, <1>5

LEMMA StepCases ==
  ASSUME TypeOK, NEW s \in Sessions, Step(s) \/ Abort(s)
  PROVE  \/ InsertOrder(s)
         \/ RollBack(s) \/ ResolveDuplicate(s)
         \/ Proceed(s)
         \/ \E told \in BOOLEAN : CommitCreate(s, told)
         \/ CommitUpdate(s)
  BY ProceedSteps DEF Step, Abort, InsufficientStock, DeadlockVictim

\* What the unique index on (store_id, client_uuid) keeps true.
Fresh ==
    /\ \A s \in Sessions, t \in Sessions :
        s # t /\ Inserted(s) /\ Inserted(t) =>
            /\ tx[s].order # tx[t].order
            /\ ~SameRequest(tx[s].row, tx[t].row)
    /\ \A s \in Sessions, o \in OrderIds :
        Inserted(s) /\ Exists(o) => ~SameRequest(orders[o], tx[s].row)
    /\ OneOrderPerUuid

LEMMA OnlyOneKnows ==
  ASSUME OrdersKnown, NEW s \in Sessions,
         orders' = orders, minted \subseteq minted',
         \A t \in Sessions \ {s} : tx'[t] = tx[t],
         Active(s)' => OrderKnown(s)'
  PROVE  OrdersKnown'
<1>1. ASSUME NEW t \in Sessions \ {s}, Active(t)' PROVE OrderKnown(t)'
  <2>1. Active(t) /\ OrderKnown(t) /\ tx'[t] = tx[t]
    BY <1>1 DEF OrdersKnown, Active
  <2>. QED  BY <2>1 DEF OrderKnown, Exists
<1>. QED  BY <1>1 DEF OrdersKnown, Exists

LEMMA NextOrdersKnown ==
  ASSUME TypeOK, OrdersKnown, Fresh, [Next]_vars
  PROVE  OrdersKnown'
<1> USE ConstantsAssumption
<1> USE DEF TypeOK, db, ledgers, others, Exists
<1>1. ASSUME NEW s \in Sessions, NEW a \in Actors, NEW st \in Stores,
             NEW u \in Uuids \cup {None}, NEW q \in Quotes, NEW up \in BOOLEAN,
             BeginCreate(s, a, st, u, q, up)
      PROVE  OrdersKnown'
  <2>1. orders' = orders /\ minted' = minted
    BY <1>1 DEF BeginCreate
  <2>2. \A t \in Sessions \ {s} : tx'[t] = tx[t]
    BY <1>1 DEF BeginCreate
  <2>3. /\ tx'[s].pc = "insert" /\ tx'[s].kind = "create"
        /\ tx'[s].row.status = "confirmed" /\ tx'[s].row.version = 1
    BY <1>1 DEF BeginCreate
  <2>. QED  BY <2>1, <2>2, <2>3 DEF OrdersKnown, OrderKnown, Active
<1>2. ASSUME NEW s \in Sessions, NEW o \in OrderIds, NEW to \in Targets,
             NEW v \in Versions, BeginUpdate(s, o, to, v)
      PROVE  OrdersKnown'
  <2>1. orders' = orders /\ minted' = minted
    BY <1>2 DEF BeginUpdate
  <2>2. \A t \in Sessions \ {s} : tx'[t] = tx[t]
    BY <1>2 DEF BeginUpdate
  <2>3. /\ tx'[s].pc # "insert" /\ tx'[s].kind = "update"
        /\ tx'[s].order = o /\ tx'[s].row = orders[o] /\ tx'[s].to = to
        /\ to \in NextStatuses[orders[o].status] /\ Exists(o)
    BY <1>2 DEF BeginUpdate
  <2>4. orders[o].status # "draft" /\ o \in minted
    BY <2>3 DEF OrdersKnown
  <2>5. OrderKnown(s)'
    BY <2>1, <2>3, <2>4 DEF OrderKnown, SameOrder
  <2>. QED  BY <2>1, <2>2, <2>5, OnlyOneKnows
<1>3. ASSUME NEW s \in Sessions, InsertOrder(s) PROVE OrdersKnown'
  <2>1. PICK o \in OrderIds \ minted :
           /\ minted' = minted \cup {o}
           /\ tx' = [tx EXCEPT ![s] = [@ EXCEPT !.pc = "stock", !.order = o]]
    BY <1>3 DEF InsertOrder
  <2>2. orders' = orders /\ tx[s] \in Transactions /\ tx[s].kind = "create"
    BY <1>3 DEF InsertOrder, OrdersKnown, OrderKnown, Active, Idle
  <2>3. \A t \in Sessions \ {s} : tx'[t] = tx[t]
    BY <2>1
  <2>4. /\ tx'[s].pc = "stock" /\ tx'[s].kind = "create" /\ tx'[s].order = o
        /\ tx'[s].row = tx[s].row
    BY <2>1, <2>2 DEF Transactions
  <2>5. ~Exists(o)
    BY DEF OrdersKnown
  <2>6. OrderKnown(s)
    BY <1>3 DEF InsertOrder, OrdersKnown
  <2>. QED  BY <2>1, <2>2, <2>3, <2>4, <2>5, <2>6 DEF OrdersKnown, OrderKnown, Active
<1>4. ASSUME NEW s \in Sessions, RollBack(s) \/ ResolveDuplicate(s)
      PROVE  OrdersKnown'
  <2>1. orders' = orders /\ minted' = minted
    BY <1>4 DEF RollBack, ResolveDuplicate
  <2>2. tx' = [tx EXCEPT ![s] = Idle]
    BY <1>4 DEF RollBack, ResolveDuplicate
  <2>. QED  BY <2>1, <2>2 DEF OrdersKnown, OrderKnown, Active, Idle
<1>5. ASSUME NEW s \in Sessions, Proceed(s) PROVE OrdersKnown'
  <2>1. orders' = orders /\ minted' = minted
    BY <1>5 DEF Proceed
  <2>2. \A t \in Sessions \ {s} : tx'[t] = tx[t]
    BY <1>5 DEF Proceed
  <2>3. /\ Active(s) /\ tx[s].pc # "insert" /\ tx'[s].pc # "insert"
        /\ tx'[s].kind = tx[s].kind /\ tx'[s].order = tx[s].order
        /\ tx'[s].row = tx[s].row /\ tx'[s].to = tx[s].to
    BY <1>5 DEF Proceed
  <2>4. OrderKnown(s)
    BY <2>3 DEF OrdersKnown
  <2>5. OrderKnown(s)'
    BY <2>1, <2>3, <2>4 DEF OrderKnown
  <2>. QED  BY <2>1, <2>2, <2>5, OnlyOneKnows
<1>6. ASSUME NEW s \in Sessions, NEW told \in BOOLEAN, CommitCreate(s, told)
      PROVE  OrdersKnown'
  <2>1. /\ Active(s) /\ OrderKnown(s) /\ tx[s].order \in minted
        /\ tx[s].row.status = "confirmed" /\ Inserted(s)
    BY <1>6 DEF CommitCreate, OrdersKnown, OrderKnown, Active, Inserted
  <2>2. /\ orders' = [orders EXCEPT ![tx[s].order] = tx[s].row]
        /\ minted' = minted /\ tx' = [tx EXCEPT ![s] = Idle]
    BY <1>6 DEF CommitCreate
  <2>3. ASSUME NEW t \in Sessions, Active(t)' PROVE OrderKnown(t)'
    <3>1. t # s /\ tx'[t] = tx[t] /\ OrderKnown(t) /\ Active(t)
      BY <2>2, <2>3 DEF Active, Idle, OrdersKnown
    <3>2. tx[t].kind = "create" /\ tx[t].pc # "insert" => tx[t].order # tx[s].order
      BY <2>1, <3>1 DEF Fresh, Inserted
    <3>3. tx[t].kind = "update" => tx[t].order # tx[s].order
      BY <2>1, <3>1, <1>6 DEF OrderKnown, CommitCreate
    <3>. QED  BY <2>2, <3>1, <3>2, <3>3 DEF OrderKnown
  <2>4. ASSUME NEW o \in OrderIds, Exists(o)'
        PROVE  o \in minted' /\ orders'[o].status # "draft"
    BY <2>1, <2>2, <2>4 DEF OrdersKnown
  <2>. QED  BY <2>3, <2>4 DEF OrdersKnown
<1>7. ASSUME NEW s \in Sessions, CommitUpdate(s) PROVE OrdersKnown'
  <2>1. /\ Active(s) /\ OrderKnown(s) /\ tx[s].order \in OrderIds
        /\ Exists(tx[s].order) /\ tx[s] \in Transactions
        /\ orders[tx[s].order] \in OrderRows
    BY <1>7 DEF CommitUpdate, OrdersKnown, OrderKnown, Active, Idle
  <2>2. /\ orders' = [orders EXCEPT ![tx[s].order] =
             [@ EXCEPT !.status = tx[s].to, !.version = tx[s].row.version + 1]]
        /\ minted' = minted /\ tx' = [tx EXCEPT ![s] = Idle]
    BY <1>7 DEF CommitUpdate
  <2>3. tx[s].to # "draft"
    BY <1>7, <2>1 DEF CommitUpdate, OrderKnown, NextStatuses, Transactions,
       OrderRows, Statuses
  <2>4. \A o \in OrderIds \ {tx[s].order} : orders'[o] = orders[o]
    BY <2>2
  <2>5. /\ orders'[tx[s].order] # None
        /\ SameOrder(orders'[tx[s].order], orders[tx[s].order])
        /\ orders'[tx[s].order].status = tx[s].to
    <3>1. orders'[tx[s].order] =
            [orders[tx[s].order] EXCEPT !.status = tx[s].to,
                                        !.version = tx[s].row.version + 1]
      BY <2>1, <2>2
    <3>2. orders'[tx[s].order] \in OrderRows
      <4>1. tx[s].to \in Statuses /\ tx[s].row.version + 1 \in Nat
        BY <2>1 DEF Transactions, OrderRows
      <4>. QED  BY <2>1, <3>1, <4>1 DEF OrderRows
    <3>3. /\ orders'[tx[s].order].store = orders[tx[s].order].store
          /\ orders'[tx[s].order].uuid = orders[tx[s].order].uuid
          /\ orders'[tx[s].order].basket = orders[tx[s].order].basket
          /\ orders'[tx[s].order].amount = orders[tx[s].order].amount
          /\ orders'[tx[s].order].status = tx[s].to
      BY <2>1, <3>1 DEF OrderRows
    <3>4. orders'[tx[s].order] # None
      BY <3>2, NoneAssumption
    <3>. QED  BY <3>3, <3>4 DEF SameOrder
  <2>6. ASSUME NEW t \in Sessions, Active(t)' PROVE OrderKnown(t)'
    <3>1. t # s /\ tx'[t] = tx[t] /\ OrderKnown(t) /\ Active(t)
      BY <2>2, <2>6 DEF Active, Idle, OrdersKnown
    <3>2. CASE tx[t].order = tx[s].order
      <4>1. tx[t].kind = "create" => tx[t].pc = "insert"
        BY <2>1, <3>1, <3>2 DEF OrderKnown
      <4>2. tx[t].kind = "update" => SameOrder(orders'[tx[t].order], tx[t].row)
        BY <2>5, <3>1, <3>2 DEF OrderKnown, SameOrder
      <4>. QED  BY <2>2, <2>5, <3>1, <3>2, <4>1, <4>2 DEF OrderKnown
    <3>3. CASE tx[t].order # tx[s].order
      <4>1. tx[t].pc # "insert" => orders'[tx[t].order] = orders[tx[t].order]
        BY <2>4, <3>1, <3>3 DEF OrderKnown
      <4>2. tx[t].kind = "update" => tx[t].pc # "insert"
        BY <3>1 DEF OrderKnown
      <4>. QED  BY <2>2, <3>1, <4>1, <4>2 DEF OrderKnown
    <3>. QED  BY <3>2, <3>3
  <2>7. ASSUME NEW o \in OrderIds, Exists(o)'
        PROVE  o \in minted' /\ orders'[o].status # "draft"
    BY <2>1, <2>2, <2>3, <2>4, <2>5, <2>7 DEF OrdersKnown, OrderKnown
  <2>. QED  BY <2>6, <2>7 DEF OrdersKnown
<1>8. CASE Environment \/ UNCHANGED vars
  <2>1. orders' = orders /\ minted' = minted /\ tx' = tx
    BY <1>8 DEF Environment, ReplyFromCache, ExpireKey, RecordMovement,
       RecordEntry, vars
  <2>. QED  BY <2>1 DEF OrdersKnown, OrderKnown, Active
<1>. QED
  BY <1>1, <1>2, <1>3, <1>4, <1>5, <1>6, <1>7, <1>8, StepCases
  DEF Next, Request

-----------------------------------------------------------------------------

\* Steps that insert and commit no new order keep Fresh.
SameRequests ==
    /\ \A o \in OrderIds : orders'[o] # None =>
        /\ Exists(o)
        /\ orders'[o].store = orders[o].store /\ orders'[o].uuid = orders[o].uuid
    /\ \A s \in Sessions : Inserted(s)' =>
        /\ Inserted(s)
        /\ tx'[s].row = tx[s].row /\ tx'[s].order = tx[s].order

LEMMA FreshKept ==
  ASSUME Fresh, SameRequests
  PROVE  Fresh'
<1>1. ASSUME NEW s \in Sessions, NEW t \in Sessions, s # t, Inserted(s)', Inserted(t)'
      PROVE  tx'[s].order # tx'[t].order /\ ~SameRequest(tx'[s].row, tx'[t].row)
  BY <1>1 DEF Fresh, SameRequests
<1>2. ASSUME NEW s \in Sessions, NEW o \in OrderIds, Inserted(s)', orders'[o] # None
      PROVE  ~SameRequest(orders'[o], tx'[s].row)
  BY <1>2 DEF Fresh, SameRequests, SameRequest
<1>3. OneOrderPerUuid'
  BY DEF Fresh, SameRequests, OneOrderPerUuid, SameRequest, Exists
<1>. QED  BY <1>1, <1>2, <1>3 DEF Fresh, Exists

LEMMA NextFresh ==
  ASSUME TypeOK, OrdersKnown, Fresh, [Next]_vars
  PROVE  Fresh'
<1> USE DEF TypeOK, db, ledgers, others
<1>1. ASSUME NEW s \in Sessions, NEW a \in Actors, NEW st \in Stores,
             NEW u \in Uuids \cup {None}, NEW q \in Quotes, NEW up \in BOOLEAN,
             BeginCreate(s, a, st, u, q, up)
      PROVE  Fresh'
  <2>1. orders' = orders /\ \A t \in Sessions \ {s} : tx'[t] = tx[t]
    BY <1>1 DEF BeginCreate
  <2>2. tx'[s].pc = "insert"
    BY <1>1 DEF BeginCreate
  <2>. QED  BY <2>1, <2>2, FreshKept DEF SameRequests, Inserted, Active, Exists
<1>2. ASSUME NEW s \in Sessions, NEW o \in OrderIds, NEW to \in Targets,
             NEW v \in Versions, BeginUpdate(s, o, to, v)
      PROVE  Fresh'
  <2>1. orders' = orders /\ \A t \in Sessions \ {s} : tx'[t] = tx[t]
    BY <1>2 DEF BeginUpdate
  <2>2. tx'[s].kind = "update"
    BY <1>2 DEF BeginUpdate
  <2>. QED  BY <2>1, <2>2, FreshKept DEF SameRequests, Inserted, Active, Exists
<1>3. ASSUME NEW s \in Sessions, InsertOrder(s) PROVE Fresh'
  <2>1. PICK o \in OrderIds \ minted :
           tx' = [tx EXCEPT ![s] = [@ EXCEPT !.pc = "stock", !.order = o]]
    BY <1>3 DEF InsertOrder
  <2>2. orders' = orders /\ tx[s] \in Transactions /\ MayInsert(s) /\ Twins(s) = {}
    BY <1>3 DEF InsertOrder, Active, Idle
  <2>3. \A t \in Sessions \ {s} : tx'[t] = tx[t]
    BY <2>1
  <2>4. tx'[s].order = o /\ tx'[s].row = tx[s].row
    BY <2>1, <2>2 DEF Transactions
  <2>5. ASSUME NEW t \in Sessions \ {s}, Inserted(t)'
        PROVE  /\ Inserted(t) /\ tx'[t] = tx[t] /\ tx[t].order # o
               /\ ~SameRequest(tx[t].row, tx[s].row)
    <3>1. Inserted(t) /\ tx'[t] = tx[t]
      BY <2>3, <2>5 DEF Inserted, Active
    <3>. QED  BY <2>1, <2>2, <3>1 DEF Inserted, OrdersKnown, OrderKnown, MayInsert
  <2>6. \A q \in OrderIds : Exists(q) => ~SameRequest(orders[q], tx[s].row)
    BY <2>2 DEF Twins
  <2>7. \A r1, r2 : SameRequest(r1, r2) => SameRequest(r2, r1)
    BY DEF SameRequest
  <2>8. ASSUME NEW r \in Sessions, NEW t \in Sessions, r # t,
               Inserted(r)', Inserted(t)'
        PROVE  tx'[r].order # tx'[t].order /\ ~SameRequest(tx'[r].row, tx'[t].row)
    <3>1. CASE r = s
      BY <2>4, <2>5, <2>7, <2>8, <3>1
    <3>2. CASE t = s
      BY <2>4, <2>5, <2>8, <3>2
    <3>3. CASE r # s /\ t # s
      BY <2>5, <2>8, <3>3 DEF Fresh
    <3>. QED  BY <3>1, <3>2, <3>3
  <2>9. ASSUME NEW t \in Sessions, NEW q \in OrderIds, Inserted(t)', Exists(q)'
        PROVE  ~SameRequest(orders'[q], tx'[t].row)
    BY <2>2, <2>4, <2>5, <2>6, <2>9 DEF Fresh, Exists
  <2>. QED  BY <2>2, <2>8, <2>9 DEF Fresh, OneOrderPerUuid, Exists
<1>4. ASSUME NEW s \in Sessions, RollBack(s) \/ ResolveDuplicate(s) PROVE Fresh'
  <2>1. orders' = orders /\ tx' = [tx EXCEPT ![s] = Idle]
    BY <1>4 DEF RollBack, ResolveDuplicate
  <2>. QED  BY <2>1, FreshKept DEF SameRequests, Inserted, Active, Idle, Exists
<1>5. ASSUME NEW s \in Sessions, Proceed(s) PROVE Fresh'
  <2>1. orders' = orders /\ \A t \in Sessions \ {s} : tx'[t] = tx[t]
    BY <1>5 DEF Proceed
  <2>. QED  BY <1>5, <2>1, FreshKept DEF SameRequests, Proceed, Inserted, Active, Exists
<1>6. ASSUME NEW s \in Sessions, NEW told \in BOOLEAN, CommitCreate(s, told)
      PROVE  Fresh'
  <2>1. /\ Inserted(s) /\ OrderKnown(s) /\ tx[s].order \in OrderIds
        /\ ~Exists(tx[s].order)
    BY <1>6 DEF CommitCreate, OrdersKnown, OrderKnown, Active, Inserted
  <2>2. /\ orders' = [orders EXCEPT ![tx[s].order] = tx[s].row]
        /\ tx' = [tx EXCEPT ![s] = Idle]
    BY <1>6 DEF CommitCreate
  <2>3. ASSUME NEW t \in Sessions, Inserted(t)'
        PROVE  t # s /\ tx'[t] = tx[t] /\ Inserted(t)
    BY <2>2, <2>3 DEF Inserted, Active, Idle
  <2>4. \A r1, r2 : SameRequest(r1, r2) => SameRequest(r2, r1)
    BY DEF SameRequest
  <2>5. ASSUME NEW t \in Sessions, NEW q \in OrderIds, Inserted(t)', Exists(q)'
        PROVE  ~SameRequest(orders'[q], tx'[t].row)
    BY <2>1, <2>2, <2>3, <2>5 DEF Fresh, Exists
  <2>6. OneOrderPerUuid'
    <3>1. ASSUME NEW q \in OrderIds, NEW r \in OrderIds, Exists(q)', Exists(r)',
                 SameRequest(orders'[q], orders'[r])
          PROVE  q = r
      BY <2>1, <2>2, <2>4, <3>1 DEF Fresh, OneOrderPerUuid, Exists
    <3>. QED  BY <3>1 DEF OneOrderPerUuid, Exists
  <2>. QED  BY <2>3, <2>5, <2>6 DEF Fresh, Exists
<1>7. ASSUME NEW s \in Sessions, CommitUpdate(s) PROVE Fresh'
  <2>1. /\ Exists(tx[s].order) /\ tx[s].order \in OrderIds
        /\ orders[tx[s].order] \in OrderRows
    BY <1>7 DEF CommitUpdate, OrdersKnown, OrderKnown, Active, Exists
  <2>2. /\ orders' = [orders EXCEPT ![tx[s].order] =
             [@ EXCEPT !.status = tx[s].to, !.version = tx[s].row.version + 1]]
        /\ tx' = [tx EXCEPT ![s] = Idle]
    BY <1>7 DEF CommitUpdate
  <2>3. \A o \in OrderIds : orders'[o] # None =>
          /\ Exists(o)
          /\ orders'[o].store = orders[o].store /\ orders'[o].uuid = orders[o].uuid
    BY <2>1, <2>2 DEF OrderRows, Exists
  <2>4. \A t \in Sessions : Inserted(t)' => t # s /\ Inserted(t) /\ tx'[t] = tx[t]
    BY <2>2 DEF Inserted, Active, Idle
  <2>. QED  BY <2>3, <2>4, FreshKept DEF SameRequests
<1>8. CASE Environment \/ UNCHANGED vars
  <2>1. orders' = orders /\ tx' = tx
    BY <1>8 DEF Environment, ReplyFromCache, ExpireKey, RecordMovement,
       RecordEntry, vars
  <2>. QED  BY <2>1, FreshKept DEF SameRequests, Inserted, Active, Exists
<1>. QED
  BY <1>1, <1>2, <1>3, <1>4, <1>5, <1>6, <1>7, <1>8, StepCases
  DEF Next, Request

-----------------------------------------------------------------------------

\* Which locks a transaction holds at each point.
LockSet(s) ==
    LET t == tx[s] IN
    /\ t.pc = "insert" => t.held = {}
    /\ t.pc \in {"insert", "stock"} => ~t.acct
    /\ IF Posts(t) THEN t.held \cup t.todo = Lines(t.row)
                   ELSE t.held = {} /\ ~t.acct /\ t.pc = "commit"
    /\ t.pc \in {"publish", "commit"} /\ Posts(t) =>
        /\ t.todo = {}
        /\ t.acct <=> t.row.amount > 0
    /\ t.kind = "create" => \A p \in t.held : t.base[p] >= t.row.basket[p]

Locks ==
    /\ LockedIsCurrent
    /\ \A s \in Sessions : Active(s) => LockSet(s)

\* Steps of one session that change no balance.
LEMMA LocksKept ==
  ASSUME Locks, NEW s \in Sessions, stock' = stock, account' = account,
         \A t \in Sessions \ {s} : tx'[t] = tx[t],
         Active(s)' =>
            /\ LockSet(s)'
            /\ \A p \in tx'[s].held : /\ tx'[s].base[p] = stock[p]
                                     /\ \A t \in Sessions \ {s} : ~HoldsStock(t, p)
            /\ tx'[s].acct =>
                /\ tx'[s].bal = account[tx'[s].row.store]
                /\ \A t \in Sessions \ {s} : ~HoldsAccount(t, tx'[s].row.store)
  PROVE  Locks'
<1>1. ASSUME NEW t \in Sessions \ {s}, Active(t)'
      PROVE  Active(t) /\ LockSet(t)' /\ LockSet(t) /\ tx'[t] = tx[t]
  <2>1. Active(t) /\ tx'[t] = tx[t] /\ LockSet(t)
    BY <1>1 DEF Active, Locks
  <2>. QED  BY <2>1 DEF LockSet, Posts, Compensates, Lines
<1>2. ASSUME NEW t \in Sessions, Active(t)'
      PROVE  /\ \A p \in tx'[t].held : tx'[t].base[p] = stock'[p]
             /\ tx'[t].acct => tx'[t].bal = account'[tx'[t].row.store]
  BY <1>1, <1>2 DEF Locks, LockedIsCurrent
<1>3. ASSUME NEW r \in Sessions, NEW t \in Sessions, r # t, Active(r)', Active(t)'
      PROVE  /\ tx'[r].held \cap tx'[t].held = {}
             /\ ~(tx'[r].acct /\ tx'[t].acct /\ tx'[r].row.store = tx'[t].row.store)
  <2>1. CASE r = s
    BY <1>1, <1>3, <2>1 DEF HoldsStock, HoldsAccount
  <2>2. CASE t = s
    BY <1>1, <1>3, <2>2 DEF HoldsStock, HoldsAccount
  <2>3. CASE r # s /\ t # s
    BY <1>1, <1>3, <2>3 DEF Locks, LockedIsCurrent
  <2>. QED  BY <2>1, <2>2, <2>3
<1>. QED  BY <1>1, <1>2, <1>3 DEF Locks, LockedIsCurrent

\* Steps that start no transaction, take no lock and change no balance that
\* a remaining transaction has locked.
LEMMA LocksOfOthers ==
  ASSUME Locks,
         \A t \in Sessions : Active(t)' =>
            /\ Active(t) /\ tx'[t] = tx[t]
            /\ \A p \in tx[t].held : stock'[p] = stock[p]
            /\ tx[t].acct => account'[tx[t].row.store] = account[tx[t].row.store]
  PROVE  Locks'
<1>1. ASSUME NEW t \in Sessions, Active(t)' PROVE LockSet(t)'
  BY <1>1 DEF LockSet, Posts, Compensates, Lines, Locks
<1>2. LockedIsCurrent'
  BY DEF Locks, LockedIsCurrent
<1>. QED  BY <1>1, <1>2 DEF Locks

LEMMA NextLocks ==
  ASSUME TypeOK, OrdersKnown, Locks, [Next]_vars
  PROVE  Locks'
<1> USE DEF TypeOK, db, ledgers, others
<1>1. ASSUME NEW s \in Sessions, NEW a \in Actors, NEW st \in Stores,
             NEW u \in Uuids \cup {None}, NEW q \in Quotes, NEW up \in BOOLEAN,
             BeginCreate(s, a, st, u, q, up)
      PROVE  Locks'
  <2>1. /\ stock' = stock /\ account' = account
        /\ \A t \in Sessions \ {s} : tx'[t] = tx[t]
    BY <1>1 DEF BeginCreate
  <2>2. /\ tx'[s].pc = "insert" /\ tx'[s].kind = "create" /\ tx'[s].held = {}
        /\ tx'[s].acct = FALSE /\ tx'[s].row.basket = q[1]
        /\ tx'[s].todo = {p \in Products : q[1][p] > 0}
    BY <1>1 DEF BeginCreate
  <2>3. LockSet(s)'
    BY <2>2 DEF LockSet, Posts, Lines
  <2>. QED  BY <2>1, <2>2, <2>3, LocksKept
<1>2. ASSUME NEW s \in Sessions, NEW o \in OrderIds, NEW to \in Targets,
             NEW v \in Versions, BeginUpdate(s, o, to, v)
      PROVE  Locks'
  <2>1. /\ stock' = stock /\ account' = account
        /\ \A t \in Sessions \ {s} : tx'[t] = tx[t]
    BY <1>2 DEF BeginUpdate
  <2>2. /\ tx'[s].kind = "update" /\ tx'[s].held = {} /\ tx'[s].acct = FALSE
        /\ tx'[s].row = orders[o] /\ tx'[s].to = to
        /\ IF to = "canceled" /\ orders[o].status \in Compensable
           THEN tx'[s].pc = "stock" /\ tx'[s].todo = Lines(orders[o])
           ELSE tx'[s].pc = "commit" /\ tx'[s].todo = {}
    BY <1>2 DEF BeginUpdate
  <2>3. LockSet(s)'
    BY <2>2 DEF LockSet, Posts, Compensates
  <2>. QED  BY <2>1, <2>2, <2>3, LocksKept
<1>3. ASSUME NEW s \in Sessions, InsertOrder(s) PROVE Locks'
  <2>1. PICK o \in OrderIds \ minted :
           tx' = [tx EXCEPT ![s] = [@ EXCEPT !.pc = "stock", !.order = o]]
    BY <1>3 DEF InsertOrder
  <2>2. /\ stock' = stock /\ account' = account /\ tx[s] \in Transactions
        /\ Active(s) /\ tx[s].pc = "insert" /\ LockSet(s)
        /\ tx[s].kind = "create"
    BY <1>3 DEF InsertOrder, Active, Idle, Locks, OrdersKnown, OrderKnown
  <2>3. /\ tx'[s].pc = "stock" /\ tx'[s].kind = "create"
        /\ tx'[s].held = tx[s].held /\ tx'[s].todo = tx[s].todo
        /\ tx'[s].acct = tx[s].acct /\ tx'[s].row = tx[s].row
    BY <2>1, <2>2 DEF Transactions
  <2>4. LockSet(s)' /\ tx'[s].held = {} /\ ~tx'[s].acct
    BY <2>2, <2>3 DEF LockSet, Posts, Lines
  <2>. QED  BY <2>1, <2>2, <2>4, LocksKept
<1>4. ASSUME NEW s \in Sessions, RollBack(s) \/ ResolveDuplicate(s) PROVE Locks'
  <2>1. stock' = stock /\ account' = account /\ tx' = [tx EXCEPT ![s] = Idle]
    BY <1>4 DEF RollBack, ResolveDuplicate
  <2>2. \A t \in Sessions : Active(t)' => Active(t) /\ tx'[t] = tx[t]
    BY <2>1 DEF Active, Idle
  <2>. QED  BY <2>1, <2>2, LocksOfOthers
<1>5. ASSUME NEW s \in Sessions, NEW p \in Products, LockStock(s, p) PROVE Locks'
  <2>1. /\ stock' = stock /\ account' = account /\ tx[s] \in Transactions
        /\ Active(s) /\ tx[s].pc = "stock" /\ LockSet(s) /\ p \in tx[s].todo
        /\ StockFree(s, p)
        /\ tx[s].kind = "create" => stock[p] >= tx[s].row.basket[p]
    BY <1>5 DEF LockStock, Active, Idle, Locks
  <2>2. tx'[s] = [tx[s] EXCEPT !.todo = tx[s].todo \ {p},
                               !.held = tx[s].held \cup {p},
                               !.base = [tx[s].base EXCEPT ![p] = stock[p]]]
    BY <1>5 DEF LockStock
  <2>3. /\ tx'[s].pc = "stock" /\ tx'[s].kind = tx[s].kind
        /\ tx'[s].held = tx[s].held \cup {p} /\ tx'[s].todo = tx[s].todo \ {p}
        /\ tx'[s].base = [tx[s].base EXCEPT ![p] = stock[p]]
        /\ tx'[s].acct = tx[s].acct /\ tx'[s].row = tx[s].row
        /\ tx'[s].to = tx[s].to
    BY <2>1, <2>2 DEF Transactions
  <2>4. /\ tx[s].base \in [Products -> Int] /\ tx[s].held \subseteq Products
        /\ \A r \in tx[s].held : tx[s].base[r] = stock[r]
    BY <2>1 DEF Transactions, Locks, LockedIsCurrent
  <2>5. \A r \in tx'[s].held : tx'[s].base[r] = stock[r]
    BY <2>3, <2>4
  <2>6. Posts(tx[s]) /\ Posts(tx'[s])
    BY <2>1, <2>3 DEF LockSet, Posts, Compensates
  <2>7. LockSet(s)'
    BY <2>1, <2>3, <2>4, <2>5, <2>6 DEF LockSet, Posts, Compensates, Lines
  <2>8. \A r \in tx'[s].held : \A t \in Sessions \ {s} : ~HoldsStock(t, r)
    BY <2>1, <2>3 DEF StockFree, HoldsStock, Locks, LockedIsCurrent
  <2>9. ~tx'[s].acct
    BY <2>1, <2>3 DEF LockSet
  <2>10. \A t \in Sessions \ {s} : tx'[t] = tx[t]
    BY <1>5 DEF LockStock
  <2>. QED  BY <2>1, <2>5, <2>7, <2>8, <2>9, <2>10, LocksKept
<1>6. ASSUME NEW s \in Sessions, LockAccount(s) \/ SkipAccount(s) PROVE Locks'
  <2>1. /\ stock' = stock /\ account' = account /\ tx[s] \in Transactions
        /\ Active(s) /\ tx[s].pc = "stock" /\ LockSet(s) /\ tx[s].todo = {}
        /\ \A t \in Sessions \ {s} : tx'[t] = tx[t]
    BY <1>6 DEF LockAccount, SkipAccount, Active, Idle, Locks
  <2>2. /\ tx'[s].pc = "publish" /\ tx'[s].kind = tx[s].kind
        /\ tx'[s].held = tx[s].held /\ tx'[s].todo = tx[s].todo
        /\ tx'[s].base = tx[s].base /\ tx'[s].row = tx[s].row /\ tx'[s].to = tx[s].to
        /\ tx'[s].acct <=> tx[s].row.amount > 0
        /\ tx'[s].acct => /\ tx'[s].bal = account[tx[s].row.store]
                          /\ AccountFree(s, tx[s].row.store)
    <3>1. CASE LockAccount(s)
      <4>1. tx'[s] = [tx[s] EXCEPT !.pc = "publish", !.acct = TRUE,
                                   !.bal = account[tx[s].row.store]]
        BY <3>1 DEF LockAccount
      <4>. QED  BY <2>1, <3>1, <4>1 DEF LockAccount, Transactions
    <3>2. CASE SkipAccount(s)
      <4>1. tx'[s] = [tx[s] EXCEPT !.pc = "publish"]
        BY <3>2 DEF SkipAccount
      <4>. QED  BY <2>1, <3>2, <4>1 DEF SkipAccount, Transactions, LockSet
    <3>. QED  BY <1>6, <3>1, <3>2
  <2>3. Posts(tx[s]) /\ Posts(tx'[s])
    BY <2>1, <2>2 DEF LockSet, Posts, Compensates
  <2>4. LockSet(s)'
    BY <2>1, <2>2, <2>3 DEF LockSet, Posts, Compensates, Lines
  <2>5. \A r \in tx'[s].held : /\ tx'[s].base[r] = stock[r]
                              /\ \A t \in Sessions \ {s} : ~HoldsStock(t, r)
    BY <2>1, <2>2 DEF Locks, LockedIsCurrent, HoldsStock
  <2>. QED  BY <2>1, <2>2, <2>4, <2>5, LocksKept DEF AccountFree
<1>7. ASSUME NEW s \in Sessions, NEW ok \in BOOLEAN, PublishKey(s, ok) PROVE Locks'
  <2>1. /\ stock' = stock /\ account' = account /\ tx[s] \in Transactions
        /\ Active(s) /\ tx[s].pc = "publish" /\ LockSet(s)
        /\ \A t \in Sessions \ {s} : tx'[t] = tx[t]
        /\ tx'[s] = [tx[s] EXCEPT !.pc = "commit"]
    BY <1>7 DEF PublishKey, Active, Idle, Locks
  <2>2. /\ tx'[s].pc = "commit" /\ tx'[s].kind = tx[s].kind
        /\ tx'[s].held = tx[s].held /\ tx'[s].todo = tx[s].todo
        /\ tx'[s].base = tx[s].base /\ tx'[s].row = tx[s].row /\ tx'[s].to = tx[s].to
        /\ tx'[s].acct = tx[s].acct /\ tx'[s].bal = tx[s].bal
    BY <2>1 DEF Transactions
  <2>3. LockSet(s)'
    BY <2>1, <2>2 DEF LockSet, Posts, Compensates, Lines
  <2>4. \A r \in tx'[s].held : /\ tx'[s].base[r] = stock[r]
                              /\ \A t \in Sessions \ {s} : ~HoldsStock(t, r)
    BY <2>1, <2>2 DEF Locks, LockedIsCurrent, HoldsStock
  <2>5. tx'[s].acct =>
          /\ tx'[s].bal = account[tx'[s].row.store]
          /\ \A t \in Sessions \ {s} : ~HoldsAccount(t, tx'[s].row.store)
    BY <2>1, <2>2 DEF Locks, LockedIsCurrent, HoldsAccount
  <2>. QED  BY <2>1, <2>3, <2>4, <2>5, LocksKept
<1>8. ASSUME NEW s \in Sessions,
             CommitUpdate(s) \/ \E told \in BOOLEAN : CommitCreate(s, told)
      PROVE  Locks'
  <2>1. /\ Active(s) /\ stock' = StockAfter(tx[s]) /\ account' = AccountAfter(tx[s])
        /\ tx' = [tx EXCEPT ![s] = Idle]
    BY <1>8 DEF CommitCreate, CommitUpdate, Active
  <2>2. \A t \in Sessions : Active(t)' => t # s /\ Active(t) /\ tx'[t] = tx[t]
    BY <2>1 DEF Active, Idle
  <2>3. ASSUME NEW t \in Sessions \ {s}, Active(t)
        PROVE  /\ \A p \in tx[t].held : stock'[p] = stock[p]
               /\ tx[t].acct => account'[tx[t].row.store] = account[tx[t].row.store]
    <3>1. tx[t] \in Transactions /\ tx[t].row.store \in Stores
          /\ tx[t].held \subseteq Products
      BY <2>3 DEF Active, Idle, Transactions, OrderRows
    <3>2. \A p \in tx[t].held : p \notin tx[s].held
      BY <2>1, <2>3 DEF Locks, LockedIsCurrent
    <3>3. tx[t].acct /\ tx[s].acct => tx[t].row.store # tx[s].row.store
      BY <2>1, <2>3 DEF Locks, LockedIsCurrent
    <3>. QED  BY <2>1, <3>1, <3>2, <3>3 DEF StockAfter, AccountAfter
  <2>. QED  BY <2>2, <2>3, LocksOfOthers
<1>9. CASE Environment \/ UNCHANGED vars
  <2>1. tx' = tx
    BY <1>9 DEF Environment, ReplyFromCache, ExpireKey, RecordMovement,
       RecordEntry, vars
  <2>2. ASSUME NEW t \in Sessions, Active(t)
        PROVE  /\ \A p \in tx[t].held : stock'[p] = stock[p]
               /\ tx[t].acct => account'[tx[t].row.store] = account[tx[t].row.store]
    <3>1. tx[t].held \subseteq Products /\ tx[t].row.store \in Stores
      BY <2>2 DEF Active, Idle, Transactions, OrderRows
    <3>2. CASE stock' = stock /\ account' = account
      BY <3>2
    <3>3. ASSUME NEW p \in Products, NEW d \in {-1, 1}, RecordMovement(p, d)
          PROVE  /\ \A r \in tx[t].held : stock'[r] = stock[r]
                 /\ account' = account
      <4>1. stock' = [stock EXCEPT ![p] = @ + d] /\ account' = account
        BY <3>3 DEF RecordMovement
      <4>2. p \notin tx[t].held
        BY <2>2, <3>3 DEF RecordMovement, HoldsStock
      <4>. QED  BY <3>1, <4>1, <4>2
    <3>4. ASSUME NEW st \in Stores, NEW d \in {-1, 1}, RecordEntry(st, d)
          PROVE  /\ stock' = stock
                 /\ tx[t].acct => account'[tx[t].row.store] = account[tx[t].row.store]
      <4>1. stock' = stock /\ account' = [account EXCEPT ![st] = @ + d]
        BY <3>4 DEF RecordEntry
      <4>2. tx[t].acct => tx[t].row.store # st
        BY <2>2, <3>4 DEF RecordEntry, HoldsAccount
      <4>. QED  BY <3>1, <4>1, <4>2
    <3>5. \/ stock' = stock /\ account' = account
          \/ \E p \in Products, d \in {-1, 1} : RecordMovement(p, d)
          \/ \E st \in Stores, d \in {-1, 1} : RecordEntry(st, d)
      BY <1>9 DEF Environment, ReplyFromCache, ExpireKey, vars
    <3>. QED  BY <3>2, <3>3, <3>4, <3>5
  <2>. QED  BY <2>1, <2>2, LocksOfOthers DEF Active
<1>. QED
  BY <1>1, <1>2, <1>3, <1>4, <1>5, <1>6, <1>7, <1>8, <1>9
  DEF Next, Request, Step, Abort, InsufficientStock, DeadlockVictim

-----------------------------------------------------------------------------

\* The inductive invariant.
Inv == TypeOK /\ OrdersKnown /\ Fresh /\ Locks

LEMMA InitInv == Init => Inv
<1> SUFFICES ASSUME Init PROVE Inv
  OBVIOUS
<1>1. TypeOK /\ OrdersKnown
  BY InitTypeOK
<1>2. \A s \in Sessions : ~Active(s)
  BY DEF Init, Active, Idle
<1>3. \A o \in OrderIds : ~Exists(o)
  BY DEF Init, Exists
<1>4. Fresh /\ Locks
  BY <1>2, <1>3 DEF Fresh, Inserted, OneOrderPerUuid, Locks, LockedIsCurrent
<1>. QED  BY <1>1, <1>4 DEF Inv

LEMMA NextInv == Inv /\ [Next]_vars => Inv'
  BY NextTypeOK, NextOrdersKnown, NextFresh, NextLocks DEF Inv

\* The invariant holds in every reachable state.
THEOREM Invariance == Spec => []Inv
  BY InitInv, NextInv, PTL DEF Spec

\* Every reachable state is well formed.
THEOREM TypeCorrect == Spec => []TypeOK
<1>1. Inv => TypeOK
  BY DEF Inv
<1>. QED  BY <1>1, Invariance, PTL

\* A balance read under its row lock is current until the transaction ends,
\* and no row is locked by two transactions.
THEOREM LocksProtect == Spec => []LockedIsCurrent
<1>1. Inv => LockedIsCurrent
  BY DEF Inv, Locks
<1>. QED  BY <1>1, Invariance, PTL

\* A client_uuid makes at most one order in a store.
THEOREM UuidUsedOnce == Spec => []OneOrderPerUuid
<1>1. Inv => OneOrderPerUuid
  BY DEF Inv, Fresh
<1>. QED  BY <1>1, Invariance, PTL

-----------------------------------------------------------------------------
(* Sums *)

\* Among the subsets of a finite set that belong to B, one has no smaller one
\* within it: what an induction over finite sets rests on.
LEMMA SmallestSubset ==
  ASSUME NEW S, IsFiniteSet(S), NEW B \in SUBSET SUBSET S, B # {}
  PROVE  \E T \in B : \A U \in SUBSET T : U \in B => U = T
<1>. DEFINE Sizes == {Cardinality(T) : T \in B}
<1>1. \A T \in B : IsFiniteSet(T) /\ Cardinality(T) \in Nat
  BY FS_Subset, FS_CardinalityType
<1>2. Sizes # {} /\ Sizes \subseteq Nat
  BY <1>1
<1>3. PICK n \in Sizes : \A m \in Sizes : ~ (<<m, n>> \in OpToRel(<, Nat))
  <2>. HIDE DEF Sizes
  <2>. QED  BY <1>2, NatLessThanWellFounded, WFMin
<1>4. PICK T \in B : Cardinality(T) = n
  OBVIOUS
<1>5. ASSUME NEW U \in SUBSET T, U \in B PROVE U = T
  <2>1. ~ (Cardinality(U) < Cardinality(T))
    BY <1>1, <1>3, <1>4, <1>5 DEF OpToRel
  <2>2. Cardinality(U) <= Cardinality(T) /\ (Cardinality(U) = Cardinality(T) => U = T)
    BY <1>1, FS_Subset
  <2>. QED  BY <1>1, <1>5, <2>1, <2>2
<1>. QED  BY <1>5

Pick(s) == CHOOSE x \in s : TRUE

\* it[s] adds up f over s, one element after the other.
AddsUp(it, f, S) ==
    it = [s \in SUBSET S |-> IF s = {} THEN 0 ELSE f[Pick(s)] + it[s \ {Pick(s)}]]

LEMMA SumIsChosen ==
  ASSUME NEW f, NEW S
  PROVE  SumFunctionOnSet(f, S) = (CHOOSE it : AddsUp(it, f, S))[S]
  BY DEF SumFunctionOnSet, FoldFunctionOnSet, MapThenFoldSet, AddsUp, Pick

LEMMA PickIsMember == \A s : s # {} => Pick(s) \in s
  BY DEF Pick

LEMMA AddsUpAtMostOnce ==
  ASSUME NEW f, NEW S, IsFiniteSet(S), NEW it, AddsUp(it, f, S), NEW jt, AddsUp(jt, f, S)
  PROVE  it[S] = jt[S]
<1>. DEFINE B == {s \in SUBSET S : it[s] # jt[s]}
<1>1. SUFFICES ASSUME B # {} PROVE FALSE
  OBVIOUS
<1>2. \E T \in B : \A U \in SUBSET T : U \in B => U = T
  <2>1. B \in SUBSET SUBSET S
    OBVIOUS
  <2>. HIDE DEF B
  <2>. QED  BY <1>1, <2>1, SmallestSubset
<1>3. PICK T \in B : \A U \in SUBSET T : U \in B => U = T
  BY <1>2
<1>4. T # {} 
  BY DEF AddsUp
<1>5. Pick(T) \in T
  BY <1>4, PickIsMember
<1>6. T \ {Pick(T)} \in SUBSET T /\ T \ {Pick(T)} # T
  BY <1>5
<1>7. it[T \ {Pick(T)}] = jt[T \ {Pick(T)}]
  BY <1>3, <1>6
<1>8. /\ it[T] = f[Pick(T)] + it[T \ {Pick(T)}]
      /\ jt[T] = f[Pick(T)] + jt[T \ {Pick(T)}]
  BY <1>4 DEF AddsUp
<1>. QED  BY <1>7, <1>8

Unfolds(f, T) ==
    SumFunctionOnSet(f, T) =
        IF T = {} THEN 0 ELSE f[Pick(T)] + SumFunctionOnSet(f, T \ {Pick(T)})

\* A sum over a finite set is what its recursive definition says.
LEMMA SumUnfolds ==
  ASSUME NEW f, NEW S, IsFiniteSet(S)
  PROVE  Unfolds(f, S)
<1>. DEFINE B == {T \in SUBSET S : ~Unfolds(f, T)}
<1>1. SUFFICES ASSUME B # {} PROVE FALSE
  OBVIOUS
<1>2. \E T \in B : \A U \in SUBSET T : U \in B => U = T
  <2>1. B \in SUBSET SUBSET S
    OBVIOUS
  <2>. HIDE DEF B
  <2>. QED  BY <1>1, <2>1, SmallestSubset
<1>3. PICK T \in B : \A U \in SUBSET T : U \in B => U = T
  BY <1>2
<1>. DEFINE Rest(s) == s \ {Pick(s)}
            it == [s \in SUBSET T |-> IF s = {} THEN 0
                                      ELSE f[Pick(s)] + SumFunctionOnSet(f, Rest(s))]
<1>4. ASSUME NEW s \in SUBSET T, s # {}
      PROVE  it[Rest(s)] = SumFunctionOnSet(f, Rest(s))
  <2>1. Rest(s) \in SUBSET T /\ Rest(s) # T
    BY <1>4, PickIsMember
  <2>2. Unfolds(f, Rest(s))
    BY <1>3, <2>1
  <2>. QED  BY <2>1, <2>2 DEF Unfolds
<1>5. AddsUp(it, f, T)
  <2>1. \A s \in SUBSET T : it[s] = IF s = {} THEN 0 ELSE f[Pick(s)] + it[Rest(s)]
    BY <1>4
  <2>. QED  BY <2>1 DEF AddsUp
<1>6. AddsUp(CHOOSE jt : AddsUp(jt, f, T), f, T)
  BY <1>5
<1>7. (CHOOSE jt : AddsUp(jt, f, T))[T] = it[T]
  BY <1>5, <1>6, AddsUpAtMostOnce, FS_Subset
<1>8. Unfolds(f, T)
  BY <1>7, SumIsChosen DEF Unfolds
<1>. QED  BY <1>8

LEMMA SumEmpty == ASSUME NEW f PROVE SumFunctionOnSet(f, {}) = 0
  BY SumUnfolds, FS_EmptySet DEF Unfolds

LEMMA SumInt ==
  ASSUME NEW S, IsFiniteSet(S), NEW f, \A x \in S : f[x] \in Int
  PROVE  SumFunctionOnSet(f, S) \in Int
<1>. DEFINE B == {T \in SUBSET S : SumFunctionOnSet(f, T) \notin Int}
<1>1. SUFFICES ASSUME B # {} PROVE FALSE
  OBVIOUS
<1>2. \E T \in B : \A U \in SUBSET T : U \in B => U = T
  <2>1. B \in SUBSET SUBSET S
    OBVIOUS
  <2>. HIDE DEF B
  <2>. QED  BY <1>1, <2>1, SmallestSubset
<1>3. PICK T \in B : \A U \in SUBSET T : U \in B => U = T
  BY <1>2
<1>4. Unfolds(f, T)
  BY SumUnfolds, FS_Subset
<1>5. T # {}
  BY <1>4 DEF Unfolds
<1>6. Pick(T) \in T
  BY <1>5, PickIsMember
<1>7. SumFunctionOnSet(f, T \ {Pick(T)}) \in Int
  BY <1>3, <1>6
<1>8. f[Pick(T)] \in Int
  BY <1>6
<1>9. SumFunctionOnSet(f, T) = f[Pick(T)] + SumFunctionOnSet(f, T \ {Pick(T)})
  BY <1>4, <1>5 DEF Unfolds
<1>. QED  BY <1>7, <1>8, <1>9

\* Any element may be added last.
LEMMA SumRemove ==
  ASSUME NEW S, IsFiniteSet(S), NEW f, \A x \in S : f[x] \in Int, NEW z \in S
  PROVE  SumFunctionOnSet(f, S) = f[z] + SumFunctionOnSet(f, S \ {z})
<1>. DEFINE Sum(T) == SumFunctionOnSet(f, T)
            B == {T \in SUBSET S : \E x \in T : Sum(T) # f[x] + Sum(T \ {x})}
<1>1. SUFFICES ASSUME B # {} PROVE FALSE
  OBVIOUS
<1>2. \E T \in B : \A U \in SUBSET T : U \in B => U = T
  <2>1. B \in SUBSET SUBSET S
    OBVIOUS
  <2>. HIDE DEF B
  <2>. QED  BY <1>1, <2>1, SmallestSubset
<1>3. PICK T \in B : \A U \in SUBSET T : U \in B => U = T
  BY <1>2
<1>4. PICK x \in T : Sum(T) # f[x] + Sum(T \ {x})
  OBVIOUS
<1>. DEFINE y == Pick(T)
<1>5. y \in T
  BY PickIsMember
<1>6. Sum(T) = f[y] + Sum(T \ {y})
  BY SumUnfolds, FS_Subset DEF Unfolds
<1>7. x # y
  BY <1>4, <1>6
<1>8. \A U \in SUBSET T : Sum(U) \in Int
  <2>. TAKE U \in SUBSET T
  <2>1. IsFiniteSet(U) /\ \A u \in U : f[u] \in Int
    BY FS_Subset
  <2>. QED  BY <2>1, SumInt
<1>9. \A U \in SUBSET T : U # T => \A u \in U : Sum(U) = f[u] + Sum(U \ {u})
  BY <1>3
<1>10. /\ Sum(T \ {y}) = f[x] + Sum((T \ {y}) \ {x})
       /\ Sum(T \ {x}) = f[y] + Sum((T \ {x}) \ {y})
  <2>1. /\ T \ {y} \in SUBSET T /\ T \ {y} # T /\ x \in T \ {y}
        /\ T \ {x} \in SUBSET T /\ T \ {x} # T /\ y \in T \ {x}
    BY <1>5, <1>7
  <2>. HIDE DEF Sum, y, B
  <2>. QED  BY <1>9, <2>1
<1>11. (T \ {x}) \ {y} = (T \ {y}) \ {x}
  OBVIOUS
<1>12. f[x] \in Int /\ f[y] \in Int /\ Sum((T \ {y}) \ {x}) \in Int
  BY <1>5, <1>8
<1>. HIDE DEF Sum, y
<1>. QED  BY <1>4, <1>6, <1>10, <1>11, <1>12

LEMMA SumSame ==
  ASSUME NEW S, IsFiniteSet(S), NEW f, NEW g, \A x \in S : f[x] = g[x]
  PROVE  SumFunctionOnSet(f, S) = SumFunctionOnSet(g, S)
<1>. DEFINE B == {T \in SUBSET S : SumFunctionOnSet(f, T) # SumFunctionOnSet(g, T)}
<1>1. SUFFICES ASSUME B # {} PROVE FALSE
  OBVIOUS
<1>2. \E T \in B : \A U \in SUBSET T : U \in B => U = T
  <2>1. B \in SUBSET SUBSET S
    OBVIOUS
  <2>. HIDE DEF B
  <2>. QED  BY <1>1, <2>1, SmallestSubset
<1>3. PICK T \in B : \A U \in SUBSET T : U \in B => U = T
  BY <1>2
<1>4. Unfolds(f, T) /\ Unfolds(g, T)
  BY SumUnfolds, FS_Subset
<1>5. T # {}
  BY <1>4 DEF Unfolds
<1>6. Pick(T) \in T
  BY <1>5, PickIsMember
<1>7. SumFunctionOnSet(f, T \ {Pick(T)}) = SumFunctionOnSet(g, T \ {Pick(T)})
  BY <1>3, <1>6
<1>. QED  BY <1>4, <1>5, <1>6, <1>7 DEF Unfolds

\* A sum moves as one of its terms does.
LEMMA SumMoves ==
  ASSUME NEW S, IsFiniteSet(S), NEW f, \A x \in S : f[x] \in Int, NEW z \in S,
         NEW g, g[z] \in Int, \A x \in S \ {z} : g[x] = f[x]
  PROVE  SumFunctionOnSet(g, S) = SumFunctionOnSet(f, S) + (g[z] - f[z])
<1>1. SumFunctionOnSet(f, S) = f[z] + SumFunctionOnSet(f, S \ {z})
  BY SumRemove
<1>2. SumFunctionOnSet(g, S) = g[z] + SumFunctionOnSet(g, S \ {z})
  <2>1. \A x \in S : g[x] \in Int
    OBVIOUS
  <2>. QED  BY <2>1, SumRemove
<1>3. IsFiniteSet(S \ {z})
  BY FS_RemoveElement
<1>4. SumFunctionOnSet(f, S \ {z}) = SumFunctionOnSet(g, S \ {z})
  BY <1>3, SumSame
<1>5. SumFunctionOnSet(f, S \ {z}) \in Int
  BY <1>3, SumInt
<1>. QED  BY <1>1, <1>2, <1>4, <1>5

-----------------------------------------------------------------------------
(* What commits do to stock and accounts *)

\* A transaction ready to commit has locked what its order needs, and what
\* it read under the locks is current.
LEMMA ReadyToCommit ==
  ASSUME Inv, NEW s \in Sessions, tx[s].pc = "commit"
  PROVE  /\ Active(s) /\ tx[s] \in Transactions /\ OrderKnown(s)
         /\ tx[s].order \in OrderIds /\ tx[s].row \in OrderRows
         /\ tx[s].row.basket \in [Products -> Nat] /\ tx[s].row.amount \in Nat
         /\ tx[s].row.store \in Stores
         /\ Posts(tx[s]) =>
             /\ tx[s].held = Lines(tx[s].row)
             /\ tx[s].acct <=> tx[s].row.amount > 0
         /\ ~Posts(tx[s]) => tx[s].held = {} /\ ~tx[s].acct
         /\ \A p \in tx[s].held : tx[s].base[p] = stock[p]
         /\ tx[s].kind = "create" =>
             \A p \in tx[s].held : tx[s].base[p] >= tx[s].row.basket[p]
         /\ tx[s].acct => tx[s].bal = account[tx[s].row.store]
<1>1. Active(s) /\ tx[s] \in Transactions
  BY DEF Inv, TypeOK, Active, Idle
<1>2. OrderKnown(s) /\ LockSet(s)
  BY <1>1 DEF Inv, OrdersKnown, Locks
<1>3. tx[s].order \in OrderIds /\ tx[s].row \in OrderRows
  <2>1. tx[s].order \in minted
    BY <1>2 DEF OrderKnown
  <2>. QED  BY <1>1, <2>1 DEF Transactions, Inv, TypeOK
<1>4. /\ tx[s].row.basket \in [Products -> Nat] /\ tx[s].row.amount \in Nat
      /\ tx[s].row.store \in Stores
  BY <1>3 DEF OrderRows
<1>5. /\ Posts(tx[s]) => /\ tx[s].held = Lines(tx[s].row)
                         /\ tx[s].acct <=> tx[s].row.amount > 0
      /\ ~Posts(tx[s]) => tx[s].held = {} /\ ~tx[s].acct
      /\ tx[s].kind = "create" =>
             \A p \in tx[s].held : tx[s].base[p] >= tx[s].row.basket[p]
  BY <1>2 DEF LockSet
<1>6. /\ \A p \in tx[s].held : tx[s].base[p] = stock[p]
      /\ tx[s].acct => tx[s].bal = account[tx[s].row.store]
  BY <1>1 DEF Inv, Locks, LockedIsCurrent
<1>. QED  BY <1>1, <1>2, <1>3, <1>4, <1>5, <1>6

\* A creation takes the basket of its order from the stock, which has it,
\* and adds the total to the account.
LEMMA CommitCreateEffect ==
  ASSUME Inv, NoNegativeStock,
         NEW s \in Sessions, NEW told \in BOOLEAN, CommitCreate(s, told)
  PROVE  /\ \A p \in Products : stock[p] >= tx[s].row.basket[p]
         /\ stock' = [p \in Products |-> stock[p] - tx[s].row.basket[p]]
         /\ account' = [account EXCEPT ![tx[s].row.store] = @ + tx[s].row.amount]
<1>1. /\ tx[s].pc = "commit" /\ tx[s].kind = "create" /\ Posts(tx[s])
      /\ stock' = StockAfter(tx[s]) /\ account' = AccountAfter(tx[s])
  BY DEF CommitCreate, Posts
<1>2. stock \in [Products -> Int] /\ account \in [Stores -> Int]
  BY DEF Inv, TypeOK
<1>3. /\ tx[s].row.basket \in [Products -> Nat]
      /\ \A p \in Products : p \notin tx[s].held => tx[s].row.basket[p] = 0
      /\ \A p \in tx[s].held : /\ tx[s].base[p] = stock[p]
                               /\ tx[s].base[p] >= tx[s].row.basket[p]
  BY <1>1, ReadyToCommit DEF Lines
<1>4. \A p \in Products : stock[p] >= tx[s].row.basket[p]
  BY <1>2, <1>3 DEF NoNegativeStock
<1>5. stock' = [p \in Products |-> stock[p] - tx[s].row.basket[p]]
  <2>1. \A p \in Products :
          StockAfter(tx[s])[p] = stock[p] - tx[s].row.basket[p]
    BY <1>1, <1>2, <1>3 DEF StockAfter
  <2>. QED  BY <1>1, <2>1 DEF StockAfter
<1>6. account' = [account EXCEPT ![tx[s].row.store] = @ + tx[s].row.amount]
  <2>1. /\ tx[s].acct <=> tx[s].row.amount > 0
        /\ tx[s].acct => tx[s].bal = account[tx[s].row.store]
        /\ tx[s].row.amount \in Nat /\ tx[s].row.store \in Stores
    BY <1>1, ReadyToCommit
  <2>2. CASE tx[s].acct
    BY <1>1, <2>1, <2>2 DEF AccountAfter
  <2>3. CASE ~tx[s].acct
    <3>1. tx[s].row.amount = 0
      BY <2>1, <2>3
    <3>. QED  BY <1>1, <1>2, <2>1, <2>3, <3>1 DEF AccountAfter
  <2>. QED  BY <2>2, <2>3
<1>. QED  BY <1>4, <1>5, <1>6

\* A cancellation gives the basket and the total back; any other update
\* leaves the balances alone.
LEMMA CommitUpdateEffect ==
  ASSUME Inv, NEW s \in Sessions, CommitUpdate(s)
  PROVE  /\ Compensates(tx[s]) <=> tx[s].to = "canceled"
         /\ Compensates(tx[s]) =>
             /\ stock' = [p \in Products |->
                            stock[p] + orders[tx[s].order].basket[p]]
             /\ account' = [account EXCEPT ![orders[tx[s].order].store] =
                                @ - orders[tx[s].order].amount]
         /\ ~Compensates(tx[s]) => stock' = stock /\ account' = account
<1> DEFINE row == orders[tx[s].order]
<1>1. /\ tx[s].pc = "commit" /\ tx[s].kind = "update"
      /\ stock' = StockAfter(tx[s]) /\ account' = AccountAfter(tx[s])
  BY DEF CommitUpdate
<1>2. stock \in [Products -> Int] /\ account \in [Stores -> Int]
  BY DEF Inv, TypeOK
<1>3. OrderKnown(s) /\ tx[s].row \in OrderRows
  BY <1>1, ReadyToCommit
<1>4. /\ row.basket = tx[s].row.basket /\ row.amount = tx[s].row.amount
      /\ row.store = tx[s].row.store
      /\ tx[s].to \in NextStatuses[tx[s].row.status] /\ tx[s].row.status # "draft"
  BY <1>1, <1>3 DEF OrderKnown, SameOrder
<1>5. Compensates(tx[s]) <=> tx[s].to = "canceled"
  BY <1>3, <1>4 DEF Compensates, Compensable, NextStatuses, OrderRows, Statuses
<1>6. Posts(tx[s]) <=> Compensates(tx[s])
  BY <1>1 DEF Posts
<1>7. ASSUME Compensates(tx[s])
      PROVE  /\ stock' = [p \in Products |-> stock[p] + row.basket[p]]
             /\ account' = [account EXCEPT ![row.store] = @ - row.amount]
  <2>1. /\ tx[s].row.basket \in [Products -> Nat]
        /\ \A p \in Products : p \notin tx[s].held => tx[s].row.basket[p] = 0
        /\ \A p \in tx[s].held : tx[s].base[p] = stock[p]
        /\ tx[s].acct <=> tx[s].row.amount > 0
        /\ tx[s].acct => tx[s].bal = account[tx[s].row.store]
        /\ tx[s].row.amount \in Nat /\ tx[s].row.store \in Stores
    BY <1>1, <1>6, <1>7, ReadyToCommit DEF Lines
  <2>2. \A p \in Products :
          StockAfter(tx[s])[p] = stock[p] + tx[s].row.basket[p]
    BY <1>1, <1>2, <2>1 DEF StockAfter
  <2>3. stock' = [p \in Products |-> stock[p] + row.basket[p]]
    BY <1>1, <1>4, <2>2 DEF StockAfter
  <2>4. CASE tx[s].acct
    BY <1>1, <1>4, <2>1, <2>3, <2>4 DEF AccountAfter
  <2>5. CASE ~tx[s].acct
    <3>1. tx[s].row.amount = 0
      BY <2>1, <2>5
    <3>. QED  BY <1>1, <1>2, <1>4, <2>1, <2>3, <2>5, <3>1 DEF AccountAfter
  <2>. QED  BY <2>4, <2>5
<1>8. ASSUME ~Compensates(tx[s]) PROVE stock' = stock /\ account' = account
  <2>1. tx[s].held = {} /\ ~tx[s].acct
    BY <1>1, <1>6, <1>8, ReadyToCommit
  <2>. QED  BY <1>1, <1>2, <2>1 DEF StockAfter, AccountAfter
<1>. QED  BY <1>5, <1>7, <1>8

-----------------------------------------------------------------------------

\* Requests and the steps of a transaction before its commit change nothing
\* in the database.
LEMMA QuietSteps ==
  ASSUME TypeOK, NEW s \in Sessions, Request(s) \/ Step(s) \/ Abort(s)
  PROVE  \/ UNCHANGED db
         \/ \E told \in BOOLEAN : CommitCreate(s, told)
         \/ CommitUpdate(s)
<1>1. CASE Request(s)
  BY <1>1 DEF Request, BeginCreate, BeginUpdate
<1>2. CASE Step(s) \/ Abort(s)
  BY <1>2, StepCases DEF InsertOrder, RollBack, ResolveDuplicate, Proceed
<1>. QED  BY <1>1, <1>2

\* Every step, by what it does to the database.
LEMMA DatabaseSteps ==
  ASSUME TypeOK, [Next]_vars
  PROVE  \/ UNCHANGED db
         \/ \E s \in Sessions, told \in BOOLEAN : CommitCreate(s, told)
         \/ \E s \in Sessions : CommitUpdate(s)
         \/ \E p \in Products, d \in {-1, 1} : RecordMovement(p, d)
         \/ \E st \in Stores, d \in {-1, 1} : RecordEntry(st, d)
<1>1. CASE Environment
  BY <1>1 DEF Environment, ReplyFromCache, ExpireKey
<1>2. CASE UNCHANGED vars
  BY <1>2 DEF vars
<1>. QED  BY <1>1, <1>2, QuietSteps DEF Next

LEMMA NextNoNegative ==
  ASSUME Inv, NoNegativeStock, [Next]_vars
  PROVE  NoNegativeStock'
<1>. TypeOK /\ stock \in [Products -> Int]
  BY DEF Inv, TypeOK
<1>1. CASE UNCHANGED db
  BY <1>1 DEF db, NoNegativeStock
<1>2. ASSUME NEW s \in Sessions, NEW told \in BOOLEAN, CommitCreate(s, told)
      PROVE  NoNegativeStock'
  <2>1. tx[s].row.basket \in [Products -> Nat]
    BY <1>2, ReadyToCommit DEF CommitCreate
  <2>. QED  BY <1>2, <2>1, CommitCreateEffect DEF NoNegativeStock
<1>3. ASSUME NEW s \in Sessions, CommitUpdate(s) PROVE NoNegativeStock'
  <2>1. orders[tx[s].order].basket \in [Products -> Nat]
    BY <1>3, ReadyToCommit DEF CommitUpdate, OrderKnown, SameOrder
  <2>. QED  BY <1>3, <2>1, CommitUpdateEffect DEF NoNegativeStock
<1>4. ASSUME NEW p \in Products, NEW d \in {-1, 1}, RecordMovement(p, d)
      PROVE  NoNegativeStock'
  BY <1>4 DEF RecordMovement, NoNegativeStock
<1>5. ASSUME NEW st \in Stores, NEW d \in {-1, 1}, RecordEntry(st, d)
      PROVE  NoNegativeStock'
  BY <1>5 DEF RecordEntry, NoNegativeStock
<1>. QED  BY <1>1, <1>2, <1>3, <1>4, <1>5, DatabaseSteps

LEMMA NextAllOrNothing ==
  ASSUME Inv, AllOrNothing, [Next]_vars
  PROVE  AllOrNothing'
<1>. TypeOK /\ OrdersKnown
  BY DEF Inv
<1> USE DEF TypeOK, ledgers, others
<1>1. CASE UNCHANGED db
  BY <1>1 DEF db, AllOrNothing, Exists
<1>2. ASSUME NEW s \in Sessions, NEW told \in BOOLEAN, CommitCreate(s, told),
             NEW o \in OrderIds
      PROVE  IF Exists(o)'
             THEN /\ taken'[o] = orders'[o].basket
                  /\ debited'[o] = orders'[o].amount
                  /\ <<o, 1, "confirmed">> \in events'
             ELSE /\ taken'[o] = Zero /\ returned'[o] = Zero
                  /\ debited'[o] = 0 /\ credited'[o] = 0
                  /\ \A e \in events' : e[1] # o
  <2>1. /\ tx[s].order \in OrderIds /\ tx[s].row \in OrderRows
        /\ tx[s].row.status = "confirmed" /\ tx[s].row.version = 1
    BY <1>2, ReadyToCommit DEF CommitCreate, OrderKnown
  <2>2. CASE o = tx[s].order
    BY <1>2, <2>1, <2>2, NoneAssumption DEF CommitCreate, Exists
  <2>3. CASE o # tx[s].order
    <3>1. /\ orders'[o] = orders[o] /\ taken'[o] = taken[o]
          /\ debited'[o] = debited[o] /\ returned' = returned
          /\ credited' = credited
          /\ events' = events \cup {<<tx[s].order, 1, "confirmed">>}
      BY <1>2, <2>1, <2>3 DEF CommitCreate
    <3>. QED  BY <2>3, <3>1 DEF AllOrNothing, Exists
  <2>. QED  BY <2>2, <2>3
<1>3. ASSUME NEW s \in Sessions, CommitUpdate(s), NEW o \in OrderIds
      PROVE  IF Exists(o)'
             THEN /\ taken'[o] = orders'[o].basket
                  /\ debited'[o] = orders'[o].amount
                  /\ <<o, 1, "confirmed">> \in events'
             ELSE /\ taken'[o] = Zero /\ returned'[o] = Zero
                  /\ debited'[o] = 0 /\ credited'[o] = 0
                  /\ \A e \in events' : e[1] # o
  <2>1. /\ tx[s].order \in OrderIds /\ Exists(tx[s].order)
        /\ orders[tx[s].order] \in OrderRows
    BY <1>3, ReadyToCommit DEF CommitUpdate, OrderKnown, Exists
  <2>2. /\ taken' = taken /\ debited' = debited
        /\ events' = events \cup
             {<<tx[s].order, tx[s].row.version + 1, tx[s].to>>}
        /\ orders' = [orders EXCEPT ![tx[s].order] =
             [@ EXCEPT !.status = tx[s].to, !.version = tx[s].row.version + 1]]
    BY <1>3 DEF CommitUpdate
  <2>3. CASE o = tx[s].order
    <3>1. /\ orders'[o].basket = orders[o].basket
          /\ orders'[o].amount = orders[o].amount
      BY <2>1, <2>2, <2>3 DEF OrderRows
    <3>2. Exists(o)'
      <4>1. tx[s].to \in Statuses /\ tx[s].row.version + 1 \in Nat
        BY <1>3, ReadyToCommit DEF CommitUpdate, Transactions, OrderRows
      <4>2. [orders[o] EXCEPT !.status = tx[s].to,
                              !.version = tx[s].row.version + 1] \in OrderRows
        BY <2>1, <2>3, <4>1 DEF OrderRows
      <4>3. orders'[o] = [orders[o] EXCEPT !.status = tx[s].to,
                                           !.version = tx[s].row.version + 1]
        BY <2>1, <2>2, <2>3
      <4>. QED  BY <4>2, <4>3, NoneAssumption DEF Exists
    <3>. QED  BY <2>1, <2>2, <2>3, <3>1, <3>2 DEF AllOrNothing
  <2>4. CASE o # tx[s].order
    <3>1. /\ orders'[o] = orders[o] /\ returned'[o] = returned[o]
          /\ credited'[o] = credited[o]
      BY <1>3, <2>1, <2>2, <2>4 DEF CommitUpdate
    <3>. QED  BY <2>2, <2>4, <3>1 DEF AllOrNothing, Exists
  <2>. QED  BY <2>3, <2>4
<1>4. ASSUME NEW p \in Products, NEW d \in {-1, 1}, RecordMovement(p, d)
      PROVE  AllOrNothing'
  BY <1>4 DEF RecordMovement, AllOrNothing, Exists
<1>5. ASSUME NEW st \in Stores, NEW d \in {-1, 1}, RecordEntry(st, d)
      PROVE  AllOrNothing'
  BY <1>5 DEF RecordEntry, AllOrNothing, Exists
<1>6. ASSUME NEW s \in Sessions, NEW told \in BOOLEAN, CommitCreate(s, told)
      PROVE  AllOrNothing'
  BY <1>2, <1>6 DEF AllOrNothing, Exists, Zero
<1>7. ASSUME NEW s \in Sessions, CommitUpdate(s) PROVE AllOrNothing'
  BY <1>3, <1>7 DEF AllOrNothing, Exists, Zero
<1>. QED  BY <1>1, <1>4, <1>5, <1>6, <1>7, DatabaseSteps

LEMMA NextCanceledIsReturned ==
  ASSUME Inv, AllOrNothing, CanceledIsReturned, [Next]_vars
  PROVE  CanceledIsReturned'
<1>. TypeOK
  BY DEF Inv
<1> USE DEF TypeOK, ledgers, others
<1>1. CASE UNCHANGED db
  BY <1>1 DEF db, CanceledIsReturned, Exists
<1>2. ASSUME NEW s \in Sessions, NEW told \in BOOLEAN, CommitCreate(s, told)
      PROVE  CanceledIsReturned'
  <2>1. /\ tx[s].order \in OrderIds /\ tx[s].row.status = "confirmed"
    BY <1>2, ReadyToCommit DEF CommitCreate, OrderKnown
  <2>2. ASSUME NEW o \in OrderIds, Exists(o)', orders'[o].status = "canceled"
        PROVE  /\ o # tx[s].order /\ orders'[o] = orders[o] /\ Exists(o)
               /\ taken'[o] = taken[o] /\ debited'[o] = debited[o]
    BY <1>2, <2>1, <2>2 DEF CommitCreate, Exists
  <2>. QED  BY <1>2, <2>2 DEF CommitCreate, CanceledIsReturned, Exists
<1>3. ASSUME NEW s \in Sessions, CommitUpdate(s), NEW o \in OrderIds, Exists(o)',
             orders'[o].status = "canceled"
      PROVE  /\ \A p \in Products : returned'[o][p] >= taken'[o][p]
             /\ credited'[o] >= debited'[o]
  <2>1. /\ tx[s].order \in OrderIds /\ Exists(tx[s].order)
        /\ orders[tx[s].order] \in OrderRows
        /\ SameOrder(orders[tx[s].order], tx[s].row)
        /\ tx[s].row \in OrderRows
    BY <1>3, ReadyToCommit DEF CommitUpdate, OrderKnown, Exists
  <2>2. /\ taken' = taken /\ debited' = debited
        /\ orders' = [orders EXCEPT ![tx[s].order] =
             [@ EXCEPT !.status = tx[s].to, !.version = tx[s].row.version + 1]]
    BY <1>3 DEF CommitUpdate
  <2>3. CASE o = tx[s].order
    <3>1. Compensates(tx[s])
      <4>1. tx[s].to = "canceled"
        BY <1>3, <2>1, <2>2, <2>3 DEF OrderRows
      <4>. QED  BY <1>3, <4>1, CommitUpdateEffect
    <3>2. /\ taken[o] = tx[s].row.basket /\ debited[o] = tx[s].row.amount
      BY <2>1, <2>3 DEF AllOrNothing, SameOrder
    <3>3. /\ returned' = [returned EXCEPT ![o] =
                  [p \in Products |-> returned[o][p] + tx[s].row.basket[p]]]
          /\ credited' = [credited EXCEPT ![o] = credited[o] + tx[s].row.amount]
      BY <1>3, <2>3, <3>1 DEF CommitUpdate
    <3>4. /\ tx[s].row.basket \in [Products -> Nat] /\ tx[s].row.amount \in Nat
      BY <2>1 DEF OrderRows
    <3>. QED  BY <2>2, <3>2, <3>3, <3>4
  <2>4. CASE o # tx[s].order
    <3>1. /\ orders'[o] = orders[o] /\ returned'[o] = returned[o]
          /\ credited'[o] = credited[o]
      BY <1>3, <2>1, <2>2, <2>4 DEF CommitUpdate
    <3>. QED  BY <1>3, <2>2, <3>1 DEF CanceledIsReturned, Exists
  <2>. QED  BY <2>3, <2>4
<1>4. ASSUME NEW p \in Products, NEW d \in {-1, 1}, RecordMovement(p, d)
      PROVE  CanceledIsReturned'
  BY <1>4 DEF RecordMovement, CanceledIsReturned, Exists
<1>5. ASSUME NEW st \in Stores, NEW d \in {-1, 1}, RecordEntry(st, d)
      PROVE  CanceledIsReturned'
  BY <1>5 DEF RecordEntry, CanceledIsReturned, Exists
<1>6. ASSUME NEW s \in Sessions, CommitUpdate(s) PROVE CanceledIsReturned'
  BY <1>3, <1>6 DEF CanceledIsReturned, Exists
<1>. QED  BY <1>1, <1>2, <1>4, <1>5, <1>6, DatabaseSteps

-----------------------------------------------------------------------------

\* What holds of the balances and the ledgers, on top of Inv.
Books == NoNegativeStock /\ AllOrNothing /\ CanceledIsReturned

LEMMA InitBooks == Init => Books
<1> SUFFICES ASSUME Init PROVE Books
  OBVIOUS
<1>1. NoNegativeStock
  BY ConstantsAssumption DEF Init, NoNegativeStock
<1>2. \A o \in OrderIds : ~Exists(o)
  BY DEF Init, Exists
<1>3. AllOrNothing /\ CanceledIsReturned
  BY <1>2 DEF Init, AllOrNothing, CanceledIsReturned
<1>. QED  BY <1>1, <1>3 DEF Books

LEMMA NextBooks == Inv /\ Books /\ [Next]_vars => Books'
  BY NextNoNegative, NextAllOrNothing, NextCanceledIsReturned DEF Books

LEMMA BooksInvariant == Spec => []Books
  BY InitBooks, NextBooks, Invariance, PTL DEF Spec

\* Stock on hand is never negative, whatever orders, cancellations and
\* movements run against the same balance.
THEOREM StockNeverNegative == Spec => []NoNegativeStock
<1>1. Books => NoNegativeStock
  BY DEF Books
<1>. QED  BY <1>1, BooksInvariant, PTL

\* An order exists with all its movements, its debit and its event, or it has
\* left no trace.
THEOREM OrdersAllOrNothing == Spec => []AllOrNothing
<1>1. Books => AllOrNothing
  BY DEF Books
<1>. QED  BY <1>1, BooksInvariant, PTL

\* A canceled order has given back all it took.
THEOREM CancelReturnsAll == Spec => []CanceledIsReturned
<1>1. Books => CanceledIsReturned
  BY DEF Books
<1>. QED  BY <1>1, BooksInvariant, PTL

-----------------------------------------------------------------------------

\* Each step moves a balance by what it adds to one log.
LoggedStep ==
    \A p \in Products :
        \/ /\ stock'[p] - stock[p] = moved'[p] - moved[p]
           /\ \A o \in OrderIds : taken'[o][p] = taken[o][p]
                               /\ returned'[o][p] = returned[o][p]
        \/ \E o \in OrderIds :
             /\ stock'[p] - stock[p] = (returned'[o][p] - returned[o][p])
                                       - (taken'[o][p] - taken[o][p])
             /\ taken'[o][p] >= taken[o][p] /\ returned'[o][p] >= returned[o][p]
             /\ moved'[p] = moved[p]
             /\ \A q \in OrderIds \ {o} : taken'[q][p] = taken[q][p]
                                         /\ returned'[q][p] = returned[q][p]

LEMMA StepIsLogged ==
  ASSUME Inv, Books, [Next]_vars
  PROVE  LoggedStep
<1>. TypeOK
  BY DEF Inv
<1> USE DEF TypeOK, ledgers, others
<1>1. CASE UNCHANGED db
  BY <1>1 DEF db, LoggedStep
<1>2. ASSUME NEW s \in Sessions, NEW told \in BOOLEAN, CommitCreate(s, told),
             NEW p \in Products
      PROVE  LET o == tx[s].order IN
             /\ o \in OrderIds
             /\ stock'[p] - stock[p] = (returned'[o][p] - returned[o][p])
                                       - (taken'[o][p] - taken[o][p])
             /\ taken'[o][p] >= taken[o][p] /\ returned'[o][p] >= returned[o][p]
             /\ moved'[p] = moved[p]
             /\ \A q \in OrderIds \ {o} : taken'[q][p] = taken[q][p]
                                         /\ returned'[q][p] = returned[q][p]
  <2>1. /\ tx[s].order \in OrderIds /\ ~Exists(tx[s].order)
        /\ tx[s].row.basket \in [Products -> Nat]
    BY <1>2, ReadyToCommit DEF CommitCreate, OrderKnown
  <2>2. /\ taken' = [taken EXCEPT ![tx[s].order] = tx[s].row.basket]
        /\ returned' = returned /\ moved' = moved
    BY <1>2 DEF CommitCreate
  <2>3. stock'[p] = stock[p] - tx[s].row.basket[p]
    BY <1>2, CommitCreateEffect DEF Books
  <2>4. taken[tx[s].order][p] = 0
    <3>1. taken[tx[s].order] = Zero
      BY <2>1 DEF Books, AllOrNothing
    <3>. QED  BY <3>1 DEF Zero
  <2>. QED  BY <2>1, <2>2, <2>3, <2>4
<1>3. ASSUME NEW s \in Sessions, CommitUpdate(s), NEW p \in Products
      PROVE  LET o == tx[s].order IN
             /\ o \in OrderIds
             /\ stock'[p] - stock[p] = (returned'[o][p] - returned[o][p])
                                       - (taken'[o][p] - taken[o][p])
             /\ taken'[o][p] >= taken[o][p] /\ returned'[o][p] >= returned[o][p]
             /\ moved'[p] = moved[p]
             /\ \A q \in OrderIds \ {o} : taken'[q][p] = taken[q][p]
                                         /\ returned'[q][p] = returned[q][p]
  <2>1. /\ tx[s].order \in OrderIds
        /\ orders[tx[s].order].basket = tx[s].row.basket
        /\ tx[s].row.basket \in [Products -> Nat]
    BY <1>3, ReadyToCommit DEF CommitUpdate, OrderKnown, SameOrder
  <2>2. taken' = taken /\ moved' = moved
    BY <1>3 DEF CommitUpdate
  <2>3. CASE Compensates(tx[s])
    <3>1. returned' = [returned EXCEPT ![tx[s].order] =
             [r \in Products |-> returned[tx[s].order][r] + tx[s].row.basket[r]]]
      BY <1>3, <2>3 DEF CommitUpdate
    <3>2. stock'[p] = stock[p] + tx[s].row.basket[p]
      BY <1>3, <2>1, <2>3, CommitUpdateEffect
    <3>. QED  BY <2>1, <2>2, <3>1, <3>2
  <2>4. CASE ~Compensates(tx[s])
    <3>1. returned' = returned
      BY <1>3, <2>4 DEF CommitUpdate
    <3>2. stock' = stock
      BY <1>3, <2>4, CommitUpdateEffect
    <3>. QED  BY <2>1, <2>2, <3>1, <3>2
  <2>. QED  BY <2>3, <2>4
<1>4. ASSUME NEW p \in Products, NEW d \in {-1, 1}, RecordMovement(p, d)
      PROVE  LoggedStep
  BY <1>4 DEF RecordMovement, LoggedStep
<1>5. ASSUME NEW st \in Stores, NEW d \in {-1, 1}, RecordEntry(st, d)
      PROVE  LoggedStep
  BY <1>5 DEF RecordEntry, LoggedStep
<1>6. ASSUME NEW s \in Sessions, NEW told \in BOOLEAN, CommitCreate(s, told)
      PROVE  LoggedStep
  BY <1>2, <1>6 DEF LoggedStep
<1>7. ASSUME NEW s \in Sessions, CommitUpdate(s) PROVE LoggedStep
  BY <1>3, <1>7 DEF LoggedStep
<1>. QED  BY <1>1, <1>4, <1>5, <1>6, <1>7, DatabaseSteps

\* No step changes a stock balance behind the movement log's back.
THEOREM StockStepsLogged == Spec => StockStepLogged
<1>1. Inv /\ Books /\ [Next]_vars => [LoggedStep]_vars
  BY StepIsLogged
<1>. QED  BY <1>1, Invariance, BooksInvariant, PTL
          DEF Spec, StockStepLogged, LoggedStep

-----------------------------------------------------------------------------
(* Balances and sums *)

\* What all orders have moved of p, in one of the two logs.
MovedOf(log, p) == SumFunctionOnSet([o \in OrderIds |-> log[o][p]], OrderIds)

LEMMA MovedOfInt ==
  ASSUME NEW log \in [OrderIds -> [Products -> Nat]], NEW p \in Products
  PROVE  MovedOf(log, p) \in Int
  BY SumInt, ConstantsAssumption DEF MovedOf

LEMMA MovedOfSame ==
  ASSUME NEW log, NEW more, NEW p,
         \A o \in OrderIds : more[o][p] = log[o][p]
  PROVE  MovedOf(more, p) = MovedOf(log, p)
  BY SumSame, ConstantsAssumption DEF MovedOf

LEMMA MovedOfMoves ==
  ASSUME NEW log \in [OrderIds -> [Products -> Nat]],
         NEW more \in [OrderIds -> [Products -> Nat]], NEW p \in Products,
         NEW o \in OrderIds, \A q \in OrderIds \ {o} : more[q][p] = log[q][p]
  PROVE  MovedOf(more, p) = MovedOf(log, p) + (more[o][p] - log[o][p])
<1>. DEFINE f == [q \in OrderIds |-> log[q][p]]
            g == [q \in OrderIds |-> more[q][p]]
<1>1. /\ \A q \in OrderIds : f[q] \in Int
      /\ g[o] \in Int /\ \A q \in OrderIds \ {o} : g[q] = f[q]
      /\ f[o] = log[o][p] /\ g[o] = more[o][p]
  OBVIOUS
<1>2. SumFunctionOnSet(g, OrderIds) = SumFunctionOnSet(f, OrderIds) + (g[o] - f[o])
  <2>. HIDE DEF f, g
  <2>. QED  BY <1>1, SumMoves, ConstantsAssumption
<1>. QED  BY <1>1, <1>2 DEF MovedOf

LEMMA StockIsLogged ==
    StockMatchesLog <=>
        \A p \in Products :
            stock[p] = InitStock[p] + moved[p] - MovedOf(taken, p) + MovedOf(returned, p)
  BY DEF StockMatchesLog, MovedOf

LEMMA InitStockMatchesLog == Init => StockMatchesLog
<1> SUFFICES ASSUME Init, NEW p \in Products
             PROVE  stock[p] = InitStock[p] + moved[p]
                               - MovedOf(taken, p) + MovedOf(returned, p)
  BY StockIsLogged
<1>1. /\ stock[p] = InitStock[p] /\ InitStock[p] \in Nat /\ moved[p] = 0
      /\ taken \in [OrderIds -> [Products -> Nat]] /\ returned = taken
  BY ConstantsAssumption DEF Init, Zero
<1>2. MovedOf(taken, p) \in Int
  BY <1>1, MovedOfInt
<1>. QED  BY <1>1, <1>2

\* Every step that moves a balance moves one term of one sum, by as much.
LEMMA NextStockMatchesLog ==
  ASSUME Inv, Books, StockMatchesLog, [Next]_vars
  PROVE  StockMatchesLog'
<1>. SUFFICES ASSUME NEW p \in Products
              PROVE  stock'[p] = InitStock[p] + moved'[p]
                                 - MovedOf(taken', p) + MovedOf(returned', p)
  BY DEF StockMatchesLog, MovedOf
<1>1. stock[p] = InitStock[p] + moved[p] - MovedOf(taken, p) + MovedOf(returned, p)
  BY StockIsLogged
<1>2. TypeOK /\ TypeOK'
  BY NextInv DEF Inv
<1>3. /\ stock[p] \in Int /\ stock'[p] \in Int /\ InitStock[p] \in Int
      /\ moved[p] \in Int /\ moved'[p] \in Int
      /\ MovedOf(taken, p) \in Int /\ MovedOf(returned, p) \in Int
      /\ MovedOf(taken', p) \in Int /\ MovedOf(returned', p) \in Int
  <2>1. /\ stock[p] \in Int /\ stock'[p] \in Int /\ InitStock[p] \in Int
        /\ moved[p] \in Int /\ moved'[p] \in Int
    BY <1>2, ConstantsAssumption DEF TypeOK
  <2>2. /\ taken \in [OrderIds -> [Products -> Nat]]
        /\ returned \in [OrderIds -> [Products -> Nat]]
        /\ taken' \in [OrderIds -> [Products -> Nat]]
        /\ returned' \in [OrderIds -> [Products -> Nat]]
    BY <1>2 DEF TypeOK
  <2>. QED  BY <2>1, <2>2, MovedOfInt
<1>4. CASE /\ stock'[p] - stock[p] = moved'[p] - moved[p]
           /\ \A o \in OrderIds : taken'[o][p] = taken[o][p]
                               /\ returned'[o][p] = returned[o][p]
  <2>1. MovedOf(taken', p) = MovedOf(taken, p)
    BY <1>4, MovedOfSame
  <2>2. MovedOf(returned', p) = MovedOf(returned, p)
    BY <1>4, MovedOfSame
  <2>3. stock'[p] = stock[p] + (moved'[p] - moved[p])
    <3>1. stock'[p] - stock[p] = moved'[p] - moved[p]
      BY <1>4
    <3>. QED  BY <1>3, <3>1
  <2>. QED  BY <1>1, <1>3, <2>1, <2>2, <2>3
<1>5. ASSUME NEW o \in OrderIds,
             /\ stock'[p] - stock[p] = (returned'[o][p] - returned[o][p])
                                       - (taken'[o][p] - taken[o][p])
             /\ moved'[p] = moved[p]
             /\ \A q \in OrderIds \ {o} : taken'[q][p] = taken[q][p]
                                         /\ returned'[q][p] = returned[q][p]
      PROVE  stock'[p] = InitStock[p] + moved'[p]
                         - MovedOf(taken', p) + MovedOf(returned', p)
  <2>1. MovedOf(taken', p) = MovedOf(taken, p) + (taken'[o][p] - taken[o][p])
    BY <1>2, <1>5, MovedOfMoves DEF TypeOK
  <2>2. MovedOf(returned', p) = MovedOf(returned, p) + (returned'[o][p] - returned[o][p])
    BY <1>2, <1>5, MovedOfMoves DEF TypeOK
  <2>3. /\ taken[o][p] \in Int /\ taken'[o][p] \in Int
        /\ returned[o][p] \in Int /\ returned'[o][p] \in Int
    BY <1>2 DEF TypeOK
  <2>4. /\ stock'[p] - stock[p] = (returned'[o][p] - returned[o][p])
                                  - (taken'[o][p] - taken[o][p])
        /\ moved'[p] = moved[p]
    BY <1>5
  <2>. QED  BY <1>1, <1>3, <2>1, <2>2, <2>3, <2>4
<1>. QED  BY <1>4, <1>5, StepIsLogged DEF LoggedStep

\* The stock balance is what the append-only movement log adds up to.
THEOREM StockAddsUp == Spec => []StockMatchesLog
  BY InitStockMatchesLog, NextStockMatchesLog, Invariance, BooksInvariant, PTL
  DEF Spec

LEMMA SumsOfOrders ==
  ASSUME TypeOK, NEW st
  PROVE  /\ IsFiniteSet(OrdersOf(st)) /\ OrdersOf(st) \subseteq OrderIds
         /\ SumFunctionOnSet(debited, OrdersOf(st)) \in Int
         /\ SumFunctionOnSet(credited, OrdersOf(st)) \in Int
<1>1. IsFiniteSet(OrdersOf(st)) /\ OrdersOf(st) \subseteq OrderIds
  BY ConstantsAssumption, FS_Subset DEF OrdersOf
<1>2. \A o \in OrdersOf(st) : debited[o] \in Int /\ credited[o] \in Int
  BY <1>1 DEF TypeOK
<1>. QED  BY <1>1, <1>2, SumInt

\* A committed creation puts its order among those of its store.
LEMMA CreationIsPosted ==
  ASSUME Inv, Books, AccountMatchesLedger,
         NEW s \in Sessions, NEW told \in BOOLEAN, CommitCreate(s, told)
  PROVE  AccountMatchesLedger'
<1>. DEFINE o == tx[s].order
            row == tx[s].row
<1>1. /\ o \in OrderIds /\ ~Exists(o) /\ row \in OrderRows
      /\ row.amount \in Nat /\ row.store \in Stores
  BY ReadyToCommit DEF CommitCreate, OrderKnown
<1>2. TypeOK /\ TypeOK'
  BY NextTypeOK, NextInv DEF Inv, Next, Step
<1>3. /\ orders' = [orders EXCEPT ![o] = row]
      /\ debited' = [debited EXCEPT ![o] = row.amount]
      /\ credited' = credited /\ posted' = posted
  BY DEF CommitCreate, others
<1>4. account' = [account EXCEPT ![row.store] = @ + row.amount]
  BY CommitCreateEffect DEF Books
<1>5. credited[o] = 0
  BY <1>1 DEF Books, AllOrNothing
<1>6. ASSUME NEW st \in Stores
      PROVE  /\ st = row.store => OrdersOf(st)' = OrdersOf(st) \cup {o}
             /\ st # row.store => OrdersOf(st)' = OrdersOf(st)
             /\ o \notin OrdersOf(st)
  <2>1. \A q \in OrderIds : q # o => orders'[q] = orders[q]
    BY <1>3
  <2>2. orders'[o] = row /\ row # None
    BY <1>1, <1>2, <1>3, NoneAssumption DEF TypeOK
  <2>. QED  BY <1>1, <2>1, <2>2 DEF OrdersOf, Exists
<1>7. SUFFICES ASSUME NEW st \in Stores
               PROVE  account'[st] = posted'[st]
                        + SumFunctionOnSet(debited', OrdersOf(st)')
                        - SumFunctionOnSet(credited', OrdersOf(st)')
  BY DEF AccountMatchesLedger
<1>8. account[st] = posted[st] + SumFunctionOnSet(debited, OrdersOf(st))
                               - SumFunctionOnSet(credited, OrdersOf(st))
  BY DEF AccountMatchesLedger
<1>9. /\ account[st] \in Int /\ posted[st] \in Int
      /\ IsFiniteSet(OrdersOf(st)) /\ OrdersOf(st) \subseteq OrderIds
      /\ SumFunctionOnSet(debited, OrdersOf(st)) \in Int
      /\ SumFunctionOnSet(credited, OrdersOf(st)) \in Int
  BY <1>2, SumsOfOrders DEF TypeOK
<1>10. SumFunctionOnSet(debited', OrdersOf(st)) = SumFunctionOnSet(debited, OrdersOf(st))
  <2>1. \A q \in OrdersOf(st) : debited'[q] = debited[q]
    BY <1>2, <1>3, <1>6, <1>9 DEF TypeOK
  <2>. QED  BY <1>9, <2>1, SumSame
<1>11. CASE st = row.store
  <2>. DEFINE Now == OrdersOf(st)'
  <2>1. Now = OrdersOf(st) \cup {o} /\ o \notin OrdersOf(st) /\ o \in Now
    BY <1>6, <1>11
  <2>2. IsFiniteSet(Now) /\ Now \ {o} = OrdersOf(st) /\ Now \subseteq OrderIds
    <3>. HIDE DEF Now, o
    <3>. QED  BY <1>1, <1>9, <2>1, FS_AddElement
  <2>3. /\ \A q \in Now : debited'[q] \in Int /\ credited'[q] \in Int
    BY <1>2, <2>2 DEF TypeOK
  <2>4. SumFunctionOnSet(debited', Now)
          = debited'[o] + SumFunctionOnSet(debited', OrdersOf(st))
    <3>. HIDE DEF Now, o
    <3>. QED  BY <2>1, <2>2, <2>3, SumRemove
  <2>5. SumFunctionOnSet(credited', Now)
          = credited'[o] + SumFunctionOnSet(credited', OrdersOf(st))
    <3>. HIDE DEF Now, o
    <3>. QED  BY <2>1, <2>2, <2>3, SumRemove
  <2>6. SumFunctionOnSet(credited', OrdersOf(st)) = SumFunctionOnSet(credited, OrdersOf(st))
    BY <1>3
  <2>7. /\ debited'[o] = row.amount /\ credited'[o] = 0
        /\ account'[st] = account[st] + row.amount /\ posted'[st] = posted[st]
    BY <1>1, <1>2, <1>3, <1>4, <1>5, <1>11 DEF TypeOK
  <2>. HIDE DEF Now, o, row
  <2>8. /\ SumFunctionOnSet(debited', Now)
             = row.amount + SumFunctionOnSet(debited, OrdersOf(st))
        /\ SumFunctionOnSet(credited', Now) = SumFunctionOnSet(credited, OrdersOf(st))
    BY <1>9, <1>10, <2>4, <2>5, <2>6, <2>7
  <2>9. account'[st] = posted'[st] + SumFunctionOnSet(debited', Now)
                                   - SumFunctionOnSet(credited', Now)
    BY <1>1, <1>8, <1>9, <2>7, <2>8
  <2>. QED  BY <2>9 DEF Now
<1>12. CASE st # row.store
  <2>1. /\ OrdersOf(st)' = OrdersOf(st) /\ account'[st] = account[st]
        /\ posted'[st] = posted[st] /\ credited' = credited
    BY <1>1, <1>2, <1>3, <1>4, <1>6, <1>12 DEF TypeOK
  <2>. QED  BY <1>8, <1>10, <2>1
<1>. QED  BY <1>11, <1>12

\* A committed update moves the credit of its order by what the account moves.
LEMMA UpdateIsPosted ==
  ASSUME Inv, AccountMatchesLedger, NEW s \in Sessions, CommitUpdate(s)
  PROVE  AccountMatchesLedger'
<1>. DEFINE o == tx[s].order
            row == orders[o]
<1>1. /\ o \in OrderIds /\ Exists(o) /\ row \in OrderRows
      /\ row.amount \in Nat /\ row.store \in Stores
      /\ row.amount = tx[s].row.amount
  BY ReadyToCommit DEF CommitUpdate, OrderKnown, SameOrder, Exists, Inv, TypeOK, OrderRows
<1>2. TypeOK /\ TypeOK'
  BY NextTypeOK, NextInv DEF Inv, Next, Step
<1>3. /\ orders' = [orders EXCEPT ![o] =
             [@ EXCEPT !.status = tx[s].to, !.version = tx[s].row.version + 1]]
      /\ debited' = debited /\ posted' = posted
  BY DEF CommitUpdate, others
<1>4. ASSUME NEW st PROVE OrdersOf(st)' = OrdersOf(st)
  <2>1. \A q \in OrderIds : q # o => orders'[q] = orders[q]
    BY <1>3
  <2>2. orders'[o].store = orders[o].store
    BY <1>1, <1>2, <1>3 DEF TypeOK, OrderRows
  <2>3. orders'[o] # None
    <3>1. tx[s].to \in Statuses /\ tx[s].row.version + 1 \in Nat
      BY ReadyToCommit DEF CommitUpdate, Transactions, OrderRows
    <3>2. [orders[o] EXCEPT !.status = tx[s].to,
                            !.version = tx[s].row.version + 1] \in OrderRows
      BY <1>1, <3>1 DEF OrderRows
    <3>. QED  BY <1>1, <1>2, <1>3, <3>2, NoneAssumption DEF TypeOK
  <2>. QED  BY <1>1, <2>1, <2>2, <2>3 DEF OrdersOf, Exists
<1>5. SUFFICES ASSUME NEW st \in Stores
               PROVE  account'[st] = posted'[st]
                        + SumFunctionOnSet(debited', OrdersOf(st)')
                        - SumFunctionOnSet(credited', OrdersOf(st)')
  BY DEF AccountMatchesLedger
<1>6. account[st] = posted[st] + SumFunctionOnSet(debited, OrdersOf(st))
                               - SumFunctionOnSet(credited, OrdersOf(st))
  BY DEF AccountMatchesLedger
<1>7. /\ account[st] \in Int /\ posted[st] \in Int
      /\ IsFiniteSet(OrdersOf(st)) /\ OrdersOf(st) \subseteq OrderIds
      /\ SumFunctionOnSet(debited, OrdersOf(st)) \in Int
      /\ SumFunctionOnSet(credited, OrdersOf(st)) \in Int
  BY <1>2, SumsOfOrders DEF TypeOK
<1>8. OrdersOf(st)' = OrdersOf(st)
  BY <1>4
<1>9. CASE Compensates(tx[s])
  <2>1. /\ account' = [account EXCEPT ![row.store] = @ - row.amount]
        /\ credited' = [credited EXCEPT ![o] = @ + row.amount]
    BY <1>1, <1>9, CommitUpdateEffect DEF CommitUpdate
  <2>2. /\ \A q \in OrderIds : credited[q] \in Int /\ credited'[q] \in Int
        /\ credited'[o] = credited[o] + row.amount
        /\ \A q \in OrderIds \ {o} : credited'[q] = credited[q]
    BY <1>1, <1>2, <2>1 DEF TypeOK
  <2>3. CASE st = row.store
    <3>1. o \in OrdersOf(st) /\ account'[st] = account[st] - row.amount
      BY <1>1, <1>2, <2>1, <2>3 DEF OrdersOf, TypeOK
    <3>. HIDE DEF o
    <3>2. SumFunctionOnSet(credited', OrdersOf(st))
            = SumFunctionOnSet(credited, OrdersOf(st)) + (credited'[o] - credited[o])
      BY <1>7, <2>2, <3>1, SumMoves
    <3>. HIDE DEF row
    <3>3. credited'[o] - credited[o] = row.amount
      BY <1>1, <2>2
    <3>. QED  BY <1>1, <1>3, <1>6, <1>7, <1>8, <3>1, <3>2, <3>3
  <2>4. CASE st # row.store
    <3>1. o \notin OrdersOf(st) /\ account'[st] = account[st]
      BY <1>1, <1>2, <2>1, <2>4 DEF OrdersOf, TypeOK
    <3>2. SumFunctionOnSet(credited', OrdersOf(st)) = SumFunctionOnSet(credited, OrdersOf(st))
      <4>. HIDE DEF o
      <4>1. \A q \in OrdersOf(st) : credited'[q] = credited[q]
        BY <1>7, <2>2, <3>1
      <4>. QED  BY <1>7, <4>1, SumSame
    <3>. QED  BY <1>3, <1>6, <1>8, <3>1, <3>2
  <2>. QED  BY <2>3, <2>4
<1>10. CASE ~Compensates(tx[s])
  <2>1. account' = account /\ credited' = credited
    BY <1>10, CommitUpdateEffect DEF CommitUpdate
  <2>. QED  BY <1>3, <1>6, <1>8, <2>1
<1>. QED  BY <1>9, <1>10

LEMMA InitAccountMatchesLedger == Init => AccountMatchesLedger
<1> SUFFICES ASSUME Init, NEW st \in Stores
             PROVE  account[st] = posted[st]
                      + SumFunctionOnSet(debited, OrdersOf(st))
                      - SumFunctionOnSet(credited, OrdersOf(st))
  BY DEF AccountMatchesLedger
<1>1. OrdersOf(st) = {}
  BY DEF Init, OrdersOf, Exists
<1>2. /\ SumFunctionOnSet(debited, OrdersOf(st)) = 0
      /\ SumFunctionOnSet(credited, OrdersOf(st)) = 0
  BY <1>1, SumEmpty
<1>. QED  BY <1>2 DEF Init

LEMMA NextAccountMatchesLedger ==
  ASSUME Inv, Books, AccountMatchesLedger, [Next]_vars
  PROVE  AccountMatchesLedger'
<1>. TypeOK
  BY DEF Inv
<1>1. CASE UNCHANGED db
  BY <1>1 DEF db, ledgers, others, AccountMatchesLedger, OrdersOf, Exists
<1>2. ASSUME NEW p \in Products, NEW d \in {-1, 1}, RecordMovement(p, d)
      PROVE  AccountMatchesLedger'
  BY <1>2 DEF RecordMovement, ledgers, AccountMatchesLedger, OrdersOf, Exists
<1>3. ASSUME NEW st \in Stores, NEW d \in {-1, 1}, RecordEntry(st, d)
      PROVE  AccountMatchesLedger'
  <2>1. /\ orders' = orders /\ debited' = debited /\ credited' = credited
        /\ account' = [account EXCEPT ![st] = @ + d]
        /\ posted' = [posted EXCEPT ![st] = @ + d]
    BY <1>3 DEF RecordEntry, ledgers
  <2>2. ASSUME NEW r \in Stores
        PROVE  account'[r] = posted'[r] + SumFunctionOnSet(debited, OrdersOf(r))
                                        - SumFunctionOnSet(credited, OrdersOf(r))
    <3>1. account[r] = posted[r] + SumFunctionOnSet(debited, OrdersOf(r))
                                 - SumFunctionOnSet(credited, OrdersOf(r))
      BY DEF AccountMatchesLedger
    <3>2. /\ account[r] \in Int /\ posted[r] \in Int
          /\ SumFunctionOnSet(debited, OrdersOf(r)) \in Int
          /\ SumFunctionOnSet(credited, OrdersOf(r)) \in Int
      BY SumsOfOrders DEF TypeOK
    <3>3. account'[r] - account[r] = posted'[r] - posted[r]
          /\ account'[r] \in Int /\ posted'[r] \in Int
      BY <2>1 DEF TypeOK
    <3>. QED  BY <3>1, <3>2, <3>3
  <2>3. \A r \in Stores : OrdersOf(r)' = OrdersOf(r)
    BY <2>1 DEF OrdersOf, Exists
  <2>. QED  BY <2>1, <2>2, <2>3 DEF AccountMatchesLedger
<1>. QED  BY <1>1, <1>2, <1>3, CreationIsPosted, UpdateIsPosted, DatabaseSteps

\* A store's balance is the sum of its ledger entries.
THEOREM AccountAddsUp == Spec => []AccountMatchesLedger
  BY InitAccountMatchesLedger, NextAccountMatchesLedger, Invariance,
     BooksInvariant, PTL DEF Spec

-----------------------------------------------------------------------------
(* Refinement *)

LEMMA InitRefines == Init => Atomic!Init
  BY DEF Init, Atomic!Init

LEMMA CreateRefines ==
  ASSUME Inv, Books, NEW s \in Sessions, NEW told \in BOOLEAN, CommitCreate(s, told)
  PROVE  Atomic!Next
<1>1. /\ tx[s].order \in OrderIds /\ ~Exists(tx[s].order)
      /\ tx[s].row \in OrderRows
      /\ tx[s].row.status = "confirmed" /\ tx[s].row.version = 1 /\ Inserted(s)
  BY ReadyToCommit DEF CommitCreate, OrderKnown, Inserted
<1>2. /\ orders' = [orders EXCEPT ![tx[s].order] = tx[s].row]
      /\ orders'[tx[s].order] = tx[s].row
  BY <1>1 DEF CommitCreate, Inv, TypeOK
<1>3. \A q \in OrderIds : Atomic!Exists(q) => ~Atomic!SameRequest(orders[q], tx[s].row)
  BY <1>1 DEF Inv, Fresh, Exists, SameRequest, Atomic!Exists, Atomic!SameRequest
<1>4. /\ \A p \in Products : stock[p] >= tx[s].row.basket[p]
      /\ stock' = [p \in Products |-> stock[p] - tx[s].row.basket[p]]
      /\ account' = [account EXCEPT ![tx[s].row.store] = @ + tx[s].row.amount]
  BY CommitCreateEffect DEF Books
<1>5. Atomic!Place(tx[s].order)
  BY <1>1, <1>2, <1>3, <1>4, NoneAssumption
  DEF Atomic!Place, Atomic!Exists, Exists
<1>. QED  BY <1>1, <1>5 DEF Atomic!Next

LEMMA UpdateRefines ==
  ASSUME Inv, NEW s \in Sessions, CommitUpdate(s)
  PROVE  Atomic!Next
<1> DEFINE o == tx[s].order
<1>1. o \in OrderIds /\ Exists(o) /\ orders[o] \in OrderRows
  BY ReadyToCommit DEF CommitUpdate, OrderKnown, Inv, TypeOK, Exists
<1>2. orders' = [orders EXCEPT ![o] =
         [orders[o] EXCEPT !.status = tx[s].to, !.version = tx[s].row.version + 1]]
  BY DEF CommitUpdate
<1>3. /\ orders'[o].status = tx[s].to /\ orders'[o].version = tx[s].row.version + 1
  BY <1>1, <1>2 DEF OrderRows, Inv, TypeOK
<1>4. Atomic!Change(o)
  BY <1>1, <1>2, <1>3 DEF Atomic!Change, Atomic!Exists, Exists
<1>5. CASE tx[s].to = "canceled"
  <2>1. Atomic!Cancel(o)
    BY <1>3, <1>4, <1>5, CommitUpdateEffect DEF Atomic!Cancel
  <2>. QED  BY <1>1, <2>1 DEF Atomic!Next
<1>6. CASE tx[s].to # "canceled"
  <2>1. Atomic!Advance(o)
    BY <1>3, <1>4, <1>6, CommitUpdateEffect DEF Atomic!Advance
  <2>. QED  BY <1>1, <2>1 DEF Atomic!Next
<1>. QED  BY <1>5, <1>6

LEMMA NextRefines ==
  ASSUME Inv, Books, [Next]_vars
  PROVE  [Atomic!Next]_(Atomic!vars)
<1>. TypeOK
  BY DEF Inv
<1>1. CASE UNCHANGED db
  BY <1>1 DEF db, Atomic!vars
<1>2. ASSUME NEW p \in Products, NEW d \in {-1, 1}, RecordMovement(p, d)
      PROVE  Atomic!Next
  <2>1. stock \in [Products -> Int]
    BY DEF TypeOK
  <2>2. Atomic!Move(p)
    BY <1>2, <2>1 DEF RecordMovement, Atomic!Move
  <2>. QED  BY <2>2 DEF Atomic!Next
<1>3. ASSUME NEW st \in Stores, NEW d \in {-1, 1}, RecordEntry(st, d)
      PROVE  Atomic!Next
  <2>1. account \in [Stores -> Int]
    BY DEF TypeOK
  <2>2. Atomic!Post(st)
    BY <1>3, <2>1 DEF RecordEntry, Atomic!Post
  <2>. QED  BY <2>2 DEF Atomic!Next
<1>. QED  BY <1>1, <1>2, <1>3, CreateRefines, UpdateRefines, DatabaseSteps

\* Every execution of the transactions is one of AtomicOrders: placing and
\* canceling an order are atomic, whatever the interleaving.
THEOREM Refinement == Spec => ImplementsAtomicOrders
  BY InitRefines, NextRefines, Invariance, BooksInvariant, PTL
  DEF Spec, ImplementsAtomicOrders, Atomic!Spec

-----------------------------------------------------------------------------
(* What a client that was answered may rely on *)

Names(row, k) == row.store = k[2] /\ row.uuid = k[3]

\* A key names an id that was drawn, and any order that ever gets that id,
\* committed or under way, is one of the key's store and client_uuid.
KeyNames(k) ==
    redis[k] # None =>
        /\ redis[k] \in minted
        /\ Exists(redis[k]) => Names(orders[redis[k]], k)
        /\ \A s \in Sessions :
            Inserted(s) /\ tx[s].order = redis[k] => Names(tx[s].row, k)

KeysName == \A k \in Keys : KeyNames(k)

\* Only a creation stores a key.
KeyedCreates == \A s \in Sessions : Active(s) /\ tx[s].keyed => tx[s].kind = "create"

ToldTrue(a) == Exists(a[3]) /\ orders[a[3]].store = a[1] /\ orders[a[3]].uuid = a[2]

AckedTrue == \A a \in acked : ToldTrue(a)

Replies == KeysName /\ KeyedCreates /\ AckedTrue

LEMMA InitReplies == Init => Replies
  BY DEF Init, Replies, KeysName, KeyNames, KeyedCreates, AckedTrue, Active, Idle

\* No order disappears or changes its store or client_uuid.
OrdersStay ==
    \A o \in OrderIds : Exists(o) =>
        /\ orders'[o] # None
        /\ orders'[o].store = orders[o].store /\ orders'[o].uuid = orders[o].uuid

LEMMA KeysKept ==
  ASSUME TypeOK, KeysName, SameRequests, minted \subseteq minted',
         \A k \in Keys : redis'[k] \in {redis[k], None}
  PROVE  KeysName'
<1>1. ASSUME NEW k \in Keys PROVE KeyNames(k)'
  <2>. SUFFICES ASSUME redis'[k] # None PROVE KeyNames(k)'
    BY DEF KeyNames
  <2>1. redis'[k] = redis[k] /\ KeyNames(k) /\ redis[k] \in OrderIds
    BY DEF KeysName, TypeOK
  <2>2. redis[k] \in minted'
    BY <2>1 DEF KeyNames
  <2>3. orders'[redis[k]] # None => Names(orders'[redis[k]], k)
    BY <2>1 DEF KeyNames, SameRequests, Names
  <2>4. ASSUME NEW s \in Sessions, Inserted(s)', tx'[s].order = redis[k]
        PROVE  Names(tx'[s].row, k)
    BY <2>1, <2>4 DEF KeyNames, SameRequests
  <2>. QED  BY <2>1, <2>2, <2>3, <2>4 DEF KeyNames, Exists
<1>. QED  BY <1>1 DEF KeysName, Keys

LEMMA AckedKept ==
  ASSUME TypeOK, AckedTrue, OrdersStay,
         \A a \in acked' : a \in acked \/ (a[3] \in OrderIds /\ ToldTrue(a))
  PROVE  AckedTrue'
<1>1. ASSUME NEW a \in acked' PROVE ToldTrue(a)'
  <2>1. ToldTrue(a) /\ a[3] \in OrderIds
    BY <1>1 DEF AckedTrue, TypeOK
  <2>. QED  BY <2>1 DEF ToldTrue, OrdersStay, Exists
<1>. QED  BY <1>1 DEF AckedTrue

LEMMA KeyedKept ==
  ASSUME KeyedCreates, NEW s \in Sessions,
         \A t \in Sessions \ {s} : tx'[t] = tx[t],
         Active(s)' /\ tx'[s].keyed => tx'[s].kind = "create"
  PROVE  KeyedCreates'
<1>1. ASSUME NEW t \in Sessions, Active(t)', tx'[t].keyed PROVE tx'[t].kind = "create"
  BY <1>1 DEF KeyedCreates, Active
<1>. QED  BY <1>1 DEF KeyedCreates

LEMMA NextReplies ==
  ASSUME Inv, Replies, [Next]_vars
  PROVE  Replies'
<1>. USE DEF db, ledgers, others
<1>0. TypeOK /\ OrdersKnown /\ Fresh /\ KeysName /\ KeyedCreates /\ AckedTrue
  BY DEF Inv, Replies
<1>1. ASSUME NEW s \in Sessions, NEW a \in Actors, NEW st \in Stores,
             NEW u \in Uuids \cup {None}, NEW q \in Quotes, NEW up \in BOOLEAN,
             BeginCreate(s, a, st, u, q, up)
      PROVE  Replies'
  <2>1. /\ UNCHANGED <<orders, minted, redis, acked>>
        /\ \A t \in Sessions \ {s} : tx'[t] = tx[t]
    BY <1>1 DEF BeginCreate
  <2>2. tx'[s].pc = "insert" /\ tx'[s].kind = "create"
    BY <1>0, <1>1 DEF BeginCreate, TypeOK
  <2>3. SameRequests /\ OrdersStay
    BY <2>1, <2>2 DEF SameRequests, OrdersStay, Inserted, Active, Exists
  <2>. QED  BY <1>0, <2>1, <2>2, <2>3, KeysKept, AckedKept, KeyedKept DEF Replies
<1>2. ASSUME NEW s \in Sessions, NEW o \in OrderIds, NEW to \in Targets,
             NEW v \in Versions, BeginUpdate(s, o, to, v)
      PROVE  Replies'
  <2>1. /\ UNCHANGED <<orders, minted, redis, acked>>
        /\ \A t \in Sessions \ {s} : tx'[t] = tx[t]
    BY <1>2 DEF BeginUpdate
  <2>2. tx'[s].kind = "update" /\ ~tx'[s].keyed
    BY <1>0, <1>2 DEF BeginUpdate, TypeOK
  <2>3. SameRequests /\ OrdersStay
    BY <2>1, <2>2 DEF SameRequests, OrdersStay, Inserted, Active, Exists
  <2>. QED  BY <1>0, <2>1, <2>2, <2>3, KeysKept, AckedKept, KeyedKept DEF Replies
<1>3. ASSUME NEW s \in Sessions, InsertOrder(s) PROVE Replies'
  <2>1. PICK o \in OrderIds \ minted :
           /\ minted' = minted \cup {o}
           /\ tx' = [tx EXCEPT ![s] = [@ EXCEPT !.pc = "stock", !.order = o]]
    BY <1>3 DEF InsertOrder
  <2>2. /\ UNCHANGED <<orders, redis, acked>> /\ Active(s)
        /\ tx[s] \in Transactions /\ tx[s].kind = "create"
    BY <1>0, <1>3 DEF InsertOrder, TypeOK, OrdersKnown, OrderKnown, Active, Idle
  <2>3. /\ tx'[s].order = o /\ tx'[s].kind = "create"
        /\ \A t \in Sessions \ {s} : tx'[t] = tx[t]
    BY <1>0, <2>1, <2>2 DEF TypeOK, Transactions
  <2>4. ASSUME NEW k \in Keys PROVE KeyNames(k)'
    <3>1. KeyNames(k) /\ redis'[k] = redis[k]
      BY <1>0, <2>2 DEF KeysName
    <3>2. redis[k] # None => redis[k] # o
      BY <2>1, <3>1 DEF KeyNames
    <3>3. ASSUME redis[k] # None, NEW t \in Sessions, Inserted(t)',
                 tx'[t].order = redis[k]
          PROVE  Names(tx'[t].row, k)
      <4>1. t # s /\ tx'[t] = tx[t] /\ Inserted(t)
        BY <2>3, <3>2, <3>3 DEF Inserted, Active
      <4>. QED  BY <3>1, <3>3, <4>1 DEF KeyNames
    <3>. QED  BY <2>1, <2>2, <3>1, <3>3 DEF KeyNames, Exists
  <2>5. KeysName'
    BY <2>4 DEF KeysName, Keys
  <2>6. OrdersStay
    BY <2>2 DEF OrdersStay, Exists
  <2>. QED  BY <1>0, <2>2, <2>3, <2>5, <2>6, AckedKept, KeyedKept DEF Replies
<1>4. ASSUME NEW s \in Sessions, RollBack(s) \/ ResolveDuplicate(s)
      PROVE  Replies'
  <2>1. UNCHANGED <<orders, minted, redis>> /\ tx' = [tx EXCEPT ![s] = Idle]
    BY <1>4 DEF RollBack, ResolveDuplicate
  <2>2. \A t \in Sessions \ {s} : tx'[t] = tx[t]
    BY <2>1
  <2>3. ~Active(s)'
    BY <1>0, <2>1 DEF Active, Idle, TypeOK
  <2>4. SameRequests /\ OrdersStay
    BY <2>1, <2>2, <2>3 DEF SameRequests, OrdersStay, Inserted, Active, Exists
  <2>5. ASSUME NEW a \in acked' PROVE a \in acked \/ (a[3] \in OrderIds /\ ToldTrue(a))
    <3>1. CASE RollBack(s)
      BY <2>5, <3>1 DEF RollBack
    <3>2. CASE ResolveDuplicate(s)
      <4>1. PICK o \in Twins(s) :
              acked' \subseteq acked \cup {<<tx[s].row.store, tx[s].row.uuid, o>>}
        BY <3>2 DEF ResolveDuplicate
      <4>2. /\ o \in OrderIds /\ Exists(o)
            /\ orders[o].store = tx[s].row.store /\ orders[o].uuid = tx[s].row.uuid
        BY DEF Twins, SameRequest
      <4>. QED  BY <2>5, <4>1, <4>2 DEF ToldTrue
    <3>. QED  BY <1>4, <3>1, <3>2
  <2>. QED  BY <1>0, <2>1, <2>2, <2>3, <2>4, <2>5, KeysKept, AckedKept, KeyedKept
            DEF Replies
<1>5. ASSUME NEW s \in Sessions,
             \/ \E p \in Products : LockStock(s, p)
             \/ LockAccount(s) \/ SkipAccount(s)
      PROVE  Replies'
  <2>1. Proceed(s)
    BY <1>0, <1>5, ProceedSteps
  <2>2. /\ UNCHANGED <<orders, minted, redis, acked>>
        /\ \A t \in Sessions \ {s} : tx'[t] = tx[t]
    <3>1. UNCHANGED <<redis, acked>>
      BY <1>5 DEF LockStock, LockAccount, SkipAccount
    <3>. QED  BY <1>0, <2>1, <3>1 DEF Proceed, TypeOK
  <2>3. tx[s] \in Transactions /\ Active(s)
    BY <1>0, <2>1 DEF TypeOK, Proceed, Active, Idle
  <2>4. tx'[s].keyed = tx[s].keyed
    <3>1. ASSUME NEW p \in Products, LockStock(s, p) PROVE tx'[s].keyed = tx[s].keyed
      <4>1. tx'[s] = [tx[s] EXCEPT !.todo = tx[s].todo \ {p},
                                   !.held = tx[s].held \cup {p},
                                   !.base = [tx[s].base EXCEPT ![p] = stock[p]]]
        BY <1>0, <3>1 DEF LockStock, TypeOK
      <4>. QED  BY <2>3, <4>1 DEF Transactions
    <3>2. CASE LockAccount(s)
      <4>1. tx'[s] = [tx[s] EXCEPT !.pc = "publish", !.acct = TRUE,
                                   !.bal = account[tx[s].row.store]]
        BY <1>0, <3>2 DEF LockAccount, TypeOK
      <4>. QED  BY <2>3, <4>1 DEF Transactions
    <3>3. CASE SkipAccount(s)
      <4>1. tx'[s] = [tx[s] EXCEPT !.pc = "publish"]
        BY <1>0, <3>3 DEF SkipAccount, TypeOK
      <4>. QED  BY <2>3, <4>1 DEF Transactions
    <3>. QED  BY <1>5, <3>1, <3>2, <3>3
  <2>5. /\ tx'[s].kind = tx[s].kind /\ tx'[s].row = tx[s].row
        /\ tx'[s].order = tx[s].order /\ tx[s].pc # "insert"
    BY <2>1 DEF Proceed
  <2>6. SameRequests /\ OrdersStay
    BY <2>2, <2>3, <2>5 DEF SameRequests, OrdersStay, Inserted, Active, Exists
  <2>7. tx[s].keyed => tx[s].kind = "create"
    BY <1>0, <2>3 DEF KeyedCreates
  <2>. QED  BY <1>0, <2>2, <2>4, <2>5, <2>6, <2>7, KeysKept, AckedKept, KeyedKept
            DEF Replies
<1>6. ASSUME NEW s \in Sessions, NEW ok \in BOOLEAN, PublishKey(s, ok)
      PROVE  Replies'
  <2> DEFINE key == <<tx[s].actor, tx[s].row.store, tx[s].row.uuid>>
  <2>1. /\ UNCHANGED <<orders, minted, acked>> /\ Active(s) /\ tx[s].pc = "publish"
        /\ tx[s] \in Transactions
        /\ \A t \in Sessions \ {s} : tx'[t] = tx[t]
        /\ tx'[s] = [tx[s] EXCEPT !.pc = "commit"]
    BY <1>0, <1>6 DEF PublishKey, Active, Idle, TypeOK
  <2>2. /\ tx'[s].kind = tx[s].kind /\ tx'[s].row = tx[s].row
        /\ tx'[s].order = tx[s].order /\ tx'[s].keyed = tx[s].keyed
    BY <2>1 DEF Transactions
  <2>3. SameRequests /\ OrdersStay
    BY <2>1, <2>2 DEF SameRequests, OrdersStay, Inserted, Active, Exists
  <2>4. tx[s].keyed => tx[s].kind = "create"
    BY <1>0, <2>1 DEF KeyedCreates
  <2>5. KeyedCreates' /\ AckedTrue'
    BY <1>0, <2>1, <2>2, <2>3, <2>4, AckedKept, KeyedKept
  <2>6. CASE redis' = redis
    <3>1. KeysName'
      BY <1>0, <2>1, <2>3, <2>6, KeysKept
    <3>. QED  BY <2>5, <3>1 DEF Replies
  <2>7. CASE tx[s].keyed /\ redis' = [redis EXCEPT ![key] = tx[s].order]
    <3>1. /\ Inserted(s) /\ tx[s].order \in minted /\ ~Exists(tx[s].order)
      BY <1>0, <2>1, <2>4, <2>7 DEF Inserted, OrdersKnown, OrderKnown
    <3>2. ASSUME NEW k \in Keys PROVE KeyNames(k)'
      <4>1. KeyNames(k)
        BY <1>0 DEF KeysName
      <4>2. CASE k = key
        <5>1. redis'[k] = tx[s].order
          BY <1>0, <2>7, <4>2 DEF TypeOK
        <5>2. Names(tx[s].row, k)
          BY <4>2 DEF Names
        <5>3. ASSUME NEW t \in Sessions, Inserted(t)', tx'[t].order = tx[s].order
              PROVE  Names(tx'[t].row, k)
          <6>1. Inserted(t) /\ tx'[t].row = tx[t].row /\ tx'[t].order = tx[t].order
            BY <2>3, <5>3 DEF SameRequests
          <6>2. t = s
            BY <1>0, <3>1, <5>3, <6>1 DEF Fresh
          <6>. QED  BY <5>2, <6>1, <6>2
        <5>. QED  BY <2>1, <3>1, <5>1, <5>3 DEF KeyNames, Exists
      <4>3. CASE k # key
        <5>1. redis'[k] = redis[k]
          BY <1>0, <2>7, <4>3 DEF TypeOK
        <5>2. ASSUME redis[k] # None, NEW t \in Sessions, Inserted(t)',
                     tx'[t].order = redis[k]
              PROVE  Names(tx'[t].row, k)
          BY <2>3, <4>1, <5>2 DEF KeyNames, SameRequests
        <5>. QED  BY <2>1, <4>1, <5>1, <5>2 DEF KeyNames, Exists
      <4>. QED  BY <4>2, <4>3
    <3>3. KeysName'
      BY <3>2 DEF KeysName, Keys
    <3>. QED  BY <2>5, <3>3 DEF Replies
  <2>. QED  BY <1>6, <2>6, <2>7 DEF PublishKey
<1>7. ASSUME NEW s \in Sessions, NEW told \in BOOLEAN, CommitCreate(s, told)
      PROVE  Replies'
  <2>1. /\ orders' = [orders EXCEPT ![tx[s].order] = tx[s].row]
        /\ tx' = [tx EXCEPT ![s] = Idle] /\ UNCHANGED <<minted, redis>>
        /\ acked' \subseteq acked \cup
             {<<tx[s].row.store, tx[s].row.uuid, tx[s].order>>}
    BY <1>7 DEF CommitCreate
  <2>2. Active(s) /\ Inserted(s) /\ tx[s] \in Transactions /\ OrderKnown(s)
    BY <1>0, <1>7 DEF CommitCreate, Inserted, Active, Idle, TypeOK, OrdersKnown
  <2>3. tx[s].order \in OrderIds /\ ~Exists(tx[s].order) /\ tx[s].row # None
    <3>1. tx[s].order \in minted /\ ~Exists(tx[s].order)
      BY <1>7, <2>2 DEF CommitCreate, OrderKnown
    <3>2. tx[s].row \in OrderRows
      BY <2>2 DEF Transactions
    <3>. QED  BY <1>0, <3>1, <3>2, NoneAssumption DEF TypeOK
  <2>4. /\ orders'[tx[s].order] = tx[s].row
        /\ \A o \in OrderIds \ {tx[s].order} : orders'[o] = orders[o]
    BY <1>0, <2>1, <2>3 DEF TypeOK
  <2>5. \A t \in Sessions : Active(t)' => t # s /\ tx'[t] = tx[t]
    BY <1>0, <2>1 DEF Active, Idle, TypeOK
  <2>6. OrdersStay
    BY <2>3, <2>4 DEF OrdersStay, Exists
  <2>7. ASSUME NEW a \in acked' PROVE ToldTrue(a)'
    <3>1. CASE a \in acked
      <4>1. ToldTrue(a) /\ a[3] \in OrderIds
        BY <1>0, <3>1 DEF AckedTrue, TypeOK
      <4>. QED  BY <2>6, <4>1 DEF ToldTrue, OrdersStay, Exists
    <3>2. CASE a = <<tx[s].row.store, tx[s].row.uuid, tx[s].order>>
      BY <2>3, <2>4, <3>2 DEF ToldTrue, Exists
    <3>. QED  BY <2>1, <2>7, <3>1, <3>2
  <2>8. ASSUME NEW k \in Keys PROVE KeyNames(k)'
    <3>. SUFFICES ASSUME redis[k] # None PROVE KeyNames(k)'
      BY <2>1 DEF KeyNames
    <3>1. KeyNames(k) /\ redis'[k] = redis[k] /\ redis[k] \in OrderIds
      BY <1>0, <2>1 DEF KeysName, TypeOK
    <3>2. orders'[redis[k]] # None => Names(orders'[redis[k]], k)
      <4>1. CASE redis[k] = tx[s].order
        BY <2>2, <2>4, <3>1, <4>1 DEF KeyNames
      <4>2. CASE redis[k] # tx[s].order
        BY <2>4, <3>1, <4>2 DEF KeyNames, Exists
      <4>. QED  BY <4>1, <4>2
    <3>3. ASSUME NEW t \in Sessions, Inserted(t)', tx'[t].order = redis[k]
          PROVE  Names(tx'[t].row, k)
      <4>1. tx'[t] = tx[t] /\ Inserted(t)
        BY <2>5, <3>3 DEF Inserted, Active
      <4>. QED  BY <3>1, <3>3, <4>1 DEF KeyNames
    <3>. QED  BY <2>1, <3>1, <3>2, <3>3 DEF KeyNames, Exists
  <2>9. KeysName' /\ AckedTrue'
    BY <2>7, <2>8 DEF KeysName, Keys, AckedTrue
  <2>10. KeyedCreates'
    BY <1>0, <2>5 DEF KeyedCreates, Active
  <2>. QED  BY <2>9, <2>10 DEF Replies
<1>8. ASSUME NEW s \in Sessions, CommitUpdate(s) PROVE Replies'
  <2>1. /\ orders' = [orders EXCEPT ![tx[s].order] =
             [@ EXCEPT !.status = tx[s].to, !.version = tx[s].row.version + 1]]
        /\ tx' = [tx EXCEPT ![s] = Idle] /\ UNCHANGED <<minted, redis, acked>>
    BY <1>8 DEF CommitUpdate
  <2>2. /\ Active(s) /\ tx[s] \in Transactions /\ tx[s].order \in OrderIds
        /\ Exists(tx[s].order) /\ orders[tx[s].order] \in OrderRows
        /\ tx[s].row \in OrderRows
    BY <1>0, <1>8 DEF CommitUpdate, TypeOK, OrdersKnown, OrderKnown, Active, Idle,
       Exists, Transactions
  <2>3. /\ orders'[tx[s].order] # None
        /\ orders'[tx[s].order].store = orders[tx[s].order].store
        /\ orders'[tx[s].order].uuid = orders[tx[s].order].uuid
    <3> DEFINE new == [orders[tx[s].order] EXCEPT !.status = tx[s].to,
                                                  !.version = tx[s].row.version + 1]
    <3>1. orders'[tx[s].order] = new
      BY <1>0, <2>1, <2>2 DEF TypeOK
    <3>2. tx[s].to \in Statuses /\ tx[s].row.version + 1 \in Nat
      BY <2>2 DEF Transactions, OrderRows
    <3>3. /\ new \in OrderRows
          /\ new.store = orders[tx[s].order].store
          /\ new.uuid = orders[tx[s].order].uuid
      BY <2>2, <3>2 DEF OrderRows
    <3>. QED  BY <3>1, <3>3, NoneAssumption
  <2>4. \A o \in OrderIds \ {tx[s].order} : orders'[o] = orders[o]
    BY <1>0, <2>1 DEF TypeOK
  <2>5. \A t \in Sessions : Active(t)' => t # s /\ tx'[t] = tx[t]
    BY <1>0, <2>1 DEF Active, Idle, TypeOK
  <2>6. SameRequests /\ OrdersStay
    BY <2>2, <2>3, <2>4, <2>5 DEF SameRequests, OrdersStay, Inserted, Active, Exists
  <2>7. KeyedCreates'
    BY <1>0, <2>5 DEF KeyedCreates, Active
  <2>8. KeysName' /\ AckedTrue'
    BY <1>0, <2>1, <2>6, KeysKept, AckedKept
  <2>. QED  BY <2>7, <2>8 DEF Replies
<1>9. CASE Environment \/ UNCHANGED vars
  <2>1. UNCHANGED <<orders, minted, tx>>
    BY <1>9 DEF Environment, ReplyFromCache, ExpireKey, RecordMovement,
       RecordEntry, vars
  <2>2. SameRequests /\ OrdersStay /\ KeyedCreates'
    BY <1>0, <2>1 DEF SameRequests, OrdersStay, KeyedCreates, Inserted, Active, Exists
  <2>3. \A k \in Keys : redis'[k] \in {redis[k], None}
    <3>1. redis' = redis \/ \E k \in Keys : redis' = [redis EXCEPT ![k] = None]
      BY <1>9 DEF Environment, ReplyFromCache, ExpireKey, RecordMovement,
         RecordEntry, vars
    <3>. QED  BY <1>0, <3>1 DEF TypeOK
  <2>4. ASSUME NEW a \in acked' PROVE a \in acked \/ (a[3] \in OrderIds /\ ToldTrue(a))
    <3>1. CASE acked' = acked
      BY <2>4, <3>1
    <3>2. ASSUME NEW b \in Actors, NEW st \in Stores, NEW u \in Uuids,
                 ReplyFromCache(b, st, u)
          PROVE  a \in acked \/ (a[3] \in OrderIds /\ ToldTrue(a))
      <4> DEFINE k == <<b, st, u>>
      <4>1. /\ k \in Keys /\ redis[k] # None /\ Exists(redis[k])
            /\ acked' = acked \cup {<<st, u, redis[k]>>}
        BY <3>2 DEF ReplyFromCache, Hit, Keys
      <4>2. Names(orders[redis[k]], k) /\ redis[k] \in OrderIds
        BY <1>0, <4>1 DEF KeysName, KeyNames, TypeOK
      <4>. QED  BY <2>4, <4>1, <4>2 DEF ToldTrue, Names
    <3>3. \/ acked' = acked
          \/ \E b \in Actors, st \in Stores, u \in Uuids : ReplyFromCache(b, st, u)
      BY <1>9 DEF Environment, ExpireKey, RecordMovement, RecordEntry, vars
    <3>. QED  BY <3>1, <3>2, <3>3
  <2>5. KeysName' /\ AckedTrue'
    BY <1>0, <2>1, <2>2, <2>3, <2>4, KeysKept, AckedKept
  <2>. QED  BY <2>2, <2>5 DEF Replies
<1>. QED
  BY <1>1, <1>2, <1>3, <1>4, <1>5, <1>6, <1>7, <1>8, <1>9
  DEF Next, Request, Step, Abort, InsufficientStock, DeadlockVictim

\* A client that was told its order is accepted was told of a committed order
\* of its store and client_uuid, and every retry names the same one: the
\* lookup of _existing_order_for_key behind a key that may be stale.
THEOREM AckedIsCommitted == Spec => []AckedOrderExists
<1>1. Inv /\ Replies => AckedOrderExists
  <2>. SUFFICES ASSUME Inv, Replies PROVE AckedOrderExists
    OBVIOUS
  <2>1. \A a \in acked : ToldTrue(a) /\ a[3] \in OrderIds /\ a[2] # None
    BY ConstantsAssumption DEF Inv, TypeOK, Replies, AckedTrue
  <2>2. ASSUME NEW a \in acked, NEW b \in acked, a[1] = b[1], a[2] = b[2]
        PROVE  a[3] = b[3]
    BY <2>1, <2>2 DEF Inv, Fresh, OneOrderPerUuid, ToldTrue, SameRequest
  <2>. QED  BY <2>1, <2>2 DEF AckedOrderExists, ToldTrue
<1>2. Inv /\ Replies /\ [Next]_vars => Replies'
  BY NextReplies
<1>3. Init => Replies
  BY InitReplies
<1>. QED  BY <1>1, <1>2, <1>3, Invariance, PTL DEF Spec
=============================================================================
