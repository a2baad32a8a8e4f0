--------------------------- MODULE DeliveriesProofs ---------------------------
(***************************************************************************)
(* Proofs about Deliveries for any number of sessions, deliveries, orders  *)
(* and users; and about PushWorker, which tells users of such events, for  *)
(* any number of runs, events and users, and pages of any size.            *)
(*                                                                         *)
(* The unique indexes are stated over committed rows and rows inserted by  *)
(* transactions under way, since an INSERT that waits for such a row is    *)
(* what keeps two creations apart; the row lock of an update is stated as  *)
(* the row it read being the row there is.                                 *)
(***************************************************************************)
EXTENDS Deliveries, PushWorker, FiniteSetTheorems, TLAPS

\* What transactions know of the rows they work on.
Bound ==
    \A s \in Sessions :
        /\ tx[s].pc \in {"check", "insert", "publish", "commit"} =>
              tx[s].row.status = "assigned" /\ tx[s].row.version = 1
        /\ Inserted(s) => tx[s].delivery \in minted /\ ~Exists(tx[s].delivery)
        /\ tx[s].pc = "write" =>
              /\ tx[s].delivery \in DeliveryIds /\ Exists(tx[s].delivery)
              /\ rows[tx[s].delivery] = tx[s].row
              /\ tx[s].to \in NextStatuses[tx[s].row.status]

\* Ids are used once, and a row has one writer at a time.
Used ==
    /\ \A d \in DeliveryIds : Exists(d) => d \in minted
    /\ \A s, t \in Sessions :
        Inserted(s) /\ Inserted(t) /\ tx[s].delivery = tx[t].delivery => s = t
    /\ \A s, t \in Sessions :
        tx[s].pc = "write" /\ tx[t].pc = "write" /\ tx[s].delivery = tx[t].delivery => s = t

\* The unique indexes over committed and uncommitted rows.
Indexed ==
    /\ \A d, e \in DeliveryIds :
        Exists(d) /\ Exists(e) /\ Conflict(rows[d], rows[e]) => d = e
    /\ \A s \in Sessions, e \in DeliveryIds :
        Inserted(s) /\ Exists(e) => ~Conflict(tx[s].row, rows[e])
    /\ \A s, t \in Sessions :
        Inserted(s) /\ Inserted(t) /\ Conflict(tx[s].row, tx[t].row) => s = t

\* The events of a delivery are a function of the versions it has had.
Told ==
    /\ \A e \in events : Exists(e[1]) /\ e[2] \in 1..rows[e[1]].version
    /\ \A e, f \in events : e[1] = f[1] /\ e[2] = f[2] => e = f
    /\ \A d \in DeliveryIds : Exists(d) =>
        /\ \A v \in 1..rows[d].version : \E e \in events : e[1] = d /\ e[2] = v
        /\ <<d, rows[d].version, rows[d].status>> \in events

Inv == TypeOK /\ Bound /\ Used /\ Indexed /\ StockedIffDelivered /\ Told

\* A final status leads nowhere, and no step leads back to an active one.
LEMMA StepsFromActive ==
  ASSUME NEW st \in Statuses, NEW to \in NextStatuses[st]
  PROVE  /\ to \in Statuses
         /\ st \notin {"delivered", "failed"}
  BY DEF Statuses, NextStatuses

\* Two rows collide in either order.
LEMMA ConflictSymmetric ==
  ASSUME NEW r1, NEW r2, Conflict(r1, r2)
  PROVE  Conflict(r2, r1)
  BY DEF Conflict, SameUuid, SameOrder

\* What a busy session's transaction is made of.
LEMMA BusyTyped ==
  ASSUME TypeOK, NEW s \in Sessions, tx[s].pc # "idle"
  PROVE  /\ tx[s] \in Transactions
         /\ tx[s].row \in DeliveryRows
         /\ tx[s].to \in Statuses
         /\ tx[s].delivery \in DeliveryIds \cup {None}
  BY DEF TypeOK, Transactions, Idle

LEMMA InitInv == Init => Inv
<1> SUFFICES ASSUME Init PROVE Inv
  OBVIOUS
<1>. USE DEF Init, Exists
<1>1. TypeOK
  BY DEF TypeOK
<1>2. Bound /\ Used /\ Indexed
  BY DEF Bound, Used, Indexed, Inserted, Idle
<1>3. StockedIffDelivered /\ Told
  BY DEF StockedIffDelivered, Told
<1>. QED  BY <1>1, <1>2, <1>3 DEF Inv

-----------------------------------------------------------------------------
(* Steps that commit nothing *)

\* A session that stops, or that has inserted and locked nothing yet.
LEMMA FreeInv ==
  ASSUME Inv, NEW s \in Sessions, NEW t0 \in Transactions \cup {Idle},
         tx' = [tx EXCEPT ![s] = t0], UNCHANGED <<db, minted>>,
         t0.pc \in {"idle", "check", "insert"},
         t0.pc # "idle" => t0.row.status = "assigned" /\ t0.row.version = 1,
         redis' \in [Keys -> DeliveryIds \cup {None}]
  PROVE  Inv'
<1>. USE DEF Inv, Exists, db
<1>1. TypeOK'
  BY DEF TypeOK
<1>2. Bound'
  BY DEF Bound, Inserted, TypeOK
<1>3. Used'
  BY DEF Used, Inserted, TypeOK
<1>4. Indexed'
  BY DEF Indexed, Inserted, Conflict, SameUuid, SameOrder, TypeOK
<1>. QED  BY <1>1, <1>2, <1>3, <1>4 DEF StockedIffDelivered, Told

LEMMA RollBackInv ==
  ASSUME Inv, NEW s \in Sessions, RollBack(s)
  PROVE  Inv'
  BY FreeInv DEF RollBack, Idle, Inv, TypeOK

LEMMA BeginCreateInv ==
  ASSUME Inv, NEW s \in Sessions, NEW a \in Actors, NEW o \in Orders,
         NEW u \in Uuids \cup {None}, NEW up \in BOOLEAN, BeginCreate(s, a, o, u, up)
  PROVE  Inv'
<1>. DEFINE row == [order |-> o, uuid |-> u, status |-> "assigned", version |-> 1]
            t0 == [pc |-> "check", delivery |-> None, row |-> row, to |-> "assigned",
                   actor |-> a, keyed |-> up /\ u # None]
<1>1. row \in DeliveryRows
  BY DEF DeliveryRows, Statuses
<1>2. t0 \in Transactions
  BY <1>1 DEF Transactions, Statuses
<1>3. tx' = [tx EXCEPT ![s] = t0] /\ UNCHANGED <<db, minted, redis>>
  BY DEF BeginCreate
<1>. QED  BY <1>2, <1>3, FreeInv DEF Inv, TypeOK

LEMMA PassCheckInv ==
  ASSUME Inv, NEW s \in Sessions, PassCheck(s)
  PROVE  Inv'
<1>. DEFINE t0 == [tx[s] EXCEPT !.pc = "insert"]
<1>1. tx[s].pc = "check" /\ UNCHANGED <<db, minted, redis>>
  BY DEF PassCheck
<1>2. tx[s] \in Transactions /\ tx[s].row.status = "assigned" /\ tx[s].row.version = 1
  BY <1>1, BusyTyped DEF Inv, Bound
<1>3. t0 \in Transactions /\ t0.pc = "insert" /\ t0.row = tx[s].row
  BY <1>2 DEF Transactions
<1>4. tx' = [tx EXCEPT ![s] = t0]
  BY <1>2 DEF PassCheck, Inv, TypeOK, Transactions
<1>. QED  BY <1>1, <1>2, <1>3, <1>4, FreeInv DEF Inv, TypeOK

\* The INSERT waited for every transaction with a conflicting row and found
\* no committed one.
LEMMA InsertDeliveryInv ==
  ASSUME Inv, NEW s \in Sessions, InsertDelivery(s)
  PROVE  Inv'
<1>. USE DEF Inv, Exists
<1>1. PICK d \in DeliveryIds \ minted :
        /\ minted' = minted \cup {d}
        /\ tx' = [tx EXCEPT ![s] = [@ EXCEPT !.pc = "publish", !.delivery = d]]
  BY DEF InsertDelivery
<1>. DEFINE t0 == [tx[s] EXCEPT !.pc = "publish", !.delivery = d]
<1>2. tx[s].pc = "insert" /\ UNCHANGED <<db, redis>>
  BY DEF InsertDelivery
<1>3. tx[s] \in Transactions /\ tx[s].row.status = "assigned" /\ tx[s].row.version = 1
  BY <1>2, BusyTyped DEF Bound
<1>4. /\ t0 \in Transactions
      /\ t0.pc = "publish" /\ t0.delivery = d /\ t0.row = tx[s].row
  BY <1>3 DEF Transactions
<1>5. tx' = [tx EXCEPT ![s] = t0]
  BY <1>1 DEF TypeOK
<1>. HIDE DEF t0
<1>6. TypeOK'
  BY <1>1, <1>2, <1>4, <1>5 DEF TypeOK, db
<1>7. Bound'
  BY <1>1, <1>2, <1>3, <1>4, <1>5 DEF Bound, Used, Inserted, TypeOK, db
<1>8. Used'
  BY <1>1, <1>2, <1>4, <1>5 DEF Bound, Used, Inserted, TypeOK, db
<1>9. Indexed'
  <2>1. \A t \in Sessions \ {s} : Inserted(t) => ~Conflict(tx[t].row, tx[s].row)
    BY DEF InsertDelivery, MayInsert
  <2>2. \A e \in DeliveryIds : Exists(e) => ~Conflict(rows[e], tx[s].row)
    BY DEF InsertDelivery, Conflicting
  <2>3. \A t \in Sessions : (Inserted(t))' <=> Inserted(t) \/ t = s
    BY <1>4, <1>5 DEF Inserted, TypeOK
  <2>4. \A t \in Sessions : tx'[t].row = tx[t].row
    BY <1>4, <1>5 DEF TypeOK
  <2>5. \A t \in Sessions, e \in DeliveryIds :
          (Inserted(t))' /\ rows[e] # None => ~Conflict(tx'[t].row, rows[e])
    BY <2>2, <2>3, <2>4, ConflictSymmetric DEF Indexed
  <2>6. \A t, q \in Sessions :
          (Inserted(t))' /\ (Inserted(q))' /\ Conflict(tx'[t].row, tx'[q].row) => t = q
    BY <2>1, <2>3, <2>4, ConflictSymmetric DEF Indexed
  <2>7. rows' = rows
    BY <1>2 DEF db
  <2>8. \A r1, r2 : Conflict(r1, r2)' <=> Conflict(r1, r2)
    BY DEF Conflict, SameUuid, SameOrder, IsActive
  <2>. QED  BY <2>5, <2>6, <2>7, <2>8 DEF Indexed, Conflict, SameUuid, SameOrder, IsActive
<1>. QED  BY <1>2, <1>6, <1>7, <1>8, <1>9 DEF StockedIffDelivered, Told, db

LEMMA PublishKeyInv ==
  ASSUME Inv, NEW s \in Sessions, NEW ok \in BOOLEAN, PublishKey(s, ok)
  PROVE  Inv'
<1>. USE DEF Inv, Exists
<1>. DEFINE t0 == [tx[s] EXCEPT !.pc = "commit"]
<1>1. tx[s].pc = "publish" /\ UNCHANGED <<db, minted>>
  BY DEF PublishKey
<1>2. /\ tx[s] \in Transactions /\ tx[s].delivery \in minted
      /\ tx[s].delivery \in DeliveryIds
  BY <1>1, BusyTyped DEF Bound, Inserted, TypeOK
<1>3. /\ t0 \in Transactions
      /\ t0.pc = "commit" /\ t0.delivery = tx[s].delivery /\ t0.row = tx[s].row
  BY <1>2 DEF Transactions
<1>4. tx' = [tx EXCEPT ![s] = t0]
  BY DEF PublishKey, TypeOK
<1>5. redis' \in [Keys -> DeliveryIds \cup {None}]
  BY <1>2 DEF PublishKey, TypeOK
<1>. HIDE DEF t0
<1>6. TypeOK'
  BY <1>1, <1>3, <1>4, <1>5 DEF TypeOK, db
<1>7. Bound'
  BY <1>1, <1>3, <1>4 DEF Bound, Inserted, TypeOK, db
<1>8. Used'
  BY <1>1, <1>3, <1>4 DEF Used, Inserted, TypeOK, db
<1>9. Indexed'
  BY <1>1, <1>3, <1>4 DEF Indexed, Inserted, TypeOK, db, Conflict, SameUuid, SameOrder, IsActive
<1>. QED  BY <1>1, <1>6, <1>7, <1>8, <1>9 DEF StockedIffDelivered, Told, db

LEMMA LockDeliveryInv ==
  ASSUME Inv, NEW s \in Sessions, NEW d \in DeliveryIds, NEW to \in Statuses,
         NEW v \in Versions, LockDelivery(s, d, to, v)
  PROVE  Inv'
<1>. USE DEF Inv, Exists
<1>. DEFINE t0 == [pc |-> "write", delivery |-> d, row |-> rows[d], to |-> to,
                   actor |-> None, keyed |-> FALSE]
<1>1. /\ ~Busy(s) /\ Exists(d) /\ RowFree(d) /\ to \in NextStatuses[rows[d].status]
      /\ tx' = [tx EXCEPT ![s] = t0] /\ UNCHANGED <<db, minted, redis>>
  BY DEF LockDelivery
<1>2. t0 \in Transactions
  BY <1>1 DEF Transactions, TypeOK
<1>3. t0.pc = "write" /\ t0.delivery = d /\ t0.row = rows[d] /\ t0.to = to
  OBVIOUS
<1>. HIDE DEF t0
<1>4. TypeOK'
  BY <1>1, <1>2 DEF TypeOK, db
<1>5. Bound'
  BY <1>1, <1>3 DEF Bound, Inserted, TypeOK, db
<1>6. Used'
  BY <1>1, <1>3 DEF Used, Inserted, RowFree, TypeOK, db
<1>7. Indexed'
  BY <1>1, <1>3 DEF Indexed, Inserted, TypeOK, db, Conflict, SameUuid, SameOrder, IsActive
<1>. QED  BY <1>1, <1>4, <1>5, <1>6, <1>7 DEF StockedIffDelivered, Told, db

-----------------------------------------------------------------------------
(* Commits *)

LEMMA CommitCreateInv ==
  ASSUME Inv, NEW s \in Sessions, CommitCreate(s)
  PROVE  Inv'
<1>. USE DEF Inv
<1>. DEFINE d == tx[s].delivery
            row == tx[s].row
<1>1. tx[s].pc = "commit" /\ Inserted(s)
  BY DEF CommitCreate, Inserted
<1>2. /\ d \in DeliveryIds /\ d \in minted /\ ~Exists(d)
      /\ row \in DeliveryRows /\ row # None
      /\ row.status = "assigned" /\ row.version = 1
  BY <1>1, BusyTyped, NoneAssumption DEF Bound, TypeOK
<1>3. /\ rows' = [rows EXCEPT ![d] = row]
      /\ events' = events \cup {<<d, 1, "assigned">>}
      /\ tx' = [tx EXCEPT ![s] = Idle]
      /\ UNCHANGED <<open, inventory, minted, redis>>
  BY <1>2 DEF CommitCreate
<1>4. \A e \in DeliveryIds : /\ Exists(e)' <=> Exists(e) \/ e = d
                             /\ rows'[e] = IF e = d THEN row ELSE rows[e]
  BY <1>2, <1>3 DEF Exists, TypeOK
<1>5. \A t \in Sessions : tx'[t] = IF t = s THEN Idle ELSE tx[t]
  BY <1>3 DEF TypeOK
<1>. HIDE DEF d, row
<1>6. TypeOK'
  BY <1>2, <1>3 DEF TypeOK, Statuses
<1>7. Bound'
  <2> SUFFICES ASSUME NEW t \in Sessions, t # s PROVE
        /\ Inserted(t) => rows'[tx[t].delivery] = None
        /\ tx[t].pc = "write" =>
              rows'[tx[t].delivery] # None /\ rows'[tx[t].delivery] = tx[t].row
    BY <1>3, <1>5 DEF Bound, Inserted, Exists, Idle
  <2>1. Inserted(t) => tx[t].delivery # d /\ tx[t].delivery \in DeliveryIds
    BY <1>1 DEF Used, Bound, TypeOK, d
  <2>2. tx[t].pc = "write" => tx[t].delivery # d
    BY <1>2 DEF Bound
  <2>. QED  BY <1>4, <2>1, <2>2 DEF Bound, Exists
<1>8. Used'
  BY <1>2, <1>3, <1>4, <1>5 DEF Used, Inserted, Idle
<1>9. Indexed'
  <2>1. \A t \in Sessions : Inserted(t)' <=> Inserted(t) /\ t # s
    BY <1>5 DEF Inserted, Idle
  <2>2. \A e \in DeliveryIds : Exists(e) => ~Conflict(row, rows[e]) /\ ~Conflict(rows[e], row)
    BY <1>1, ConflictSymmetric DEF Indexed, row
  <2>3. \A t \in Sessions : Inserted(t) /\ t # s => ~Conflict(tx[t].row, row)
    BY <1>1 DEF Indexed, row
  <2>4. \A e, f \in DeliveryIds :
          Exists(e)' /\ Exists(f)' /\ Conflict(rows'[e], rows'[f]) => e = f
    BY <1>4, <2>2 DEF Indexed
  <2>5. \A t \in Sessions, e \in DeliveryIds :
          Inserted(t)' /\ Exists(e)' => ~Conflict(tx'[t].row, rows'[e])
    BY <1>4, <1>5, <2>1, <2>3 DEF Indexed
  <2>6. \A t, q \in Sessions :
          Inserted(t)' /\ Inserted(q)' /\ Conflict(tx'[t].row, tx'[q].row) => t = q
    BY <1>5, <2>1 DEF Indexed
  <2>. QED  BY <2>4, <2>5, <2>6 DEF Indexed, Conflict, SameUuid, SameOrder, IsActive
<1>10. StockedIffDelivered'
  BY <1>2, <1>3, <1>4 DEF StockedIffDelivered
<1>11. Told'
  <2>1. \A e \in events : e[1] # d /\ e[1] \in DeliveryIds
    BY <1>2 DEF Told, TypeOK
  <2>2. \A e \in events' : Exists(e[1])' /\ e[2] \in 1..rows'[e[1]].version
    BY <1>2, <1>3, <1>4, <2>1 DEF Told
  <2>3. \A e, f \in events' : e[1] = f[1] /\ e[2] = f[2] => e = f
    BY <1>3, <2>1 DEF Told
  <2>4. \A e \in DeliveryIds : Exists(e)' =>
          /\ \A v \in 1..rows'[e].version : \E f \in events' : f[1] = e /\ f[2] = v
          /\ <<e, rows'[e].version, rows'[e].status>> \in events'
    BY <1>2, <1>3, <1>4 DEF Told
  <2>. QED  BY <2>2, <2>3, <2>4 DEF Told
<1>. QED  BY <1>6, <1>7, <1>8, <1>9, <1>10, <1>11

LEMMA CommitUpdateInv ==
  ASSUME Inv, NEW s \in Sessions, CommitUpdate(s)
  PROVE  Inv'
<1>. USE DEF Inv
<1>. DEFINE d == tx[s].delivery
            to == tx[s].to
            n == rows[d].version + 1
            new == [rows[d] EXCEPT !.status = to, !.version = n]
<1>1. tx[s].pc = "write"
  BY DEF CommitUpdate
<1>2. /\ d \in DeliveryIds /\ Exists(d) /\ rows[d] = tx[s].row
      /\ to \in NextStatuses[rows[d].status]
      /\ rows[d] \in DeliveryRows
  BY <1>1, BusyTyped DEF Bound
<1>3. /\ to \in Statuses
      /\ IsActive(rows[d]) /\ rows[d].status \in Statuses /\ rows[d].status # "delivered"
  BY <1>2, StepsFromActive DEF IsActive, DeliveryRows
<1>4. /\ new \in DeliveryRows /\ new # None
      /\ new.status = to /\ new.version = n
      /\ new.order = rows[d].order /\ new.uuid = rows[d].uuid
  <2>1. n \in Nat
    BY <1>2 DEF DeliveryRows
  <2>2. new = [rows[d] EXCEPT !.status = to, !.version = n]
    OBVIOUS
  <2>. HIDE DEF n, d, to, new
  <2>3. /\ new \in DeliveryRows
        /\ new.status = to /\ new.version = n
        /\ new.order = rows[d].order /\ new.uuid = rows[d].uuid
    BY ONLY <1>2, <1>3, <2>1, <2>2 DEF DeliveryRows
  <2>. QED  BY <2>3, NoneAssumption
<1>5. /\ rows' = [rows EXCEPT ![d] = new]
      /\ events' = events \cup {<<d, rows[d].version + 1, to>>}
      /\ tx' = [tx EXCEPT ![s] = Idle]
      /\ UNCHANGED <<open, minted, redis>>
  BY <1>2 DEF CommitUpdate, TypeOK
<1>6. inventory[d] = 0
  BY <1>2, <1>3 DEF StockedIffDelivered
<1>7. \A e \in DeliveryIds :
        inventory'[e] = IF e = d THEN (IF to = "delivered" THEN 1 ELSE 0) ELSE inventory[e]
  BY <1>2, <1>6 DEF CommitUpdate, Stocks, TypeOK
<1>8. inventory' \in [DeliveryIds -> Nat]
  BY <1>2, <1>6 DEF CommitUpdate, Stocks, TypeOK
<1>9. \A e \in DeliveryIds : /\ Exists(e)' <=> Exists(e)
                             /\ rows'[e] = IF e = d THEN new ELSE rows[e]
  BY <1>2, <1>4, <1>5 DEF Exists, TypeOK
<1>10. \A t \in Sessions : tx'[t] = IF t = s THEN Idle ELSE tx[t]
  BY <1>5 DEF TypeOK
<1>. HIDE DEF d, to, new
<1>11. rows[d].version \in Nat
  BY <1>2 DEF DeliveryRows
<1>12. TypeOK'
  <2>1. rows' \in [DeliveryIds -> DeliveryRows \cup {None}]
    BY <1>2, <1>4, <1>5 DEF TypeOK
  <2>2. events' \subseteq DeliveryIds \X Nat \X Statuses
    BY <1>2, <1>3, <1>5, <1>11 DEF TypeOK
  <2>. QED  BY <1>5, <1>8, <2>1, <2>2 DEF TypeOK
<1>13. Bound'
  <2> SUFFICES ASSUME NEW t \in Sessions, t # s PROVE
        /\ Inserted(t) => rows'[tx[t].delivery] = None
        /\ tx[t].pc = "write" =>
              rows'[tx[t].delivery] # None /\ rows'[tx[t].delivery] = tx[t].row
    BY <1>5, <1>10 DEF Bound, Inserted, Exists, Idle
  <2>1. tx[t].pc = "write" => tx[t].delivery # d
    BY <1>1 DEF Used, d
  <2>2. Inserted(t) => tx[t].delivery \in DeliveryIds
    BY DEF Bound, TypeOK
  <2>. QED  BY <1>9, <2>1, <2>2 DEF Bound, Exists
<1>14. Used'
  BY <1>5, <1>9, <1>10 DEF Used, Inserted, Idle
<1>15. Indexed'
  <2>1. \A t \in Sessions : Inserted(t)' <=> Inserted(t) /\ t # s
    BY <1>10 DEF Inserted, Idle
  <2>2. \A e \in DeliveryIds : \A r : Conflict(r, rows'[e]) => Conflict(r, rows[e])
    BY <1>3, <1>4, <1>9 DEF Conflict, SameUuid, SameOrder, IsActive
  <2>3. \A e \in DeliveryIds : \A r : Conflict(rows'[e], r) => Conflict(rows[e], r)
    BY <2>2, ConflictSymmetric
  <2>4. \A e, f \in DeliveryIds :
          Exists(e)' /\ Exists(f)' /\ Conflict(rows'[e], rows'[f]) => e = f
    BY <1>9, <2>2, <2>3 DEF Indexed
  <2>5. \A t \in Sessions, e \in DeliveryIds :
          Inserted(t)' /\ Exists(e)' => ~Conflict(tx'[t].row, rows'[e])
    BY <1>9, <1>10, <2>1, <2>2 DEF Indexed
  <2>6. \A t, q \in Sessions :
          Inserted(t)' /\ Inserted(q)' /\ Conflict(tx'[t].row, tx'[q].row) => t = q
    BY <1>10, <2>1 DEF Indexed
  <2>. QED  BY <2>4, <2>5, <2>6 DEF Indexed, Conflict, SameUuid, SameOrder, IsActive
<1>16. StockedIffDelivered'
  BY <1>4, <1>7, <1>9 DEF StockedIffDelivered, Exists
<1>17. Told'
  <2>1. \A e \in events : e[1] \in DeliveryIds
    BY DEF TypeOK
  <2>2. \A e \in events' : Exists(e[1])' /\ e[2] \in 1..rows'[e[1]].version
    BY <1>2, <1>4, <1>5, <1>9, <1>11, <2>1 DEF Told
  <2>3. \A e, f \in events' : e[1] = f[1] /\ e[2] = f[2] => e = f
    <3>1. \A e \in events : ~(e[1] = d /\ e[2] = rows[d].version + 1)
      BY <1>11 DEF Told
    <3>. QED  BY <1>5, <3>1 DEF Told
  <2>4. ASSUME NEW e \in DeliveryIds, Exists(e)'
        PROVE  /\ \A v \in 1..rows'[e].version : \E f \in events' : f[1] = e /\ f[2] = v
               /\ <<e, rows'[e].version, rows'[e].status>> \in events'
    <3>1. CASE e # d
      BY <1>5, <1>9, <2>4, <3>1 DEF Told
    <3>2. CASE e = d
      <4>1. \A v \in 1..(rows[d].version + 1) :
              v \in 1..rows[d].version \/ v = rows[d].version + 1
        BY <1>11
      <4>2. <<d, rows[d].version + 1, to>> \in events'
        BY <1>5
      <4>3. \A v \in 1..rows[d].version : \E f \in events' : f[1] = d /\ f[2] = v
        <5>1. \A v \in 1..rows[d].version : \E f \in events : f[1] = d /\ f[2] = v
          BY <1>2 DEF Told
        <5>2. events \subseteq events'
          BY <1>5
        <5>. QED  BY <5>1, <5>2
      <4>4. rows'[d].version = rows[d].version + 1 /\ rows'[d].status = to
        BY <1>2, <1>4, <1>9
      <4>. QED  BY <3>2, <4>1, <4>2, <4>3, <4>4
    <3>. QED  BY <3>1, <3>2
  <2>. QED  BY <2>2, <2>3, <2>4 DEF Told
<1>. QED  BY <1>12, <1>13, <1>14, <1>15, <1>16, <1>17

-----------------------------------------------------------------------------
(* The invariant *)

LEMMA NextInv == Inv /\ [Next]_vars => Inv'
<1> SUFFICES ASSUME Inv, [Next]_vars PROVE Inv'
  OBVIOUS
<1>1. ASSUME NEW s \in Sessions, NEW a \in Actors, NEW o \in Orders,
             NEW u \in Uuids \cup {None}, NEW up \in BOOLEAN, BeginCreate(s, a, o, u, up)
      PROVE  Inv'
  BY <1>1, BeginCreateInv
<1>2. ASSUME NEW s \in Sessions, RefuseAssigned(s) \/ InsertConflict(s) \/ Abort(s)
      PROVE  Inv'
  BY <1>2, RollBackInv DEF RefuseAssigned, InsertConflict, Abort
<1>3. ASSUME NEW s \in Sessions, PassCheck(s) PROVE Inv'
  BY <1>3, PassCheckInv
<1>4. ASSUME NEW s \in Sessions, InsertDelivery(s) PROVE Inv'
  BY <1>4, InsertDeliveryInv
<1>5. ASSUME NEW s \in Sessions, NEW ok \in BOOLEAN, PublishKey(s, ok) PROVE Inv'
  BY <1>5, PublishKeyInv
<1>6. ASSUME NEW s \in Sessions, CommitCreate(s) PROVE Inv'
  BY <1>6, CommitCreateInv
<1>7. ASSUME NEW s \in Sessions, NEW d \in DeliveryIds, NEW to \in Statuses,
             NEW v \in Versions, LockDelivery(s, d, to, v)
      PROVE  Inv'
  BY <1>7, LockDeliveryInv
<1>8. ASSUME NEW s \in Sessions, CommitUpdate(s) PROVE Inv'
  BY <1>8, CommitUpdateInv
<1>9. ASSUME UNCHANGED <<rows, inventory, events, minted, tx>>, open' \subseteq Orders,
             redis' \in [Keys -> DeliveryIds \cup {None}]
      PROVE  Inv'
  BY <1>9 DEF Inv, TypeOK, Bound, Used, Indexed, Inserted, Exists, Conflict, SameUuid,
     SameOrder, IsActive, StockedIffDelivered, Told
<1>10. ASSUME NEW k \in Keys, ExpireKey(k) PROVE Inv'
  BY <1>9, <1>10 DEF ExpireKey, db, Inv, TypeOK
<1>11. ASSUME NEW o \in Orders, CloseOrder(o) PROVE Inv'
  BY <1>9, <1>11 DEF CloseOrder, Inv, TypeOK
<1>12. CASE UNCHANGED vars
  BY <1>9, <1>12 DEF vars, db, Inv, TypeOK
<1>. QED
  BY <1>1, <1>2, <1>3, <1>4, <1>5, <1>6, <1>7, <1>8, <1>10, <1>11, <1>12 DEF Next

\* The inductive invariant: types, ids, indexes over uncommitted rows, row
\* locks, and the events as a function of the versions.
THEOREM Invariance == Spec => []Inv
  BY InitInv, NextInv, PTL DEF Spec
-----------------------------------------------------------------------------
(* What follows from it *)

\* TypeOK: every reachable state is well formed.
THEOREM TypeCorrect == Spec => []TypeOK
  BY Invariance, PTL DEF Inv

\* StockedIffDelivered: the store's inventory holds each delivered delivery
\* once and no other, whatever sessions race for the last step.
THEOREM StockedOnce == Spec => []StockedIffDelivered
  BY Invariance, PTL DEF Inv

LEMMA IndexedOneActive == Inv => OneActiveDelivery
<1> SUFFICES ASSUME Inv, NEW o \in Orders PROVE Cardinality(ActiveFor(o)) <= 1
  BY DEF OneActiveDelivery
<1>1. \A d, e \in ActiveFor(o) : d = e
  BY DEF Inv, Indexed, ActiveFor, Conflict, SameOrder
<1>2. CASE ActiveFor(o) = {}
  BY <1>2, FS_EmptySet
<1>3. CASE \E d : d \in ActiveFor(o)
  <2>1. PICK d : d \in ActiveFor(o)
    BY <1>3
  <2>2. ActiveFor(o) = {d}
    BY <1>1, <2>1
  <2>3. Cardinality({d}) = 1
    BY FS_Singleton
  <2>. QED  BY <2>2, <2>3
<1>. QED  BY <1>2, <1>3

\* OneActiveDelivery: creations that searched before they inserted never leave
\* an order with two active deliveries, for any number of sessions.
THEOREM ActiveOnce == Spec => []OneActiveDelivery
  BY Invariance, IndexedOneActive, PTL

LEMMA IndexedOnePerUuid == Inv => OneDeliveryPerUuid
  BY DEF Inv, Indexed, Conflict, OneDeliveryPerUuid

\* OneDeliveryPerUuid: a client_uuid makes at most one delivery, whatever
\* Redis remembers of creations that were rolled back.
THEOREM UuidOnce == Spec => []OneDeliveryPerUuid
  BY Invariance, IndexedOnePerUuid, PTL

\* As many events as versions: each version has one.
LEMMA AsManyAsVersions ==
  ASSUME NEW n \in Nat, NEW T,
         \A e \in T : e[2] \in 1..n,
         \A e, f \in T : e[2] = f[2] => e = f,
         \A v \in 1..n : \E e \in T : e[2] = v
  PROVE  Cardinality(T) = n
<1>. DEFINE at == [v \in 1..n |-> CHOOSE e \in T : e[2] = v]
<1>1. \A v \in 1..n : at[v] \in T /\ at[v][2] = v
  OBVIOUS
<1>2. at \in [1..n -> T]
  BY <1>1
<1>3. \A v, w \in 1..n : at[v] = at[w] => v = w
  BY <1>1
<1>4. \A e \in T : \E v \in 1..n : at[v] = e
  BY <1>1
<1>. HIDE DEF at
<1>5. at \in Bijection(1..n, T)
  BY <1>2, <1>3, <1>4 DEF Bijection, Injection, IsInjective, Surjection
<1>6. ExistsBijection(1..n, T)
  BY <1>5 DEF ExistsBijection
<1>7. IsFiniteSet(1..n) /\ Cardinality(1..n) = n
  BY FS_Interval
<1>. QED  BY <1>6, <1>7, FS_Bijection

LEMMA ToldStory == Inv => EventsTellTheStory
<1> SUFFICES ASSUME Inv PROVE EventsTellTheStory
  OBVIOUS
<1>. DEFINE told(d) == {e \in events : e[1] = d}
<1>1. ASSUME NEW d \in DeliveryIds, ~Exists(d) PROVE told(d) = {}
  BY <1>1 DEF Inv, Told
<1>2. ASSUME NEW d \in DeliveryIds, Exists(d)
      PROVE  /\ {e[2] : e \in told(d)} = 1..rows[d].version
             /\ Cardinality(told(d)) = rows[d].version
             /\ <<d, rows[d].version, rows[d].status>> \in told(d)
  <2>1. rows[d].version \in Nat
    BY <1>2 DEF Inv, TypeOK, Exists, DeliveryRows
  <2>2. \A e \in told(d) : e[2] \in 1..rows[d].version
    BY DEF Inv, Told
  <2>3. \A e, f \in told(d) : e[2] = f[2] => e = f
    BY DEF Inv, Told
  <2>4. ASSUME NEW v \in 1..rows[d].version PROVE \E e \in told(d) : e[2] = v
    <3>1. PICK e \in events : e[1] = d /\ e[2] = v
      BY <1>2 DEF Inv, Told
    <3>2. e \in told(d)
      BY <3>1
    <3>. QED  BY <3>1, <3>2
  <2>5. <<d, rows[d].version, rows[d].status>> \in told(d)
    <3>1. <<d, rows[d].version, rows[d].status>> \in events
      BY <1>2 DEF Inv, Told
    <3>. QED  BY <3>1
  <2>. HIDE DEF told
  <2>6. {e[2] : e \in told(d)} = 1..rows[d].version
    BY <2>2, <2>4
  <2>. QED  BY <2>1, <2>2, <2>3, <2>4, <2>5, <2>6, AsManyAsVersions
<1>. QED  BY <1>1, <1>2 DEF EventsTellTheStory

\* EventsTellTheStory: the outbox has one event per version of a delivery, the
\* last one with the status of the row.
THEOREM EventsTell == Spec => []EventsTellTheStory
  BY Invariance, ToldStory, PTL

LEMMA StepMovesForward ==
  ASSUME Inv, [Next]_vars, NEW d \in DeliveryIds, Exists(d), rows'[d] # rows[d]
  PROVE  /\ rows'[d].status \in NextStatuses[rows[d].status]
         /\ rows'[d].version = rows[d].version + 1
         /\ rows'[d].order = rows[d].order /\ rows'[d].uuid = rows[d].uuid
<1>1. \/ \E s \in Sessions : CommitCreate(s) \/ CommitUpdate(s)
      \/ UNCHANGED rows
  BY DEF Next, vars, db, BeginCreate, RefuseAssigned, RollBack, PassCheck, InsertDelivery,
     InsertConflict, PublishKey, LockDelivery, Abort, ExpireKey, CloseOrder
<1>2. ASSUME NEW s \in Sessions, CommitCreate(s) PROVE FALSE
  <2>1. tx[s].delivery \in DeliveryIds /\ ~Exists(tx[s].delivery)
    BY <1>2 DEF CommitCreate, Inserted, Inv, Bound, TypeOK
  <2>2. rows'[d] = rows[d]
    BY <1>2, <2>1 DEF CommitCreate, Inv, TypeOK
  <2>. QED  BY <2>2
<1>3. ASSUME NEW s \in Sessions, CommitUpdate(s)
      PROVE  /\ rows'[d].status \in NextStatuses[rows[d].status]
             /\ rows'[d].version = rows[d].version + 1
             /\ rows'[d].order = rows[d].order /\ rows'[d].uuid = rows[d].uuid
  <2>. DEFINE n == rows[d].version + 1
              to == tx[s].to
              new == rows'[d]
  <2>1. tx[s].pc = "write" /\ tx[s].delivery = d
    BY <1>3 DEF CommitUpdate, Inv, TypeOK
  <2>2. /\ rows[d] \in DeliveryRows /\ tx[s].row = rows[d]
        /\ to \in Statuses /\ to \in NextStatuses[rows[d].status]
    BY <2>1, BusyTyped DEF Inv, Bound
  <2>3. n \in Nat
    BY <2>2 DEF DeliveryRows
  <2>4. new = [rows[d] EXCEPT !.status = to, !.version = n]
    BY <1>3, <2>1, <2>2 DEF CommitUpdate, Inv, TypeOK
  <2>. HIDE DEF n, to, new
  <2>5. new.status = to /\ new.version = n /\ new.order = rows[d].order /\ new.uuid = rows[d].uuid
    BY ONLY <2>2, <2>3, <2>4 DEF DeliveryRows
  <2>. QED  BY <2>2, <2>5 DEF n, new
<1>. QED  BY <1>1, <1>2, <1>3

LEMMA NextMovesForward ==
  ASSUME Inv, [Next]_vars
  PROVE  [\A d \in DeliveryIds :
            Exists(d) /\ rows'[d] # rows[d] =>
               /\ rows'[d].status \in NextStatuses[rows[d].status]
               /\ rows'[d].version = rows[d].version + 1
               /\ rows'[d].order = rows[d].order /\ rows'[d].uuid = rows[d].uuid
         ]_vars
  BY StepMovesForward

\* DeliveriesMoveForward: a committed delivery changes by one legal transition
\* and one version at a time, since its row lock covers the version check.
THEOREM MovesForward == Spec => DeliveriesMoveForward
  BY Invariance, NextMovesForward, PTL DEF Spec, DeliveriesMoveForward

-----------------------------------------------------------------------------
(***************************************************************************)
(* What the events of deliveries are for: the push worker (PushWorker)     *)
(* tells the users they concern.                                           *)
(***************************************************************************)
\* A pair that a run has written, or has yet to handle as news.
InHand(w, p) ==
    \/ run[w].rows[p] # NoRow
    \/ [pair |-> p, seen |-> NoRow] \in run[w].todo

\* A pair that need not be looked at again, for all that run w will leave.
Accounted(w, p) ==
    log[p] # NoRow \/ p \in skipped \/ InHand(w, p) \/ p \in run[w].passed

\* A run has all pairs of an event in hand, or none, apart from those it
\* passed over and those that others handled.
RunTogether(w) ==
    /\ \A p, q \in Pairs : p[1] = q[1] /\ InHand(w, p) => Accounted(w, q)
    /\ \A item \in run[w].todo : item.seen # NoRow => log[item.pair] # NoRow

PushInv ==
    /\ PushTypeOK /\ ToldTogether
    /\ \A p \in skipped : Logged(p[1])
    /\ \A w \in Workers : Running(w) => RunTogether(w)

LEMMA RetriesAllowed ==
  MaxRetries \in Nat \ {0}
  BY PushAssumption

LEMMA RowShape ==
  ASSUME NEW row \in Rows
  PROVE  /\ row.status \in {"sent", "failed"} /\ row.attempts \in 1..MaxRetries
         /\ row # NoRow
  BY NoRowAssumption DEF Rows

LEMMA PushRunShape ==
  ASSUME PushTypeOK, NEW w \in Workers, Running(w)
  PROVE  /\ run[w] \in [pc : {"push"}, todo : SUBSET Items,
                        rows : [Pairs -> Rows \cup {NoRow}],
                        gone : SUBSET Users, passed : SUBSET Pairs]
         /\ run[w] # NoRun
  BY DEF PushTypeOK, Runs, Running, NoRun

LEMMA PushInitInv == PushInit => PushInv
  BY DEF PushInit, PushInv, PushTypeOK, ToldTogether, Logged,
         Running, NoRun, Runs

\* Runs keep what they have when the log only grows and pairs leave skipped
\* for it.
LEMMA OtherRunsTogether ==
  ASSUME NEW w \in Workers, RunTogether(w), run'[w] = run[w],
         \A p \in Pairs : log[p] # NoRow => log'[p] # NoRow,
         \A p \in Pairs : p \in skipped => p \in skipped' \/ log'[p] # NoRow,
         PushTypeOK, Running(w)
  PROVE  RunTogether(w)'
<1>1. \A item \in run[w].todo : item.pair \in Pairs
  BY PushRunShape DEF Items
<1>2. \A p \in Pairs : Accounted(w, p) => Accounted(w, p)'
  BY DEF Accounted, InHand
<1>3. \A p : InHand(w, p)' <=> InHand(w, p)
  BY DEF InHand
<1>. QED  BY <1>1, <1>2, <1>3 DEF RunTogether

\* A step of one run that writes nothing to the log.
LEMMA OneRunMoves ==
  ASSUME PushInv, NEW w \in Workers, NEW x \in Runs,
         run' = [run EXCEPT ![w] = x], UNCHANGED <<emitted, device, log, skipped>>,
         Running(w)' => RunTogether(w)'
  PROVE  PushInv'
<1>1. PushTypeOK'
  BY DEF PushInv, PushTypeOK
<1>2. ToldTogether' /\ \A p \in skipped' : Logged(p[1])'
  BY DEF PushInv, ToldTogether, Logged
<1>3. ASSUME NEW v \in Workers, Running(v)' PROVE RunTogether(v)'
  <2>1. CASE v # w
    <3>1. run'[v] = run[v]
      BY <2>1 DEF PushInv, PushTypeOK
    <3>2. Running(v) /\ RunTogether(v)
      BY <1>3, <3>1 DEF PushInv, Running
    <3>. QED  BY <3>1, <3>2, OtherRunsTogether DEF PushInv
  <2>. QED  BY <1>3, <2>1
<1>. QED  BY <1>1, <1>2, <1>3 DEF PushInv

LEMMA BeginRunInv ==
  ASSUME PushInv, NEW w \in Workers, BeginRun(w)
  PROVE  PushInv'
<1>. PICK news : news = NewsPage
  OBVIOUS
<1>1. PICK retries \in RetryPages :
        /\ run' = [run EXCEPT ![w] =
            [pc |-> "push", todo |-> ItemsOf(news) \cup retries,
             rows |-> [p \in Pairs |-> NoRow], gone |-> {}, passed |-> {}]]
        /\ UNCHANGED <<emitted, device, log, skipped>>
  BY DEF BeginRun
<1>2. retries \subseteq {Retry(p) : p \in Retriable}
  BY DEF RetryPages
<1>3. PICK x : x = [pc |-> "push", todo |-> ItemsOf(news) \cup retries,
             rows |-> [p \in Pairs |-> NoRow], gone |-> {}, passed |-> {}]
  OBVIOUS
<1>4. \A item \in retries : /\ item \in Items /\ log[item.pair] # NoRow
                             /\ item.seen # NoRow
  <2>1. \A p \in Retriable : p \in Pairs /\ log[p] \in Rows /\ log[p] # NoRow
    BY DEF Retriable, Failed, PushInv, PushTypeOK
  <2>. QED  BY <1>2, <2>1 DEF Retry, Items
<1>5. ItemsOf(news) \subseteq Items
  BY DEF ItemsOf, Items
<1>6. x \in Runs
  BY <1>3, <1>4, <1>5 DEF Runs
<1>7. run'[w] = x /\ log' = log
  BY <1>1, <1>3 DEF PushInv, PushTypeOK
<1>8. RunTogether(w)'
  <2>1. \A p \in Pairs : InHand(w, p)' <=> p[1] \in news
    <3>1. \A p \in Pairs : [pair |-> p, seen |-> NoRow] \in ItemsOf(news) <=> p[1] \in news
      BY DEF ItemsOf
    <3>2. \A p : [pair |-> p, seen |-> NoRow] \notin retries
      BY <1>4
    <3>. QED  BY <1>3, <1>7, <3>1, <3>2 DEF InHand
  <2>2. \A item \in x.todo : item.seen # NoRow => item \in retries
    BY <1>3 DEF ItemsOf
  <2>. QED  BY <1>4, <1>7, <2>1, <2>2 DEF RunTogether, Accounted
<1>. QED  BY <1>1, <1>3, <1>6, <1>8, OneRunMoves

LEMMA RunLostInv ==
  ASSUME PushInv, NEW w \in Workers, run' = [run EXCEPT ![w] = NoRun],
         UNCHANGED <<emitted, device, log, skipped>>
  PROVE  PushInv'
<1>1. NoRun \in Runs /\ run'[w] = NoRun
  BY DEF Runs, PushInv, PushTypeOK
<1>2. ~ Running(w)'
  BY <1>1 DEF Running, NoRun
<1>. QED  BY <1>1, <1>2, OneRunMoves

\* A run that has handled an item keeps its events together when the item's
\* pair is written, passed over, or was in the log.
LEMMA ItemHandled ==
  ASSUME PushInv, NEW w \in Workers, Running(w), NEW item \in run[w].todo,
         run'[w].todo = run[w].todo \ {item}, UNCHANGED <<log, skipped>>,
         \A p \in Pairs \ {item.pair} : run'[w].rows[p] = run[w].rows[p],
         run'[w].rows[item.pair] # NoRow \/ run'[w].rows[item.pair] = run[w].rows[item.pair],
         run[w].passed \subseteq run'[w].passed,
         item.seen = NoRow => Accounted(w, item.pair)' ,
         run[w].rows[item.pair] # NoRow => run'[w].rows[item.pair] # NoRow
  PROVE  RunTogether(w)'
<1>1. RunTogether(w) /\ item \in Items
  BY PushRunShape DEF PushInv
<1>2. item.pair \in Pairs /\ item = [pair |-> item.pair, seen |-> item.seen]
  BY <1>1 DEF Items
<1>3. ASSUME NEW q \in Pairs, Accounted(w, q) PROVE Accounted(w, q)'
  <2>1. CASE q = item.pair /\ item.seen = NoRow
    BY <2>1
  <2>2. CASE q # item.pair \/ item.seen # NoRow
    <3>1. [pair |-> q, seen |-> NoRow] # item
      BY <1>2, <2>2
    <3>2. InHand(w, q) => InHand(w, q)'
      BY <3>1 DEF InHand
    <3>. QED  BY <1>3, <3>2 DEF Accounted
  <2>. QED  BY <2>1, <2>2
<1>4. ASSUME NEW p \in Pairs, NEW q \in Pairs, p[1] = q[1], InHand(w, p)'
      PROVE  Accounted(w, q)'
  <2>1. CASE InHand(w, p)
    BY <1>1, <1>3, <1>4, <2>1 DEF RunTogether
  <2>2. CASE ~ InHand(w, p)
    <3>1. p = item.pair
      BY <1>4, <2>2 DEF InHand
    <3>2. item.seen # NoRow
      BY <1>2, <2>2, <3>1 DEF InHand
    <3>3. log[p] # NoRow
      BY <1>1, <3>1, <3>2 DEF RunTogether
    <3>4. log[q] # NoRow \/ q \in skipped
      BY <1>4, <3>3 DEF PushInv, ToldTogether, Logged
    <3>. QED  BY <1>3, <3>4 DEF Accounted
  <2>. QED  BY <2>1, <2>2
<1>. QED  BY <1>1, <1>4 DEF RunTogether

LEMMA SkipInv ==
  ASSUME PushInv, NEW w \in Workers, NEW item \in run[w].todo,
         Running(w), Skip(w, item)
  PROVE  PushInv'
<1>1. PICK passed : passed = IF MayTry(Existing(item))
                              THEN run[w].passed \cup {item.pair} ELSE run[w].passed
  OBVIOUS
<1>2. PICK x : x = [run[w] EXCEPT !.todo = @ \ {item}, !.passed = passed]
  OBVIOUS
<1>3. run' = [run EXCEPT ![w] = x] /\ UNCHANGED <<emitted, device, log, skipped>>
  BY <1>1, <1>2 DEF Skip
<1>4. item \in Items /\ item.pair \in Pairs
  BY PushRunShape DEF PushInv, Items
<1>5. /\ x \in Runs /\ x.todo = run[w].todo \ {item} /\ x.rows = run[w].rows
      /\ x.passed = passed
  BY <1>1, <1>2, <1>4, PushRunShape DEF PushInv, Runs
<1>6. run'[w] = x
  BY <1>3 DEF PushInv, PushTypeOK
<1>7. item.seen = NoRow => log[item.pair] # NoRow \/ item.pair \in passed
  BY <1>1 DEF MayTry, Existing
<1>8. RunTogether(w)'
  BY <1>1, <1>3, <1>5, <1>6, <1>7, ItemHandled DEF Accounted
<1>. QED  BY <1>3, <1>5, <1>8, OneRunMoves

LEMMA SendInv ==
  ASSUME PushInv, NEW w \in Workers, NEW item \in run[w].todo,
         Running(w), Send(w, item)
  PROVE  PushInv'
<1>1. PICK outcome \in Outcomes :
        /\ MayTry(Existing(item))
        /\ run' = [run EXCEPT
            ![w].todo = @ \ {item},
            ![w].rows[item.pair] =
                [status   |-> IF outcome = "ok" THEN "sent" ELSE "failed",
                 attempts |-> IF Existing(item) = NoRow THEN 1
                              ELSE Existing(item).attempts + 1],
            ![w].gone = IF outcome = "invalid_token" THEN @ \cup {item.pair[2]} ELSE @]
        /\ UNCHANGED <<emitted, device, log, skipped>>
  BY DEF Send
<1>2. PICK row : row = [status   |-> IF outcome = "ok" THEN "sent" ELSE "failed",
                        attempts |-> IF Existing(item) = NoRow THEN 1
                                     ELSE Existing(item).attempts + 1]
  OBVIOUS
<1>3. PICK gone : gone = IF outcome = "invalid_token" THEN run[w].gone \cup {item.pair[2]}
                         ELSE run[w].gone
  OBVIOUS
<1>4. PICK x : x = [run[w] EXCEPT !.todo = @ \ {item}, !.gone = gone,
                                  !.rows = [@ EXCEPT ![item.pair] = row]]
  OBVIOUS
<1>5. run' = [run EXCEPT ![w] = x]
  BY <1>1, <1>2, <1>3, <1>4
<1>6. /\ item \in Items /\ item.pair \in Pairs /\ item.pair[2] \in Users
      /\ item.seen \in Rows \cup {NoRow}
  <2>1. item \in Items
    BY PushRunShape DEF PushInv
  <2>2. item.pair \in Pairs /\ item.seen \in Rows \cup {NoRow}
    BY <2>1 DEF Items
  <2>3. item.pair[2] \in Users
    BY <2>2 DEF Pairs
  <2>. QED  BY <2>1, <2>2, <2>3
<1>7. row \in Rows /\ row # NoRow
  <2>1. Existing(item) \in Rows \cup {NoRow}
    BY <1>6 DEF Existing, PushInv, PushTypeOK
  <2>2. row.attempts \in 1..MaxRetries
    <3>1. CASE Existing(item) = NoRow
      BY <1>2, <3>1, RetriesAllowed
    <3>2. CASE Existing(item) # NoRow
      <4>1. Existing(item).attempts < MaxRetries
        BY <1>1, <3>2 DEF MayTry, MayRetry
      <4>2. Existing(item).attempts \in 1..MaxRetries
        BY <2>1, <3>2, RowShape
      <4>. QED  BY <1>2, <3>2, <4>1, <4>2, RetriesAllowed
    <3>. QED  BY <3>1, <3>2
  <2>3. row \in Rows
    BY <1>2, <2>2 DEF Rows
  <2>. QED  BY <2>3, RowShape
<1>8. /\ x \in Runs /\ x.todo = run[w].todo \ {item} /\ x.passed = run[w].passed
      /\ x.rows = [run[w].rows EXCEPT ![item.pair] = row]
      /\ run[w].rows \in [Pairs -> Rows \cup {NoRow}]
  <2>1. gone \subseteq Users
    BY <1>3, <1>6, PushRunShape DEF PushInv
  <2>. QED  BY <1>4, <1>7, <2>1, PushRunShape DEF PushInv, Runs
<1>9. run'[w] = x
  BY <1>5 DEF PushInv, PushTypeOK
<1>10. RunTogether(w)'
  <2>1. /\ run'[w].rows[item.pair] # NoRow
        /\ \A p \in Pairs \ {item.pair} : run'[w].rows[p] = run[w].rows[p]
    BY <1>6, <1>7, <1>8, <1>9
  <2>2. Accounted(w, item.pair)'
    BY <2>1 DEF Accounted, InHand
  <2>. QED  BY <1>1, <1>8, <1>9, <2>1, <2>2, ItemHandled
<1>. QED  BY <1>1, <1>5, <1>8, <1>10, OneRunMoves

\* What CommitRun does to a row.
LEMMA CommittedRow ==
  ASSUME PushInv, NEW w \in Workers, CommitRun(w), NEW p \in Pairs
  PROVE  /\ log'[p] \in Rows \cup {NoRow}
         /\ log[p] # NoRow => log'[p] # NoRow
         /\ run[w].rows[p] # NoRow => log'[p] # NoRow
         /\ run[w].rows[p] = NoRow => log'[p] = log[p]
         /\ log[p] # NoRow /\ log[p].status = "sent" => log'[p].status = "sent"
<1>1. log'[p] = IF run[w].rows[p] = NoRow THEN log[p]
                ELSE Written(log[p], run[w].rows[p])
  BY DEF CommitRun
<1>2. log[p] \in Rows \cup {NoRow} /\ run[w].rows[p] \in Rows \cup {NoRow}
  BY PushRunShape DEF PushInv, PushTypeOK, CommitRun
<1>3. ASSUME NEW old \in Rows \cup {NoRow}, NEW new \in Rows
      PROVE  /\ Written(old, new) \in Rows
             /\ old # NoRow /\ old.status = "sent" => Written(old, new).status = "sent"
  BY <1>3 DEF Written, Rows
<1>. QED  BY <1>1, <1>2, <1>3, RowShape

LEMMA CommitRunInv ==
  ASSUME PushInv, NEW w \in Workers, CommitRun(w)
  PROVE  PushInv'
<1>1. /\ Running(w) /\ run[w].todo = {}
      /\ log' = [p \in Pairs |->
            IF run[w].rows[p] = NoRow THEN log[p] ELSE Written(log[p], run[w].rows[p])]
      /\ device' = device \ run[w].gone
      /\ skipped' = {p \in skipped \cup run[w].passed : log'[p] = NoRow /\ Logged(p[1])'}
      /\ run' = [run EXCEPT ![w] = NoRun] /\ emitted' = emitted
  BY DEF CommitRun, AllPushed
<1>2. run[w].passed \subseteq Pairs /\ skipped \subseteq Pairs
  BY <1>1, PushRunShape DEF PushInv, PushTypeOK
<1>3. run' \in [Workers -> Runs] /\ run'[w] = NoRun
  BY <1>1 DEF PushInv, PushTypeOK, Runs
<1>4. log' \in [Pairs -> Rows \cup {NoRow}]
  BY <1>1, CommittedRow
<1>5. PushTypeOK'
  BY <1>1, <1>2, <1>3, <1>4 DEF PushInv, PushTypeOK
<1>6. ASSUME NEW p \in Pairs, NEW q \in Pairs, p[1] = q[1], log'[p] # NoRow
      PROVE  log'[q] # NoRow \/ q \in skipped'
  <2>1. log[q] # NoRow \/ q \in skipped \cup run[w].passed \/ log'[q] # NoRow
    <3>1. CASE log[p] # NoRow
      BY <1>6, <3>1 DEF PushInv, ToldTogether, Logged
    <3>2. CASE log[p] = NoRow
      <4>1. run[w].rows[p] # NoRow
        BY <1>6, <3>2, CommittedRow
      <4>2. Accounted(w, q)
        BY <1>1, <1>6, <4>1 DEF PushInv, RunTogether, InHand
      <4>3. InHand(w, q) => log'[q] # NoRow
        BY <1>1, CommittedRow DEF InHand
      <4>. QED  BY <4>2, <4>3 DEF Accounted
    <3>. QED  BY <3>1, <3>2
  <2>2. log[q] # NoRow => log'[q] # NoRow
    BY CommittedRow
  <2>3. Logged(q[1])'
    BY <1>6 DEF Logged
  <2>. QED  BY <1>1, <2>1, <2>2, <2>3
<1>7. ToldTogether' /\ \A p \in skipped' : Logged(p[1])'
  BY <1>1, <1>6 DEF ToldTogether, Logged
<1>8. /\ \A p \in Pairs : log[p] # NoRow => log'[p] # NoRow
      /\ \A p \in Pairs : p \in skipped => p \in skipped' \/ log'[p] # NoRow
  <2>. SUFFICES ASSUME NEW p \in Pairs, p \in skipped, log'[p] = NoRow
                PROVE  p \in skipped'
    BY CommittedRow
  <2>1. PICK q \in Pairs : q[1] = p[1] /\ log[q] # NoRow
    BY DEF PushInv, Logged
  <2>2. Logged(p[1])'
    BY <2>1, CommittedRow DEF Logged
  <2>. QED  BY <1>1, <2>2
<1>9. ASSUME NEW v \in Workers, Running(v)' PROVE RunTogether(v)'
  <2>1. v # w
    BY <1>3, <1>9 DEF Running, NoRun
  <2>2. run'[v] = run[v]
    BY <1>1, <2>1 DEF PushInv, PushTypeOK
  <2>3. Running(v) /\ RunTogether(v)
    BY <1>9, <2>2 DEF PushInv, Running
  <2>. QED  BY <1>8, <2>2, <2>3, OtherRunsTogether DEF PushInv
<1>. QED  BY <1>5, <1>7, <1>9 DEF PushInv

LEMMA EnvironmentInv ==
  ASSUME PushInv, UNCHANGED <<log, skipped, run>>,
         emitted' \subseteq Events, device' \subseteq Users
  PROVE  PushInv'
  BY DEF PushInv, PushTypeOK, ToldTogether, Logged, Running, RunTogether,
         Accounted, InHand

LEMMA PushNextInv == PushInv /\ [PushNext]_pushVars => PushInv'
<1>. SUFFICES ASSUME PushInv, [PushNext]_pushVars PROVE PushInv'
  OBVIOUS
<1>1. ASSUME NEW e \in Events, Emit(e) PROVE PushInv'
  <2>1. emitted' \subseteq Events /\ device' \subseteq Users
    BY <1>1 DEF Emit, PushInv, PushTypeOK
  <2>. QED  BY <1>1, <2>1, EnvironmentInv DEF Emit
<1>2. ASSUME NEW u \in Users, UpdateDeviceToken(u) PROVE PushInv'
  <2>1. emitted' \subseteq Events /\ device' \subseteq Users
    BY <1>2 DEF UpdateDeviceToken, PushInv, PushTypeOK
  <2>. QED  BY <1>2, <2>1, EnvironmentInv DEF UpdateDeviceToken
<1>3. ASSUME NEW w \in Workers, PushOne(w) PROVE PushInv'
  <2>1. PICK item \in run[w].todo :
          \/ Skip(w, item) \/ Send(w, item) \/ LoseRace(w, item)
    BY <1>3 DEF PushOne
  <2>2. Running(w)
    BY <1>3 DEF PushOne
  <2>3. CASE LoseRace(w, item)
    BY <2>3, RunLostInv DEF LoseRace
  <2>. QED  BY <2>1, <2>2, <2>3, SkipInv, SendInv
<1>4. ASSUME NEW w \in Workers, LoseRun(w) PROVE PushInv'
  BY <1>4, RunLostInv DEF LoseRun
<1>5. CASE UNCHANGED pushVars
  <2>1. emitted' \subseteq Events /\ device' \subseteq Users
    BY <1>5 DEF pushVars, PushInv, PushTypeOK
  <2>. QED  BY <1>5, <2>1, EnvironmentInv DEF pushVars
<1>. QED  BY <1>1, <1>2, <1>3, <1>4, <1>5, BeginRunInv, CommitRunInv DEF PushNext, Work

-----------------------------------------------------------------------------

\* The inductive invariant of the push runs.
THEOREM PushInvariance == PushSpec => []PushInv
  BY PushInitInv, PushNextInv, PTL DEF PushSpec

\* The rows keep their shape: no row counts more than MaxRetries attempts.
THEOREM PushTypeCorrect == PushSpec => []PushTypeOK
  BY PushInvariance, PTL DEF PushInv

\* Whatever runs overlap, fail or are killed, an event is recorded for all its
\* users together.
THEOREM UsersToldTogether == PushSpec => []ToldTogether
  BY PushInvariance, PTL DEF PushInv

\* A row that says sent stays so, whoever writes it again.
THEOREM SentStaysSent == PushSpec => SentIsFinal
<1>1. PushInv /\ [PushNext]_pushVars =>
        [\A p \in Pairs : log[p] # NoRow /\ log[p].status = "sent" =>
            log'[p] # NoRow /\ log'[p].status = "sent"]_pushVars
  <2>. SUFFICES ASSUME PushInv, PushNext, NEW p \in Pairs,
                       log[p] # NoRow, log[p].status = "sent"
                PROVE  log'[p] # NoRow /\ log'[p].status = "sent"
    OBVIOUS
  <2>1. ASSUME NEW w \in Workers, CommitRun(w)
        PROVE  log'[p] # NoRow /\ log'[p].status = "sent"
    BY <2>1, CommittedRow
  <2>2. ASSUME log' = log PROVE log'[p] # NoRow /\ log'[p].status = "sent"
    BY <2>2
  <2>. QED
    BY <2>1, <2>2 DEF PushNext, Work, Emit, UpdateDeviceToken, BeginRun,
       PushOne, Skip, Send, LoseRace, LoseRun
<1>. QED  BY <1>1, PushInvariance, PTL DEF PushSpec, SentIsFinal
===============================================================================
