--------------------------- MODULE MarketplaceProofs ---------------------------
(***************************************************************************)
(* Proofs about Marketplace for any number of sessions, orders, buyers and *)
(* couriers: its invariants, and that it implements Handover.              *)
(*                                                                         *)
(* The steps that read without a lock may overwrite anything, so nothing   *)
(* is known of the status they find.  What holds is that the session which *)
(* fills the inventory holds the row while the row says delivered, and     *)
(* that every write of that status comes with its event: hence the         *)
(* difference of deliveries and fills, kept in FillsFollowDeliveries.      *)
(***************************************************************************)
EXTENDS Marketplace, TLAPS

\* Sessions know the order they work on.
Bound ==
    \A s \in Sessions :
        /\ tx[s].pc \in {"write", "lock", "accept"} => tx[s].order \in OrderIds /\ Exists(tx[s].order)
        /\ tx[s].pc = "write" => tx[s].to \in {"confirmed", "rejected", "delivering", "delivered"}
        /\ tx[s].pc = "publish" => tx[s].order \in minted /\ ~Exists(tx[s].order)
        /\ tx[s].pc = "insert" => tx[s].row.status = "pending"
        /\ tx[s].pc = "publish" => tx[s].row.status = "pending"

\* Ids are used once: by a row or by one transaction that inserts it.
Used ==
    /\ \A o \in OrderIds : Exists(o) => o \in minted
    /\ \A s, t \in Sessions :
        Inserting(s) /\ Inserting(t) /\ tx[s].order = tx[t].order => s = t

\* The unique indexes over committed and uncommitted rows.
Indexed ==
    /\ \A o, q \in OrderIds :
        Exists(o) /\ Exists(q) /\ Collide(rows[o], rows[q]) => o = q
    /\ \A s \in Sessions, q \in OrderIds :
        Inserting(s) /\ Exists(q) => ~Collide(tx[s].row, rows[q])
    /\ \A s, t \in Sessions :
        Inserting(s) /\ Inserting(t) /\ Collide(tx[s].row, tx[t].row) => s = t

\* Who fills the inventory is alone, and the row waits for it.
Exclusive ==
    \A s \in Sessions : tx[s].pc = "accept" =>
        /\ rows[tx[s].order].status = "delivered"
        /\ \A t \in Sessions : tx[t].pc = "accept" /\ tx[t].order = tx[s].order => t = s

Inv == TypeOK /\ Bound /\ Used /\ Indexed /\ AckedIsPlaced /\ Exclusive /\ FillsFollowDeliveries

LEMMA InitInv == Init => Inv
<1> SUFFICES ASSUME Init PROVE Inv
  OBVIOUS
<1>. USE DEF Init, Exists
<1>1. TypeOK
  BY DEF TypeOK
<1>2. Bound /\ Indexed
  BY DEF Bound, Indexed, Inserting, Idle
<1>3. Used /\ Exclusive
  BY DEF Used, Inserting, Exclusive, Idle
<1>4. AckedIsPlaced
  BY DEF AckedIsPlaced
<1>5. FillsFollowDeliveries
  BY DEF FillsFollowDeliveries, Statuses
<1>. QED  BY <1>1, <1>2, <1>3, <1>4, <1>5 DEF Inv

\* What a busy session's transaction is made of.
LEMMA BusyTyped ==
  ASSUME TypeOK, NEW s \in Sessions, tx[s].pc # "idle"
  PROVE  /\ tx[s] \in Transactions
         /\ tx[s].row \in Rows
         /\ tx[s].to \in Statuses
         /\ tx[s].courier \in Couriers \cup {None}
         /\ tx[s].order \in OrderIds \cup {None}
  BY DEF TypeOK, Transactions, Idle

LEMMA BeginCreateInv ==
  ASSUME Inv, NEW s \in Sessions, NEW sc \in Scopes \cup {None},
         NEW u \in Uuids \cup {None}, BeginCreate(s, sc, u)
  PROVE  Inv'
<1>. DEFINE row == [scope |-> sc, uuid |-> u, status |-> "pending", courier |-> None]
            t0 == [pc |-> "insert", order |-> None, row |-> row, to |-> "pending",
                   courier |-> None]
<1>. USE DEF Inv, Exists
<1>1. row \in Rows /\ t0 \in Transactions
  BY DEF Rows, Statuses, Transactions
<1>2. tx' = [tx EXCEPT ![s] = t0]
  BY DEF BeginCreate
<1>3. UNCHANGED <<rows, minted, told, fills, acked>>
  BY DEF BeginCreate
<1>4. TypeOK'
  BY <1>1, <1>2, <1>3 DEF TypeOK
<1>5. Bound' /\ Used'
  BY <1>2, <1>3 DEF Bound, Used, Inserting, TypeOK
<1>8. Exclusive'
  BY <1>2, <1>3 DEF Exclusive, TypeOK
<1>6. Indexed'
  BY <1>2, <1>3 DEF Indexed, Inserting, TypeOK, Collide
<1>7. AckedIsPlaced' /\ FillsFollowDeliveries'
  BY <1>3 DEF AckedIsPlaced, FillsFollowDeliveries
<1>. QED  BY <1>4, <1>5, <1>6, <1>7, <1>8

LEMMA InsertOrderInv ==
  ASSUME Inv, NEW s \in Sessions, NEW o \in OrderIds, InsertOrder(s, o)
  PROVE  Inv'
<1>. USE DEF Inv, Exists
<1>. DEFINE t0 == [tx[s] EXCEPT !.pc = "publish", !.order = o]
<1>1. tx[s].pc = "insert" /\ o \notin minted
  BY DEF InsertOrder
<1>2. tx[s] \in Transactions
  BY <1>1, BusyTyped
<1>3. tx' = [tx EXCEPT ![s] = t0] /\ minted' = minted \cup {o}
  BY <1>2 DEF InsertOrder, TypeOK, Transactions
<1>4. UNCHANGED <<rows, told, fills, acked>>
  BY DEF InsertOrder
<1>5. /\ t0 \in Transactions
      /\ t0.pc = "publish" /\ t0.order = o /\ t0.row = tx[s].row
  BY <1>2 DEF Transactions
<1>6. TypeOK'
  BY <1>3, <1>4, <1>5 DEF TypeOK
<1>7. Bound'
  BY <1>1, <1>3, <1>4, <1>5 DEF Bound, Used, Inserting, TypeOK
<1>8. Used'
  BY <1>1, <1>3, <1>4, <1>5 DEF Bound, Used, Inserting, TypeOK
<1>9. Exclusive'
  BY <1>1, <1>3, <1>4, <1>5 DEF Exclusive, TypeOK
<1>10. Indexed'
  <2>1. \A t \in Sessions \ {s} : Inserting(t) => ~Collide(tx[s].row, tx[t].row)
    BY DEF InsertOrder
  <2>2. \A q \in OrderIds : Exists(q) => ~Collide(tx[s].row, rows[q])
    BY DEF InsertOrder
  <2>. QED  BY <1>3, <1>4, <1>5, <2>1, <2>2 DEF Indexed, Inserting, Collide, TypeOK
<1>11. AckedIsPlaced' /\ FillsFollowDeliveries'
  BY <1>4 DEF AckedIsPlaced, FillsFollowDeliveries
<1>. QED  BY <1>6, <1>7, <1>8, <1>9, <1>10, <1>11

\* A session that stops changes no row.
LEMMA StopInv ==
  ASSUME Inv, NEW s \in Sessions, tx' = [tx EXCEPT ![s] = Idle],
         UNCHANGED <<rows, minted, told, fills>>, AckedIsPlaced',
         acked' \subseteq Scopes \X Uuids \X OrderIds
  PROVE  Inv'
<1>. USE DEF Inv, Exists
<1>1. TypeOK'
  BY DEF TypeOK
<1>2. Bound'
  BY DEF Bound, Idle, TypeOK
<1>3. Used'
  BY DEF Used, Inserting, Idle, TypeOK
<1>4. Exclusive'
  BY DEF Exclusive, Idle, TypeOK
<1>5. Indexed'
  BY DEF Indexed, Inserting, Collide, Idle, TypeOK
<1>. QED  BY <1>1, <1>2, <1>3, <1>4, <1>5 DEF FillsFollowDeliveries

\* An answer that names the order found by the lookup is right.
LEMMA AnswerInv ==
  ASSUME Inv, NEW sc, NEW u, NEW o \in Matching(sc, u), Answer(sc, u, o),
         sc \in Scopes \cup {None}, u \in Uuids \cup {None}, UNCHANGED rows
  PROVE  AckedIsPlaced' /\ acked' \subseteq Scopes \X Uuids \X OrderIds
<1>. USE DEF Inv, Exists
<1>1. o \in OrderIds /\ Exists(o) /\ rows[o].scope = sc /\ rows[o].uuid = u
  BY DEF Matching, Matches
<1>2. None \notin {sc, u} /\ sc \in Scopes /\ u \in Uuids
  BY DEF Matching, Matches
<1>3. \A q \in OrderIds : <<sc, u, q>> \in acked => q = o
  <2> SUFFICES ASSUME NEW q \in OrderIds, <<sc, u, q>> \in acked PROVE q = o
    OBVIOUS
  <2>1. Exists(q) /\ rows[q].scope = sc /\ rows[q].uuid = u
    BY <1>2 DEF AckedIsPlaced
  <2>. QED  BY <1>1, <1>2, <2>1 DEF Indexed, Collide
<1>4. acked' = acked \/ acked' = acked \cup {<<sc, u, o>>}
  BY DEF Answer
<1>5. acked' \subseteq Scopes \X Uuids \X OrderIds
  BY <1>1, <1>2, <1>4 DEF TypeOK
<1>6. AckedIsPlaced'
  BY <1>1, <1>3, <1>4 DEF AckedIsPlaced
<1>. QED  BY <1>5, <1>6
LEMMA CommitCreateInv ==
  ASSUME Inv, NEW s \in Sessions, CommitCreate(s)
  PROVE  Inv'
<1>. USE DEF Inv
<1>. DEFINE o == tx[s].order
            row == tx[s].row
<1>1. tx[s].pc = "publish"
  BY DEF CommitCreate
<1>2. /\ o \in OrderIds /\ o \in minted /\ ~Exists(o)
      /\ row \in Rows /\ row # None /\ row.status = "pending"
  <2>1. o \in minted /\ ~Exists(o) /\ row.status = "pending"
    BY <1>1 DEF Bound
  <2>2. row \in Rows
    BY <1>1, BusyTyped
  <2>. QED  BY <2>1, <2>2, ConstantsAssumption DEF TypeOK
<1>3. /\ rows' = [rows EXCEPT ![o] = row]
      /\ tx' = [tx EXCEPT ![s] = Idle]
      /\ UNCHANGED <<minted, fills>>
  BY DEF CommitCreate
<1>4. \A q \in OrderIds : /\ Exists(q)' <=> Exists(q) \/ q = o
                          /\ rows'[q] = IF q = o THEN row ELSE rows[q]
  BY <1>2, <1>3 DEF Exists, TypeOK
<1>5. \A q \in OrderIds, st \in Statuses :
        told'[q][st] = IF q = o /\ st = "pending" THEN told[q][st] + 1 ELSE told[q][st]
  BY <1>2 DEF CommitCreate, TypeOK, Statuses
<1>6. told' \in [OrderIds -> [Statuses -> Nat]]
  BY <1>2 DEF CommitCreate, TypeOK, Statuses
<1>7. \A sc \in Scopes, u \in Uuids, q \in OrderIds : <<sc, u, q>> \in acked' =>
        \/ <<sc, u, q>> \in acked
        \/ q = o /\ sc = row.scope /\ u = row.uuid
  BY DEF CommitCreate, Answer
<1>8. acked' \subseteq Scopes \X Uuids \X OrderIds
  BY <1>2 DEF CommitCreate, Answer, TypeOK, Rows
<1>9. TypeOK'
  BY <1>2, <1>3, <1>6, <1>8 DEF TypeOK
<1>10. Bound'
  <2> SUFFICES ASSUME NEW t \in Sessions, t # s PROVE
        /\ tx[t].pc \in {"write", "lock", "accept"} => tx[t].order \in OrderIds /\ rows'[tx[t].order] # None
        /\ tx[t].pc = "publish" => tx[t].order \in minted /\ rows'[tx[t].order] = None
    BY <1>3 DEF Bound, Exists, Idle, TypeOK
  <2>1. tx[t].pc = "publish" => tx[t].order # o
    BY <1>1 DEF Used, Inserting
  <2>. QED  BY <1>4, <2>1 DEF Bound, Exists, TypeOK
<1>11. Used'
  BY <1>2, <1>3, <1>4 DEF Used, Inserting, Idle, TypeOK
<1>12. Indexed'
  <2>1. \A t \in Sessions : Inserting(t)' <=> Inserting(t) /\ t # s
    BY <1>3 DEF Inserting, Idle, TypeOK
  <2>2. \A t \in Sessions : t # s => tx'[t] = tx[t]
    BY <1>3 DEF TypeOK
  <2>3. \A q \in OrderIds : Exists(q) => ~Collide(row, rows[q]) /\ ~Collide(rows[q], row)
    BY <1>1 DEF Indexed, Inserting, Collide
  <2>4. \A t \in Sessions : Inserting(t) /\ t # s => ~Collide(tx[t].row, row)
    BY <1>1 DEF Indexed, Inserting
  <2>5. \A p, q \in OrderIds : Exists(p)' /\ Exists(q)' /\ Collide(rows'[p], rows'[q]) => p = q
    BY <1>4, <2>3 DEF Indexed
  <2>6. \A t \in Sessions, q \in OrderIds :
          Inserting(t)' /\ Exists(q)' => ~Collide(tx'[t].row, rows'[q])
    BY <1>4, <2>1, <2>2, <2>4 DEF Indexed
  <2>7. \A t, u \in Sessions :
          Inserting(t)' /\ Inserting(u)' /\ Collide(tx'[t].row, tx'[u].row) => t = u
    BY <2>1, <2>2 DEF Indexed
  <2>. QED  BY <2>5, <2>6, <2>7 DEF Indexed, Collide
<1>13. AckedIsPlaced'
  <2>1. \A sc \in Scopes, u \in Uuids, q \in OrderIds : <<sc, u, q>> \in acked =>
          q # o /\ ~(sc = row.scope /\ u = row.uuid)
    <3> SUFFICES ASSUME NEW sc \in Scopes, NEW u \in Uuids, NEW q \in OrderIds,
                        <<sc, u, q>> \in acked
                 PROVE  q # o /\ ~(sc = row.scope /\ u = row.uuid)
      OBVIOUS
    <3>1. Exists(q) /\ rows[q].scope = sc /\ rows[q].uuid = u
      BY DEF AckedIsPlaced
    <3>2. ~Collide(row, rows[q])
      BY <1>1, <3>1 DEF Indexed, Inserting
    <3>3. None \notin {sc, u}
      BY ConstantsAssumption
    <3>. QED  BY <1>2, <3>1, <3>2, <3>3 DEF Collide
  <2>. QED  BY <1>4, <1>7, <2>1 DEF AckedIsPlaced
<1>14. Exclusive'
  BY <1>2, <1>3, <1>4 DEF Exclusive, Bound, Idle, TypeOK
<1>15. FillsFollowDeliveries'
  BY <1>2, <1>3, <1>4, <1>5 DEF FillsFollowDeliveries, Statuses
<1>. QED  BY <1>9, <1>10, <1>11, <1>12, <1>13, <1>14, <1>15

\* A session that has read a row and writes nothing yet.
LEMMA ReadInv ==
  ASSUME Inv, NEW s \in Sessions, NEW o \in OrderIds, Exists(o), NEW t0 \in Transactions,
         t0.order = o, t0.pc \in {"write", "lock"},
         t0.pc = "write" => t0.to \in {"confirmed", "rejected", "delivering", "delivered"},
         tx' = [tx EXCEPT ![s] = t0], UNCHANGED <<rows, minted, told, fills, acked>>
  PROVE  Inv'
<1>. USE DEF Inv, Exists
<1>1. TypeOK'
  BY DEF TypeOK
<1>2. Bound'
  BY DEF Bound, TypeOK
<1>3. Used'
  BY DEF Used, Inserting, TypeOK
<1>4. Exclusive'
  BY DEF Exclusive, TypeOK
<1>5. Indexed'
  BY DEF Indexed, Inserting, Collide, TypeOK
<1>. QED  BY <1>1, <1>2, <1>3, <1>4, <1>5 DEF AckedIsPlaced, FillsFollowDeliveries

LEMMA ReadForStepInv ==
  ASSUME Inv, NEW s \in Sessions, NEW o \in OrderIds, NEW c \in Couriers \cup {None},
         NEW to \in {"confirmed", "rejected", "delivering", "delivered"},
         ReadForStep(s, o, to, c)
  PROVE  Inv'
<1>. DEFINE t0 == [pc |-> "write", order |-> o, row |-> rows[o], to |-> to, courier |-> c]
<1>1. Exists(o) /\ rows[o] \in Rows
  BY DEF ReadForStep, Exists, Inv, TypeOK
<1>2. t0 \in Transactions
  BY <1>1 DEF Transactions, Statuses
<1>3. tx' = [tx EXCEPT ![s] = t0] /\ UNCHANGED <<rows, minted, told, fills, acked>>
  BY DEF ReadForStep
<1>. QED  BY <1>1, <1>2, <1>3, ReadInv

LEMMA BeginAcceptInv ==
  ASSUME Inv, NEW s \in Sessions, NEW o \in OrderIds, BeginAccept(s, o)
  PROVE  Inv'
<1>. DEFINE t0 == [pc |-> "lock", order |-> o, row |-> rows[o], to |-> "accepted",
                   courier |-> None]
<1>1. Exists(o) /\ rows[o] \in Rows
  BY DEF BeginAccept, Exists, Inv, TypeOK
<1>2. t0 \in Transactions
  BY <1>1 DEF Transactions, Statuses
<1>3. tx' = [tx EXCEPT ![s] = t0] /\ UNCHANGED <<rows, minted, told, fills, acked>>
  BY DEF BeginAccept
<1>. QED  BY <1>1, <1>2, <1>3, ReadInv

LEMMA LockForAcceptInv ==
  ASSUME Inv, NEW s \in Sessions, LockForAccept(s)
  PROVE  Inv'
<1>. USE DEF Inv
<1>. DEFINE o == tx[s].order
            t0 == [tx[s] EXCEPT !.pc = "accept", !.row = rows[o]]
<1>1. tx[s].pc = "lock" /\ ~Locked(o) /\ "accepted" \in NextStatuses[rows[o].status]
  BY DEF LockForAccept
<1>2. tx[s] \in Transactions /\ o \in OrderIds /\ Exists(o) /\ rows[o] \in Rows
  BY <1>1, BusyTyped DEF Bound, Exists, TypeOK
<1>3. rows[o].status = "delivered"
  BY <1>1, <1>2 DEF NextStatuses, Rows, Statuses
<1>4. t0 \in Transactions /\ t0.pc = "accept" /\ t0.order = o
  BY <1>2 DEF Transactions
<1>5. tx' = [tx EXCEPT ![s] = t0] /\ UNCHANGED <<rows, minted, told, fills, acked>>
  BY <1>2 DEF LockForAccept, TypeOK, Transactions
<1>. HIDE DEF t0, o
<1>6. TypeOK'
  BY <1>4, <1>5 DEF TypeOK
<1>7. Bound'
  BY <1>2, <1>4, <1>5 DEF Bound, Exists, TypeOK
<1>8. Used'
  BY <1>4, <1>5 DEF Used, Exists, Inserting, TypeOK
<1>9. Indexed'
  BY <1>4, <1>5 DEF Indexed, Exists, Inserting, Collide, TypeOK
<1>10. Exclusive'
  BY <1>1, <1>2, <1>3, <1>4, <1>5 DEF Exclusive, Locked, TypeOK
<1>. QED  BY <1>5, <1>6, <1>7, <1>8, <1>9, <1>10 DEF AckedIsPlaced, FillsFollowDeliveries, Exists

\* No commit of a step touches a column the indexes cover.
LEMMA KeysKept ==
  ASSUME Inv, NEW s \in Sessions, tx' = [tx EXCEPT ![s] = Idle],
         \A q \in OrderIds :
            /\ Exists(q)' <=> Exists(q)
            /\ rows'[q].scope = rows[q].scope /\ rows'[q].uuid = rows[q].uuid
  PROVE  Indexed'
<1>1. \A t \in Sessions : Inserting(t)' => Inserting(t) /\ tx'[t] = tx[t]
  BY DEF Inserting, Idle, Inv, TypeOK
<1>2. \A p, q \in OrderIds : Collide(rows'[p], rows'[q]) => Collide(rows[p], rows[q])
  BY DEF Collide
<1>3. \A t \in Sessions, q \in OrderIds :
        Collide(tx[t].row, rows'[q]) => Collide(tx[t].row, rows[q])
  BY DEF Collide
<1>4. \A p, q \in OrderIds : Exists(p)' /\ Exists(q)' /\ Collide(rows'[p], rows'[q]) => p = q
  BY <1>2 DEF Inv, Indexed
<1>5. \A t \in Sessions, q \in OrderIds :
        Inserting(t)' /\ Exists(q)' => ~Collide(tx'[t].row, rows'[q])
  BY <1>1, <1>3 DEF Inv, Indexed
<1>6. \A t, u \in Sessions :
        Inserting(t)' /\ Inserting(u)' /\ Collide(tx'[t].row, tx'[u].row) => t = u
  BY <1>1 DEF Inv, Indexed
<1>. QED  BY <1>4, <1>5, <1>6 DEF Indexed, Collide

LEMMA CommitStepInv ==
  ASSUME Inv, NEW s \in Sessions, CommitStep(s)
  PROVE  Inv'
<1>. USE DEF Inv
<1>. DEFINE o == tx[s].order
            to == tx[s].to
<1>1. tx[s].pc = "write" /\ ~Locked(o)
  BY DEF CommitStep
<1>2. /\ o \in OrderIds /\ Exists(o) /\ rows[o] \in Rows
      /\ to \in {"confirmed", "rejected", "delivering", "delivered"}
  BY <1>1 DEF Bound, Exists, TypeOK
<1>3. PICK c \in Couriers \cup {None} :
        rows' = [rows EXCEPT ![o] = [rows[o] EXCEPT !.status = to, !.courier = c]]
  BY <1>1, <1>2, BusyTyped DEF CommitStep, TypeOK, Rows
<1>. DEFINE row == [rows[o] EXCEPT !.status = to, !.courier = c]
<1>4. /\ row \in Rows /\ row # None
      /\ row.status = to /\ row.scope = rows[o].scope /\ row.uuid = rows[o].uuid
  BY <1>2, ConstantsAssumption DEF Rows, Statuses
<1>5. tx' = [tx EXCEPT ![s] = Idle] /\ UNCHANGED <<minted, fills, acked>>
  BY DEF CommitStep
<1>6. \A q \in OrderIds : /\ Exists(q)' <=> Exists(q)
                          /\ rows'[q] = IF q = o THEN row ELSE rows[q]
  BY <1>2, <1>3, <1>4 DEF Exists, TypeOK
<1>7. /\ told' \in [OrderIds -> [Statuses -> Nat]]
      /\ \A q \in OrderIds, st \in Statuses :
          told'[q][st] = IF q = o /\ st = to THEN told[q][st] + 1 ELSE told[q][st]
  BY <1>2 DEF CommitStep, TypeOK, Statuses
<1>8. rows' \in [OrderIds -> Rows \cup {None}]
  BY <1>2, <1>3, <1>4 DEF TypeOK
<1>. HIDE DEF row, o, to
<1>9. TypeOK'
  BY <1>5, <1>7, <1>8 DEF TypeOK
<1>10. Bound'
  <2>1. \A t \in Sessions : tx'[t] = IF t = s THEN Idle ELSE tx[t]
    BY <1>5 DEF TypeOK
  <2>. QED  BY <1>5, <1>6, <2>1 DEF Bound, Exists, Idle, TypeOK
<1>11. Used'
  BY <1>5, <1>6 DEF Used, Inserting, Idle, TypeOK
<1>12. Indexed'
  BY <1>2, <1>4, <1>5, <1>6, KeysKept
<1>13. AckedIsPlaced'
  BY <1>2, <1>4, <1>5, <1>6 DEF AckedIsPlaced
<1>14. Exclusive'
  BY <1>1, <1>2, <1>5, <1>6 DEF Exclusive, Locked, Bound, Idle, TypeOK, o
<1>15. FillsFollowDeliveries'
  <2> SUFFICES ASSUME NEW q \in OrderIds
               PROVE  /\ fills'[q] = told'[q]["accepted"]
                      /\ fills'[q] <= told'[q]["delivered"]
                      /\ Exists(q)' /\ rows'[q].status = "delivered"
                            => fills'[q] < told'[q]["delivered"]
    BY DEF FillsFollowDeliveries
  <2>1. /\ fills[q] \in Nat /\ told[q]["accepted"] \in Nat /\ told[q]["delivered"] \in Nat
        /\ fills[q] = told[q]["accepted"] /\ fills[q] <= told[q]["delivered"]
        /\ Exists(q) /\ rows[q].status = "delivered" => fills[q] < told[q]["delivered"]
    BY DEF FillsFollowDeliveries, TypeOK, Statuses
  <2>2. "accepted" \in Statuses /\ "delivered" \in Statuses
    BY DEF Statuses
  <2>. QED  BY <1>2, <1>4, <1>5, <1>6, <1>7, <2>1, <2>2
<1>. QED  BY <1>9, <1>10, <1>11, <1>12, <1>13, <1>14, <1>15

LEMMA CommitAcceptInv ==
  ASSUME Inv, NEW s \in Sessions, CommitAccept(s)
  PROVE  Inv'
<1>. USE DEF Inv
<1>. DEFINE o == tx[s].order
            row == [rows[o] EXCEPT !.status = "accepted"]
<1>1. tx[s].pc = "accept"
  BY DEF CommitAccept
<1>2. /\ o \in OrderIds /\ Exists(o) /\ rows[o] \in Rows
      /\ rows[o].status = "delivered"
  BY <1>1 DEF Bound, Exclusive, Exists, TypeOK
<1>3. /\ row \in Rows /\ row # None
      /\ row.status = "accepted" /\ row.scope = rows[o].scope /\ row.uuid = rows[o].uuid
  BY <1>2, ConstantsAssumption DEF Rows, Statuses
<1>4. rows' = [rows EXCEPT ![o] = row]
  BY DEF CommitAccept
<1>5. tx' = [tx EXCEPT ![s] = Idle] /\ UNCHANGED <<minted, acked>>
  BY DEF CommitAccept
<1>6. \A q \in OrderIds : /\ Exists(q)' <=> Exists(q)
                          /\ rows'[q] = IF q = o THEN row ELSE rows[q]
  BY <1>2, <1>3, <1>4 DEF Exists, TypeOK
<1>7. /\ told' \in [OrderIds -> [Statuses -> Nat]]
      /\ \A q \in OrderIds, st \in Statuses :
          told'[q][st] = IF q = o /\ st = "accepted" THEN told[q][st] + 1 ELSE told[q][st]
  BY <1>2 DEF CommitAccept, TypeOK, Statuses
<1>8. /\ fills' \in [OrderIds -> Nat]
      /\ \A q \in OrderIds : fills'[q] = IF q = o THEN fills[q] + 1 ELSE fills[q]
  BY <1>2 DEF CommitAccept, TypeOK
<1>9. rows' \in [OrderIds -> Rows \cup {None}]
  BY <1>2, <1>3, <1>4 DEF TypeOK
<1>. HIDE DEF row, o
<1>10. TypeOK'
  BY <1>5, <1>7, <1>8, <1>9 DEF TypeOK
<1>11. Bound'
  <2>1. \A t \in Sessions : tx'[t] = IF t = s THEN Idle ELSE tx[t]
    BY <1>5 DEF TypeOK
  <2>. QED  BY <1>5, <1>6, <2>1 DEF Bound, Exists, Idle, TypeOK
<1>12. Used'
  BY <1>5, <1>6 DEF Used, Inserting, Idle, TypeOK
<1>13. Indexed'
  BY <1>2, <1>3, <1>5, <1>6, KeysKept
<1>14. AckedIsPlaced'
  BY <1>2, <1>3, <1>5, <1>6 DEF AckedIsPlaced
<1>15. Exclusive'
  BY <1>1, <1>2, <1>5, <1>6 DEF Exclusive, Bound, Idle, TypeOK, o
<1>16. FillsFollowDeliveries'
  <2> SUFFICES ASSUME NEW q \in OrderIds
               PROVE  /\ fills'[q] = told'[q]["accepted"]
                      /\ fills'[q] <= told'[q]["delivered"]
                      /\ Exists(q)' /\ rows'[q].status = "delivered"
                            => fills'[q] < told'[q]["delivered"]
    BY DEF FillsFollowDeliveries
  <2>1. /\ fills[q] \in Nat /\ told[q]["accepted"] \in Nat /\ told[q]["delivered"] \in Nat
        /\ fills[q] = told[q]["accepted"] /\ fills[q] <= told[q]["delivered"]
        /\ Exists(q) /\ rows[q].status = "delivered" => fills[q] < told[q]["delivered"]
    BY DEF FillsFollowDeliveries, TypeOK, Statuses
  <2>2. "accepted" \in Statuses /\ "delivered" \in Statuses
    BY DEF Statuses
  <2>. QED  BY <1>2, <1>3, <1>6, <1>7, <1>8, <2>1, <2>2
<1>. QED  BY <1>10, <1>11, <1>12, <1>13, <1>14, <1>15, <1>16

\* Every step keeps the invariant.
LEMMA NextInv == Inv /\ [Next]_vars => Inv'
<1> SUFFICES ASSUME Inv, [Next]_vars PROVE Inv'
  OBVIOUS
<1>1. ASSUME NEW s \in Sessions, NEW sc \in Scopes \cup {None}, NEW u \in Uuids \cup {None},
             BeginCreate(s, sc, u)
      PROVE  Inv'
  BY <1>1, BeginCreateInv
<1>2. ASSUME NEW s \in Sessions, NEW o \in OrderIds,
             \/ InsertOrder(s, o) \/ BeginAccept(s, o)
             \/ Confirm(s, o) \/ Reject(s, o)
             \/ \E c \in Couriers : Ship(s, o, c) \/ Deliver(s, o, c)
      PROVE  Inv'
  BY <1>2, InsertOrderInv, BeginAcceptInv, ReadForStepInv DEF Confirm, Reject, Ship, Deliver
<1>3. ASSUME NEW s \in Sessions, ResolveDuplicate(s)
      PROVE  Inv'
  <2>1. /\ tx[s].row.scope \in Scopes \cup {None}
        /\ tx[s].row.uuid \in Uuids \cup {None}
    BY <1>3, BusyTyped DEF ResolveDuplicate, Rows, Inv
  <2>2. AckedIsPlaced' /\ acked' \subseteq Scopes \X Uuids \X OrderIds
    BY <1>3, <2>1, AnswerInv DEF ResolveDuplicate
  <2>. QED  BY <1>3, <2>2, StopInv DEF ResolveDuplicate
<1>4. ASSUME NEW s \in Sessions, Abort(s)
      PROVE  Inv'
  BY <1>4, StopInv DEF Abort, Inv, TypeOK, AckedIsPlaced, Exists
<1>5. ASSUME NEW s \in Sessions,
             CommitCreate(s) \/ CommitStep(s) \/ LockForAccept(s) \/ CommitAccept(s)
      PROVE  Inv'
  BY <1>5, CommitCreateInv, CommitStepInv, LockForAcceptInv, CommitAcceptInv
<1>6. ASSUME NEW sc \in Scopes, NEW u \in Uuids, NEW o \in OrderIds, Repeat(sc, u, o)
      PROVE  Inv'
  <2>1. AckedIsPlaced' /\ acked' \subseteq Scopes \X Uuids \X OrderIds
    BY <1>6, AnswerInv DEF Repeat
  <2>. QED  BY <1>6, <2>1 DEF Repeat, Inv, TypeOK, Bound, Used, Indexed, Exclusive,
            FillsFollowDeliveries, Exists, Inserting, Collide
<1>7. CASE UNCHANGED vars
  BY <1>7 DEF vars, Inv, TypeOK, Bound, Used, Indexed, AckedIsPlaced, Exclusive,
     FillsFollowDeliveries, Exists, Inserting, Collide
<1>. QED  BY <1>1, <1>2, <1>3, <1>4, <1>5, <1>6, <1>7 DEF Next

THEOREM Invariance == Spec => []Inv
  BY InitInv, NextInv, PTL DEF Spec

\* For any number of sessions, every answered creation names the order of
\* its own request and scope, and no second one.
THEOREM AnswersNameTheRequest == Spec => [](TypeOK /\ AckedIsPlaced)
  BY Invariance, PTL DEF Inv

\* For any number of sessions, an order's goods enter the inventory only
\* after a reported delivery that nothing was filled for, and each time the
\* acceptance is reported.
THEOREM FillsAreReported == Spec => []FillsFollowDeliveries
  BY Invariance, PTL DEF Inv

-----------------------------------------------------------------------------
(* Marketplace implements Handover. *)

Request(o) == IF Exists(o) THEN <<rows[o].scope, rows[o].uuid>> ELSE None

LEMMA InitRefines == Init => Promise!Init
  BY DEF Init, Promise!Init, Exists, Statuses

\* A step that keeps the requests, the deliveries and the fills stutters.
LEMMA Stutters ==
  ASSUME Inv, UNCHANGED fills,
         \A q \in OrderIds : Request(q)' = Request(q),
         \A q \in OrderIds : told'[q]["delivered"] = told[q]["delivered"]
  PROVE  UNCHANGED Promise!vars
  BY DEF Promise!vars, Request

LEMMA CommitCreateRefines ==
  ASSUME Inv, NEW s \in Sessions, CommitCreate(s)
  PROVE  Promise!Next
<1>. DEFINE row == tx[s].row
            placed == [q \in OrderIds |-> Request(q)]
<1>0. tx[s].pc = "publish"
  BY DEF CommitCreate
<1>. PICK o \in OrderIds : o = tx[s].order
  BY <1>0 DEF Inv, Bound, TypeOK
<1>1. /\ o \in OrderIds /\ ~Exists(o) /\ row \in Rows /\ row # None
      /\ tx[s].pc = "publish"
  BY <1>0, BusyTyped, ConstantsAssumption DEF Inv, Bound
<1>2. \A q \in OrderIds : Request(q)' = IF q = o THEN <<row.scope, row.uuid>> ELSE Request(q)
  BY <1>1 DEF CommitCreate, Request, Exists, Inv, TypeOK
<1>3. Request(o) = None
  BY <1>1 DEF Request
<1>4. <<row.scope, row.uuid>> # None
  BY <1>1, ConstantsAssumption DEF Rows
<1>5. \A q \in OrderIds : None \notin {row.scope, row.uuid} => Request(q) # <<row.scope, row.uuid>>
  BY <1>1, <1>4 DEF Inv, Indexed, Inserting, Collide, Request
<1>6. /\ [q \in OrderIds |-> told'[q]["delivered"]] = [q \in OrderIds |-> told[q]["delivered"]]
      /\ fills' = fills
  BY <1>1 DEF CommitCreate, Inv, TypeOK, Statuses
<1>7. [q \in OrderIds |-> Request(q)'] = [placed EXCEPT ![o] = <<row.scope, row.uuid>>]
  BY <1>1, <1>2
<1>. HIDE DEF row
<1>8. Promise!Place(o)
  BY <1>1, <1>2, <1>3, <1>4, <1>5, <1>6, <1>7 DEF Promise!Place, Request
<1>. QED  BY <1>1, <1>8 DEF Promise!Next

LEMMA CommitStepRefines ==
  ASSUME Inv, NEW s \in Sessions, CommitStep(s)
  PROVE  [Promise!Next]_(Promise!vars)
<1>. PICK o \in OrderIds : o = tx[s].order
  BY DEF CommitStep, Inv, Bound
<1>1. o \in OrderIds /\ Exists(o) /\ rows[o] \in Rows
  BY DEF CommitStep, Inv, Bound, Exists, TypeOK
<1>2. PICK c \in Couriers \cup {None}, to \in Statuses :
        rows' = [rows EXCEPT ![o] = [rows[o] EXCEPT !.status = to, !.courier = c]]
  BY <1>1, BusyTyped DEF CommitStep, Inv, TypeOK, Rows
<1>3. \A q \in OrderIds : Request(q)' = Request(q)
  <2>1. rows'[o] \in Rows /\ rows'[o].scope = rows[o].scope /\ rows'[o].uuid = rows[o].uuid
    BY <1>1, <1>2 DEF Inv, TypeOK, Rows
  <2>2. \A q \in OrderIds : q # o => rows'[q] = rows[q]
    BY <1>2 DEF Inv, TypeOK
  <2>3. \A q \in OrderIds : Exists(q)' <=> Exists(q)
    BY <1>1, <2>1, <2>2, ConstantsAssumption DEF Exists
  <2>. QED  BY <2>1, <2>2, <2>3 DEF Request
<1>4. fills' = fills
  BY DEF CommitStep
<1>5. CASE tx[s].to = "delivered"
  <2>1. [q \in OrderIds |-> told'[q]["delivered"]]
          = [[q \in OrderIds |-> told[q]["delivered"]] EXCEPT ![o] = @ + 1]
    BY <1>1, <1>5 DEF CommitStep, Inv, TypeOK, Statuses
  <2>2. Request(o) # None
    BY <1>1, ConstantsAssumption DEF Request, Rows
  <2>3. Promise!Hand(o)
    BY <1>1, <1>3, <1>4, <2>1, <2>2 DEF Promise!Hand, Request
  <2>. QED  BY <1>1, <2>3 DEF Promise!Next
<1>6. CASE tx[s].to # "delivered"
  <2>1. \A q \in OrderIds : told'[q]["delivered"] = told[q]["delivered"]
    BY <1>1, <1>6 DEF CommitStep, Inv, TypeOK, Statuses
  <2>. QED  BY <1>3, <1>4, <2>1, Stutters
<1>. QED  BY <1>5, <1>6

LEMMA CommitAcceptRefines ==
  ASSUME Inv, NEW s \in Sessions, CommitAccept(s)
  PROVE  Promise!Next
<1>. PICK o \in OrderIds : o = tx[s].order
  BY DEF CommitAccept, Inv, Bound
<1>1. /\ o \in OrderIds /\ Exists(o) /\ rows[o] \in Rows
      /\ rows[o].status = "delivered" /\ fills[o] < told[o]["delivered"]
  BY DEF CommitAccept, Inv, Bound, Exclusive, Exists, TypeOK, FillsFollowDeliveries
<1>2. rows' = [rows EXCEPT ![o] = [rows[o] EXCEPT !.status = "accepted"]]
  BY DEF CommitAccept
<1>3. \A q \in OrderIds : Request(q)' = Request(q)
  <2>1. rows'[o] \in Rows /\ rows'[o].scope = rows[o].scope /\ rows'[o].uuid = rows[o].uuid
    BY <1>1, <1>2 DEF Inv, TypeOK, Rows, Statuses
  <2>2. \A q \in OrderIds : q # o => rows'[q] = rows[q]
    BY <1>2 DEF Inv, TypeOK
  <2>3. \A q \in OrderIds : Exists(q)' <=> Exists(q)
    BY <1>1, <2>1, <2>2, ConstantsAssumption DEF Exists
  <2>. QED  BY <2>1, <2>2, <2>3 DEF Request
<1>4. \A q \in OrderIds : told'[q]["delivered"] = told[q]["delivered"]
  BY <1>1 DEF CommitAccept, Inv, TypeOK, Statuses
<1>5. fills' = [fills EXCEPT ![o] = @ + 1]
  BY DEF CommitAccept
<1>6. Promise!Stock(o)
  BY <1>1, <1>3, <1>4, <1>5 DEF Promise!Stock, Request
<1>. QED  BY <1>1, <1>6 DEF Promise!Next

\* A step that changes neither rows nor events nor fills.
LEMMA SilentRefines ==
  ASSUME Inv, UNCHANGED <<rows, told, fills>>
  PROVE  UNCHANGED Promise!vars
  BY Stutters DEF Request, Exists

LEMMA NextRefines == Inv /\ [Next]_vars => [Promise!Next]_(Promise!vars)
<1> SUFFICES ASSUME Inv, [Next]_vars PROVE [Promise!Next]_(Promise!vars)
  OBVIOUS
<1>1. ASSUME NEW s \in Sessions, CommitCreate(s) \/ CommitStep(s) \/ CommitAccept(s)
      PROVE  [Promise!Next]_(Promise!vars)
  BY <1>1, CommitCreateRefines, CommitStepRefines, CommitAcceptRefines
<1>2. CASE UNCHANGED <<rows, told, fills>>
  BY <1>2, SilentRefines
<1>3. ASSUME NEW s \in Sessions,
             \/ \E sc \in Scopes \cup {None}, u \in Uuids \cup {None} : BeginCreate(s, sc, u)
             \/ ResolveDuplicate(s) \/ LockForAccept(s) \/ Abort(s)
      PROVE  UNCHANGED <<rows, told, fills>>
  BY <1>3 DEF BeginCreate, ResolveDuplicate, LockForAccept, Abort
<1>4. ASSUME NEW s \in Sessions, NEW o \in OrderIds,
             \/ InsertOrder(s, o) \/ Confirm(s, o) \/ Reject(s, o) \/ BeginAccept(s, o)
             \/ \E c \in Couriers : Ship(s, o, c) \/ Deliver(s, o, c)
      PROVE  UNCHANGED <<rows, told, fills>>
  BY <1>4 DEF InsertOrder, ReadForStep, Confirm, Reject, Ship, Deliver, BeginAccept
<1>5. ASSUME NEW sc \in Scopes, NEW u \in Uuids, NEW o \in OrderIds, Repeat(sc, u, o)
      PROVE  UNCHANGED <<rows, told, fills>>
  BY <1>5 DEF Repeat
<1>6. CASE UNCHANGED vars
  BY <1>2, <1>6 DEF vars
<1>. QED  BY <1>1, <1>2, <1>3, <1>4, <1>5, <1>6 DEF Next

\* Whatever the unlocked steps of any number of sessions overwrite, requests
\* are placed once and the inventory is filled at most once per reported
\* handover.
THEOREM Refinement == Spec => ImplementsHandover
  BY InitRefines, NextRefines, Invariance, PTL DEF Spec, ImplementsHandover, Promise!Spec
===============================================================================
