------------------------------ MODULE Deliveries ------------------------------
(***************************************************************************)
(* Deliveries of the backend (modules/delivery/service.py): a clerk        *)
(* assigns a courier to an order, couriers move the delivery on, and the   *)
(* last step fills the store's inventory.  create_delivery looks for an    *)
(* active delivery before it inserts one, and two unique indexes back the  *)
(* search; update_status works under the row lock of the delivery.         *)
(*                                                                         *)
(* As in OrderLedger, sessions read committed data and publish their       *)
(* writes in one commit.  What an INSERT or an UPDATE holds between its    *)
(* flush and the commit is its row lock and its index entries.             *)
(***************************************************************************)
EXTENDS Naturals, FiniteSets

CONSTANTS
    Sessions,      \* database sessions: one per request being served
    DeliveryIds,   \* uuid7 values create_delivery may draw
    Orders,        \* orders that were placed
    Actors,        \* users that assign couriers
    Uuids,         \* client_uuid values
    None           \* no client_uuid, no cached id, no delivery

Statuses == {"assigned", "started", "delivering", "delivered", "failed"}

DeliveryRows ==
    [order : Orders, uuid : Uuids \cup {None}, status : Statuses, version : Nat]

ASSUME NoneAssumption ==
    None \notin Uuids \cup DeliveryIds \cup Actors \cup DeliveryRows

VARIABLES
    open,          \* orders whose status still admits a delivery
    rows,          \* committed delivery rows
    minted,        \* delivery ids drawn for an inserted row
    inventory,     \* how often a delivery was put into the store's inventory
    events,        \* outbox events of deliveries: <<delivery, version, status>>
    redis,         \* idempotency keys <<actor, client_uuid>>
    tx             \* the transaction of each session

db   == <<open, rows, inventory, events>>
vars == <<db, minted, redis, tx>>

\* Mutated: a delivered delivery can still fail (the module's docstring
\* allows failed "from any status").
NextStatusesFromAny ==
    [assigned   |-> {"started", "failed"},
     started    |-> {"delivering", "failed"},
     delivering |-> {"delivered", "failed"},
     delivered  |-> {"failed"},
     failed     |-> {}]

\* VALID_TRANSITIONS
NextStatuses ==
    [assigned   |-> {"started", "failed"},
     started    |-> {"delivering", "failed"},
     delivering |-> {"delivered", "failed"},
     delivered  |-> {},
     failed     |-> {}]

\* A delivery starts at version 1 and has at most three updates.
Versions == 1..4

Keys == Actors \X Uuids

Idle == [pc |-> "idle"]

\* row is the row to insert, or the row an update read under its lock.
Transactions ==
    [pc : {"check", "insert", "publish", "commit", "write"},
     delivery : DeliveryIds \cup {None}, row : DeliveryRows, to : Statuses,
     actor : Actors \cup {None}, keyed : BOOLEAN]

Busy(s)   == tx[s].pc # "idle"
Exists(d) == rows[d] # None

IsActive(row) == row.status \notin {"delivered", "failed"}

ActiveFor(o) == {d \in DeliveryIds : Exists(d) /\ rows[d].order = o /\ IsActive(rows[d])}

\* The session has inserted a row and not ended.
Inserted(s) == tx[s].pc \in {"publish", "commit"}

RollBack(s) ==
    /\ tx' = [tx EXCEPT ![s] = Idle]
    /\ UNCHANGED <<db, minted, redis>>

Init ==
    /\ open = Orders
    /\ rows = [d \in DeliveryIds |-> None]
    /\ minted = {}
    /\ inventory = [d \in DeliveryIds |-> 0]
    /\ events = {}
    /\ redis = [k \in Keys |-> None]
    /\ tx = [s \in Sessions |-> Idle]

-----------------------------------------------------------------------------
(* create_delivery *)

\* A cached id counts when its delivery is in the database; the request is
\* then answered with it, and changes nothing.
Hit(k) == redis[k] # None /\ Exists(redis[k])

\* Bound: a creation starts only while a delivery id is left for it.
IdLeft == Cardinality({s \in Sessions : tx[s].pc \in {"check", "insert"}})
            < Cardinality(DeliveryIds \ minted)

\* Past the Redis lookup, the order's status and the courier's role.  up:
\* Redis answered, so the key is kept for later.
BeginCreate(s, a, o, u, up) ==
    /\ ~Busy(s)
    /\ IdLeft
    /\ up /\ u # None => ~Hit(<<a, u>>)
    /\ o \in open
    /\ tx' = [tx EXCEPT ![s] =
        [pc |-> "check", delivery |-> None,
         row |-> [order |-> o, uuid |-> u, status |-> "assigned", version |-> 1],
         to |-> "assigned", actor |-> a, keyed |-> up /\ u # None]]
    /\ UNCHANGED <<db, minted, redis>>

\* already_assigned: the order has an active delivery.
RefuseAssigned(s) ==
    /\ tx[s].pc = "check"
    /\ ActiveFor(tx[s].row.order) # {}
    /\ RollBack(s)

PassCheck(s) ==
    /\ tx[s].pc = "check"
    /\ ActiveFor(tx[s].row.order) = {}
    /\ tx' = [tx EXCEPT ![s].pc = "insert"]
    /\ UNCHANGED <<db, minted, redis>>

\* The two unique indexes.
SameUuid(r1, r2)  == r1.uuid = r2.uuid /\ r1.uuid # None
SameOrder(r1, r2) == r1.order = r2.order /\ IsActive(r1) /\ IsActive(r2)
Conflict(r1, r2)  == SameUuid(r1, r2) \/ SameOrder(r1, r2)

\* Mutated: no index on the active delivery of an order (as on SQLite).
MayInsertAnyOrder(s) ==
    \A t \in Sessions \ {s} : Inserted(t) => ~SameUuid(tx[t].row, tx[s].row)

\* The INSERT waits for a transaction that inserted a conflicting row and has
\* not ended.
MayInsert(s) ==
    \A t \in Sessions \ {s} : Inserted(t) => ~Conflict(tx[t].row, tx[s].row)

Conflicting(s) == {d \in DeliveryIds : Exists(d) /\ Conflict(rows[d], tx[s].row)}

\* Mutated: the id is not set before the flush.
InsertWithoutId(s) ==
    /\ tx[s].pc = "insert"
    /\ MayInsert(s)
    /\ Conflicting(s) = {}
    /\ tx' = [tx EXCEPT ![s].pc = "publish"]
    /\ UNCHANGED <<db, minted, redis>>

InsertDelivery(s) ==
    /\ tx[s].pc = "insert"
    /\ MayInsert(s)
    /\ Conflicting(s) = {}
    /\ \E d \in DeliveryIds \ minted :
        /\ minted' = minted \cup {d}
        /\ tx' = [tx EXCEPT ![s] = [@ EXCEPT !.pc = "publish", !.delivery = d]]
    /\ UNCHANGED <<db, redis>>

\* IntegrityError.  db.add comes before begin_nested, whose own flush fails
\* ahead of the savepoint and takes the whole transaction along: the lookup
\* by client_uuid that follows cannot run, and the request ends in an error.
InsertConflict(s) ==
    /\ tx[s].pc = "insert"
    /\ MayInsert(s)
    /\ Conflicting(s) # {}
    /\ RollBack(s)

\* SET NX, before the commit; ok: Redis took the write.
PublishKey(s, ok) ==
    /\ tx[s].pc = "publish"
    /\ LET k == <<tx[s].actor, tx[s].row.uuid>>
       IN  redis' = IF tx[s].keyed /\ ok /\ redis[k] = None
                    THEN [redis EXCEPT ![k] = tx[s].delivery]
                    ELSE redis
    /\ tx' = [tx EXCEPT ![s].pc = "commit"]
    /\ UNCHANGED <<db, minted>>

CommitCreate(s) ==
    LET t == tx[s] IN
    /\ t.pc = "commit"
    /\ rows' = [rows EXCEPT ![t.delivery] = t.row]
    /\ events' = events \cup {<<t.delivery, t.row.version, t.row.status>>}
    /\ tx' = [tx EXCEPT ![s] = Idle]
    /\ UNCHANGED <<open, inventory, minted, redis>>

-----------------------------------------------------------------------------
(* update_status *)

\* Mutated: SELECT without FOR UPDATE.
RowUnlocked(d) == TRUE

RowFree(d) == \A t \in Sessions : ~(tx[t].pc = "write" /\ tx[t].delivery = d)

\* SELECT ... FOR UPDATE; v is the version the client sent.
LockDelivery(s, d, to, v) ==
    /\ ~Busy(s)
    /\ Exists(d)
    /\ RowFree(d)
    /\ rows[d].version = v
    /\ to \in NextStatuses[rows[d].status]
    /\ tx' = [tx EXCEPT ![s] =
        [pc |-> "write", delivery |-> d, row |-> rows[d], to |-> to,
         actor |-> None, keyed |-> FALSE]]
    /\ UNCHANGED <<db, minted, redis>>

\* _create_inventory_from_delivery: once per delivery.
Stocks(t) == t.to = "delivered" /\ inventory[t.delivery] = 0

CommitUpdate(s) ==
    LET t == tx[s] IN
    /\ t.pc = "write"
    /\ rows' = [rows EXCEPT ![t.delivery] =
                    [@ EXCEPT !.status = t.to, !.version = t.row.version + 1]]
    /\ inventory' = IF Stocks(t) THEN [inventory EXCEPT ![t.delivery] = @ + 1]
                                 ELSE inventory
    /\ events' = events \cup {<<t.delivery, t.row.version + 1, t.to>>}
    /\ tx' = [tx EXCEPT ![s] = Idle]
    /\ UNCHANGED <<open, minted, redis>>

-----------------------------------------------------------------------------
(* The rest of the system *)

\* An exception, a lost connection or a killed worker.
Abort(s) ==
    /\ Busy(s)
    /\ RollBack(s)

\* The key's 24 hours end, or Redis loses it.
ExpireKey(k) ==
    /\ redis[k] # None
    /\ redis' = [redis EXCEPT ![k] = None]
    /\ UNCHANGED <<db, minted, tx>>

\* orders.update_status: the order is delivered or canceled, both final.
\* Neither looks at the order's deliveries.
CloseOrder(o) ==
    /\ open' = open \ {o}
    /\ UNCHANGED <<rows, inventory, events, minted, redis, tx>>

-----------------------------------------------------------------------------

Next ==
    \/ \E s \in Sessions :
        \/ \E a \in Actors, o \in Orders, u \in Uuids \cup {None}, up \in BOOLEAN :
                BeginCreate(s, a, o, u, up)
        \/ RefuseAssigned(s) \/ PassCheck(s)
        \/ InsertDelivery(s) \/ InsertConflict(s)
        \/ \E ok \in BOOLEAN : PublishKey(s, ok)
        \/ CommitCreate(s)
        \/ \E d \in DeliveryIds, to \in Statuses, v \in Versions :
                LockDelivery(s, d, to, v)
        \/ CommitUpdate(s)
        \/ Abort(s)
    \/ \E k \in Keys : ExpireKey(k)
    \/ \E o \in Orders : CloseOrder(o)

Spec == Init /\ [][Next]_vars

-----------------------------------------------------------------------------
(* Properties *)

\* The state is well formed.
TypeOK ==
    /\ open \subseteq Orders
    /\ rows \in [DeliveryIds -> DeliveryRows \cup {None}]
    /\ minted \subseteq DeliveryIds
    /\ inventory \in [DeliveryIds -> Nat]
    /\ events \subseteq DeliveryIds \X Nat \X Statuses
    /\ redis \in [Keys -> DeliveryIds \cup {None}]
    /\ tx \in [Sessions -> Transactions \cup {Idle}]

\* An order has at most one active delivery, although creations check before
\* they insert (docs/DELIVERY.md, "Bir buyurtmaga bitta aktiv yetkazish").
OneActiveDelivery == \A o \in Orders : Cardinality(ActiveFor(o)) <= 1

\* A client_uuid makes at most one delivery, with Redis up, down, expired or
\* holding the key of a creation that was rolled back.
OneDeliveryPerUuid ==
    \A d, e \in DeliveryIds :
        Exists(d) /\ Exists(e) /\ SameUuid(rows[d], rows[e]) => d = e

\* A store's inventory holds the goods of exactly the deliveries that were
\* delivered, each once (the idempotency of _create_inventory_from_delivery,
\* together with the final status and the row lock).
StockedIffDelivered ==
    \A d \in DeliveryIds :
        inventory[d] = IF Exists(d) /\ rows[d].status = "delivered" THEN 1 ELSE 0

\* The outbox tells a delivery's life without a gap or a fork: one event per
\* version, the last one with the row's status.  The store owner and the
\* courier are notified from these events (modules/push/service.py).
EventsTellTheStory ==
    \A d \in DeliveryIds :
        LET told == {e \in events : e[1] = d} IN
        IF Exists(d)
        THEN /\ {e[2] : e \in told} = 1..rows[d].version
             /\ Cardinality(told) = rows[d].version
             /\ <<d, rows[d].version, rows[d].status>> \in told
        ELSE told = {}

\* A committed delivery changes by one legal transition and one version at a
\* time; a final one never changes (FOR UPDATE plus the version check).
DeliveriesMoveForward ==
    [][\A d \in DeliveryIds :
         Exists(d) /\ rows'[d] # rows[d] =>
            /\ rows'[d].status \in NextStatuses[rows[d].status]
            /\ rows'[d].version = rows[d].version + 1
            /\ rows'[d].order = rows[d].order /\ rows'[d].uuid = rows[d].uuid
      ]_vars

\* A creation that is sent again with its client_uuid is never refused with
\* "already_assigned" because of the delivery it made itself: it is answered
\* with that delivery (docs/DELIVERY.md, "client_uuid idempotentlik").
RetryIsNotRefused ==
    [][\A s \in Sessions :
         RefuseAssigned(s) =>
            ~\E d \in ActiveFor(tx[s].row.order) : SameUuid(rows[d], tx[s].row)
      ]_vars
===============================================================================
