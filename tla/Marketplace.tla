------------------------------ MODULE Marketplace ------------------------------
(***************************************************************************)
(* Marketplace orders between a supplier and a buyer                       *)
(* (modules/marketplace/service.py): the buyer creates an order, the       *)
(* supplier confirms or rejects and ships it, the courier delivers it, and *)
(* the buyer accepts it, which puts its goods into the store's inventory.  *)
(*                                                                         *)
(* confirm, reject, ship and deliver read the row without a lock and write *)
(* it by its id; accept takes the row lock and reads the status again      *)
(* under it.  As in OrderLedger a session reads committed data and         *)
(* publishes its writes in one commit; an UPDATE waits for the row lock,   *)
(* so the flush of the unlocked steps and their commit are one action.     *)
(***************************************************************************)
EXTENDS Naturals, FiniteSets

CONSTANTS
    Sessions,      \* database sessions: one per request being served
    OrderIds,      \* uuid7 values create_order may draw
    Scopes,        \* buyer enterprises, and the stores of buyers without one
    Uuids,         \* client_uuid values
    Couriers,      \* couriers of the supplier
    None,          \* no scope, no client_uuid, no courier, no order
    MaxTold        \* bound, per status: an order gets no further step to it
                   \* once this many were committed

Statuses == {"pending", "confirmed", "rejected", "delivering", "delivered", "accepted"}

Rows ==
    [scope : Scopes \cup {None}, uuid : Uuids \cup {None},
     status : Statuses, courier : Couriers \cup {None}]

ASSUME ConstantsAssumption ==
    /\ None \notin Scopes \cup Uuids \cup Couriers \cup OrderIds
    /\ None \notin Rows
    /\ None \notin (Scopes \cup {None}) \X (Uuids \cup {None})
    /\ MaxTold \in [Statuses -> Nat]

VARIABLES
    rows,          \* committed marketplace_order rows
    minted,        \* order ids drawn for an inserted row
    told,          \* outbox events per order and status reported
    fills,         \* times the lines of an order were put into the inventory
    tx,            \* the transaction of each session
    acked          \* creations whose answer reached the client:
                   \* <<scope, client_uuid, order>>

vars == <<rows, minted, told, fills, tx, acked>>

\* MP_VALID_TRANSITIONS
NextStatuses ==
    [pending    |-> {"confirmed", "rejected"},
     confirmed  |-> {"delivering"},
     rejected   |-> {},
     delivering |-> {"delivered"},
     delivered  |-> {"accepted"},
     accepted   |-> {}]

Idle == [pc |-> "idle"]

\* row is the row to insert, or the row as the step read it; courier is the
\* one a shipment assigns.
Transactions ==
    [pc : {"insert", "publish", "write", "lock", "accept"},
     order : OrderIds \cup {None}, row : Rows, to : Statuses,
     courier : Couriers \cup {None}]

Busy(s)   == tx[s].pc # "idle"
Exists(o) == rows[o] # None

Locked(o) == \E s \in Sessions : tx[s].pc = "accept" /\ tx[s].order = o

Init ==
    /\ rows = [o \in OrderIds |-> None]
    /\ minted = {}
    /\ told = [o \in OrderIds |-> [st \in Statuses |-> 0]]
    /\ fills = [o \in OrderIds |-> 0]
    /\ tx = [s \in Sessions |-> Idle]
    /\ acked = {}

\* A refused request, an error, or a lost connection.
Abort(s) ==
    /\ Busy(s)
    /\ tx' = [tx EXCEPT ![s] = Idle]
    /\ UNCHANGED <<rows, minted, told, fills, acked>>

\* The answer to a creation that can be repeated reaches the client or is
\* lost.
Answer(sc, u, o) ==
    \/ UNCHANGED acked
    \/ None \notin {sc, u} /\ acked' = acked \cup {<<sc, u, o>>}

-----------------------------------------------------------------------------
(* create_order *)

\* Mutated: the lookup by client_uuid alone, which the source took back.
MatchesUuidOnly(row, sc, u) == u # None /\ row.uuid = u

\* _compute_idem_filters: both columns, and nothing when one is missing.
Matches(row, sc, u) ==
    None \notin {sc, u} /\ row.scope = sc /\ row.uuid = u

Matching(sc, u) == {o \in OrderIds : Exists(o) /\ Matches(rows[o], sc, u)}

\* Mutated: neither unique index.
NoIndex(r1, r2) == FALSE

\* uq_mp_order_buyer_client_uuid and uq_mp_order_store_client_uuid_partial:
\* NULLs never collide.
Collide(r1, r2) ==
    None \notin {r1.scope, r1.uuid} /\ r1.scope = r2.scope /\ r1.uuid = r2.uuid

Inserting(s) == tx[s].pc = "publish"

\* Bound: a creation starts only while an order id is left for it.
IdLeft == Cardinality({s \in Sessions : tx[s].pc = "insert"})
            < Cardinality(OrderIds \ minted)

\* Visibility, published products, the contract gate and the final scope;
\* then the lookup finds nothing, and the prices are read.
BeginCreate(s, sc, u) ==
    /\ ~Busy(s)
    /\ IdLeft
    /\ Matching(sc, u) = {}
    /\ tx' = [tx EXCEPT ![s] =
        [pc |-> "insert", order |-> None,
         row |-> [scope |-> sc, uuid |-> u, status |-> "pending", courier |-> None],
         to |-> "pending", courier |-> None]]
    /\ UNCHANGED <<rows, minted, told, fills, acked>>

\* The lookup finds an order.
Repeat(sc, u, o) ==
    /\ o \in Matching(sc, u)
    /\ Answer(sc, u, o)
    /\ UNCHANGED <<rows, minted, told, fills, tx>>

\* The INSERT in its savepoint waits for a transaction that holds the same
\* index entry.
InsertOrder(s, o) ==
    /\ tx[s].pc = "insert"
    /\ o \notin minted
    /\ \A t \in Sessions \ {s} : Inserting(t) => ~Collide(tx[s].row, tx[t].row)
    /\ \A q \in OrderIds : Exists(q) => ~Collide(tx[s].row, rows[q])
    /\ minted' = minted \cup {o}
    /\ tx' = [tx EXCEPT ![s].pc = "publish", ![s].order = o]
    /\ UNCHANGED <<rows, told, fills, acked>>

\* The INSERT hits a committed row: the savepoint is rolled back and the
\* lookup repeated.  Its row makes the lookup succeed, and the branch that
\* answers order_idempotency_conflict is never taken.
ResolveDuplicate(s) ==
    LET row == tx[s].row IN
    /\ tx[s].pc = "insert"
    /\ \E q \in OrderIds : Exists(q) /\ Collide(row, rows[q])
    /\ \E o \in Matching(row.scope, row.uuid) : Answer(row.scope, row.uuid, o)
    /\ tx' = [tx EXCEPT ![s] = Idle]
    /\ UNCHANGED <<rows, minted, told, fills>>

\* The lines and the event order_created, then the router's commit.
CommitCreate(s) ==
    LET o == tx[s].order
        row == tx[s].row IN
    /\ tx[s].pc = "publish"
    /\ rows' = [rows EXCEPT ![o] = row]
    /\ told' = [told EXCEPT ![o]["pending"] = @ + 1]
    /\ Answer(row.scope, row.uuid, o)
    /\ tx' = [tx EXCEPT ![s] = Idle]
    /\ UNCHANGED <<minted, fills>>

-----------------------------------------------------------------------------
(* confirm_order, reject_order, ship_order, deliver_order *)

\* The row is read without a lock and its status checked; c is the courier
\* to assign or None.
ReadForStep(s, o, to, c) ==
    /\ ~Busy(s)
    /\ Exists(o)
    /\ to \in NextStatuses[rows[o].status]
    /\ told[o][to] < MaxTold[to]
    /\ tx' = [tx EXCEPT ![s] =
        [pc |-> "write", order |-> o, row |-> rows[o], to |-> to, courier |-> c]]
    /\ UNCHANGED <<rows, minted, told, fills, acked>>

Confirm(s, o) == ReadForStep(s, o, "confirmed", None)
Reject(s, o)  == ReadForStep(s, o, "rejected", None)

Ship(s, o, c) == c \in Couriers /\ ReadForStep(s, o, "delivering", c)

\* order_courier_mismatch for everyone but the assigned courier.
Deliver(s, o, c) ==
    /\ Exists(o)
    /\ c = rows[o].courier
    /\ c \in Couriers
    /\ ReadForStep(s, o, "delivered", None)

\* UPDATE ... WHERE id, which waits for the lock of an acceptance, writes
\* the columns that changed since the row was read, whatever the row has
\* become; the event and the commit follow.
CommitStep(s) ==
    LET t == tx[s]
        o == t.order IN
    /\ t.pc = "write"
    /\ ~Locked(o)
    /\ rows' = [rows EXCEPT
        ![o].status = t.to,
        ![o].courier = IF t.courier \in {None, t.row.courier} THEN @ ELSE t.courier]
    /\ told' = [told EXCEPT ![o][t.to] = @ + 1]
    /\ tx' = [tx EXCEPT ![s] = Idle]
    /\ UNCHANGED <<minted, fills, acked>>

-----------------------------------------------------------------------------
(* accept_order *)

\* The early check, before the lock.
BeginAccept(s, o) ==
    /\ ~Busy(s)
    /\ Exists(o)
    /\ "accepted" \in NextStatuses[rows[o].status]
    /\ told[o]["accepted"] < MaxTold["accepted"]
    /\ tx' = [tx EXCEPT ![s] =
        [pc |-> "lock", order |-> o, row |-> rows[o], to |-> "accepted",
         courier |-> None]]
    /\ UNCHANGED <<rows, minted, told, fills, acked>>

\* Mutated: the status as it was read before the lock is trusted.
LockForAcceptUnchecked(s) ==
    /\ tx[s].pc = "lock"
    /\ ~Locked(tx[s].order)
    /\ tx' = [tx EXCEPT ![s].pc = "accept"]
    /\ UNCHANGED <<rows, minted, told, fills, acked>>

\* SELECT ... FOR UPDATE with populate_existing, and the check repeated on
\* what it read; a row that was accepted meanwhile ends in Abort.
LockForAccept(s) ==
    LET o == tx[s].order IN
    /\ tx[s].pc = "lock"
    /\ ~Locked(o)
    /\ "accepted" \in NextStatuses[rows[o].status]
    /\ tx' = [tx EXCEPT ![s].pc = "accept", ![s].row = rows[o]]
    /\ UNCHANGED <<rows, minted, told, fills, acked>>

\* One inventory row per line, the status and the event, in one commit.
CommitAccept(s) ==
    LET o == tx[s].order IN
    /\ tx[s].pc = "accept"
    /\ rows' = [rows EXCEPT ![o].status = "accepted"]
    /\ fills' = [fills EXCEPT ![o] = @ + 1]
    /\ told' = [told EXCEPT ![o]["accepted"] = @ + 1]
    /\ tx' = [tx EXCEPT ![s] = Idle]
    /\ UNCHANGED <<minted, acked>>

-----------------------------------------------------------------------------

Next ==
    \/ \E s \in Sessions :
        \/ \E sc \in Scopes \cup {None}, u \in Uuids \cup {None} : BeginCreate(s, sc, u)
        \/ \E o \in OrderIds :
            \/ InsertOrder(s, o)
            \/ Confirm(s, o)
            \/ Reject(s, o)
            \/ \E c \in Couriers : Ship(s, o, c) \/ Deliver(s, o, c)
            \/ BeginAccept(s, o)
        \/ ResolveDuplicate(s)
        \/ CommitCreate(s)
        \/ CommitStep(s)
        \/ LockForAccept(s)
        \/ CommitAccept(s)
        \/ Abort(s)
    \/ \E sc \in Scopes, u \in Uuids, o \in OrderIds : Repeat(sc, u, o)

Spec == Init /\ [][Next]_vars

-----------------------------------------------------------------------------
(* Properties *)

TypeOK ==
    /\ rows \in [OrderIds -> Rows \cup {None}]
    /\ minted \subseteq OrderIds
    /\ told \in [OrderIds -> [Statuses -> Nat]]
    /\ fills \in [OrderIds -> Nat]
    /\ tx \in [Sessions -> Transactions \cup {Idle}]
    /\ acked \subseteq Scopes \X Uuids \X OrderIds

\* What a client was told about its request is the order of that request
\* and of its own scope: a retry, at whatever point the first attempt
\* stopped, never names an order of another buyer, and never two orders
\* (create_order, the two lookups around the savepoint).
AckedIsPlaced ==
    \A sc \in Scopes, u \in Uuids, o \in OrderIds : <<sc, u, o>> \in acked =>
        /\ Exists(o) /\ rows[o].scope = sc /\ rows[o].uuid = u
        /\ \A q \in OrderIds : <<sc, u, q>> \in acked => q = o

\* A reader of the events sees every acceptance follow a delivery: the
\* inventory was filled as often as order_accepted was reported, and a row
\* that waits to be accepted has a delivery nothing was filled for
\* (accept_order's check under the lock).
FillsFollowDeliveries ==
    \A o \in OrderIds :
        /\ fills[o] = told[o]["accepted"]
        /\ fills[o] <= told[o]["delivered"]
        /\ Exists(o) /\ rows[o].status = "delivered" => fills[o] < told[o]["delivered"]

\* The request is placed once, and the goods enter the inventory at most
\* once per reported handover, whatever the unlocked steps overwrite.
Promise == INSTANCE Handover WITH
    placed <- [o \in OrderIds |->
                 IF Exists(o) THEN <<rows[o].scope, rows[o].uuid>> ELSE None],
    handed <- [o \in OrderIds |-> told[o]["delivered"]],
    stocked <- fills
ImplementsHandover == Promise!Spec

\* "double-accept himoyasi" (accept_order, [#8]): an order is put into the
\* inventory once.
InventoryFilledOnce == \A o \in OrderIds : fills[o] <= 1
===============================================================================
