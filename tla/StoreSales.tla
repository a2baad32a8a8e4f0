------------------------------ MODULE StoreSales ------------------------------
(***************************************************************************)
(* The shelves of one store (store_inventory): checkouts of its cashiers   *)
(* (modules/pos/service.py, create_sale) and the scan that marks expired   *)
(* batches and announces the ones about to expire                          *)
(* (modules/pos/expiry_scan.py), as transactions of concurrent sessions.   *)
(*                                                                         *)
(* A checkout takes, product by product, the row lock of the oldest batch  *)
(* that has goods.  PostgreSQL looks for it in the snapshot of that        *)
(* SELECT, waits for its lock, and goes on to the next one when the batch  *)
(* was sold out meanwhile.  Rows are published in one commit; the UPDATEs  *)
(* of a checkout write the quantity and those of a scan the status.        *)
(***************************************************************************)
EXTENDS Naturals, FiniteSets, FiniteSetsExt, Sequences, Functions

CONSTANTS
    Sessions,      \* database sessions: one per request being served
    SaleIds,       \* uuid7 values create_sale may draw
    Cashiers,      \* users who sell
    Uuids,         \* client_uuid values
    None,          \* no client_uuid, no sale
    Products,
    Batches,       \* inventory rows, numbered in the order of created_at
    ProductOf,     \* product of each batch
    Goods,         \* quantity of each batch when it arrives
    Expires,       \* expiry_date of each batch, as a day
    Carts,         \* requests: sequences of <<product, quantity>>, the lines
                   \* of a product summed up
    BlockDays,     \* settings.pos_expiry_block_days
    NotifyDays,    \* settings.expiry_notify_days
    LastDay        \* bound on the calendar

ASSUME ConstantsAssumption ==
    /\ IsFiniteSet(Sessions) /\ IsFiniteSet(SaleIds)
    /\ Batches \subseteq Nat \ {0}
    /\ ProductOf \in [Batches -> Products]
    /\ Goods \in [Batches -> Nat \ {0}]
    /\ Expires \in [Batches -> Nat]
    /\ Carts \subseteq Seq(Products \X (Nat \ {0}))
    /\ \A cart \in Carts : \A i, j \in DOMAIN cart : cart[i][1] = cart[j][1] => i = j
    /\ BlockDays \in Nat \ {0}
    /\ NotifyDays \in Nat
    /\ LastDay \in Nat
    /\ None \notin Uuids

\* A position of a cart that no batch serves: sold at the catalogue's price
\* from goods the inventory does not know.
Catalogue == 0

Days == 0..LastDay

Sales ==
    [cashier : Cashiers, uuid : Uuids \cup {None}, cart : Carts,
     from : Seq(Batches \cup {Catalogue}), day : Days]

\* None is no pos_sale row.
ASSUME NoneAssumption == None \notin Sales

VARIABLES
    today,         \* the UTC date
    arrived,       \* batches whose row is committed
    qty,           \* store_inventory.qty
    expired,       \* batches with status "expired"
    sales,         \* committed pos_sale rows with their lines
    minted,        \* sale ids drawn for an inserted row
    notices,       \* outbox events inventory.expiring_soon per batch and day
    tx,            \* the transaction of each session
    acked          \* sales whose answer reached the cashier

vars == <<today, arrived, qty, expired, sales, minted, notices, tx, acked>>

\* The date is read once, at the start.  picked[i] is the batch locked for
\* the i-th line and read[i] the quantity it had; found is what the current
\* SELECT's snapshot holds.
Checkouts ==
    [pc : {"select", "take", "commit"}, day : Days,
     cashier : Cashiers, uuid : Uuids \cup {None}, cart : Carts,
     picked : Seq(Batches \cup {Catalogue}), read : Seq(Nat),
     found : SUBSET Batches, sale : SaleIds \cup {None}]

\* todo are the batches still to look at, fresh those to announce; told is
\* history, the batches announced for the day when the scan began.
Scans ==
    [pc : {"scan"}, day : Days, marked : SUBSET Batches, todo : SUBSET Batches,
     fresh : SUBSET Batches, told : SUBSET Batches]

Idle == [pc |-> "idle"]

Busy(s)      == tx[s].pc # "idle"
CheckingOut(s) == tx[s].pc \in {"select", "take", "commit"}
Scanning(s)  == tx[s].pc = "scan"
IsSold(x)    == sales[x] # None

Holds(s, b) ==
    \/ CheckingOut(s) /\ \E i \in DOMAIN tx[s].picked : tx[s].picked[i] = b
    \/ Scanning(s) /\ b \in tx[s].marked

\* Mutated: SELECT without FOR UPDATE.
FreeUnlocked(s, b) == TRUE

Free(s, b) == \A t \in Sessions \ {s} : ~Holds(t, b)

Init ==
    /\ today = 0
    /\ arrived = {}
    /\ qty = [b \in Batches |-> 0]
    /\ expired = {}
    /\ sales = [x \in SaleIds |-> None]
    /\ minted = {}
    /\ notices = [b \in Batches |-> [d \in Days |-> 0]]
    /\ tx = [s \in Sessions |-> Idle]
    /\ acked = {}

\* A refused request, a deadlock's victim, an error, a lost connection.
Abort(s) ==
    /\ Busy(s)
    /\ tx' = [tx EXCEPT ![s] = Idle]
    /\ UNCHANGED <<today, arrived, qty, expired, sales, minted, notices, acked>>

-----------------------------------------------------------------------------
(* The world outside *)

\* An accepted order, a delivery or an import commits a batch: the batches
\* of two transactions may become visible in another order than created_at.
Receive(b) ==
    /\ b \in Batches \ arrived
    /\ arrived' = arrived \cup {b}
    /\ qty' = [qty EXCEPT ![b] = Goods[b]]
    /\ UNCHANGED <<today, expired, sales, minted, notices, tx, acked>>

\* No transaction lives through two midnights.
NextDay ==
    /\ today < LastDay
    /\ \A s \in Sessions : Busy(s) => tx[s].day = today
    /\ today' = today + 1
    /\ UNCHANGED <<arrived, qty, expired, sales, minted, notices, tx, acked>>

-----------------------------------------------------------------------------
(* create_sale *)

Position(s) == Len(tx[s].picked) + 1
Line(s)     == tx[s].cart[Position(s)]

\* Bound: a checkout starts only while a sale id is left for it.
IdLeft == Cardinality({s \in Sessions : tx[s].pc \in {"select", "take"}})
            < Cardinality(SaleIds \ minted)

\* The store is visible and the cashier may sell; the demand per product.
BeginSale(s, k, u, cart) ==
    /\ ~Busy(s)
    /\ IdLeft
    /\ tx' = [tx EXCEPT ![s] =
        [pc |-> "select", day |-> today, cashier |-> k, uuid |-> u, cart |-> cart,
         picked |-> <<>>, read |-> <<>>, found |-> {}, sale |-> None]]
    /\ UNCHANGED <<today, arrived, qty, expired, sales, minted, notices, acked>>

\* The snapshot of SELECT ... qty > 0 ORDER BY created_at LIMIT 1 FOR UPDATE.
SelectBatches(s) ==
    /\ tx[s].pc = "select"
    /\ Position(s) <= Len(tx[s].cart)
    /\ tx' = [tx EXCEPT
        ![s].pc = "take",
        ![s].found = {b \in arrived : ProductOf[b] = Line(s)[1] /\ qty[b] > 0}]
    /\ UNCHANGED <<today, arrived, qty, expired, sales, minted, notices, acked>>

\* The lock is granted on a batch that has been sold out.
SkipSoldOut(s) ==
    LET b == Min(tx[s].found) IN
    /\ tx[s].pc = "take" /\ tx[s].found # {}
    /\ Free(s, b)
    /\ qty[b] = 0
    /\ tx' = [tx EXCEPT ![s].found = @ \ {b}]
    /\ UNCHANGED <<today, arrived, qty, expired, sales, minted, notices, acked>>

\* Neither is_expired nor is_near_expiry.
Sellable(b, day) == b \notin expired /\ Expires[b] > day + BlockDays

Enough(b, n) == qty[b] >= n

\* product_expired and insufficient_inventory end in Abort.
TakeBatch(s) ==
    LET b == Min(tx[s].found) IN
    /\ tx[s].pc = "take" /\ tx[s].found # {}
    /\ Free(s, b)
    /\ qty[b] > 0
    /\ Sellable(b, tx[s].day)
    /\ Enough(b, Line(s)[2])
    /\ tx' = [tx EXCEPT
        ![s].pc = "select", ![s].found = {},
        ![s].picked = Append(@, b), ![s].read = Append(@, qty[b])]
    /\ UNCHANGED <<today, arrived, qty, expired, sales, minted, notices, acked>>

\* No batch of the snapshot is left: the catalogue's price, or no_price and
\* Abort.
TakeCatalogue(s) ==
    /\ tx[s].pc = "take" /\ tx[s].found = {}
    /\ tx' = [tx EXCEPT
        ![s].pc = "select",
        ![s].picked = Append(@, Catalogue), ![s].read = Append(@, 0)]
    /\ UNCHANGED <<today, arrived, qty, expired, sales, minted, notices, acked>>

Resolved(s) == tx[s].pc = "select" /\ Len(tx[s].picked) = Len(tx[s].cart)

\* Mutated: no unique constraint.
NeverCollide(u, v) == FALSE

\* uq_pos_sale_store_client_uuid
Collide(u, v) == u = v /\ u # None

\* The INSERT waits for a transaction that holds the same index entry.
InsertSale(s, x) ==
    /\ Resolved(s)
    /\ x \notin minted
    /\ \A t \in Sessions \ {s} : tx[t].pc = "commit" => ~Collide(tx[s].uuid, tx[t].uuid)
    /\ \A y \in SaleIds : IsSold(y) => ~Collide(tx[s].uuid, sales[y].uuid)
    /\ minted' = minted \cup {x}
    /\ tx' = [tx EXCEPT ![s].pc = "commit", ![s].sale = x]
    /\ UNCHANGED <<today, arrived, qty, expired, sales, notices, acked>>

Answer(u, x) == acked' \in {acked, acked \cup {<<u, x>>}}

\* The INSERT hits a committed sale: the whole transaction is rolled back,
\* and its own cashier gets the sale (cashier_id is never NULL here); any
\* other gets idempotency_conflict.
AnswerDuplicate(s) ==
    /\ Resolved(s)
    /\ \E x \in SaleIds :
        /\ IsSold(x)
        /\ Collide(tx[s].uuid, sales[x].uuid)
        /\ IF sales[x].cashier = tx[s].cashier
           THEN Answer(<<tx[s].cashier, tx[s].uuid>>, x)
           ELSE UNCHANGED acked
    /\ tx' = [tx EXCEPT ![s] = Idle]
    /\ UNCHANGED <<today, arrived, qty, expired, sales, minted, notices>>

\* The lines, the quantities and the event, in one commit.
CommitSale(s) ==
    LET t == tx[s] IN
    /\ t.pc = "commit"
    /\ qty' = [b \in Batches |->
                 IF \E i \in DOMAIN t.picked : t.picked[i] = b
                 THEN LET i == CHOOSE i \in DOMAIN t.picked : t.picked[i] = b
                      IN  t.read[i] - t.cart[i][2]
                 ELSE qty[b]]
    /\ sales' = [sales EXCEPT ![t.sale] =
                   [cashier |-> t.cashier, uuid |-> t.uuid, cart |-> t.cart,
                    from |-> t.picked, day |-> today]]
    /\ IF t.uuid = None THEN UNCHANGED acked ELSE Answer(<<t.cashier, t.uuid>>, t.sale)
    /\ tx' = [tx EXCEPT ![s] = Idle]
    /\ UNCHANGED <<today, arrived, expired, minted, notices>>

-----------------------------------------------------------------------------
(* mark_expired_inventory *)

\* The UPDATEs of the batches past their date wait for the checkouts that
\* hold them; then the batches to announce are read.
BeginScan(s) ==
    LET past == {b \in arrived \ expired : Expires[b] < today} IN
    /\ ~Busy(s)
    /\ \A b \in past : Free(s, b)
    /\ tx' = [tx EXCEPT ![s] =
        [pc |-> "scan", day |-> today, marked |-> past,
         todo |-> {b \in arrived \ expired :
                     Expires[b] \in today..(today + NotifyDays)},
         fresh |-> {}, told |-> {b \in Batches : notices[b][today] > 0}]]
    /\ UNCHANGED <<today, arrived, qty, expired, sales, minted, notices, acked>>

\* Mutated: the search for the day's event is left out.
ScanBatchAgain(s, b) ==
    /\ Scanning(s)
    /\ b \in tx[s].todo
    /\ tx' = [tx EXCEPT ![s].todo = @ \ {b}, ![s].fresh = @ \cup {b}]
    /\ UNCHANGED <<today, arrived, qty, expired, sales, minted, notices, acked>>

\* scalar_one_or_none: no event yet, one already there, or, with two, an
\* error that ends in Abort.
ScanBatch(s, b) ==
    LET known == notices[b][tx[s].day] IN
    /\ Scanning(s)
    /\ b \in tx[s].todo
    /\ known <= 1
    /\ tx' = [tx EXCEPT ![s].todo = @ \ {b},
                        ![s].fresh = IF known = 0 THEN @ \cup {b} ELSE @]
    /\ UNCHANGED <<today, arrived, qty, expired, sales, minted, notices, acked>>

CommitScan(s) ==
    LET t == tx[s] IN
    /\ Scanning(s)
    /\ t.todo = {}
    /\ expired' = expired \cup t.marked
    /\ notices' = [b \in Batches |->
                     IF b \in t.fresh THEN [notices[b] EXCEPT ![t.day] = @ + 1]
                     ELSE notices[b]]
    /\ tx' = [tx EXCEPT ![s] = Idle]
    /\ UNCHANGED <<today, arrived, qty, sales, minted, acked>>

-----------------------------------------------------------------------------

Next ==
    \/ \E s \in Sessions :
        \/ \E k \in Cashiers, u \in Uuids \cup {None}, cart \in Carts :
              BeginSale(s, k, u, cart)
        \/ SelectBatches(s)
        \/ SkipSoldOut(s)
        \/ TakeBatch(s)
        \/ TakeCatalogue(s)
        \/ \E x \in SaleIds : InsertSale(s, x)
        \/ AnswerDuplicate(s)
        \/ CommitSale(s)
        \/ BeginScan(s)
        \/ \E b \in Batches : ScanBatch(s, b)
        \/ CommitScan(s)
        \/ Abort(s)
    \/ \E b \in Batches : Receive(b)
    \/ NextDay

Spec == Init /\ [][Next]_vars

-----------------------------------------------------------------------------
(* Properties *)

TypeOK ==
    /\ today \in Days
    /\ arrived \subseteq Batches
    /\ qty \in [Batches -> Nat]
    /\ expired \subseteq Batches
    /\ sales \in [SaleIds -> Sales \cup {None}]
    /\ minted \subseteq SaleIds
    /\ notices \in [Batches -> [Days -> Nat]]
    /\ tx \in [Sessions -> Checkouts \cup Scans \cup {Idle}]
    /\ acked \subseteq (Cashiers \X Uuids) \X SaleIds

SoldFrom(x, b) ==
    IF ~IsSold(x) THEN 0
    ELSE SumFunctionOnSet([i \in DOMAIN sales[x].cart |->
                             IF sales[x].from[i] = b THEN sales[x].cart[i][2] ELSE 0],
                          DOMAIN sales[x].cart)

\* What left a batch is what the sales took from it, and never more than
\* it held, whichever checkouts ran at once ([#12a], [#12b] of create_sale).
ShelvesMatchSales ==
    \A b \in Batches :
        qty[b] + SumFunctionOnSet([x \in SaleIds |-> SoldFrom(x, b)], SaleIds)
            = IF b \in arrived THEN Goods[b] ELSE 0

\* A cashier who was told of a sale, at the first answer or at one of a
\* repeated request, was told of his own and of one only, and it is there.
AckedIsSold ==
    \A k \in Cashiers, u \in Uuids, x \in SaleIds : <<<<k, u>>, x>> \in acked =>
        /\ IsSold(x) /\ sales[x].uuid = u /\ sales[x].cashier = k
        /\ \A y \in SaleIds : IsSold(y) /\ sales[y].uuid = u => y = x

\* No goods are sold past their date, although the date is read before the
\* locks are waited for: the margin of is_near_expiry covers the midnight
\* that may pass between the two.
FreshWhenSold ==
    \A x \in SaleIds : IsSold(x) =>
        \A i \in DOMAIN sales[x].from :
            sales[x].from[i] # Catalogue => Expires[sales[x].from[i]] >= sales[x].day

\* The scans that announce one batch for one day all overlap: a scan that
\* began after the first of their events was committed adds none.
NoticesOverlap ==
    [][\A s \in Sessions : Scanning(s) /\ ~Busy(s)' =>
          \A b \in tx[s].told : notices'[b][tx[s].day] = notices[b][tx[s].day]]_vars

\* What the scan claims for itself: "bir kun, bir partiya = bir bildirishnoma"
\* (expiry_scan.py), one notice per batch and day.
OneNoticePerDay == \A b \in Batches, d \in Days : notices[b][d] <= 1
===============================================================================
