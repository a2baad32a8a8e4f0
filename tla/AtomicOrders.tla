----------------------------- MODULE AtomicOrders -----------------------------
(***************************************************************************)
(* What orders promise about stock and money (docs/ORDERS.md sections 5    *)
(* and 6): placing an order moves its goods out of the stock and its total *)
(* into the store's debt in one step, canceling one moves both back in one *)
(* step, and a client_uuid is used once per store.  OrderLedger implements *)
(* this.  Which updates may follow which is not promised here: concurrent  *)
(* updates of one order overwrite each other.                              *)
(***************************************************************************)
EXTENDS Integers

CONSTANTS OrderIds, Products, Stores, None, InitStock

VARIABLES orders, stock, account

vars == <<orders, stock, account>>

Exists(o) == orders[o] # None

SameRequest(r1, r2) == r1.store = r2.store /\ r1.uuid = r2.uuid /\ r1.uuid # None

Init ==
    /\ orders = [o \in OrderIds |-> None]
    /\ stock = InitStock
    /\ account = [st \in Stores |-> 0]

\* The rest of the state moves with the row, whose new value is orders'[o].
Place(o) ==
    LET row == orders'[o] IN
    /\ ~Exists(o)
    /\ orders' = [orders EXCEPT ![o] = row]
    /\ row # None
    /\ row.status = "confirmed" /\ row.version = 1
    /\ \A q \in OrderIds : Exists(q) => ~SameRequest(orders[q], row)
    /\ \A p \in Products : stock[p] >= row.basket[p]
    /\ stock' = [p \in Products |-> stock[p] - row.basket[p]]
    /\ account' = [account EXCEPT ![row.store] = @ + row.amount]

\* Only the status and the version of an order ever change.
Change(o) ==
    /\ Exists(o)
    /\ orders' = [orders EXCEPT ![o] =
                    [@ EXCEPT !.status = orders'[o].status,
                              !.version = orders'[o].version]]

Advance(o) ==
    /\ Change(o)
    /\ orders'[o].status # "canceled"
    /\ UNCHANGED <<stock, account>>

Cancel(o) ==
    /\ Change(o)
    /\ orders'[o].status = "canceled"
    /\ stock' = [p \in Products |-> stock[p] + orders[o].basket[p]]
    /\ account' = [account EXCEPT ![orders[o].store] = @ - orders[o].amount]

\* Goods that come and go without an order; never more than there are.
Move(p) ==
    /\ stock'[p] >= 0
    /\ stock' = [stock EXCEPT ![p] = stock'[p]]
    /\ UNCHANGED <<orders, account>>

\* Payments and corrections.
Post(st) ==
    /\ account' = [account EXCEPT ![st] = account'[st]]
    /\ UNCHANGED <<orders, stock>>

Next ==
    \/ \E o \in OrderIds : Place(o) \/ Advance(o) \/ Cancel(o)
    \/ \E p \in Products : Move(p)
    \/ \E st \in Stores : Post(st)

Spec == Init /\ [][Next]_vars
===============================================================================
