------------------------------- MODULE Handover -------------------------------
(***************************************************************************)
(* What a marketplace order promises its two enterprises                   *)
(* (modules/marketplace/service.py, docstrings of create_order and         *)
(* accept_order): a request is placed once, and the goods of an order      *)
(* enter the buyer's inventory at most once for every time a courier       *)
(* reported them handed over.  Marketplace implements this.                *)
(***************************************************************************)
EXTENDS Naturals

CONSTANTS OrderIds, None

VARIABLES
    placed,        \* request of each order: <<scope, client_uuid>>, or None
    handed,        \* handovers reported, per order
    stocked        \* times the goods entered the inventory, per order

vars == <<placed, handed, stocked>>

Init ==
    /\ placed = [o \in OrderIds |-> None]
    /\ handed = [o \in OrderIds |-> 0]
    /\ stocked = [o \in OrderIds |-> 0]

\* The request of the new order is placed'[o]; a request without a
\* client_uuid or without a scope is not recognised again.
Place(o) ==
    LET request == placed'[o] IN
    /\ placed[o] = None
    /\ placed' = [placed EXCEPT ![o] = request]
    /\ request # None
    /\ None \notin {request[1], request[2]} => \A q \in OrderIds : placed[q] # request
    /\ UNCHANGED <<handed, stocked>>

Hand(o) ==
    /\ placed[o] # None
    /\ handed' = [handed EXCEPT ![o] = @ + 1]
    /\ UNCHANGED <<placed, stocked>>

Stock(o) ==
    /\ stocked[o] < handed[o]
    /\ stocked' = [stocked EXCEPT ![o] = @ + 1]
    /\ UNCHANGED <<placed, handed>>

Next == \E o \in OrderIds : Place(o) \/ Hand(o) \/ Stock(o)

Spec == Init /\ [][Next]_vars
===============================================================================
