------------------------------ MODULE MCSyncFeed ------------------------------
(* A store, an order of it, and an order of a store that is never the user's. *)
EXTENDS SyncFeed, TLC

CONSTANTS e1, e2, e3, s2, w1, w2, r1, r2

MCStoreOf == e1 :> e1 @@ e2 :> e1 @@ e3 :> s2

MCAllSeen == [e \in Entities |-> None]
===============================================================================
