----------------------------- MODULE MCDeliveries -----------------------------
(* Two sessions, two deliveries, one or two orders and a client_uuid.        *)
EXTENDS Deliveries, TLC

CONSTANTS s1, s2, d1, d2, d3, o1, o2, u1, clerk, agent

Symmetry == Permutations(Sessions) \cup Permutations(DeliveryIds)
                \cup Permutations(Orders) \cup Permutations(Actors)
===============================================================================
