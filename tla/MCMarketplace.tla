---------------------------- MODULE MCMarketplace ----------------------------
(* Two sessions and two orders for TLC. *)
EXTENDS Marketplace, TLC

CONSTANTS s1, s2, o1, o2

\* Every step once, or twice when two sessions read the row in time; an
\* order that was delivered again can be accepted again.
MCMaxTold == [st \in Statuses |-> IF st = "accepted" THEN 2 ELSE 1]

Symmetry == Permutations(Sessions) \cup Permutations(OrderIds)
=============================================================================
