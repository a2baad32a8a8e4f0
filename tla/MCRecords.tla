------------------------------ MODULE MCRecords ------------------------------
(* Every table in turn: two rows of it, edited and created in two sessions.  *)
EXTENDS Records, TLC

CONSTANTS s1, s2, i1, i2, k1, k2

\* Two keys for users; an INN is optional, products vary in their contents and
\* contracts in their period.
MCKeysOf ==
    [k \in Kinds |-> IF k = "user" THEN {k1, k2} ELSE {k1}]

Symmetry == Permutations(Sessions) \cup Permutations(Ids)
==============================================================================
