---------------------------- MODULE MCStoreSales ----------------------------
(* Two sessions at a store with two batches of milk, and bread that is sold  *)
(* from the catalogue because no batch of it was ever received.              *)
EXTENDS StoreSales, TLC

CONSTANTS s1, s2, x1, x2, milk, bread

MCProductOf == <<milk, milk>>
MCGoods     == <<1, 2>>
MCExpires   == <<2, 9>>

\* The last bottle of the first batch, and more than it holds after a line
\* that no batch serves.
MCCarts == {<<<<milk, 1>>>>, <<<<bread, 1>>, <<milk, 2>>>>}

Symmetry == Permutations(Sessions) \cup Permutations(SaleIds)
=============================================================================
