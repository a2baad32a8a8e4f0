---------------------------- MODULE MCOrderLedger ----------------------------
(* A small shop for TLC.  The ledger runs take requests without client_uuid  *)
(* beside other movements and entries; the liveness run takes orders of      *)
(* both products or one, and one client_uuid that two actors use.            *)
EXTENDS OrderLedger, TLC

CONSTANTS s1, s2, o1, o2, p1, p2, shop, agent, clerk, u1

MCQuotes == {<<(p1 :> 1 @@ p2 :> 1), 2>>}

\* Orders of one product, which meet only at the account, and gifts of both,
\* which meet only at the stock and have no ledger entry.
LiveQuotes ==
    {<<(p1 :> 1 @@ p2 :> 1), 0>>,
     <<(p1 :> 1 @@ p2 :> 0), 1>>, <<(p1 :> 0 @@ p2 :> 1), 1>>}

MCInitStock == (p1 :> 1 @@ p2 :> 2)
LiveInitStock == (p1 :> 2 @@ p2 :> 2)
MCMaxMoved == (p1 :> 1 @@ p2 :> 0)
MCMaxPosted == (shop :> 1)

LiveMaxMoved == (p1 :> 0 @@ p2 :> 0)
LiveMaxPosted == (shop :> 0)

Symmetry == Permutations(Sessions) \cup Permutations(OrderIds)
=============================================================================
