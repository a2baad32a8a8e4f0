---------------------------- MODULE StoreSalesProofs ----------------------------
(***************************************************************************)
(* Proofs about StoreSales for every set of sessions, batches, products    *)
(* and carts.                                                              *)
(***************************************************************************)
EXTENDS StoreSales, FiniteSetTheorems, SequenceTheorems, WellFoundedInduction, TLAPS

-----------------------------------------------------------------------------
(* The inductive invariant *)

\* What a checkout has locked for its i-th line: the batch serves the line,
\* still has the quantity read under its lock, and is in date.
Served(s, i) ==
    LET t == tx[s]
        b == t.picked[i]
    IN  b # Catalogue =>
            /\ b \in arrived /\ ProductOf[b] = t.cart[i][1]
            /\ t.read[i] = qty[b] /\ t.read[i] >= t.cart[i][2]
            /\ Expires[b] > t.day + BlockDays

Carted(s) ==
    LET t == tx[s] IN
    /\ Len(t.read) = Len(t.picked) /\ Len(t.picked) <= Len(t.cart)
    /\ \A i \in 1..Len(t.picked) : Served(s, i)
    /\ t.pc = "take" =>
        /\ Len(t.picked) < Len(t.cart)
        /\ \A b \in t.found : b \in arrived /\ ProductOf[b] = t.cart[Len(t.picked) + 1][1]
    /\ t.pc = "commit" =>
        /\ Len(t.picked) = Len(t.cart)
        /\ t.sale \in minted /\ ~IsSold(t.sale)
        /\ \A x \in SaleIds : IsSold(x) => ~Collide(t.uuid, sales[x].uuid)

\* Two checkouts hold no batch, no sale id and no index entry in common.
Apart(s, t) ==
    /\ \A i \in 1..Len(tx[s].picked), j \in 1..Len(tx[t].picked) :
        tx[s].picked[i] = tx[t].picked[j] => tx[s].picked[i] = Catalogue
    /\ tx[s].pc = "commit" /\ tx[t].pc = "commit" =>
        tx[s].sale # tx[t].sale /\ ~Collide(tx[s].uuid, tx[t].uuid)

\* The date a transaction read is today's or yesterday's.
Recent == \A s \in Sessions : Busy(s) => tx[s].day <= today /\ today <= tx[s].day + 1

Checkout ==
    /\ \A s \in Sessions : CheckingOut(s) => Carted(s)
    /\ \A s, t \in Sessions :
        s # t /\ CheckingOut(s) /\ CheckingOut(t) => Apart(s, t)

\* The unique index on (store_id, client_uuid), and the dates.
Booked ==
    /\ \A x \in SaleIds : IsSold(x) =>
        /\ x \in minted
        /\ \A i \in 1..Len(sales[x].from) :
            sales[x].from[i] # Catalogue =>
                Expires[sales[x].from[i]] >= sales[x].day
    /\ \A x, y \in SaleIds :
        IsSold(x) /\ IsSold(y) /\ Collide(sales[x].uuid, sales[y].uuid) => x = y

ToldTrue ==
    \A k \in Cashiers, u \in Uuids, x \in SaleIds : <<<<k, u>>, x>> \in acked =>
        IsSold(x) /\ sales[x].uuid = u /\ sales[x].cashier = k

Inv == TypeOK /\ Recent /\ Checkout /\ Booked /\ ToldTrue

LEMMA InitInv == Init => Inv
<1>. SUFFICES ASSUME Init PROVE Inv
  OBVIOUS
<1>1. TypeOK
  BY ConstantsAssumption DEF Init, TypeOK, Days
<1>2. \A s \in Sessions : ~Busy(s) /\ ~CheckingOut(s)
  BY DEF Init, Busy, CheckingOut, Idle
<1>3. \A x \in SaleIds : ~IsSold(x)
  BY DEF Init, IsSold
<1>4. acked = {}
  BY DEF Init
<1>. QED  BY <1>1, <1>2, <1>3, <1>4 DEF Inv, Recent, Checkout, Booked, ToldTrue

-----------------------------------------------------------------------------
(* Lemmas *)

\* The smallest number of a set is in it.
LEMMA MinIsMember ==
  ASSUME NEW S \in SUBSET Nat, S # {}
  PROVE  Min(S) \in S
<1>1. PICK x \in S : \A y \in S : ~ (<<y, x>> \in OpToRel(<, Nat))
  BY NatLessThanWellFounded, WFMin
<1>2. \A y \in S : x <= y
  <2>. TAKE y \in S
  <2>1. ~ (y < x)
    BY <1>1 DEF OpToRel
  <2>. QED  BY <2>1
<1>. QED  BY <1>2 DEF Min

\* What the fields of a checkout are.
LEMMA CheckoutShape ==
  ASSUME TypeOK, NEW s \in Sessions, CheckingOut(s)
  PROVE  /\ tx[s] \in Checkouts
         /\ tx[s].cashier \in Cashiers /\ tx[s].uuid \in Uuids \cup {None}
         /\ tx[s].cart \in Seq(Products \X (Nat \ {0})) /\ tx[s].cart \in Carts
         /\ tx[s].picked \in Seq(Batches \cup {Catalogue})
         /\ DOMAIN tx[s].picked = 1..Len(tx[s].picked)
         /\ tx[s].read \in Seq(Nat)
         /\ Len(tx[s].picked) \in Nat /\ Len(tx[s].cart) \in Nat
         /\ tx[s].day \in Nat /\ tx[s].found \subseteq Batches
<1>1. tx[s] \in Checkouts
  BY DEF TypeOK, CheckingOut, Scans, Idle
<1>2. /\ tx[s].cashier \in Cashiers /\ tx[s].uuid \in Uuids \cup {None}
      /\ tx[s].cart \in Carts /\ tx[s].picked \in Seq(Batches \cup {Catalogue})
      /\ tx[s].read \in Seq(Nat) /\ tx[s].day \in Days /\ tx[s].found \subseteq Batches
  BY <1>1 DEF Checkouts
<1>3. tx[s].cart \in Seq(Products \X (Nat \ {0}))
  BY <1>2, ConstantsAssumption
<1>4. tx[s].day \in Nat
  BY <1>2, ConstantsAssumption DEF Days
<1>. QED  BY <1>1, <1>2, <1>3, <1>4, LenProperties

LEMMA LineShape ==
  ASSUME TypeOK, NEW s \in Sessions, CheckingOut(s), NEW i \in 1..Len(tx[s].cart)
  PROVE  tx[s].cart[i][1] \in Products /\ tx[s].cart[i][2] \in Nat \ {0}
<1>1. tx[s].cart \in Seq(Products \X (Nat \ {0}))
  BY CheckoutShape
<1>2. tx[s].cart[i] \in Products \X (Nat \ {0})
  BY <1>1, ElementOfSeq
<1>. QED  BY <1>2

\* The lines of a cart are for different products, so no batch serves two.
LEMMA OneLinePerBatch ==
  ASSUME Inv, NEW s \in Sessions, CheckingOut(s),
         NEW i \in 1..Len(tx[s].picked), NEW j \in 1..Len(tx[s].picked),
         tx[s].picked[i] = tx[s].picked[j], tx[s].picked[i] # Catalogue
  PROVE  i = j
<1>1. /\ tx[s].cart \in Carts /\ DOMAIN tx[s].cart = 1..Len(tx[s].cart)
      /\ Len(tx[s].cart) \in Nat /\ Len(tx[s].picked) \in Nat
  BY CheckoutShape, LenProperties DEF Inv
<1>2. i \in DOMAIN tx[s].cart /\ j \in DOMAIN tx[s].cart
  BY <1>1 DEF Inv, Checkout, Carted
<1>3. tx[s].cart[i][1] = tx[s].cart[j][1]
  BY DEF Inv, Checkout, Carted, Served
<1>. QED  BY <1>1, <1>2, <1>3, ConstantsAssumption

\* Two checkouts are apart in either order.
LEMMA ApartSymmetric ==
  ASSUME NEW s \in Sessions, NEW t \in Sessions, Apart(s, t)
  PROVE  Apart(t, s)
  BY DEF Apart, Collide

\* A step of one checkout that publishes nothing.
LEMMA OwnStep ==
  ASSUME Inv, TypeOK', NEW s \in Sessions,
         \A t \in Sessions \ {s} : tx'[t] = tx[t],
         UNCHANGED <<today, arrived, qty, sales>>, minted \subseteq minted',
         Busy(s)' => tx'[s].day = today \/ (Busy(s) /\ tx'[s].day = tx[s].day),
         CheckingOut(s)' => Carted(s)',
         \A t \in Sessions \ {s} :
            CheckingOut(s)' /\ CheckingOut(t) => Apart(s, t)',
         ToldTrue'
  PROVE  Inv'
<1>1. \A t \in Sessions \ {s} : CheckingOut(t)' => CheckingOut(t) /\ tx'[t] = tx[t]
  BY DEF CheckingOut
<1>2. Recent'
  <2>1. today \in Nat
    BY ConstantsAssumption DEF Inv, TypeOK, Days
  <2>. QED  BY <2>1 DEF Inv, Recent, Busy
<1>3. ASSUME NEW t \in Sessions \ {s}, CheckingOut(t)' PROVE Carted(t)'
  <2>1. Carted(t) /\ tx'[t] = tx[t]
    BY <1>1, <1>3 DEF Inv, Checkout
  <2>. QED  BY <2>1 DEF Carted, Served, IsSold
<1>4. ASSUME NEW r \in Sessions, NEW t \in Sessions, r # t, CheckingOut(r)', CheckingOut(t)'
      PROVE  Apart(r, t)'
  <2>1. CASE r = s
    BY <1>1, <1>4, <2>1
  <2>2. CASE t = s
    <3>1. Apart(s, r)'
      BY <1>1, <1>4, <2>2
    <3>. QED  BY <2>2, <3>1 DEF Apart, Collide
  <2>3. CASE r # s /\ t # s
    <3>1. Apart(r, t) /\ tx'[r] = tx[r] /\ tx'[t] = tx[t]
      BY <1>1, <1>4, <2>3 DEF Inv, Checkout
    <3>. QED  BY <3>1 DEF Apart
  <2>. QED  BY <2>1, <2>2, <2>3
<1>5. Checkout'
  BY <1>3, <1>4 DEF Checkout
<1>6. Booked'
  BY DEF Inv, Booked, IsSold
<1>. QED  BY <1>2, <1>5, <1>6 DEF Inv

LEMMA ToldKept ==
  ASSUME ToldTrue, sales' = sales, acked' = acked
  PROVE  ToldTrue'
  BY DEF ToldTrue, IsSold

-----------------------------------------------------------------------------
(* Steps of a checkout *)

\* A transaction that ends without a commit.
LEMMA EndInv ==
  ASSUME Inv, NEW s \in Sessions, tx' = [tx EXCEPT ![s] = Idle],
         UNCHANGED <<today, arrived, qty, expired, sales, minted, notices>>,
         acked' \subseteq (Cashiers \X Uuids) \X SaleIds, ToldTrue'
  PROVE  Inv'
<1>1. TypeOK'
  BY DEF Inv, TypeOK
<1>2. tx'[s] = Idle /\ \A t \in Sessions \ {s} : tx'[t] = tx[t]
  BY DEF Inv, TypeOK
<1>3. ~Busy(s)' /\ ~CheckingOut(s)'
  BY <1>2 DEF Busy, CheckingOut, Idle
<1>. QED  BY <1>1, <1>2, <1>3, OwnStep

LEMMA BeginSaleInv ==
  ASSUME Inv, NEW s \in Sessions, NEW k \in Cashiers, NEW u \in Uuids \cup {None},
         NEW cart \in Carts, BeginSale(s, k, u, cart)
  PROVE  Inv'
<1> DEFINE t == [pc |-> "select", day |-> today, cashier |-> k, uuid |-> u,
                 cart |-> cart, picked |-> <<>>, read |-> <<>>, found |-> {},
                 sale |-> None]
<1>1. tx' = [tx EXCEPT ![s] = t] /\ UNCHANGED <<today, arrived, qty, expired, sales,
                                                minted, notices, acked>>
  BY DEF BeginSale
<1>2. t \in Checkouts
  BY EmptySeq DEF Checkouts, Inv, TypeOK
<1>3. TypeOK'
  BY <1>1, <1>2 DEF Inv, TypeOK
<1>4. tx'[s] = t /\ \A r \in Sessions \ {s} : tx'[r] = tx[r]
  BY <1>1 DEF Inv, TypeOK
<1>5. Len(cart) \in Nat
  BY ConstantsAssumption, LenProperties
<1>6. Len(t.picked) = 0 /\ Len(t.read) = 0 /\ t.cart = cart /\ t.day = today /\ t.pc = "select"
  BY EmptySeq
<1>7. Carted(s)'
  BY <1>4, <1>5, <1>6 DEF Carted
<1>8. \A r \in Sessions \ {s} : Apart(s, r)'
  BY <1>4, <1>6 DEF Apart
<1>9. ToldTrue'
  BY <1>1, ToldKept DEF Inv
<1>. QED  BY <1>1, <1>3, <1>4, <1>6, <1>7, <1>8, <1>9, OwnStep

\* What the SELECT finds, and what is left of it, are batches of the line.
LEMMA LookInv ==
  ASSUME Inv, NEW s \in Sessions, CheckingOut(s), tx[s].pc # "commit",
         NEW S \in SUBSET Batches,
         tx' = [tx EXCEPT ![s] = [@ EXCEPT !.pc = "take", !.found = S]],
         UNCHANGED <<today, arrived, qty, expired, sales, minted, notices, acked>>,
         Len(tx[s].picked) < Len(tx[s].cart),
         \A b \in S : b \in arrived /\ ProductOf[b] = tx[s].cart[Len(tx[s].picked) + 1][1]
  PROVE  Inv'
<1> DEFINE t == [tx[s] EXCEPT !.pc = "take", !.found = S]
<1>1. tx[s] \in Checkouts /\ Carted(s)
  BY CheckoutShape DEF Inv, Checkout
<1>2. t \in Checkouts
  BY <1>1 DEF Checkouts
<1>3. /\ t.pc = "take" /\ t.found = S /\ t.picked = tx[s].picked /\ t.read = tx[s].read
      /\ t.cart = tx[s].cart /\ t.day = tx[s].day /\ t.uuid = tx[s].uuid
  BY <1>1 DEF Checkouts
<1>4. tx'[s] = t /\ \A r \in Sessions \ {s} : tx'[r] = tx[r]
  BY DEF Inv, TypeOK
<1>5. TypeOK'
  BY <1>2 DEF Inv, TypeOK
<1>. HIDE DEF t
<1>6. \A i \in 1..Len(tx[s].picked) : Served(s, i)'
  BY <1>1, <1>3, <1>4 DEF Carted, Served
<1>7. Carted(s)'
  BY <1>1, <1>3, <1>4, <1>6 DEF Carted
<1>8. ASSUME NEW r \in Sessions \ {s}, CheckingOut(r) PROVE Apart(s, r)'
  <2>1. Apart(s, r)
    BY <1>8 DEF Inv, Checkout
  <2>. QED  BY <1>3, <1>4, <2>1 DEF Apart
<1>9. ToldTrue'
  BY ToldKept DEF Inv
<1>10. Busy(s) /\ tx'[s].day = tx[s].day
  BY <1>3, <1>4 DEF Busy, CheckingOut
<1>. QED  BY <1>4, <1>5, <1>7, <1>8, <1>9, <1>10, OwnStep

LEMMA SelectInv ==
  ASSUME Inv, NEW s \in Sessions, SelectBatches(s)
  PROVE  Inv'
<1> DEFINE S == {b \in arrived : ProductOf[b] = Line(s)[1] /\ qty[b] > 0}
<1>1. CheckingOut(s) /\ tx[s].pc = "select"
  BY DEF SelectBatches, CheckingOut
<1>2. tx' = [tx EXCEPT ![s] = [@ EXCEPT !.pc = "take", !.found = S]]
  BY DEF SelectBatches
<1>3. S \in SUBSET Batches
  BY DEF Inv, TypeOK
<1>4. Len(tx[s].picked) < Len(tx[s].cart)
  BY <1>1, CheckoutShape DEF SelectBatches, Position, Inv
<1>5. \A b \in S : b \in arrived /\ ProductOf[b] = tx[s].cart[Len(tx[s].picked) + 1][1]
  BY DEF Line, Position
<1>6. UNCHANGED <<today, arrived, qty, expired, sales, minted, notices, acked>>
  BY DEF SelectBatches
<1>. HIDE DEF S
<1>. QED  BY <1>1, <1>2, <1>3, <1>4, <1>5, <1>6, LookInv

LEMMA SkipInv ==
  ASSUME Inv, NEW s \in Sessions, SkipSoldOut(s)
  PROVE  Inv'
<1> DEFINE S == tx[s].found \ {Min(tx[s].found)}
<1>1. CheckingOut(s) /\ tx[s].pc = "take"
  BY DEF SkipSoldOut, CheckingOut
<1>2. tx[s] \in Checkouts /\ tx[s].found \subseteq Batches /\ Carted(s)
  BY <1>1, CheckoutShape DEF Inv, Checkout
<1>3. tx' = [tx EXCEPT ![s] = [@ EXCEPT !.pc = "take", !.found = S]]
  <2>1. tx' = [tx EXCEPT ![s] = [@ EXCEPT !.found = S]]
    BY DEF SkipSoldOut
  <2>2. [tx[s] EXCEPT !.found = S] = [tx[s] EXCEPT !.pc = "take", !.found = S]
    BY <1>1, <1>2 DEF Checkouts
  <2>. QED  BY <2>1, <2>2
<1>4. UNCHANGED <<today, arrived, qty, expired, sales, minted, notices, acked>>
  BY DEF SkipSoldOut
<1>5. /\ Len(tx[s].picked) < Len(tx[s].cart)
      /\ \A b \in S : b \in arrived /\ ProductOf[b] = tx[s].cart[Len(tx[s].picked) + 1][1]
  BY <1>1, <1>2 DEF Carted
<1>6. S \in SUBSET Batches
  BY <1>2
<1>. HIDE DEF S
<1>. QED  BY <1>1, <1>3, <1>4, <1>5, <1>6, LookInv

\* A line is served by a batch, or by the catalogue.
LEMMA ServeInv ==
  ASSUME Inv, NEW s \in Sessions, tx[s].pc = "take",
         NEW b \in Batches \cup {Catalogue}, NEW n \in Nat,
         tx' = [tx EXCEPT ![s] = [@ EXCEPT !.pc = "select", !.found = {},
                                           !.picked = Append(tx[s].picked, b),
                                           !.read = Append(tx[s].read, n)]],
         UNCHANGED <<today, arrived, qty, expired, sales, minted, notices, acked>>,
         b # Catalogue =>
            /\ b \in tx[s].found /\ Free(s, b)
            /\ n = qty[b] /\ n >= tx[s].cart[Len(tx[s].picked) + 1][2]
            /\ Expires[b] > tx[s].day + BlockDays
  PROVE  Inv'
<1> DEFINE t == [tx[s] EXCEPT !.pc = "select", !.found = {},
                              !.picked = Append(tx[s].picked, b),
                              !.read = Append(tx[s].read, n)]
           m == Len(tx[s].picked)
<1>1. CheckingOut(s)
  BY DEF CheckingOut
<1>2. /\ tx[s] \in Checkouts /\ Carted(s)
      /\ tx[s].picked \in Seq(Batches \cup {Catalogue}) /\ tx[s].read \in Seq(Nat)
      /\ m \in Nat /\ Len(tx[s].cart) \in Nat
  BY <1>1, CheckoutShape DEF Inv, Checkout
<1>3. /\ Append(tx[s].picked, b) \in Seq(Batches \cup {Catalogue})
      /\ Len(Append(tx[s].picked, b)) = m + 1
      /\ \A i \in 1..m : Append(tx[s].picked, b)[i] = tx[s].picked[i]
      /\ Append(tx[s].picked, b)[m + 1] = b
  BY <1>2, AppendProperties
<1>4. /\ Append(tx[s].read, n) \in Seq(Nat)
      /\ Len(Append(tx[s].read, n)) = m + 1
      /\ \A i \in 1..m : Append(tx[s].read, n)[i] = tx[s].read[i]
      /\ Append(tx[s].read, n)[m + 1] = n
  BY <1>2, AppendProperties DEF Carted
<1>5. t \in Checkouts
  BY <1>2, <1>3, <1>4 DEF Checkouts
<1>6. /\ t.pc = "select" /\ t.picked = Append(tx[s].picked, b)
      /\ t.read = Append(tx[s].read, n) /\ t.cart = tx[s].cart
      /\ t.day = tx[s].day /\ t.uuid = tx[s].uuid
  BY <1>2 DEF Checkouts
<1>7. tx'[s] = t /\ \A r \in Sessions \ {s} : tx'[r] = tx[r]
  BY DEF Inv, TypeOK
<1>8. TypeOK'
  BY <1>5 DEF Inv, TypeOK
<1>. HIDE DEF t, m
<1>9. \A i \in 1..(m + 1) : Served(s, i)'
  <2>. TAKE i \in 1..(m + 1)
  <2>1. CASE i \in 1..m
    <3>1. Served(s, i)
      BY <1>2, <2>1 DEF Carted, m
    <3>. QED  BY <1>3, <1>4, <1>6, <1>7, <2>1, <3>1 DEF Served
  <2>2. CASE i = m + 1
    <3>1. b # Catalogue => b \in arrived /\ ProductOf[b] = tx[s].cart[m + 1][1]
      BY <1>2 DEF Carted, m
    <3>. QED  BY <1>3, <1>4, <1>6, <1>7, <2>2, <3>1 DEF Served, m
  <2>. QED  BY <1>2, <2>1, <2>2
<1>10. Carted(s)'
  <2>1. m + 1 <= Len(tx[s].cart)
    BY <1>2 DEF Carted, m
  <2>. QED  BY <1>3, <1>4, <1>6, <1>7, <1>9, <2>1 DEF Carted
<1>11. ASSUME NEW r \in Sessions \ {s}, CheckingOut(r) PROVE Apart(s, r)'
  <2>1. Apart(s, r) /\ DOMAIN tx[r].picked = 1..Len(tx[r].picked)
    BY <1>1, <1>11, CheckoutShape DEF Inv, Checkout
  <2>2. \A j \in 1..Len(tx[r].picked) : b # Catalogue => tx[r].picked[j] # b
    BY <1>11, <2>1 DEF Free, Holds
  <2>3. ASSUME NEW i \in 1..(m + 1), NEW j \in 1..Len(tx[r].picked),
               tx'[s].picked[i] = tx[r].picked[j]
        PROVE  tx'[s].picked[i] = Catalogue
    <3>0. \A k \in 1..m : tx[s].picked[k] = tx[r].picked[j] => tx[s].picked[k] = Catalogue
      BY <2>1 DEF Apart, m
    <3>1. CASE i \in 1..m
      <4>1. tx'[s].picked[i] = tx[s].picked[i]
        BY <1>3, <1>6, <1>7, <3>1
      <4>. QED  BY <2>3, <3>0, <3>1, <4>1
    <3>2. CASE i = m + 1
      BY <1>3, <1>6, <1>7, <2>2, <2>3, <3>2
    <3>3. i \in 1..m \/ i = m + 1
      BY <1>2
    <3>. QED  BY <3>1, <3>2, <3>3
  <2>. QED  BY <1>3, <1>6, <1>7, <2>3 DEF Apart
<1>12. ToldTrue'
  BY ToldKept DEF Inv
<1>13. Busy(s) /\ tx'[s].day = tx[s].day
  BY <1>6, <1>7 DEF Busy
<1>. QED  BY <1>7, <1>8, <1>10, <1>11, <1>12, <1>13, OwnStep

LEMMA TakeInv ==
  ASSUME Inv, NEW s \in Sessions, TakeBatch(s) \/ TakeCatalogue(s)
  PROVE  Inv'
<1>1. CheckingOut(s) /\ tx[s].pc = "take"
  BY DEF TakeBatch, TakeCatalogue, CheckingOut
<1>2. tx[s] \in Checkouts /\ tx[s].found \subseteq Batches
  BY <1>1, CheckoutShape DEF Inv
<1>3. UNCHANGED <<today, arrived, qty, expired, sales, minted, notices, acked>>
  BY DEF TakeBatch, TakeCatalogue
<1>4. CASE TakeBatch(s)
  <2> DEFINE b == Min(tx[s].found)
  <2>1. b \in tx[s].found /\ b \in Batches /\ b # Catalogue
    <3>1. tx[s].found \in SUBSET Nat /\ tx[s].found # {}
      BY <1>2, <1>4, ConstantsAssumption DEF TakeBatch
    <3>2. Min(tx[s].found) \in tx[s].found
      BY <3>1, MinIsMember
    <3>. QED  BY <1>2, <3>2, ConstantsAssumption DEF Catalogue
  <2>2. /\ Free(s, b) /\ qty[b] >= tx[s].cart[Len(tx[s].picked) + 1][2]
        /\ Expires[b] > tx[s].day + BlockDays
    BY <1>4 DEF TakeBatch, Enough, Line, Position, Sellable
  <2>3. tx' = [tx EXCEPT ![s] = [@ EXCEPT !.pc = "select", !.found = {},
                                          !.picked = Append(tx[s].picked, b),
                                          !.read = Append(tx[s].read, qty[b])]]
    BY <1>4 DEF TakeBatch
  <2>4. qty[b] \in Nat
    BY <2>1 DEF Inv, TypeOK
  <2>. HIDE DEF b
  <2>. QED  BY <1>1, <1>3, <2>1, <2>2, <2>3, <2>4, ServeInv
<1>5. CASE TakeCatalogue(s)
  <2>1. tx' = [tx EXCEPT ![s] = [@ EXCEPT !.pc = "select",
                                          !.picked = Append(tx[s].picked, Catalogue),
                                          !.read = Append(tx[s].read, 0)]]
    BY <1>5 DEF TakeCatalogue
  <2>2. tx[s].found = {}
    BY <1>5 DEF TakeCatalogue
  <2>3. [tx[s] EXCEPT !.pc = "select", !.picked = Append(tx[s].picked, Catalogue),
                      !.read = Append(tx[s].read, 0)]
        = [tx[s] EXCEPT !.pc = "select", !.found = {},
                        !.picked = Append(tx[s].picked, Catalogue),
                        !.read = Append(tx[s].read, 0)]
    BY <1>2, <2>2 DEF Checkouts
  <2>. QED  BY <1>1, <1>3, <2>1, <2>3, ServeInv
<1>. QED  BY <1>4, <1>5

LEMMA InsertInv ==
  ASSUME Inv, NEW s \in Sessions, NEW x \in SaleIds, InsertSale(s, x)
  PROVE  Inv'
<1> DEFINE t == [tx[s] EXCEPT !.pc = "commit", !.sale = x]
<1>1. /\ CheckingOut(s) /\ tx[s].pc = "select"
      /\ Len(tx[s].picked) = Len(tx[s].cart) /\ x \notin minted
      /\ \A r \in Sessions \ {s} :
            tx[r].pc = "commit" => ~Collide(tx[s].uuid, tx[r].uuid)
      /\ \A y \in SaleIds : IsSold(y) => ~Collide(tx[s].uuid, sales[y].uuid)
      /\ minted' = minted \cup {x} /\ tx' = [tx EXCEPT ![s] = t]
      /\ UNCHANGED <<today, arrived, qty, expired, sales, notices, acked>>
  BY DEF InsertSale, Resolved, CheckingOut
<1>2. tx[s] \in Checkouts /\ Carted(s)
  BY <1>1, CheckoutShape DEF Inv, Checkout
<1>3. t \in Checkouts
  BY <1>2 DEF Checkouts
<1>4. /\ t.pc = "commit" /\ t.sale = x /\ t.picked = tx[s].picked
      /\ t.read = tx[s].read /\ t.cart = tx[s].cart /\ t.day = tx[s].day
      /\ t.uuid = tx[s].uuid
  BY <1>2 DEF Checkouts
<1>5. tx'[s] = t /\ \A r \in Sessions \ {s} : tx'[r] = tx[r]
  BY <1>1 DEF Inv, TypeOK
<1>6. TypeOK'
  BY <1>1, <1>3 DEF Inv, TypeOK
<1>. HIDE DEF t
<1>7. Carted(s)'
  <2>1. ~IsSold(x)
    BY <1>1 DEF Inv, Booked
  <2>2. \A i \in 1..Len(tx[s].picked) : Served(s, i)'
    BY <1>1, <1>2, <1>4, <1>5 DEF Carted, Served
  <2>. QED  BY <1>1, <1>2, <1>4, <1>5, <2>1, <2>2 DEF Carted, IsSold
<1>8. ASSUME NEW r \in Sessions \ {s}, CheckingOut(r) PROVE Apart(s, r)'
  <2>1. Apart(s, r) /\ Carted(r)
    BY <1>1, <1>8 DEF Inv, Checkout
  <2>2. tx[r].pc = "commit" => tx[r].sale # x
    BY <1>1, <2>1 DEF Carted
  <2>. QED  BY <1>1, <1>4, <1>5, <2>1, <2>2 DEF Apart
<1>9. ToldTrue'
  BY <1>1, ToldKept DEF Inv
<1>10. Busy(s) /\ tx'[s].day = tx[s].day
  BY <1>1, <1>4, <1>5 DEF Busy
<1>. QED  BY <1>1, <1>5, <1>6, <1>7, <1>8, <1>9, <1>10, OwnStep

LEMMA AnswerInv ==
  ASSUME Inv, NEW s \in Sessions, AnswerDuplicate(s)
  PROVE  Inv'
<1>1. PICK x \in SaleIds :
        /\ IsSold(x) /\ Collide(tx[s].uuid, sales[x].uuid)
        /\ IF sales[x].cashier = tx[s].cashier
           THEN Answer(<<tx[s].cashier, tx[s].uuid>>, x) ELSE UNCHANGED acked
  BY DEF AnswerDuplicate
<1>2. /\ tx' = [tx EXCEPT ![s] = Idle]
      /\ UNCHANGED <<today, arrived, qty, expired, sales, minted, notices>>
  BY DEF AnswerDuplicate
<1>3. tx[s].cashier \in Cashiers /\ tx[s].uuid \in Uuids
  <2>1. CheckingOut(s)
    BY DEF AnswerDuplicate, Resolved, CheckingOut
  <2>. QED  BY <1>1, <2>1, CheckoutShape DEF Inv, Collide
<1>4. \/ acked' = acked
      \/ /\ sales[x].cashier = tx[s].cashier /\ sales[x].uuid = tx[s].uuid
         /\ acked' = acked \cup {<<<<tx[s].cashier, tx[s].uuid>>, x>>}
  BY <1>1 DEF Answer, Collide
<1>5. acked' \subseteq (Cashiers \X Uuids) \X SaleIds
  BY <1>3, <1>4 DEF Inv, TypeOK
<1>6. ToldTrue'
  BY <1>1, <1>2, <1>4 DEF Inv, ToldTrue, IsSold
<1>. QED  BY <1>2, <1>5, <1>6, EndInv

LEMMA AbortInv ==
  ASSUME Inv, NEW s \in Sessions, Abort(s)
  PROVE  Inv'
<1>1. /\ tx' = [tx EXCEPT ![s] = Idle]
      /\ UNCHANGED <<today, arrived, qty, expired, sales, minted, notices, acked>>
  BY DEF Abort
<1>. QED  BY <1>1, ToldKept, EndInv DEF Inv, TypeOK

-----------------------------------------------------------------------------
(* The commit of a sale *)

\* A shelf is lowered by what the sale says, and has it.
LEMMA ShelfAfter ==
  ASSUME Inv, NEW s \in Sessions, CommitSale(s), NEW b \in Batches
  PROVE  \/ /\ \A i \in 1..Len(tx[s].picked) : tx[s].picked[i] # b
            /\ qty'[b] = qty[b]
         \/ \E i \in 1..Len(tx[s].picked) :
            /\ tx[s].picked[i] = b
            /\ qty'[b] = qty[b] - tx[s].cart[i][2]
            /\ qty[b] >= tx[s].cart[i][2]
            /\ tx[s].cart[i][2] \in Nat \ {0}
<1> DEFINE P(i) == tx[s].picked[i] = b
<1>1. CheckingOut(s) /\ tx[s].pc = "commit"
  BY DEF CommitSale, CheckingOut
<1>2. /\ Carted(s) /\ DOMAIN tx[s].picked = 1..Len(tx[s].picked)
      /\ Len(tx[s].picked) = Len(tx[s].cart)
  BY <1>1, CheckoutShape DEF Inv, Checkout, Carted
<1>3. qty'[b] = IF \E i \in DOMAIN tx[s].picked : P(i)
                THEN LET i == CHOOSE i \in DOMAIN tx[s].picked : P(i)
                     IN  tx[s].read[i] - tx[s].cart[i][2]
                ELSE qty[b]
  BY DEF CommitSale
<1>4. CASE \E i \in DOMAIN tx[s].picked : P(i)
  <2> DEFINE i == CHOOSE i \in DOMAIN tx[s].picked : P(i)
  <2>1. i \in 1..Len(tx[s].picked) /\ tx[s].picked[i] = b
    BY <1>2, <1>4
  <2>2. qty'[b] = tx[s].read[i] - tx[s].cart[i][2]
    BY <1>3, <1>4
  <2>. HIDE DEF i
  <2>3. tx[s].read[i] = qty[b] /\ tx[s].read[i] >= tx[s].cart[i][2]
    <3>1. b # Catalogue
      BY ConstantsAssumption DEF Catalogue
    <3>. QED  BY <1>2, <2>1, <3>1 DEF Carted, Served
  <2>4. tx[s].cart[i][2] \in Nat \ {0}
    BY <1>1, <1>2, <2>1, LineShape DEF Inv
  <2>. QED  BY <2>1, <2>2, <2>3, <2>4
<1>5. CASE ~ \E i \in DOMAIN tx[s].picked : P(i)
  BY <1>2, <1>3, <1>5
<1>. QED  BY <1>4, <1>5

LEMMA CommitSaleInv ==
  ASSUME Inv, NEW s \in Sessions, CommitSale(s)
  PROVE  Inv'
<1> DEFINE t == tx[s]
           new == [cashier |-> t.cashier, uuid |-> t.uuid, cart |-> t.cart,
                   from |-> t.picked, day |-> today]
<1>1. /\ CheckingOut(s) /\ t.pc = "commit" /\ Busy(s)
      /\ sales' = [sales EXCEPT ![t.sale] = new]
      /\ tx' = [tx EXCEPT ![s] = Idle]
      /\ UNCHANGED <<today, arrived, expired, minted, notices>>
  BY DEF CommitSale, CheckingOut, Busy
<1>2. /\ Carted(s) /\ t.cashier \in Cashiers /\ t.uuid \in Uuids \cup {None}
      /\ t.cart \in Carts /\ t.picked \in Seq(Batches \cup {Catalogue})
      /\ t.day \in Nat
  BY <1>1, CheckoutShape DEF Inv, Checkout
<1>3. t.sale \in SaleIds /\ t.sale \in minted /\ ~IsSold(t.sale)
  BY <1>1, <1>2 DEF Carted, Inv, TypeOK
<1>4. new \in Sales /\ new # None
  BY <1>2, NoneAssumption DEF Sales, Inv, TypeOK
<1>5. /\ sales'[t.sale] = new
      /\ \A x \in SaleIds \ {t.sale} : sales'[x] = sales[x]
  BY <1>1, <1>3 DEF Inv, TypeOK
<1>6. /\ new.cashier = t.cashier /\ new.uuid = t.uuid /\ new.from = t.picked
      /\ new.day = today
  OBVIOUS
<1>7. tx'[s] = Idle /\ \A r \in Sessions \ {s} : tx'[r] = tx[r]
  BY <1>1 DEF Inv, TypeOK
<1>8. \/ acked' = acked
      \/ t.uuid # None /\ acked' = acked \cup {<<<<t.cashier, t.uuid>>, t.sale>>}
  BY DEF CommitSale, Answer
<1>9. sales' \in [SaleIds -> Sales \cup {None}]
  BY <1>1, <1>4 DEF Inv, TypeOK
<1>10. qty' \in [Batches -> Nat]
  <2>1. \A b \in Batches : qty'[b] \in Nat
    <3>. TAKE b \in Batches
    <3>1. qty[b] \in Nat
      BY DEF Inv, TypeOK
    <3>2. CASE qty'[b] = qty[b]
      BY <3>1, <3>2
    <3>3. ASSUME NEW n \in Nat, qty'[b] = qty[b] - n, qty[b] >= n PROVE qty'[b] \in Nat
      BY <3>1, <3>3
    <3>. QED  BY <3>2, <3>3, ShelfAfter
  <2>2. qty' = [b \in Batches |-> qty'[b]]
    BY DEF CommitSale
  <2>. QED  BY <2>1, <2>2
<1>11. acked' \subseteq (Cashiers \X Uuids) \X SaleIds
  BY <1>2, <1>3, <1>8 DEF Inv, TypeOK
<1>12. TypeOK'
  BY <1>1, <1>9, <1>10, <1>11 DEF Inv, TypeOK
<1>. HIDE DEF new
<1>13. Recent'
  BY <1>1, <1>7 DEF Inv, Recent, Busy, Idle
<1>14. \A r \in Sessions : CheckingOut(r)' => r # s /\ CheckingOut(r) /\ tx'[r] = tx[r]
  BY <1>7 DEF CheckingOut, Idle
<1>15. ASSUME NEW r \in Sessions, CheckingOut(r)' PROVE Carted(r)'
  <2>1. r # s /\ CheckingOut(r) /\ tx'[r] = tx[r]
    BY <1>14, <1>15
  <2>2. Carted(r) /\ Apart(s, r) /\ tx[r].picked \in Seq(Batches \cup {Catalogue})
        /\ Len(tx[r].picked) \in Nat
    BY <1>1, <2>1, CheckoutShape DEF Inv, Checkout
  <2>3. ASSUME NEW i \in 1..Len(tx[r].picked) PROVE Served(r, i)'
    <3> DEFINE b == tx[r].picked[i]
    <3>. SUFFICES ASSUME b # Catalogue PROVE Served(r, i)'
      BY <2>1 DEF Served
    <3>1. b \in Batches
      BY <2>2, ElementOfSeq
    <3>2. \A j \in 1..Len(tx[s].picked) : tx[s].picked[j] # b
      BY <2>2 DEF Apart
    <3>3. qty'[b] = qty[b]
      BY <3>1, <3>2, ShelfAfter
    <3>4. Served(r, i)
      BY <2>2 DEF Carted
    <3>. QED  BY <1>1, <2>1, <3>3, <3>4 DEF Served
  <2>4. ASSUME tx[r].pc = "commit"
        PROVE  /\ tx[r].sale \in minted /\ sales'[tx[r].sale] = None
               /\ \A x \in SaleIds : sales'[x] # None => ~Collide(tx[r].uuid, sales'[x].uuid)
    <3>1. /\ tx[r].sale \in minted /\ ~IsSold(tx[r].sale)
          /\ \A x \in SaleIds : IsSold(x) => ~Collide(tx[r].uuid, sales[x].uuid)
      BY <2>2, <2>4 DEF Carted
    <3>2. tx[s].sale # tx[r].sale /\ ~Collide(tx[r].uuid, tx[s].uuid)
      BY <1>1, <2>2, <2>4 DEF Apart, Collide
    <3>3. tx[r].sale \in SaleIds
      BY <3>1 DEF Inv, TypeOK
    <3>. QED  BY <1>5, <1>6, <3>1, <3>2, <3>3 DEF IsSold
  <2>. QED  BY <1>1, <2>1, <2>2, <2>3, <2>4 DEF Carted, IsSold
<1>16. ASSUME NEW r \in Sessions, NEW q \in Sessions, r # q, CheckingOut(r)', CheckingOut(q)'
       PROVE  Apart(r, q)'
  BY <1>14, <1>16 DEF Inv, Checkout, Apart
<1>17. Checkout'
  BY <1>15, <1>16 DEF Checkout
<1>18. ASSUME NEW x \in SaleIds, sales'[x] # None
       PROVE  /\ x \in minted
              /\ \A i \in 1..Len(sales'[x].from) :
                    sales'[x].from[i] # Catalogue =>
                        Expires[sales'[x].from[i]] >= sales'[x].day
  <2>1. CASE x # t.sale
    BY <1>5, <1>18, <2>1 DEF Inv, Booked, IsSold
  <2>2. CASE x = t.sale
    <3>. SUFFICES ASSUME NEW i \in 1..Len(t.picked), t.picked[i] # Catalogue
                  PROVE  Expires[t.picked[i]] >= today
      BY <1>3, <1>5, <1>6, <2>2
    <3>1. Expires[t.picked[i]] > t.day + BlockDays
      BY <1>2 DEF Carted, Served
    <3>2. today <= t.day + 1 /\ today \in Nat
      BY <1>1, ConstantsAssumption DEF Inv, Recent, TypeOK, Days
    <3>3. t.picked[i] \in Batches
      BY <1>2, ElementOfSeq
    <3>4. Expires[t.picked[i]] \in Nat /\ BlockDays \in Nat \ {0}
      BY <3>3, ConstantsAssumption
    <3>. QED  BY <1>2, <3>1, <3>2, <3>4
  <2>. QED  BY <2>1, <2>2
<1>19. ASSUME NEW x \in SaleIds, NEW y \in SaleIds, sales'[x] # None, sales'[y] # None,
              Collide(sales'[x].uuid, sales'[y].uuid)
       PROVE  x = y
  <2>1. \A z \in SaleIds : IsSold(z) => ~Collide(t.uuid, sales[z].uuid)
    BY <1>1, <1>2 DEF Carted
  <2>. QED  BY <1>5, <1>6, <1>19, <2>1 DEF Inv, Booked, IsSold, Collide
<1>20. Booked'
  BY <1>1, <1>18, <1>19 DEF Booked, IsSold
<1>21. ToldTrue'
  <2>. SUFFICES ASSUME NEW k \in Cashiers, NEW u \in Uuids, NEW x \in SaleIds,
                       <<<<k, u>>, x>> \in acked'
                PROVE  sales'[x] # None /\ sales'[x].uuid = u /\ sales'[x].cashier = k
    BY DEF ToldTrue, IsSold
  <2>1. CASE <<<<k, u>>, x>> \in acked
    <3>1. IsSold(x) /\ sales[x].uuid = u /\ sales[x].cashier = k
      BY <2>1 DEF Inv, ToldTrue
    <3>. QED  BY <1>3, <1>5, <3>1 DEF IsSold
  <2>2. CASE <<<<k, u>>, x>> \notin acked
    <3>1. k = t.cashier /\ u = t.uuid /\ x = t.sale
      BY <1>8, <2>2
    <3>. QED  BY <1>4, <1>5, <1>6, <3>1
  <2>. QED  BY <2>1, <2>2
<1>. QED  BY <1>12, <1>13, <1>17, <1>20, <1>21 DEF Inv

-----------------------------------------------------------------------------
(* The scan and the world outside *)

LEMMA ScanShape ==
  ASSUME TypeOK, NEW s \in Sessions, Scanning(s)
  PROVE  tx[s] \in Scans
<1>1. tx[s] \in Checkouts => tx[s].pc \in {"select", "take", "commit"}
  BY DEF Checkouts
<1>2. tx[s] = Idle => tx[s].pc = "idle"
  BY DEF Idle
<1>3. tx[s].pc = "scan" /\ tx[s] \in Checkouts \cup Scans \cup {Idle}
  BY DEF TypeOK, Scanning
<1>. QED  BY <1>1, <1>2, <1>3

LEMMA ScanInv ==
  ASSUME Inv, NEW s \in Sessions,
         BeginScan(s) \/ \E b \in Batches : ScanBatch(s, b)
  PROVE  Inv'
<1>1. PICK t \in Scans :
        /\ tx' = [tx EXCEPT ![s] = t]
        /\ t.day = today \/ (Busy(s) /\ t.day = tx[s].day)
        /\ UNCHANGED <<today, arrived, qty, expired, sales, minted, notices, acked>>
  <2>1. CASE BeginScan(s)
    <3> DEFINE t == [pc |-> "scan", day |-> today,
                     marked |-> {b \in arrived \ expired : Expires[b] < today},
                     todo |-> {b \in arrived \ expired :
                                 Expires[b] \in today..(today + NotifyDays)},
                     fresh |-> {}, told |-> {b \in Batches : notices[b][today] > 0}]
    <3>1. t \in Scans
      BY DEF Scans, Inv, TypeOK
    <3>2. tx' = [tx EXCEPT ![s] = t]
          /\ UNCHANGED <<today, arrived, qty, expired, sales, minted, notices, acked>>
      BY <2>1 DEF BeginScan
    <3>. QED  BY <3>1, <3>2
  <2>2. ASSUME NEW b \in Batches, ScanBatch(s, b)
        PROVE  \E t \in Scans :
                /\ tx' = [tx EXCEPT ![s] = t]
                /\ t.day = today \/ (Busy(s) /\ t.day = tx[s].day)
                /\ UNCHANGED <<today, arrived, qty, expired, sales, minted, notices, acked>>
    <3>1. tx[s] \in Scans /\ Busy(s)
      BY <2>2, ScanShape DEF ScanBatch, Scanning, Busy, Inv
    <3> DEFINE known == notices[b][tx[s].day]
               F == IF known = 0 THEN tx[s].fresh \cup {b} ELSE tx[s].fresh
               t == [tx[s] EXCEPT !.todo = tx[s].todo \ {b}, !.fresh = F]
    <3>2. F \subseteq Batches
      BY <3>1 DEF Scans
    <3>3. tx' = [tx EXCEPT ![s] = t]
          /\ UNCHANGED <<today, arrived, qty, expired, sales, minted, notices, acked>>
      BY <2>2 DEF ScanBatch
    <3>. HIDE DEF F
    <3>4. t \in Scans /\ t.day = tx[s].day
      BY <3>1, <3>2 DEF Scans
    <3>. QED  BY <3>1, <3>3, <3>4
  <2>. QED  BY <2>1, <2>2
<1>2. TypeOK'
  BY <1>1 DEF Inv, TypeOK
<1>3. tx'[s] = t /\ \A r \in Sessions \ {s} : tx'[r] = tx[r]
  BY <1>1 DEF Inv, TypeOK
<1>4. ~CheckingOut(s)'
  BY <1>3 DEF CheckingOut, Scans
<1>5. ToldTrue'
  BY <1>1, ToldKept DEF Inv
<1>. QED  BY <1>1, <1>2, <1>3, <1>4, <1>5, OwnStep

\* Steps that leave the sales and every checkout under way as they are.
LEMMA OutsideStep ==
  ASSUME Inv, TypeOK', Recent', UNCHANGED <<sales, minted, acked>>,
         arrived \subseteq arrived',
         \A b \in arrived : qty'[b] = qty[b],
         \A r \in Sessions : CheckingOut(r)' => CheckingOut(r) /\ tx'[r] = tx[r]
  PROVE  Inv'
<1>1. ASSUME NEW r \in Sessions, CheckingOut(r)' PROVE Carted(r)'
  <2>1. CheckingOut(r) /\ tx'[r] = tx[r] /\ Carted(r)
    BY <1>1 DEF Inv, Checkout
  <2>2. \A i \in 1..Len(tx[r].picked) : Served(r, i)'
    BY <2>1 DEF Carted, Served
  <2>. QED  BY <2>1, <2>2 DEF Carted, IsSold
<1>2. ASSUME NEW r \in Sessions, NEW q \in Sessions, r # q, CheckingOut(r)', CheckingOut(q)'
      PROVE  Apart(r, q)'
  BY <1>2 DEF Inv, Checkout, Apart
<1>3. Checkout' /\ Booked' /\ ToldTrue'
  BY <1>1, <1>2, ToldKept DEF Inv, Checkout, Booked, IsSold
<1>. QED  BY <1>3 DEF Inv

LEMMA CommitScanInv ==
  ASSUME Inv, NEW s \in Sessions, CommitScan(s)
  PROVE  Inv'
<1>1. /\ expired' = expired \cup tx[s].marked
      /\ tx' = [tx EXCEPT ![s] = Idle]
      /\ UNCHANGED <<today, arrived, qty, sales, minted, acked>>
  BY DEF CommitScan
<1>2. tx[s] \in Scans
  BY ScanShape DEF CommitScan, Inv
<1>3. notices' \in [Batches -> [Days -> Nat]]
  <2>1. \A b \in Batches : [notices[b] EXCEPT ![tx[s].day] = @ + 1] \in [Days -> Nat]
    BY <1>2 DEF Inv, TypeOK, Scans
  <2>2. \A b \in Batches : notices[b] \in [Days -> Nat]
    BY DEF Inv, TypeOK
  <2>3. notices' = [b \in Batches |->
                     IF b \in tx[s].fresh THEN [notices[b] EXCEPT ![tx[s].day] = @ + 1]
                     ELSE notices[b]]
    BY DEF CommitScan
  <2>. QED  BY <2>1, <2>2, <2>3
<1>4. TypeOK'
  BY <1>1, <1>2, <1>3 DEF Inv, TypeOK, Scans
<1>5. \A r \in Sessions : Busy(r)' => Busy(r) /\ tx'[r] = tx[r]
  BY <1>1 DEF Inv, TypeOK, Busy, Idle
<1>6. Recent'
  BY <1>1, <1>5 DEF Inv, Recent
<1>7. \A r \in Sessions : CheckingOut(r)' => CheckingOut(r) /\ tx'[r] = tx[r]
  BY <1>5 DEF Busy, CheckingOut
<1>. QED  BY <1>1, <1>4, <1>6, <1>7, OutsideStep

LEMMA ReceiveInv ==
  ASSUME Inv, NEW b \in Batches, Receive(b)
  PROVE  Inv'
<1>1. /\ b \notin arrived /\ arrived' = arrived \cup {b}
      /\ qty' = [qty EXCEPT ![b] = Goods[b]]
      /\ UNCHANGED <<today, expired, sales, minted, notices, tx, acked>>
  BY DEF Receive
<1>2. TypeOK'
  BY <1>1, ConstantsAssumption DEF Inv, TypeOK
<1>3. \A c \in arrived : qty'[c] = qty[c]
  BY <1>1 DEF Inv, TypeOK
<1>4. Recent'
  BY <1>1 DEF Inv, Recent, Busy
<1>. QED  BY <1>1, <1>2, <1>3, <1>4, OutsideStep DEF CheckingOut

\* No transaction lives through two midnights.
LEMMA NextDayInv ==
  ASSUME Inv, NextDay
  PROVE  Inv'
<1>1. /\ today < LastDay /\ \A s \in Sessions : Busy(s) => tx[s].day = today
      /\ today' = today + 1
      /\ UNCHANGED <<arrived, qty, expired, sales, minted, notices, tx, acked>>
  BY DEF NextDay
<1>2. today \in Nat
  BY ConstantsAssumption DEF Inv, TypeOK, Days
<1>3. TypeOK'
  BY <1>1, <1>2, ConstantsAssumption DEF Inv, TypeOK, Days
<1>4. Recent'
  BY <1>1, <1>2 DEF Recent, Busy
<1>. QED  BY <1>1, <1>3, <1>4, OutsideStep DEF CheckingOut

LEMMA StutterInv ==
  ASSUME Inv, UNCHANGED vars
  PROVE  Inv'
<1>1. TypeOK' /\ Recent'
  BY DEF Inv, TypeOK, Recent, Busy, vars
<1>. QED  BY <1>1, OutsideStep DEF CheckingOut, vars

LEMMA NextInv == Inv /\ [Next]_vars => Inv'
  BY BeginSaleInv, SelectInv, SkipInv, TakeInv, InsertInv, AnswerInv, CommitSaleInv,
     ScanInv, CommitScanInv, AbortInv, ReceiveInv, NextDayInv, StutterInv
  DEF Next

-----------------------------------------------------------------------------

\* The invariant holds in every reachable state.
THEOREM Invariance == Spec => []Inv
  BY InitInv, NextInv, PTL DEF Spec

\* Every reachable state is well formed; above all, no shelf is negative.
THEOREM TypeCorrect == Spec => []TypeOK
<1>1. Inv => TypeOK
  BY DEF Inv
<1>. QED  BY <1>1, Invariance, PTL

\* A cashier who was told of a sale was told of his own, it is there, and it
\* is the only one with its client_uuid: the unique constraint behind
\* create_sale.
THEOREM ToldOfTheSale == Spec => []AckedIsSold
<1>1. Inv => AckedIsSold
  <2>. SUFFICES ASSUME Inv, NEW k \in Cashiers, NEW u \in Uuids, NEW x \in SaleIds,
                       <<<<k, u>>, x>> \in acked
                PROVE  /\ IsSold(x) /\ sales[x].uuid = u /\ sales[x].cashier = k
                       /\ \A y \in SaleIds : IsSold(y) /\ sales[y].uuid = u => y = x
    BY DEF AckedIsSold
  <2>1. IsSold(x) /\ sales[x].uuid = u /\ sales[x].cashier = k /\ u # None
    BY ConstantsAssumption DEF Inv, ToldTrue
  <2>2. ASSUME NEW y \in SaleIds, IsSold(y), sales[y].uuid = u PROVE y = x
    BY <2>1, <2>2 DEF Inv, Booked, Collide
  <2>. QED  BY <2>1, <2>2
<1>. QED  BY <1>1, Invariance, PTL

\* No goods are sold past their date, because the margin of a day covers a
\* midnight that passes while a checkout waits for a lock.
THEOREM SoldFresh == Spec => []FreshWhenSold
<1>1. Inv => FreshWhenSold
  <2>. SUFFICES ASSUME Inv, NEW x \in SaleIds, IsSold(x), NEW i \in DOMAIN sales[x].from,
                       sales[x].from[i] # Catalogue
                PROVE  Expires[sales[x].from[i]] >= sales[x].day
    BY DEF FreshWhenSold
  <2>1. sales[x] \in Sales
    BY DEF Inv, TypeOK, IsSold
  <2>2. DOMAIN sales[x].from = 1..Len(sales[x].from)
    BY <2>1, LenProperties DEF Sales
  <2>. QED  BY <2>2 DEF Inv, Booked
<1>. QED  BY <1>1, Invariance, PTL

\* A shelf falls only in the commit of a sale, by what that sale says it took
\* from it: no checkout, arrival or scan beside it is lost.  This is the step
\* that ShelvesMatchSales sums up.
ShelfStep ==
    \A b \in Batches :
        \/ qty'[b] = qty[b]
        \/ b \notin arrived /\ b \in arrived' /\ qty'[b] = Goods[b]
        \/ \E x \in SaleIds : \E i \in 1..Len(sales'[x].from) :
            /\ ~IsSold(x) /\ IsSold(x)'
            /\ sales'[x].from[i] = b
            /\ qty'[b] = qty[b] - sales'[x].cart[i][2]

\* The shelves of create_sale move by ShelfStep only.
THEOREM ShelvesMoveBySales == Spec => [][ShelfStep]_vars
<1>1. ASSUME Inv, NEW s \in Sessions, CommitSale(s) PROVE ShelfStep
  <2>1. CheckingOut(s) /\ tx[s].pc = "commit"
    BY <1>1 DEF CommitSale, CheckingOut
  <2> DEFINE new == [cashier |-> tx[s].cashier, uuid |-> tx[s].uuid,
                     cart |-> tx[s].cart, from |-> tx[s].picked, day |-> today]
  <2>2. Carted(s) /\ tx[s].sale \in SaleIds /\ ~IsSold(tx[s].sale)
    BY <1>1, <2>1 DEF Inv, Checkout, Carted, TypeOK
  <2>3. new \in Sales
    BY <1>1, <2>1, CheckoutShape DEF Inv, TypeOK, Sales
  <2>4. new # None /\ new.from = tx[s].picked /\ new.cart = tx[s].cart
    BY <2>3, NoneAssumption
  <2>5. sales'[tx[s].sale] = new
    BY <1>1, <2>2 DEF CommitSale, Inv, TypeOK
  <2>. HIDE DEF new
  <2>6. ASSUME NEW b \in Batches
        PROVE  \/ qty'[b] = qty[b]
               \/ \E x \in SaleIds : \E i \in 1..Len(sales'[x].from) :
                    /\ ~IsSold(x) /\ sales'[x] # None
                    /\ sales'[x].from[i] = b
                    /\ qty'[b] = qty[b] - sales'[x].cart[i][2]
    BY <1>1, <2>2, <2>4, <2>5, ShelfAfter
  <2>. QED  BY <2>6 DEF ShelfStep, IsSold
<1>2. ASSUME Inv, NEW b \in Batches, Receive(b) PROVE ShelfStep
  BY <1>2 DEF Receive, ShelfStep, Inv, TypeOK
<1>3. Inv /\ [Next]_vars => [ShelfStep]_vars
  <2>1. ASSUME qty' = qty PROVE ShelfStep
    BY <2>1 DEF ShelfStep
  <2>. QED
    BY <1>1, <1>2, <2>1 DEF Next, NextDay, BeginSale, SelectBatches, SkipSoldOut,
       TakeBatch, TakeCatalogue, InsertSale, AnswerDuplicate, BeginScan, ScanBatch,
       CommitScan, Abort
<1>. QED  BY <1>3, Invariance, PTL DEF Spec

-----------------------------------------------------------------------------
(* Sums *)

\* Among the subsets of a finite set that belong to B, one has no smaller one
\* within it: what an induction over finite sets rests on.
LEMMA SmallestSubset ==
  ASSUME NEW S, IsFiniteSet(S), NEW B \in SUBSET SUBSET S, B # {}
  PROVE  \E T \in B : \A U \in SUBSET T : U \in B => U = T
<1>. DEFINE Sizes == {Cardinality(T) : T \in B}
<1>1. \A T \in B : IsFiniteSet(T) /\ Cardinality(T) \in Nat
  BY FS_Subset, FS_CardinalityType
<1>2. Sizes # {} /\ Sizes \subseteq Nat
  BY <1>1
<1>3. PICK n \in Sizes : \A m \in Sizes : ~ (<<m, n>> \in OpToRel(<, Nat))
  <2>. HIDE DEF Sizes
  <2>. QED  BY <1>2, NatLessThanWellFounded, WFMin
<1>4. PICK T \in B : Cardinality(T) = n
  OBVIOUS
<1>5. ASSUME NEW U \in SUBSET T, U \in B PROVE U = T
  <2>1. ~ (Cardinality(U) < Cardinality(T))
    BY <1>1, <1>3, <1>4, <1>5 DEF OpToRel
  <2>2. Cardinality(U) <= Cardinality(T) /\ (Cardinality(U) = Cardinality(T) => U = T)
    BY <1>1, FS_Subset
  <2>. QED  BY <1>1, <1>5, <2>1, <2>2
<1>. QED  BY <1>5

Pick(s) == CHOOSE x \in s : TRUE

\* it[s] adds up f over s, one element after the other.
AddsUp(it, f, S) ==
    it = [s \in SUBSET S |-> IF s = {} THEN 0 ELSE f[Pick(s)] + it[s \ {Pick(s)}]]

LEMMA SumIsChosen ==
  ASSUME NEW f, NEW S
  PROVE  SumFunctionOnSet(f, S) = (CHOOSE it : AddsUp(it, f, S))[S]
  BY DEF SumFunctionOnSet, FoldFunctionOnSet, MapThenFoldSet, AddsUp, Pick

LEMMA PickIsMember == \A s : s # {} => Pick(s) \in s
  BY DEF Pick

LEMMA AddsUpAtMostOnce ==
  ASSUME NEW f, NEW S, IsFiniteSet(S), NEW it, AddsUp(it, f, S), NEW jt, AddsUp(jt, f, S)
  PROVE  it[S] = jt[S]
<1>. DEFINE B == {s \in SUBSET S : it[s] # jt[s]}
<1>1. SUFFICES ASSUME B # {} PROVE FALSE
  OBVIOUS
<1>2. \E T \in B : \A U \in SUBSET T : U \in B => U = T
  <2>1. B \in SUBSET SUBSET S
    OBVIOUS
  <2>. HIDE DEF B
  <2>. QED  BY <1>1, <2>1, SmallestSubset
<1>3. PICK T \in B : \A U \in SUBSET T : U \in B => U = T
  BY <1>2
<1>4. T # {} 
  BY DEF AddsUp
<1>5. Pick(T) \in T
  BY <1>4, PickIsMember
<1>6. T \ {Pick(T)} \in SUBSET T /\ T \ {Pick(T)} # T
  BY <1>5
<1>7. it[T \ {Pick(T)}] = jt[T \ {Pick(T)}]
  BY <1>3, <1>6
<1>8. /\ it[T] = f[Pick(T)] + it[T \ {Pick(T)}]
      /\ jt[T] = f[Pick(T)] + jt[T \ {Pick(T)}]
  BY <1>4 DEF AddsUp
<1>. QED  BY <1>7, <1>8

Unfolds(f, T) ==
    SumFunctionOnSet(f, T) =
        IF T = {} THEN 0 ELSE f[Pick(T)] + SumFunctionOnSet(f, T \ {Pick(T)})

\* A sum over a finite set is what its recursive definition says.
LEMMA SumUnfolds ==
  ASSUME NEW f, NEW S, IsFiniteSet(S)
  PROVE  Unfolds(f, S)
<1>. DEFINE B == {T \in SUBSET S : ~Unfolds(f, T)}
<1>1. SUFFICES ASSUME B # {} PROVE FALSE
  OBVIOUS
<1>2. \E T \in B : \A U \in SUBSET T : U \in B => U = T
  <2>1. B \in SUBSET SUBSET S
    OBVIOUS
  <2>. HIDE DEF B
  <2>. QED  BY <1>1, <2>1, SmallestSubset
<1>3. PICK T \in B : \A U \in SUBSET T : U \in B => U = T
  BY <1>2
<1>. DEFINE Rest(s) == s \ {Pick(s)}
            it == [s \in SUBSET T |-> IF s = {} THEN 0
                                      ELSE f[Pick(s)] + SumFunctionOnSet(f, Rest(s))]
<1>4. ASSUME NEW s \in SUBSET T, s # {}
      PROVE  it[Rest(s)] = SumFunctionOnSet(f, Rest(s))
  <2>1. Rest(s) \in SUBSET T /\ Rest(s) # T
    BY <1>4, PickIsMember
  <2>2. Unfolds(f, Rest(s))
    BY <1>3, <2>1
  <2>. QED  BY <2>1, <2>2 DEF Unfolds
<1>5. AddsUp(it, f, T)
  <2>1. \A s \in SUBSET T : it[s] = IF s = {} THEN 0 ELSE f[Pick(s)] + it[Rest(s)]
    BY <1>4
  <2>. QED  BY <2>1 DEF AddsUp
<1>6. AddsUp(CHOOSE jt : AddsUp(jt, f, T), f, T)
  BY <1>5
<1>7. (CHOOSE jt : AddsUp(jt, f, T))[T] = it[T]
  BY <1>5, <1>6, AddsUpAtMostOnce, FS_Subset
<1>8. Unfolds(f, T)
  BY <1>7, SumIsChosen DEF Unfolds
<1>. QED  BY <1>8

LEMMA SumEmpty == ASSUME NEW f PROVE SumFunctionOnSet(f, {}) = 0
  BY SumUnfolds, FS_EmptySet DEF Unfolds

LEMMA SumNat ==
  ASSUME NEW S, IsFiniteSet(S), NEW f, \A x \in S : f[x] \in Nat
  PROVE  SumFunctionOnSet(f, S) \in Nat
<1>. DEFINE B == {T \in SUBSET S : SumFunctionOnSet(f, T) \notin Nat}
<1>1. SUFFICES ASSUME B # {} PROVE FALSE
  OBVIOUS
<1>2. \E T \in B : \A U \in SUBSET T : U \in B => U = T
  <2>1. B \in SUBSET SUBSET S
    OBVIOUS
  <2>. HIDE DEF B
  <2>. QED  BY <1>1, <2>1, SmallestSubset
<1>3. PICK T \in B : \A U \in SUBSET T : U \in B => U = T
  BY <1>2
<1>4. Unfolds(f, T)
  BY SumUnfolds, FS_Subset
<1>5. T # {}
  BY <1>4 DEF Unfolds
<1>6. Pick(T) \in T
  BY <1>5, PickIsMember
<1>7. SumFunctionOnSet(f, T \ {Pick(T)}) \in Nat
  BY <1>3, <1>6
<1>8. f[Pick(T)] \in Nat
  BY <1>6
<1>9. SumFunctionOnSet(f, T) = f[Pick(T)] + SumFunctionOnSet(f, T \ {Pick(T)})
  BY <1>4, <1>5 DEF Unfolds
<1>. QED  BY <1>7, <1>8, <1>9

\* Any element may be added last.
LEMMA SumRemove ==
  ASSUME NEW S, IsFiniteSet(S), NEW f, \A x \in S : f[x] \in Nat, NEW z \in S
  PROVE  SumFunctionOnSet(f, S) = f[z] + SumFunctionOnSet(f, S \ {z})
<1>. DEFINE Sum(T) == SumFunctionOnSet(f, T)
            B == {T \in SUBSET S : \E x \in T : Sum(T) # f[x] + Sum(T \ {x})}
<1>1. SUFFICES ASSUME B # {} PROVE FALSE
  OBVIOUS
<1>2. \E T \in B : \A U \in SUBSET T : U \in B => U = T
  <2>1. B \in SUBSET SUBSET S
    OBVIOUS
  <2>. HIDE DEF B
  <2>. QED  BY <1>1, <2>1, SmallestSubset
<1>3. PICK T \in B : \A U \in SUBSET T : U \in B => U = T
  BY <1>2
<1>4. PICK x \in T : Sum(T) # f[x] + Sum(T \ {x})
  OBVIOUS
<1>. DEFINE y == Pick(T)
<1>5. y \in T
  BY PickIsMember
<1>6. Sum(T) = f[y] + Sum(T \ {y})
  BY SumUnfolds, FS_Subset DEF Unfolds
<1>7. x # y
  BY <1>4, <1>6
<1>8. \A U \in SUBSET T : Sum(U) \in Nat
  <2>. TAKE U \in SUBSET T
  <2>1. IsFiniteSet(U) /\ \A u \in U : f[u] \in Nat
    BY FS_Subset
  <2>. QED  BY <2>1, SumNat
<1>9. \A U \in SUBSET T : U # T => \A u \in U : Sum(U) = f[u] + Sum(U \ {u})
  BY <1>3
<1>10. /\ Sum(T \ {y}) = f[x] + Sum((T \ {y}) \ {x})
       /\ Sum(T \ {x}) = f[y] + Sum((T \ {x}) \ {y})
  <2>1. /\ T \ {y} \in SUBSET T /\ T \ {y} # T /\ x \in T \ {y}
        /\ T \ {x} \in SUBSET T /\ T \ {x} # T /\ y \in T \ {x}
    BY <1>5, <1>7
  <2>. HIDE DEF Sum, y, B
  <2>. QED  BY <1>9, <2>1
<1>11. (T \ {x}) \ {y} = (T \ {y}) \ {x}
  OBVIOUS
<1>12. f[x] \in Int /\ f[y] \in Int /\ Sum((T \ {y}) \ {x}) \in Int
  BY <1>5, <1>8
<1>. HIDE DEF Sum, y
<1>13. Sum(T) = f[y] + (f[x] + Sum((T \ {y}) \ {x}))
  BY <1>6, <1>10
<1>14. f[x] + Sum(T \ {x}) = f[x] + (f[y] + Sum((T \ {y}) \ {x}))
  BY <1>10, <1>11
<1>. QED  BY <1>4, <1>12, <1>13, <1>14

LEMMA SumSame ==
  ASSUME NEW S, IsFiniteSet(S), NEW f, NEW g, \A x \in S : f[x] = g[x]
  PROVE  SumFunctionOnSet(f, S) = SumFunctionOnSet(g, S)
<1>. DEFINE B == {T \in SUBSET S : SumFunctionOnSet(f, T) # SumFunctionOnSet(g, T)}
<1>1. SUFFICES ASSUME B # {} PROVE FALSE
  OBVIOUS
<1>2. \E T \in B : \A U \in SUBSET T : U \in B => U = T
  <2>1. B \in SUBSET SUBSET S
    OBVIOUS
  <2>. HIDE DEF B
  <2>. QED  BY <1>1, <2>1, SmallestSubset
<1>3. PICK T \in B : \A U \in SUBSET T : U \in B => U = T
  BY <1>2
<1>4. Unfolds(f, T) /\ Unfolds(g, T)
  BY SumUnfolds, FS_Subset
<1>5. T # {}
  BY <1>4 DEF Unfolds
<1>6. Pick(T) \in T
  BY <1>5, PickIsMember
<1>7. SumFunctionOnSet(f, T \ {Pick(T)}) = SumFunctionOnSet(g, T \ {Pick(T)})
  BY <1>3, <1>6
<1>. QED  BY <1>4, <1>5, <1>6, <1>7 DEF Unfolds

\* A sum moves as one of its terms does.
LEMMA SumMoves ==
  ASSUME NEW S, IsFiniteSet(S), NEW f, \A x \in S : f[x] \in Nat, NEW z \in S,
         NEW g, g[z] \in Nat, \A x \in S \ {z} : g[x] = f[x]
  PROVE  SumFunctionOnSet(g, S) = SumFunctionOnSet(f, S) + (g[z] - f[z])
<1>1. SumFunctionOnSet(f, S) = f[z] + SumFunctionOnSet(f, S \ {z})
  BY SumRemove
<1>2. SumFunctionOnSet(g, S) = g[z] + SumFunctionOnSet(g, S \ {z})
  <2>1. \A x \in S : g[x] \in Nat
    OBVIOUS
  <2>. QED  BY <2>1, SumRemove
<1>3. IsFiniteSet(S \ {z})
  BY FS_RemoveElement
<1>4. SumFunctionOnSet(f, S \ {z}) = SumFunctionOnSet(g, S \ {z})
  BY <1>3, SumSame
<1>5. SumFunctionOnSet(f, S \ {z}) \in Nat
  BY <1>3, SumNat
<1>. QED  BY <1>1, <1>2, <1>4, <1>5

-----------------------------------------------------------------------------
(* The shelves and the sales *)

\* A sum without terms.
LEMMA SumZero ==
  ASSUME NEW S, IsFiniteSet(S), NEW f, \A x \in S : f[x] = 0
  PROVE  SumFunctionOnSet(f, S) = 0
<1>1. SUFFICES ASSUME S # {} PROVE SumFunctionOnSet(f, S) = 0
  BY SumEmpty
<1>. DEFINE B == {T \in SUBSET S : SumFunctionOnSet(f, T) # 0}
<1>2. SUFFICES ASSUME B # {} PROVE FALSE
  OBVIOUS
<1>3. \E T \in B : \A U \in SUBSET T : U \in B => U = T
  <2>1. B \in SUBSET SUBSET S
    OBVIOUS
  <2>. HIDE DEF B
  <2>. QED  BY <1>2, <2>1, SmallestSubset
<1>4. PICK T \in B : \A U \in SUBSET T : U \in B => U = T
  BY <1>3
<1>5. Unfolds(f, T)
  BY SumUnfolds, FS_Subset
<1>6. T # {}
  BY <1>5 DEF Unfolds
<1>7. Pick(T) \in T
  BY <1>6, PickIsMember
<1>8. SumFunctionOnSet(f, T \ {Pick(T)}) = 0 /\ f[Pick(T)] = 0
  BY <1>4, <1>7
<1>. QED  BY <1>5, <1>6, <1>8 DEF Unfolds

\* A sum of one term.
LEMMA SumOne ==
  ASSUME NEW S, IsFiniteSet(S), NEW f, NEW z \in S, f[z] \in Nat,
         \A x \in S \ {z} : f[x] = 0
  PROVE  SumFunctionOnSet(f, S) = f[z]
<1>1. \A x \in S : f[x] \in Nat
  OBVIOUS
<1>2. SumFunctionOnSet(f, S) = f[z] + SumFunctionOnSet(f, S \ {z})
  BY <1>1, SumRemove
<1>3. SumFunctionOnSet(f, S \ {z}) = 0
  BY FS_RemoveElement, SumZero
<1>. QED  BY <1>2, <1>3

\* What each sale took from b.
Took(b) == [x \in SaleIds |-> SoldFrom(x, b)]

LEMMA SoldFromNat ==
  ASSUME TypeOK, NEW x \in SaleIds, NEW b \in Batches
  PROVE  SoldFrom(x, b) \in Nat
<1>. DEFINE cart == sales[x].cart
            f == [i \in DOMAIN cart |-> IF sales[x].from[i] = b THEN cart[i][2] ELSE 0]
<1>. SUFFICES ASSUME IsSold(x) PROVE SumFunctionOnSet(f, DOMAIN cart) \in Nat
  BY DEF SoldFrom
<1>1. cart \in Seq(Products \X (Nat \ {0}))
  BY ConstantsAssumption DEF TypeOK, IsSold, Sales
<1>2. DOMAIN cart = 1..Len(cart) /\ Len(cart) \in Nat
  BY <1>1, LenProperties
<1>3. \A i \in DOMAIN cart : cart[i][2] \in Nat
  <2>. TAKE i \in DOMAIN cart
  <2>1. cart[i] \in Products \X (Nat \ {0})
    BY <1>1, <1>2, ElementOfSeq
  <2>. QED  BY <2>1
<1>4. IsFiniteSet(DOMAIN cart)
  BY <1>2, FS_Interval
<1>5. \A i \in DOMAIN cart : f[i] \in Nat
  BY <1>3
<1>. HIDE DEF f
<1>. QED  BY <1>4, <1>5, SumNat

LEMMA TookNat ==
  ASSUME TypeOK, NEW b \in Batches
  PROVE  /\ IsFiniteSet(SaleIds) /\ \A x \in SaleIds : Took(b)[x] \in Nat
         /\ SumFunctionOnSet(Took(b), SaleIds) \in Nat
<1>1. \A x \in SaleIds : Took(b)[x] \in Nat
  BY SoldFromNat DEF Took
<1>. QED  BY <1>1, SumNat, ConstantsAssumption

\* A sale takes from a shelf what it lowers it by.
LEMMA SaleTakes ==
  ASSUME Inv, NEW s \in Sessions, CommitSale(s), NEW b \in Batches
  PROVE  \E x \in SaleIds :
            /\ SoldFrom(x, b) = 0 /\ SoldFrom(x, b)' \in Nat
            /\ qty'[b] + SoldFrom(x, b)' = qty[b]
            /\ \A y \in SaleIds \ {x} : SoldFrom(y, b)' = SoldFrom(y, b)
<1>. DEFINE cart == tx[s].cart
            new == [cashier |-> tx[s].cashier, uuid |-> tx[s].uuid, cart |-> cart,
                    from |-> tx[s].picked, day |-> today]
            f == [i \in DOMAIN cart |-> IF tx[s].picked[i] = b THEN cart[i][2] ELSE 0]
<1>1. /\ CheckingOut(s) /\ tx[s].pc = "commit"
      /\ sales' = [sales EXCEPT ![tx[s].sale] = new]
  BY DEF CommitSale, CheckingOut
<1>2. /\ Carted(s) /\ Len(tx[s].picked) = Len(cart)
      /\ cart \in Seq(Products \X (Nat \ {0})) /\ Len(cart) \in Nat
  BY <1>1, CheckoutShape DEF Inv, Checkout, Carted
<1>3. PICK x \in SaleIds : x = tx[s].sale
  BY <1>1, <1>2 DEF Carted, Inv, TypeOK
<1>4. new # None
  <2>1. new \in Sales
    BY <1>1, CheckoutShape DEF Inv, TypeOK, Sales
  <2>. QED  BY <2>1, NoneAssumption
<1>5. /\ sales'[x] = new /\ new.cart = cart /\ new.from = tx[s].picked
      /\ \A y \in SaleIds \ {x} : sales'[y] = sales[y]
  BY <1>1, <1>3 DEF Inv, TypeOK
<1>6. \A y \in SaleIds \ {x} : SoldFrom(y, b)' = SoldFrom(y, b)
  BY <1>5 DEF SoldFrom, IsSold
<1>. HIDE DEF new
<1>7. SoldFrom(x, b) = 0
  BY <1>1, <1>2, <1>3 DEF Carted, SoldFrom
<1>8. SoldFrom(x, b)' = SumFunctionOnSet(f, DOMAIN cart)
  BY <1>4, <1>5 DEF SoldFrom, IsSold
<1>9. DOMAIN cart = 1..Len(tx[s].picked)
  BY <1>2, LenProperties
<1>10. IsFiniteSet(DOMAIN cart) /\ qty[b] \in Nat
  <2>1. IsFiniteSet(1..Len(tx[s].picked))
    BY <1>2, FS_Interval
  <2>. QED  BY <1>9, <2>1 DEF Inv, TypeOK
<1>11. \A i \in DOMAIN cart : f[i] = IF tx[s].picked[i] = b THEN cart[i][2] ELSE 0
  OBVIOUS
<1>. DEFINE lines == DOMAIN cart
            total == SumFunctionOnSet(f, lines)
<1>. HIDE DEF f, lines, total
<1>12. total \in Nat /\ qty'[b] + total = qty[b]
  <2>1. CASE /\ \A i \in 1..Len(tx[s].picked) : tx[s].picked[i] # b
             /\ qty'[b] = qty[b]
    <3>1. \A i \in lines : f[i] = 0
      BY <1>9, <1>11, <2>1 DEF lines
    <3>2. total = 0
      BY <1>10, <3>1, SumZero DEF total, lines
    <3>. QED  BY <1>10, <2>1, <3>2
  <2>2. ASSUME NEW i \in 1..Len(tx[s].picked), tx[s].picked[i] = b,
               qty'[b] = qty[b] - cart[i][2], qty[b] >= cart[i][2],
               cart[i][2] \in Nat \ {0}
        PROVE  total \in Nat /\ qty'[b] + total = qty[b]
    <3>1. b # Catalogue
      BY ConstantsAssumption DEF Catalogue
    <3>2. \A j \in lines : j # i => tx[s].picked[j] # b
      BY <1>1, <1>9, <2>2, <3>1, OneLinePerBatch DEF lines
    <3>3. i \in lines /\ f[i] = cart[i][2] /\ \A j \in lines \ {i} : f[j] = 0
      BY <1>9, <1>11, <2>2, <3>2 DEF lines
    <3>4. IsFiniteSet(lines) /\ f[i] \in Nat
      BY <1>10, <2>2, <3>3 DEF lines
    <3>5. total = f[i]
      <4>1. \A j \in lines \ {i} : f[j] = 0
        BY <3>3
      <4>2. SumFunctionOnSet(f, lines) = f[i]
        BY <3>3, <3>4, <4>1, SumOne
      <4>. QED  BY <4>2 DEF total
    <3>. QED  BY <1>10, <2>2, <3>3, <3>5
  <2>. QED  BY <2>1, <2>2, ShelfAfter
<1>. QED  BY <1>6, <1>7, <1>8, <1>12 DEF total, lines

LEMMA InitShelves == Init => ShelvesMatchSales
<1>. SUFFICES ASSUME Init, NEW b \in Batches
              PROVE  qty[b] + SumFunctionOnSet(Took(b), SaleIds)
                        = IF b \in arrived THEN Goods[b] ELSE 0
  BY DEF ShelvesMatchSales, Took
<1>1. \A x \in SaleIds : Took(b)[x] = 0
  BY DEF Init, Took, SoldFrom, IsSold
<1>2. SumFunctionOnSet(Took(b), SaleIds) = 0
  BY <1>1, SumZero, ConstantsAssumption
<1>. QED  BY <1>2 DEF Init

LEMMA NextShelves ==
  ASSUME Inv, ShelvesMatchSales, [Next]_vars
  PROVE  ShelvesMatchSales'
<1>. SUFFICES ASSUME NEW b \in Batches
              PROVE  qty'[b] + SumFunctionOnSet(Took(b)', SaleIds)
                        = IF b \in arrived' THEN Goods[b] ELSE 0
  BY DEF ShelvesMatchSales, Took
<1>1. /\ qty[b] + SumFunctionOnSet(Took(b), SaleIds)
            = IF b \in arrived THEN Goods[b] ELSE 0
      /\ qty[b] \in Nat /\ TypeOK
      /\ SumFunctionOnSet(Took(b), SaleIds) \in Nat
  BY TookNat DEF ShelvesMatchSales, Took, Inv, TypeOK
<1>2. CASE UNCHANGED <<arrived, qty, sales>>
  <2>1. Took(b)' = Took(b)
    BY <1>2 DEF Took, SoldFrom, IsSold
  <2>. QED  BY <1>1, <1>2, <2>1
<1>3. ASSUME NEW c \in Batches, Receive(c)
      PROVE  qty'[b] + SumFunctionOnSet(Took(b)', SaleIds)
                = IF b \in arrived' THEN Goods[b] ELSE 0
  <2>1. /\ c \notin arrived /\ arrived' = arrived \cup {c} /\ sales' = sales
        /\ qty'[b] = IF b = c THEN Goods[b] ELSE qty[b]
    BY <1>3 DEF Receive, Inv, TypeOK
  <2>2. Took(b)' = Took(b)
    BY <2>1 DEF Took, SoldFrom, IsSold
  <2>3. Goods[b] \in Nat
    BY ConstantsAssumption
  <2>. QED  BY <1>1, <2>1, <2>2, <2>3
<1>4. ASSUME NEW s \in Sessions, CommitSale(s)
      PROVE  qty'[b] + SumFunctionOnSet(Took(b)', SaleIds)
                = IF b \in arrived' THEN Goods[b] ELSE 0
  <2>1. PICK x \in SaleIds :
            /\ SoldFrom(x, b) = 0 /\ SoldFrom(x, b)' \in Nat
            /\ qty'[b] + SoldFrom(x, b)' = qty[b]
            /\ \A y \in SaleIds \ {x} : SoldFrom(y, b)' = SoldFrom(y, b)
    BY <1>4, SaleTakes
  <2>2. /\ Took(b)[x] = 0 /\ Took(b)'[x] = SoldFrom(x, b)'
        /\ \A y \in SaleIds \ {x} : Took(b)'[y] = Took(b)[y]
    BY <2>1 DEF Took
  <2>3. SumFunctionOnSet(Took(b)', SaleIds)
            = SumFunctionOnSet(Took(b), SaleIds) + (SoldFrom(x, b)' - 0)
    BY <1>1, <2>1, <2>2, TookNat, SumMoves
  <2>4. arrived' = arrived /\ qty'[b] \in Nat
    BY <1>4, CommitSaleInv DEF CommitSale, Inv, TypeOK
  <2>. QED  BY <1>1, <2>1, <2>3, <2>4
<1>. QED
  BY <1>2, <1>3, <1>4 DEF Next, NextDay, BeginSale, SelectBatches, SkipSoldOut,
     TakeBatch, TakeCatalogue, InsertSale, AnswerDuplicate, BeginScan, ScanBatch,
     CommitScan, Abort, vars

\* What left a batch is what the sales took from it.
THEOREM ShelvesAddUp == Spec => []ShelvesMatchSales
  BY InitShelves, NextShelves, Invariance, PTL DEF Spec

-----------------------------------------------------------------------------
(* Announcements *)

\* A scan under way announces nothing that was announced when it began, and
\* what was announced then still is.
Heard ==
    \A s \in Sessions : Scanning(s) =>
        \A b \in tx[s].told : notices[b][tx[s].day] > 0 /\ b \notin tx[s].fresh

LEMMA InitHeard == Init => Heard
  BY DEF Init, Heard, Scanning, Idle

\* A step after which every scan is as before, or has heard all it was told.
LEMMA SilentStep ==
  ASSUME Inv, Heard,
         \A b \in Batches, d \in Days : notices[b][d] > 0 => notices'[b][d] > 0,
         \A s \in Sessions : Scanning(s)' =>
             \/ tx'[s] = tx[s]
             \/ \A b \in tx'[s].told : notices'[b][tx'[s].day] > 0 /\ b \notin tx'[s].fresh
  PROVE  Heard'
<1>. SUFFICES ASSUME NEW s \in Sessions, Scanning(s)', tx'[s] = tx[s]
              PROVE  \A b \in tx[s].told : notices'[b][tx[s].day] > 0 /\ b \notin tx[s].fresh
  BY DEF Heard
<1>1. Scanning(s) /\ tx[s] \in Scans
  BY ScanShape DEF Scanning, Inv
<1>. QED  BY <1>1 DEF Heard, Scans

LEMMA BeginScanHeard ==
  ASSUME Inv, Heard, NEW s \in Sessions, BeginScan(s)
  PROVE  Heard' /\ notices' = notices
<1>1. /\ notices' = notices /\ tx'[s].fresh = {} /\ tx'[s].day = today
      /\ tx'[s].told = {b \in Batches : notices[b][today] > 0}
      /\ \A r \in Sessions \ {s} : tx'[r] = tx[r]
  BY DEF BeginScan, Inv, TypeOK
<1>. QED  BY <1>1, SilentStep

LEMMA ScanBatchHeard ==
  ASSUME Inv, Heard, NEW s \in Sessions, NEW c \in Batches, ScanBatch(s, c)
  PROVE  Heard' /\ notices' = notices
<1>1. /\ Scanning(s) /\ tx[s] \in Scans /\ notices' = notices
      /\ notices[c][tx[s].day] \in Nat
  BY ScanShape DEF ScanBatch, Inv, TypeOK, Scans
<1>2. /\ tx'[s].day = tx[s].day /\ tx'[s].told = tx[s].told
      /\ tx'[s].fresh = IF notices[c][tx[s].day] = 0 THEN tx[s].fresh \cup {c}
                                                   ELSE tx[s].fresh
      /\ \A r \in Sessions \ {s} : tx'[r] = tx[r]
  BY <1>1 DEF ScanBatch, Scans, Inv, TypeOK
<1>3. \A b \in tx[s].told : notices[b][tx[s].day] > 0 /\ b \notin tx[s].fresh
  BY <1>1 DEF Heard
<1>4. \A b \in tx'[s].told : notices'[b][tx'[s].day] > 0 /\ b \notin tx'[s].fresh
  BY <1>1, <1>2, <1>3
<1>. QED  BY <1>1, <1>2, <1>4, SilentStep

LEMMA CommitScanHeard ==
  ASSUME Inv, Heard, NEW s \in Sessions, CommitScan(s)
  PROVE  /\ Heard'
         /\ \A b \in tx[s].told : notices'[b][tx[s].day] = notices[b][tx[s].day]
         /\ \A r \in Sessions \ {s} : tx'[r] = tx[r]
<1>1. /\ Scanning(s) /\ tx[s] \in Scans
      /\ \A b \in tx[s].told : b \in Batches /\ b \notin tx[s].fresh
  BY ScanShape DEF CommitScan, Inv, Heard, Scans
<1>2. /\ tx'[s] = Idle /\ \A r \in Sessions \ {s} : tx'[r] = tx[r]
      /\ \A b \in Batches :
            notices'[b] = IF b \in tx[s].fresh
                          THEN [notices[b] EXCEPT ![tx[s].day] = @ + 1] ELSE notices[b]
  BY DEF CommitScan, Inv, TypeOK
<1>3. \A b \in Batches, d \in Days :
         /\ notices[b] \in [Days -> Nat] /\ notices[b][d] \in Nat
         /\ notices'[b][d] = notices[b][d] \/ notices'[b][d] = notices[b][d] + 1
  <2>. SUFFICES ASSUME NEW b \in Batches, NEW d \in Days
                PROVE  /\ notices[b] \in [Days -> Nat] /\ notices[b][d] \in Nat
                       /\ \/ notices'[b][d] = notices[b][d]
                          \/ notices'[b][d] = notices[b][d] + 1
    OBVIOUS
  <2>1. notices[b] \in [Days -> Nat]
    BY DEF Inv, TypeOK
  <2>2. \/ notices'[b] = notices[b]
        \/ notices'[b] = [notices[b] EXCEPT ![tx[s].day] = notices[b][tx[s].day] + 1]
    BY <1>2
  <2>. QED  BY <2>1, <2>2
<1>4. ~Scanning(s)'
  BY <1>2 DEF Scanning, Idle
<1>5. Heard'
  BY <1>2, <1>3, <1>4, SilentStep
<1>. QED  BY <1>1, <1>2, <1>5

\* What a step of a checkout leaves is no scan.
LeavesNoScan(s) ==
    /\ notices' = notices /\ tx'[s].pc # "scan"
    /\ \A r \in Sessions \ {s} : tx'[r] = tx[r]

LEMMA OneIsNoScan ==
  ASSUME Inv, NEW s \in Sessions, NEW t, t.pc # "scan", tx' = [tx EXCEPT ![s] = t],
         notices' = notices
  PROVE  LeavesNoScan(s)
<1>1. tx \in [Sessions -> Checkouts \cup Scans \cup {Idle}]
  BY DEF Inv, TypeOK
<1>2. tx'[s] = t /\ \A r \in Sessions \ {s} : tx'[r] = tx[r]
  BY <1>1
<1>. QED  BY <1>2 DEF LeavesNoScan

LEMMA NoScanAfter ==
  ASSUME Inv, NEW s \in Sessions,
         \/ \E k \in Cashiers, u \in Uuids \cup {None}, cart \in Carts :
                BeginSale(s, k, u, cart)
         \/ SelectBatches(s) \/ SkipSoldOut(s) \/ TakeBatch(s) \/ TakeCatalogue(s)
         \/ \E x \in SaleIds : InsertSale(s, x)
         \/ AnswerDuplicate(s) \/ CommitSale(s) \/ Abort(s)
  PROVE  LeavesNoScan(s)
<1>2. CASE CheckingOut(s)
  <2>1. tx[s] \in Checkouts
    BY <1>2, CheckoutShape DEF Inv
  <2>3. CASE SelectBatches(s)
    <3>. DEFINE t == [tx[s] EXCEPT !.pc = "take",
                      !.found = {b \in arrived : ProductOf[b] = Line(s)[1] /\ qty[b] > 0}]
    <3>1. t.pc = "take"
      BY <2>1 DEF Checkouts
    <3>2. tx' = [tx EXCEPT ![s] = t] /\ notices' = notices
      BY <2>3 DEF SelectBatches
    <3>. HIDE DEF t
    <3>. QED  BY OneIsNoScan, <3>1, <3>2
  <2>4. CASE SkipSoldOut(s)
    <3>. DEFINE t == [tx[s] EXCEPT !.found = @ \ {Min(tx[s].found)}]
    <3>1. t.pc = tx[s].pc /\ tx[s].pc = "take"
      BY <2>1, <2>4 DEF Checkouts, SkipSoldOut
    <3>2. tx' = [tx EXCEPT ![s] = t] /\ notices' = notices
      BY <2>4 DEF SkipSoldOut
    <3>. HIDE DEF t
    <3>. QED  BY OneIsNoScan, <3>1, <3>2
  <2>5. CASE TakeBatch(s)
    <3>. DEFINE b == Min(tx[s].found)
                t == [tx[s] EXCEPT !.pc = "select", !.found = {},
                                   !.picked = Append(@, b), !.read = Append(@, qty[b])]
    <3>1. t.pc = "select"
      BY <2>1 DEF Checkouts
    <3>2. tx' = [tx EXCEPT ![s] = t] /\ notices' = notices
      BY <2>5 DEF TakeBatch
    <3>. HIDE DEF t
    <3>. QED  BY OneIsNoScan, <3>1, <3>2
  <2>6. CASE TakeCatalogue(s)
    <3>. DEFINE t == [tx[s] EXCEPT !.pc = "select", !.picked = Append(@, Catalogue),
                                   !.read = Append(@, 0)]
    <3>1. t.pc = "select"
      BY <2>1 DEF Checkouts
    <3>2. tx' = [tx EXCEPT ![s] = t] /\ notices' = notices
      BY <2>6 DEF TakeCatalogue
    <3>. HIDE DEF t
    <3>. QED  BY OneIsNoScan, <3>1, <3>2
  <2>7. ASSUME NEW x \in SaleIds, InsertSale(s, x) PROVE LeavesNoScan(s)
    <3>. DEFINE t == [tx[s] EXCEPT !.pc = "commit", !.sale = x]
    <3>1. t.pc = "commit"
      BY <2>1 DEF Checkouts
    <3>2. tx' = [tx EXCEPT ![s] = t] /\ notices' = notices
      BY <2>7 DEF InsertSale
    <3>. HIDE DEF t
    <3>. QED  BY OneIsNoScan, <3>1, <3>2
  <2>8. CASE AnswerDuplicate(s) \/ CommitSale(s) \/ Abort(s)
    <3>1. Idle.pc # "scan"
      BY DEF Idle
    <3>. QED  BY OneIsNoScan, <2>8, <3>1 DEF AnswerDuplicate, CommitSale, Abort
  <2>9. ~ \E k \in Cashiers, u \in Uuids \cup {None}, cart \in Carts :
              BeginSale(s, k, u, cart)
    BY <1>2 DEF BeginSale, Busy, CheckingOut
  <2>. QED  BY <2>3, <2>4, <2>5, <2>6, <2>7, <2>8, <2>9
<1>3. CASE ~CheckingOut(s)
  <2>1. ASSUME NEW k \in Cashiers, NEW u \in Uuids \cup {None}, NEW cart \in Carts,
               BeginSale(s, k, u, cart)
        PROVE  LeavesNoScan(s)
    <3>. DEFINE t == [pc |-> "select", day |-> today, cashier |-> k, uuid |-> u,
                      cart |-> cart, picked |-> <<>>, read |-> <<>>, found |-> {},
                      sale |-> None]
    <3>1. t.pc = "select" /\ tx' = [tx EXCEPT ![s] = t] /\ notices' = notices
      BY <2>1 DEF BeginSale
    <3>. HIDE DEF t
    <3>. QED  BY OneIsNoScan, <3>1
  <2>2. CASE Abort(s)
    <3>1. Idle.pc # "scan"
      BY DEF Idle
    <3>. QED  BY OneIsNoScan, <2>2, <3>1 DEF Abort
  <2>3. /\ ~SelectBatches(s) /\ ~SkipSoldOut(s) /\ ~TakeBatch(s) /\ ~TakeCatalogue(s)
        /\ ~AnswerDuplicate(s) /\ ~CommitSale(s) /\ \A x \in SaleIds : ~InsertSale(s, x)
    BY <1>3 DEF SelectBatches, SkipSoldOut, TakeBatch, TakeCatalogue, InsertSale,
                AnswerDuplicate, CommitSale, Resolved, CheckingOut
  <2>. QED  BY <2>1, <2>2, <2>3
<1>. QED  BY <1>2, <1>3

LEMMA NextHeard ==
  ASSUME Inv, Heard, [Next]_vars
  PROVE  /\ Heard'
         /\ \A s \in Sessions : Scanning(s) /\ ~Busy(s)' =>
               \A b \in tx[s].told : notices'[b][tx[s].day] = notices[b][tx[s].day]
<1>1. ASSUME NEW s \in Sessions, LeavesNoScan(s) PROVE Heard' /\ notices' = notices
  BY <1>1, SilentStep DEF Scanning, LeavesNoScan
<1>2. CASE NextDay \/ (\E b \in Batches : Receive(b)) \/ UNCHANGED vars
  BY <1>2, SilentStep DEF NextDay, Receive, vars
<1>3. ASSUME NEW r \in Sessions, CommitScan(r)
      PROVE  \A s \in Sessions : Scanning(s) /\ ~Busy(s)' =>
                \A b \in tx[s].told : notices'[b][tx[s].day] = notices[b][tx[s].day]
  <2>1. ASSUME NEW s \in Sessions, Scanning(s), ~Busy(s)' PROVE s = r
    BY <1>3, <2>1, CommitScanHeard DEF Scanning, Busy
  <2>. QED  BY <1>3, <2>1, CommitScanHeard
<1>4. CASE Heard' /\ notices' = notices
  BY <1>4
<1>5. CASE \E r \in Sessions : CommitScan(r)
  BY <1>3, <1>5, CommitScanHeard
<1>. QED
  BY <1>1, <1>2, <1>4, <1>5, NoScanAfter, BeginScanHeard, ScanBatchHeard
     DEF Next, NextDay, Receive, vars

\* All scans that announce a batch for one day overlap.
THEOREM AnnouncedByOverlap == Spec => NoticesOverlap
<1>1. Inv /\ Heard /\ [Next]_vars
        => [\A s \in Sessions : Scanning(s) /\ ~Busy(s)' =>
              \A b \in tx[s].told : notices'[b][tx[s].day] = notices[b][tx[s].day]]_vars
  BY NextHeard
<1>2. Inv /\ Heard /\ [Next]_vars => Heard'
  BY NextHeard
<1>. QED  BY <1>1, <1>2, InitHeard, Invariance, PTL DEF Spec, NoticesOverlap
=============================================================================
