---------------------------- MODULE WorkDayProofs ----------------------------
(***************************************************************************)
(* Proofs about WorkDay for any number of requests, operations, days and   *)
(* failures.                                                               *)
(***************************************************************************)
EXTENDS WorkDay, Integers, WellFoundedInduction, TLAPS

\* A session has an id and the check-in that opened it, or neither.
Sound(row) == row.id = 0 <=> row.in = 0

\* The rows, committed and not: a request holds the days it wrote, keeps the
\* session it found on them, and no check-in opened two sessions, whichever
\* of the requests under way will commit.
Ledger ==
    /\ \A d \in Days : Sound(rows[d])
    /\ \A d, e \in Days : rows[d].in = rows[e].in /\ rows[d].in # 0 => d = e
    /\ \A q \in Requests : \A d \in tx[q].wrote :
        /\ Sound(tx[q].draft[d])
        /\ rows[d].in # 0 => tx[q].draft[d].in = rows[d].in
    /\ \A q \in Requests : \A d, e \in Days :
        Row(q, d).in = Row(q, e).in /\ Row(q, d).in # 0 => d = e
    /\ \A q, r \in Requests : q # r =>
        \A d \in tx[q].wrote, e \in tx[r].wrote :
            d # e /\ (tx[q].draft[d].in # 0 => tx[q].draft[d].in # tx[r].draft[e].in)

AtWork(q) == \E d \in Days : Row(q, d).in # 0

\* A session for which the check-in may be refused.
Backed(q, op) ==
    \E d \in Days : Row(q, d).in # 0 /\ (d = tx[q].on[op] \/ Row(q, d).in = op)

\* Where a request stands.
Progress(q) ==
    /\ tx[q].todo \subseteq DOMAIN ops
    /\ tx[q].pc = "idle" => tx[q] = Idle
    /\ tx[q].pc = "insert" => /\ tx[q].todo # {} /\ ops[Op(q)] = "in"
                              /\ tx[q].day \in Days
    /\ tx[q].pc = "close" => /\ tx[q].todo # {} /\ ops[Op(q)] = "out"
                             /\ tx[q].day \in Days
    /\ tx[q].pc = "store" => /\ tx[q].todo # {} /\ ops[Op(q)] = "gps"
                             /\ AtWork(q)

\* What a request is about to answer holds in the rows it would commit.
Results(q) ==
    /\ \A op \in Ops : tx[q].results[op] # "pending" => op \in DOMAIN ops
    /\ \A op \in Ops : tx[q].results[op] = "applied" =>
        /\ ops[op] = "in" => \E d \in Days : Row(q, d).in = op
        /\ ops[op] = "out" => op \in tx[q].left \/ keys[op] # 0
    /\ \A op \in Ops : tx[q].results[op] = "conflict" /\ ops[op] = "in" => Backed(q, op)
    /\ tx[q].points # {} => AtWork(q)

RequestsKnow == \A q \in Requests : Progress(q) /\ Results(q)

\* What the phone was told holds in the committed rows.
Committed ==
    /\ \A op \in Ops : answer[op] # "pending" => op \in DOMAIN ops
    /\ AcksAreRecorded
    /\ RefusedForASession
    /\ StoredAtWork

Inv == TypeOK /\ Ledger /\ RequestsKnow /\ Committed

-----------------------------------------------------------------------------
(* Shapes *)

LEMMA LeastNumber ==
  ASSUME NEW S \in SUBSET Nat, S # {}
  PROVE  \E n \in S : \A m \in S : n <= m
<1>1. PICK n \in S : \A m \in S : ~ (<<m, n>> \in OpToRel(<, Nat))
  BY NatLessThanWellFounded, WFMin
<1>2. ASSUME NEW m \in S PROVE n <= m
  <2>1. n \in Nat /\ m \in Nat
    OBVIOUS
  <2>2. ~ (m < n)
    BY <1>1, <2>1 DEF OpToRel
  <2>. QED  BY <2>1, <2>2
<1>. QED  BY <1>2

LEMMA Bounds == /\ MaxOps \in Nat \ {0} /\ MaxDay \in Nat \ {0}
                /\ MaxId \in Nat \ {0} /\ MaxFailed \in Nat \ {0}
  BY ConstantsAssumption

LEMMA OpIsNext ==
  ASSUME TypeOK, NEW q \in Requests, tx[q].todo # {}
  PROVE  Op(q) \in tx[q].todo /\ Op(q) \in Ops /\ Op(q) # 0
<1>1. tx[q].todo \subseteq Ops
  BY DEF TypeOK, Transactions
<1>2. tx[q].todo \in SUBSET Nat
  BY <1>1, Bounds DEF Ops
<1>3. \E op \in tx[q].todo : \A other \in tx[q].todo : op <= other
  BY <1>2, LeastNumber
<1>4. Op(q) \in tx[q].todo
  BY <1>3 DEF Op
<1>. QED  BY <1>1, <1>4, Bounds DEF Ops

LEMMA RowTypes ==
  ASSUME TypeOK, NEW q \in Requests, NEW d \in Days
  PROVE  Row(q, d) \in Rows
  BY DEF TypeOK, Transactions, Row

LEMMA OneMoves ==
  ASSUME TypeOK, NEW q \in Requests, NEW x \in Transactions, tx' = [tx EXCEPT ![q] = x]
  PROVE  /\ tx' \in [Requests -> Transactions] /\ tx'[q] = x
         /\ \A r \in Requests : r # q => tx'[r] = tx[r]
  BY DEF TypeOK

LEMMA IdleIsTransaction == Idle \in Transactions
  BY Bounds DEF Idle, Transactions, NoRow, Rows, Answers

LEMMA SettledMoves ==
  ASSUME TypeOK, NEW q \in Requests, NEW t \in Transactions, Op(q) \in Ops,
         NEW result \in Answers, Settled(q, t, result)
  PROVE  /\ tx' \in [Requests -> Transactions]
         /\ \A r \in Requests : r # q => tx'[r] = tx[r]
         /\ tx'[q].pc = "next" /\ tx'[q].todo = t.todo \ {Op(q)}
         /\ tx'[q].wrote = t.wrote /\ tx'[q].draft = t.draft
         /\ tx'[q].left = t.left /\ tx'[q].points = t.points /\ tx'[q].on = t.on
         /\ tx'[q].results = [t.results EXCEPT ![Op(q)] = result]
<1>. DEFINE x == [t EXCEPT !.pc = "next", !.todo = @ \ {Op(q)}, !.day = 0,
                           !.results[Op(q)] = result]
<1>1. t.results \in [Ops -> Answers] /\ 0 \in 0..MaxDay
  BY Bounds DEF Transactions
<1>2. /\ x \in Transactions
      /\ x.pc = "next" /\ x.todo = t.todo \ {Op(q)}
      /\ x.wrote = t.wrote /\ x.draft = t.draft
      /\ x.left = t.left /\ x.points = t.points /\ x.on = t.on
      /\ x.results = [t.results EXCEPT ![Op(q)] = result]
  BY <1>1 DEF Transactions
<1>3. tx' = [tx EXCEPT ![q] = x]
  BY DEF Settled
<1>. HIDE DEF x
<1>. QED  BY <1>2, <1>3, OneMoves

LEMMA GoToMoves ==
  ASSUME TypeOK, NEW q \in Requests, NEW d \in 0..MaxDay,
         NEW pc \in {"insert", "close", "store"}, GoTo(q, pc, d)
  PROVE  /\ tx' \in [Requests -> Transactions]
         /\ \A r \in Requests : r # q => tx'[r] = tx[r]
         /\ tx'[q] = [tx[q] EXCEPT !.pc = pc, !.day = d]
<1>. DEFINE x == [tx[q] EXCEPT !.pc = pc, !.day = d]
<1>1. tx[q] \in Transactions
  BY DEF TypeOK
<1>2. x \in Transactions
  BY <1>1 DEF Transactions
<1>3. tx' = [tx EXCEPT ![q] = x]
  BY <1>1 DEF GoTo, TypeOK, Transactions
<1>. HIDE DEF x
<1>4. /\ tx' \in [Requests -> Transactions] /\ tx'[q] = x
      /\ \A r \in Requests : r # q => tx'[r] = tx[r]
  BY <1>2, <1>3, OneMoves
<1>. QED  BY <1>4 DEF x

LEMMA WriteIsTransaction ==
  ASSUME TypeOK, NEW q \in Requests, NEW d \in Days, NEW row \in Rows
  PROVE  /\ Write(q, d, row) \in Transactions
         /\ Write(q, d, row).wrote = tx[q].wrote \cup {d}
         /\ Write(q, d, row).draft = [tx[q].draft EXCEPT ![d] = row]
         /\ Write(q, d, row).todo = tx[q].todo
         /\ Write(q, d, row).left = tx[q].left
         /\ Write(q, d, row).points = tx[q].points
         /\ Write(q, d, row).results = tx[q].results
         /\ Write(q, d, row).on = tx[q].on
<1>1. tx[q] \in Transactions
  BY DEF TypeOK
<1>. QED  BY <1>1 DEF Write, Transactions

\* A request at work on an operation has one.
LEMMA AtWorkOnOp ==
  ASSUME Inv, NEW q \in Requests, tx[q].pc \in {"insert", "close", "store"}
  PROVE  tx[q].todo # {} /\ Op(q) \in tx[q].todo /\ Op(q) \in Ops /\ Op(q) # 0
<1>1. TypeOK /\ tx[q].todo # {}
  BY DEF Inv, RequestsKnow, Progress
<1>. QED  BY <1>1, OpIsNext

LEMMA InitInv == Init => Inv
<1> SUFFICES ASSUME Init PROVE Inv
  OBVIOUS
<1>1. /\ \A q \in Requests : tx[q] = Idle
      /\ \A d \in Days : rows[d] = NoRow
      /\ ops = <<>> /\ points = {} /\ phone = "out" /\ day = 1 /\ ids = 0 /\ left = {}
      /\ \A op \in Ops : answer[op] = "pending"
  BY DEF Init
<1>2. TypeOK
  <2>1. tx \in [Requests -> Transactions]
    BY IdleIsTransaction DEF Init
  <2>2. rows \in [Days -> Rows] /\ day \in Days /\ ids \in 0..MaxId
        /\ keys \in [Ops -> 0..MaxId] /\ answer \in [Ops -> Answers]
        /\ refused \in [Ops -> 0..MaxDay]
    BY Bounds DEF Init, Rows, NoRow, Days, Answers
  <2>3. ops \in Seq({"in", "out", "gps"}) /\ Len(ops) <= MaxOps
    BY <1>1, Bounds
  <2>. QED  BY <1>1, <2>1, <2>2, <2>3 DEF TypeOK
<1>3. \A q \in Requests : /\ tx[q].wrote = {} /\ tx[q].todo = {} /\ tx[q].pc = "idle"
                          /\ tx[q].points = {}
                          /\ \A op \in Ops : tx[q].results[op] = "pending"
  BY <1>1 DEF Idle
<1>4. Ledger
  BY <1>1, <1>3 DEF Ledger, Row, NoRow, Sound
<1>5. RequestsKnow
  BY <1>1, <1>3 DEF RequestsKnow, Progress, Results
<1>6. Committed
  <2>1. DOMAIN ops = {}
    BY <1>1
  <2>. QED  BY <1>1, <2>1 DEF Committed, AcksAreRecorded, RefusedForASession, StoredAtWork
<1>. QED  BY <1>2, <1>4, <1>5, <1>6 DEF Inv

LEMMA ReplyMoves ==
  ASSUME TypeOK, NEW q \in Requests, tx[q].todo # {}, NEW result \in Answers, Reply(q, result)
  PROVE  /\ tx' \in [Requests -> Transactions]
         /\ \A r \in Requests : r # q => tx'[r] = tx[r]
         /\ tx'[q].pc = "next" /\ tx'[q].todo = tx[q].todo \ {Op(q)}
         /\ tx'[q].wrote = tx[q].wrote /\ tx'[q].draft = tx[q].draft
         /\ tx'[q].left = tx[q].left /\ tx'[q].points = tx[q].points /\ tx'[q].on = tx[q].on
         /\ tx'[q].results = [tx[q].results EXCEPT ![Op(q)] = result]
         /\ UNCHANGED <<device, day, ids, stored, keys>>
<1>1. tx[q] \in Transactions /\ Op(q) \in Ops
  BY OpIsNext DEF TypeOK
<1>. QED  BY <1>1, SettledMoves DEF Reply

LEMMA RefuseMoves ==
  ASSUME TypeOK, NEW q \in Requests, tx[q].todo # {}, NEW d \in Days, Refuse(q, d)
  PROVE  /\ tx' \in [Requests -> Transactions]
         /\ \A r \in Requests : r # q => tx'[r] = tx[r]
         /\ tx'[q].pc = "next" /\ tx'[q].todo = tx[q].todo \ {Op(q)}
         /\ tx'[q].wrote = tx[q].wrote /\ tx'[q].draft = tx[q].draft
         /\ tx'[q].left = tx[q].left /\ tx'[q].points = tx[q].points
         /\ tx'[q].on = [tx[q].on EXCEPT ![Op(q)] = d]
         /\ tx'[q].results = [tx[q].results EXCEPT ![Op(q)] = "conflict"]
         /\ UNCHANGED <<device, day, ids, stored, keys>>
<1>. DEFINE t == [tx[q] EXCEPT !.on[Op(q)] = d]
<1>1. tx[q] \in Transactions /\ Op(q) \in Ops /\ "conflict" \in Answers
  BY OpIsNext DEF TypeOK, Answers
<1>2. d \in 0..MaxDay
  BY Bounds DEF Days
<1>3. /\ t \in Transactions /\ t.todo = tx[q].todo /\ t.wrote = tx[q].wrote
      /\ t.draft = tx[q].draft /\ t.left = tx[q].left /\ t.points = tx[q].points
      /\ t.results = tx[q].results /\ t.on = [tx[q].on EXCEPT ![Op(q)] = d]
  BY <1>1, <1>2 DEF Transactions
<1>4. Settled(q, t, "conflict") /\ UNCHANGED <<device, day, ids, stored, keys>>
  BY DEF Refuse
<1>. HIDE DEF t
<1>5. /\ tx' \in [Requests -> Transactions]
      /\ \A r \in Requests : r # q => tx'[r] = tx[r]
      /\ tx'[q].pc = "next" /\ tx'[q].todo = t.todo \ {Op(q)}
      /\ tx'[q].wrote = t.wrote /\ tx'[q].draft = t.draft
      /\ tx'[q].left = t.left /\ tx'[q].points = t.points /\ tx'[q].on = t.on
      /\ tx'[q].results = [t.results EXCEPT ![Op(q)] = "conflict"]
  BY <1>1, <1>3, <1>4, SettledMoves
<1>. QED  BY <1>3, <1>4, <1>5

\* The steps of a request, by what they do to it.
Replies(q) ==
    \E result \in Answers :
        /\ Reply(q, result) /\ tx[q].todo # {} /\ Op(q) \in DOMAIN ops
        /\ result # "pending"
        /\ result = "applied" =>
             /\ ops[Op(q)] = "in" => \E d \in Days : Row(q, d).in = Op(q)
             /\ ops[Op(q)] = "out" => keys[Op(q)] # 0
        /\ result = "conflict" => ops[Op(q)] # "in"

Refuses(q) ==
    /\ tx[q].todo # {} /\ Op(q) \in DOMAIN ops
    /\ \E d \in Days :
        /\ Refuse(q, d)
        /\ \E e \in Days : Row(q, e).in # 0 /\ (e = d \/ Row(q, e).in = Op(q))

Goes(q) ==
    /\ tx[q].pc = "next" /\ tx[q].todo # {}
    /\ \/ ops[Op(q)] = "in" /\ GoTo(q, "insert", day)
       \/ ops[Op(q)] = "out" /\ GoTo(q, "close", day)
       \/ ops[Op(q)] = "gps" /\ GoTo(q, "store", 0) /\ AtWork(q)

LEMMA RequestSteps ==
  ASSUME Inv, NEW q \in Requests,
         \/ ReadCheckIn(q) \/ RefuseCheckIn(q) \/ ReplyFromKey(q) \/ ReadCheckOut(q)
         \/ ReadActive(q) \/ FailOp(q)
  PROVE  Replies(q) \/ Refuses(q) \/ Goes(q)
<1>. TypeOK /\ Progress(q) /\ Ledger
  BY DEF Inv, RequestsKnow
<1>1. tx[q].todo # {}
  BY DEF ReadCheckIn, RefuseCheckIn, ReplyFromKey, ReadCheckOut, ReadActive, FailOp,
         Starts, Progress
<1>2. Op(q) \in tx[q].todo /\ Op(q) \in DOMAIN ops /\ Op(q) # 0
  BY <1>1, OpIsNext DEF Progress
<1>3. day \in Days /\ {"applied", "conflict", "error"} \subseteq Answers
  BY DEF TypeOK, Answers
<1>4. \A d \in Days : Sound(Row(q, d))
  BY DEF Ledger, Row
<1>5. \A d \in Days : Open(Row(q, d)) => AtWork(q)
  BY DEF Open, AtWork
<1>6. CASE ReadCheckIn(q)
  <2>1. CASE Recorded(q)
    BY <1>1, <1>2, <1>3, <1>6, <2>1 DEF ReadCheckIn, Starts, Recorded, Replies
  <2>2. CASE ~Recorded(q) /\ Open(Row(q, day))
    BY <1>1, <1>2, <1>3, <1>6, <2>2 DEF ReadCheckIn, Open, Refuses
  <2>3. CASE ~Recorded(q) /\ ~Open(Row(q, day))
    BY <1>1, <1>6, <2>3 DEF ReadCheckIn, Starts, Goes
  <2>. QED  BY <2>1, <2>2, <2>3
<1>7. CASE RefuseCheckIn(q)
  <2>1. tx[q].day \in Days /\ ops[Op(q)] = "in"
    BY <1>7 DEF RefuseCheckIn, Progress
  <2>2. \E e \in Days : Row(q, e).in # 0 /\ (e = tx[q].day \/ Row(q, e).in = Op(q))
    BY <1>2, <1>4, <1>7, <2>1 DEF RefuseCheckIn, Taken, Recorded, Sound
  <2>. QED  BY <1>1, <1>2, <1>7, <2>1, <2>2 DEF RefuseCheckIn, Refuses
<1>8. CASE ReplyFromKey(q)
  BY <1>1, <1>2, <1>3, <1>8 DEF ReplyFromKey, Starts, Replies
<1>9. CASE ReadCheckOut(q)
  BY <1>1, <1>2, <1>3, <1>9 DEF ReadCheckOut, Starts, Replies, Goes
<1>10. CASE ReadActive(q)
  <2>1. CASE ActiveSessions(q) = {}
    BY <1>1, <1>2, <1>3, <1>10, <2>1 DEF ReadActive, Starts, Replies
  <2>2. CASE ActiveSessions(q) # {}
    <3>1. AtWork(q)
      BY <1>5, <2>2 DEF ActiveSessions
    <3>. QED  BY <1>1, <1>2, <1>3, <1>10, <2>2, <3>1
              DEF ReadActive, Starts, Replies, Goes
  <2>. QED  BY <2>1, <2>2
<1>11. CASE FailOp(q)
  BY <1>1, <1>2, <1>3, <1>11 DEF FailOp, Replies
<1>. QED  BY <1>6, <1>7, <1>8, <1>9, <1>10, <1>11

LEMMA NextShapes ==
  ASSUME Inv, [Next]_vars
  PROVE  TypeOK'
<1>. TypeOK
  BY DEF Inv
<1>. USE DEF TypeOK, device, stored
<1>1. ASSUME NEW kind \in {"in", "out", "gps"}, Queue(kind), phone' \in {"out", "in"}
      PROVE  TypeOK'
  <2>1. ops' \in Seq({"in", "out", "gps"}) /\ Len(ops') = Len(ops) + 1 /\ Len(ops) \in Nat
    BY <1>1 DEF Queue
  <2>2. Len(ops') <= MaxOps
    BY <1>1, <2>1, Bounds DEF Queue
  <2>. QED  BY <1>1, <2>1, <2>2 DEF Queue
<1>2. CASE CheckIn \/ Ping \/ CheckOut \/ Kill
  BY <1>1, <1>2 DEF CheckIn, Ping, CheckOut, Kill
<1>3. ASSUME NEW q \in Requests, Send(q) PROVE TypeOK'
  <2>1. Unanswered \subseteq Ops
    BY Bounds DEF Unanswered, Ops
  <2>2. [Idle EXCEPT !.pc = "next", !.todo = Unanswered] \in Transactions
    BY <2>1, IdleIsTransaction DEF Transactions
  <2>. QED  BY <1>3, <2>2, OneMoves DEF Send
<1>4. ASSUME NEW q \in Requests, Replies(q) PROVE TypeOK'
  BY <1>4, ReplyMoves DEF Replies
<1>13. ASSUME NEW q \in Requests, Refuses(q) PROVE TypeOK'
  BY <1>13, RefuseMoves DEF Refuses
<1>5. ASSUME NEW q \in Requests, Goes(q) PROVE TypeOK'
  <2>1. day \in 0..MaxDay /\ 0 \in 0..MaxDay
    BY Bounds DEF Days
  <2>2. tx' \in [Requests -> Transactions]
    BY <1>5, <2>1, GoToMoves DEF Goes
  <2>. QED  BY <1>5, <2>2 DEF Goes, GoTo
<1>6. ASSUME NEW q \in Requests, InsertCheckIn(q) PROVE TypeOK'
  <2>1. Op(q) \in Ops /\ tx[q].day \in Days
    BY <1>6, AtWorkOnOp DEF InsertCheckIn, Inv, RequestsKnow, Progress
  <2>2. ids' \in 0..MaxId /\ ids' = ids + 1
    BY <1>6, Bounds DEF InsertCheckIn
  <2>3. [id |-> ids + 1, in |-> Op(q), out |-> 0] \in Rows
    BY <2>1, <2>2, Bounds DEF Rows, Ops
  <2>. DEFINE t == Write(q, tx[q].day, [id |-> ids + 1, in |-> Op(q), out |-> 0])
  <2>4. t \in Transactions
    BY <2>1, <2>3, WriteIsTransaction
  <2>5. Settled(q, t, "applied")
    BY <1>6 DEF InsertCheckIn
  <2>6. tx' \in [Requests -> Transactions]
    <3>. HIDE DEF t
    <3>. QED  BY <2>1, <2>4, <2>5, SettledMoves DEF Answers
  <2>. QED  BY <1>6, <2>2, <2>6 DEF InsertCheckIn
<1>7. ASSUME NEW q \in Requests, CloseSession(q) PROVE TypeOK'
  <2>. DEFINE d == tx[q].day
              t == Write(q, d, [Row(q, d) EXCEPT !.out = Op(q)])
  <2>1. Op(q) \in Ops /\ d \in Days
    BY <1>7, AtWorkOnOp DEF CloseSession, Inv, RequestsKnow, Progress
  <2>2. Row(q, d) \in Rows /\ [Row(q, d) EXCEPT !.out = Op(q)] \in Rows
    <3>1. Row(q, d) \in Rows
      BY <2>1, RowTypes
    <3>2. Op(q) \in 0..MaxOps
      BY <2>1, Bounds DEF Ops
    <3>. QED  BY <3>1, <3>2 DEF Rows
  <2>3. t \in Transactions
    BY <2>1, <2>2, WriteIsTransaction
  <2>4. [t EXCEPT !.left = @ \cup {Op(q)}] \in Transactions
    BY <2>1, <2>3 DEF Transactions
  <2>5. Settled(q, [t EXCEPT !.left = @ \cup {Op(q)}], "applied")
    BY <1>7 DEF CloseSession
  <2>6. tx' \in [Requests -> Transactions]
    <3>. HIDE DEF t
    <3>. QED  BY <2>1, <2>4, <2>5, SettledMoves DEF Answers
  <2>7. keys' \in [Ops -> 0..MaxId]
    BY <1>7, <2>1, <2>2 DEF CloseSession, Rows
  <2>. QED  BY <1>7, <2>6, <2>7 DEF CloseSession
<1>8. ASSUME NEW q \in Requests, StorePoint(q) PROVE TypeOK'
  <2>1. Op(q) \in Ops
    BY <1>8, AtWorkOnOp DEF StorePoint
  <2>2. [tx[q] EXCEPT !.points = @ \cup {Op(q)}] \in Transactions
    BY <2>1 DEF Transactions
  <2>. QED  BY <1>8, <2>1, <2>2, SettledMoves DEF StorePoint, Answers
<1>9. ASSUME NEW q \in Requests, Commit(q) PROVE TypeOK'
  <2>1. tx' \in [Requests -> Transactions]
    BY <1>9, IdleIsTransaction, OneMoves DEF Commit
  <2>2. rows' \in [Days -> Rows]
    BY <1>9, RowTypes DEF Commit
  <2>3. tx[q].left \subseteq Ops /\ tx[q].points \subseteq Ops
        /\ tx[q].results \in [Ops -> Answers]
    BY DEF Transactions
  <2>4. tx[q].on \in [Ops -> 0..MaxDay] /\ 0 \in 0..MaxDay
    BY Bounds DEF Transactions
  <2>5. answer' \in [Ops -> Answers] /\ refused' \in [Ops -> 0..MaxDay]
    BY <1>9, <2>3, <2>4 DEF Commit, Heard
  <2>. QED  BY <1>9, <2>1, <2>2, <2>3, <2>5 DEF Commit
<1>10. ASSUME NEW q \in Requests, Abort(q) PROVE TypeOK'
  BY <1>10, IdleIsTransaction, OneMoves DEF Abort
<1>11. CASE Midnight
  BY <1>11, Bounds DEF Midnight, Days
<1>12. CASE UNCHANGED vars
  BY <1>12 DEF vars
<1>. QED  BY <1>2, <1>3, <1>4, <1>5, <1>6, <1>7, <1>8, <1>9, <1>10, <1>11, <1>12,
             <1>13, RequestSteps DEF Next

-----------------------------------------------------------------------------
(* What the steps do to the rows *)

\* q comes to hold row for the day d.
Writes(q, d, row) ==
    /\ rows' = rows
    /\ \A r \in Requests : r # q => tx'[r] = tx[r]
    /\ tx'[q].wrote = tx[q].wrote \cup {d}
    /\ tx'[q].draft = [tx[q].draft EXCEPT ![d] = row]

\* A row that q may write: it keeps the session q sees on that day, nobody
\* else holds the day, and no other row q sees or another request holds is of
\* the same check-in.
MayWrite(q, d, row) ==
    /\ Sound(row)
    /\ Row(q, d).in # 0 => row.in = Row(q, d).in
    /\ \A e \in Days : e # d /\ row.in # 0 => Row(q, e).in # row.in
    /\ \A r \in Requests : r # q =>
        /\ d \notin tx[r].wrote
        /\ \A e \in tx[r].wrote : row.in # 0 => tx[r].draft[e].in # row.in

LEMMA WroteDays ==
  ASSUME TypeOK, NEW q \in Requests
  PROVE  tx[q].wrote \subseteq Days /\ tx[q].draft \in [Days -> Rows]
  BY DEF TypeOK, Transactions

LEMMA WrittenRow ==
  ASSUME TypeOK, NEW q \in Requests, NEW d \in Days, NEW row \in Rows, Writes(q, d, row)
  PROVE  /\ Row(q, d)' = row
         /\ \A e \in Days : e # d => Row(q, e)' = Row(q, e)
         /\ \A r \in Requests, e \in Days : r # q => Row(r, e)' = Row(r, e)
  BY WroteDays DEF Writes, Row

LEMMA WriteKeepsLedger ==
  ASSUME TypeOK, Ledger, NEW q \in Requests, NEW d \in Days, NEW row \in Rows,
         MayWrite(q, d, row), Writes(q, d, row)
  PROVE  Ledger'
<1>0. /\ rows' = rows /\ \A r \in Requests : r # q => tx'[r] = tx[r]
      /\ tx'[q].wrote = tx[q].wrote \cup {d}
      /\ tx'[q].draft[d] = row
      /\ \A e \in Days : e # d => tx'[q].draft[e] = tx[q].draft[e]
  BY WroteDays DEF Writes
<1>1. /\ \A e \in Days : Sound(rows'[e])
      /\ \A e, g \in Days : rows'[e].in = rows'[g].in /\ rows'[e].in # 0 => e = g
  BY <1>0 DEF Ledger
<1>2. ASSUME NEW r \in Requests, NEW e \in tx'[r].wrote
      PROVE  /\ Sound(tx'[r].draft[e])
             /\ rows'[e].in # 0 => tx'[r].draft[e].in = rows'[e].in
  <2>1. CASE r # q
    BY <1>0, <1>2, <2>1 DEF Ledger
  <2>2. CASE r = q /\ e # d
    <3>1. e \in tx[q].wrote /\ e \in Days
      BY <1>0, <1>2, <2>2, WroteDays
    <3>. QED  BY <1>0, <2>2, <3>1 DEF Ledger
  <2>3. CASE r = q /\ e = d
    <3>1. rows[d].in # 0 => Row(q, d).in = rows[d].in
      BY DEF Row, Ledger
    <3>. QED  BY <1>0, <2>3, <3>1 DEF MayWrite
  <2>. QED  BY <2>1, <2>2, <2>3
<1>3. ASSUME NEW r \in Requests, NEW e \in Days, NEW g \in Days,
             Row(r, e)'.in = Row(r, g)'.in, Row(r, e)'.in # 0
      PROVE  e = g
  BY <1>3, WrittenRow DEF Ledger, MayWrite
<1>4. ASSUME NEW r \in Requests, NEW s \in Requests, r # s,
             NEW e \in tx'[r].wrote, NEW g \in tx'[s].wrote
      PROVE  e # g /\ (tx'[r].draft[e].in # 0 => tx'[r].draft[e].in # tx'[s].draft[g].in)
  <2>1. tx[q].wrote \subseteq Days
    BY WroteDays
  <2>2. CASE r # q /\ s # q
    BY <1>0, <1>4, <2>2 DEF Ledger
  <2>3. CASE r = q
    <3>1. /\ e \in tx[q].wrote \cup {d} /\ g \in tx[s].wrote /\ tx'[s] = tx[s]
      BY <1>0, <1>4, <2>3
    <3>2. CASE e = d
      BY <1>0, <1>4, <2>3, <3>1, <3>2 DEF MayWrite
    <3>3. CASE e # d
      <4>1. e \in tx[q].wrote /\ tx'[q].draft[e] = tx[q].draft[e]
        BY <1>0, <2>1, <3>1, <3>3
      <4>. QED  BY <1>4, <2>3, <3>1, <4>1 DEF Ledger
    <3>. QED  BY <3>2, <3>3
  <2>4. CASE s = q
    <3>1. /\ g \in tx[q].wrote \cup {d} /\ e \in tx[r].wrote /\ tx'[r] = tx[r]
      BY <1>0, <1>4, <2>4
    <3>2. CASE g = d
      BY <1>0, <1>4, <2>4, <3>1, <3>2 DEF MayWrite
    <3>3. CASE g # d
      <4>1. g \in tx[q].wrote /\ tx'[q].draft[g] = tx[q].draft[g]
        BY <1>0, <2>1, <3>1, <3>3
      <4>. QED  BY <1>4, <2>4, <3>1, <4>1 DEF Ledger
    <3>. QED  BY <3>2, <3>3
  <2>. QED  BY <2>2, <2>3, <2>4
<1>. QED  BY <1>1, <1>2, <1>3, <1>4 DEF Ledger, Row

\* The check-in and the check-out write such rows.
LEMMA InsertEffect ==
  ASSUME Inv, NEW q \in Requests, InsertCheckIn(q)
  PROVE  LET d == tx[q].day
             row == [id |-> ids + 1, in |-> Op(q), out |-> 0] IN
         /\ d \in Days /\ row \in Rows /\ ops[Op(q)] = "in"
         /\ MayWrite(q, d, row) /\ Writes(q, d, row)
         /\ tx'[q].pc = "next" /\ tx'[q].todo = tx[q].todo \ {Op(q)}
         /\ tx'[q].left = tx[q].left /\ tx'[q].points = tx[q].points /\ tx'[q].on = tx[q].on
         /\ tx'[q].results = [tx[q].results EXCEPT ![Op(q)] = "applied"]
<1>. DEFINE d == tx[q].day
            row == [id |-> ids + 1, in |-> Op(q), out |-> 0]
            t == Write(q, d, row)
<1>1. TypeOK /\ Ledger /\ d \in Days /\ Op(q) \in Ops /\ Op(q) # 0 /\ ops[Op(q)] = "in"
  BY AtWorkOnOp DEF InsertCheckIn, Inv, RequestsKnow, Progress
<1>2. ids + 1 \in 1..MaxId /\ row \in Rows
  BY <1>1, Bounds DEF InsertCheckIn, TypeOK, Rows, Ops
<1>3. /\ Row(q, d).id = 0
      /\ \A e \in Days : Row(q, e).in # Op(q)
      /\ \A r \in Requests : r # q =>
          /\ d \notin tx[r].wrote
          /\ \A e \in tx[r].wrote : tx[r].draft[e].in # Op(q)
  <2>1. ~Taken(q, d) /\ ~Waits(q, d)
    BY DEF InsertCheckIn
  <2>. QED  BY <1>1, <2>1, WroteDays DEF Taken, Waits, Held, Recorded
<1>4. Row(q, d).in = 0
  BY <1>1, <1>3 DEF Ledger, Row, Sound
<1>5. MayWrite(q, d, row)
  BY <1>1, <1>2, <1>3, <1>4 DEF MayWrite, Sound
<1>6. /\ t \in Transactions
      /\ t.wrote = tx[q].wrote \cup {d}
      /\ t.draft = [tx[q].draft EXCEPT ![d] = row]
      /\ t.todo = tx[q].todo /\ t.left = tx[q].left /\ t.points = tx[q].points
      /\ t.results = tx[q].results /\ t.on = tx[q].on
  BY <1>1, <1>2, WriteIsTransaction
<1>7. Settled(q, t, "applied") /\ rows' = rows
  BY DEF InsertCheckIn, stored
<1>. HIDE DEF t, row, d
<1>8. /\ Writes(q, d, row)
      /\ tx'[q].pc = "next" /\ tx'[q].todo = tx[q].todo \ {Op(q)}
      /\ tx'[q].left = tx[q].left /\ tx'[q].points = tx[q].points /\ tx'[q].on = tx[q].on
      /\ tx'[q].results = [tx[q].results EXCEPT ![Op(q)] = "applied"]
  <2>1. "applied" \in Answers
    BY DEF Answers
  <2>2. /\ \A r \in Requests : r # q => tx'[r] = tx[r]
        /\ tx'[q].pc = "next" /\ tx'[q].todo = t.todo \ {Op(q)}
        /\ tx'[q].wrote = t.wrote /\ tx'[q].draft = t.draft
        /\ tx'[q].left = t.left /\ tx'[q].points = t.points /\ tx'[q].on = t.on
        /\ tx'[q].results = [t.results EXCEPT ![Op(q)] = "applied"]
    BY <1>1, <1>6, <1>7, <2>1, SettledMoves
  <2>. QED  BY <1>6, <1>7, <2>2 DEF Writes
<1>. QED  BY <1>1, <1>2, <1>5, <1>8 DEF row, d

LEMMA CloseEffect ==
  ASSUME Inv, NEW q \in Requests, CloseSession(q)
  PROVE  LET d == tx[q].day
             row == [Row(q, d) EXCEPT !.out = Op(q)] IN
         /\ d \in Days /\ row \in Rows /\ ops[Op(q)] = "out"
         /\ MayWrite(q, d, row) /\ Writes(q, d, row) /\ row.in = Row(q, d).in
         /\ tx'[q].pc = "next" /\ tx'[q].todo = tx[q].todo \ {Op(q)}
         /\ tx'[q].left = tx[q].left \cup {Op(q)} /\ tx'[q].points = tx[q].points /\ tx'[q].on = tx[q].on
         /\ tx'[q].results = [tx[q].results EXCEPT ![Op(q)] = "applied"]
<1>. DEFINE d == tx[q].day
            row == [Row(q, d) EXCEPT !.out = Op(q)]
            t == Write(q, d, row)
            u == [t EXCEPT !.left = @ \cup {Op(q)}]
<1>1. TypeOK /\ Ledger /\ d \in Days /\ Op(q) \in Ops /\ ops[Op(q)] = "out"
  BY AtWorkOnOp DEF CloseSession, Inv, RequestsKnow, Progress
<1>2. row \in Rows /\ row.in = Row(q, d).in /\ row.id = Row(q, d).id
  BY <1>1, RowTypes, Bounds DEF Rows, Ops
<1>3. \A r \in Requests : r # q => d \notin tx[r].wrote
  BY <1>1 DEF CloseSession, Held
<1>4. Sound(row)
  BY <1>1, <1>2 DEF Ledger, Row, Sound
<1>5. ASSUME NEW r \in Requests, r # q, NEW e \in tx[r].wrote, row.in # 0
      PROVE  tx[r].draft[e].in # row.in
  <2>1. CASE d \in tx[q].wrote
    BY <1>1, <1>2, <1>5, <2>1 DEF Ledger, Row
  <2>2. CASE d \notin tx[q].wrote
    <3>1. Row(q, d) = rows[d] /\ Row(r, d) = rows[d] /\ Row(r, e) = tx[r].draft[e]
      BY <1>3, <1>5, <2>2 DEF Row
    <3>2. e \in Days /\ e # d
      BY <1>1, <1>3, <1>5, WroteDays
    <3>. QED  BY <1>1, <1>2, <1>5, <3>1, <3>2 DEF Ledger
  <2>. QED  BY <2>1, <2>2
<1>6. ASSUME NEW e \in Days, e # d, row.in # 0 PROVE Row(q, e).in # row.in
  BY <1>1, <1>2, <1>6 DEF Ledger
<1>7. MayWrite(q, d, row)
  BY <1>2, <1>3, <1>4, <1>5, <1>6 DEF MayWrite
<1>8. /\ t \in Transactions
      /\ t.wrote = tx[q].wrote \cup {d}
      /\ t.draft = [tx[q].draft EXCEPT ![d] = row]
      /\ t.todo = tx[q].todo /\ t.left = tx[q].left /\ t.points = tx[q].points
      /\ t.results = tx[q].results /\ t.on = tx[q].on
  <2>. HIDE DEF row
  <2>. QED  BY <1>1, <1>2, WriteIsTransaction
<1>9. Settled(q, u, "applied") /\ rows' = rows
  BY DEF CloseSession, stored
<1>. HIDE DEF t
<1>10. /\ u \in Transactions
       /\ u.wrote = t.wrote /\ u.draft = t.draft /\ u.todo = t.todo
       /\ u.left = t.left \cup {Op(q)} /\ u.points = t.points /\ u.results = t.results
       /\ u.on = t.on
  BY <1>1, <1>8 DEF Transactions
<1>. HIDE DEF u, row, d
<1>11. /\ Writes(q, d, row)
       /\ tx'[q].pc = "next" /\ tx'[q].todo = tx[q].todo \ {Op(q)}
       /\ tx'[q].left = tx[q].left \cup {Op(q)} /\ tx'[q].points = tx[q].points /\ tx'[q].on = tx[q].on
       /\ tx'[q].results = [tx[q].results EXCEPT ![Op(q)] = "applied"]
  <2>1. "applied" \in Answers
    BY DEF Answers
  <2>2. /\ \A r \in Requests : r # q => tx'[r] = tx[r]
        /\ tx'[q].pc = "next" /\ tx'[q].todo = u.todo \ {Op(q)}
        /\ tx'[q].wrote = u.wrote /\ tx'[q].draft = u.draft
        /\ tx'[q].left = u.left /\ tx'[q].points = u.points /\ tx'[q].on = u.on
        /\ tx'[q].results = [u.results EXCEPT ![Op(q)] = "applied"]
    BY <1>1, <1>9, <1>10, <2>1, SettledMoves
  <2>. QED  BY <1>8, <1>9, <1>10, <2>2 DEF Writes
<1>. QED  BY <1>1, <1>2, <1>7, <1>11 DEF row, d

\* Nobody writes a row; a request may drop all it wrote.
LEMMA SameRows ==
  ASSUME Ledger, rows' = rows,
         \A r \in Requests : \/ tx'[r].wrote = tx[r].wrote /\ tx'[r].draft = tx[r].draft
                             \/ tx'[r].wrote = {}
  PROVE  Ledger'
<1>1. \A r \in Requests : tx'[r].wrote # {} =>
          tx'[r].wrote = tx[r].wrote /\ tx'[r].draft = tx[r].draft
  OBVIOUS
<1>2. ASSUME NEW r \in Requests
      PROVE  \/ \A d \in Days : Row(r, d)' = Row(r, d)
             \/ \A d \in Days : Row(r, d)' = rows[d]
  BY <1>2 DEF Row
<1>3. ASSUME NEW r \in Requests, NEW e \in Days, NEW g \in Days,
             Row(r, e)'.in = Row(r, g)'.in, Row(r, e)'.in # 0
      PROVE  e = g
  BY <1>2, <1>3 DEF Ledger
<1>. QED  BY <1>1, <1>3 DEF Ledger

LEMMA CommitEffect ==
  ASSUME TypeOK, Ledger, NEW q \in Requests, Commit(q)
  PROVE  /\ Ledger' /\ tx'[q] = Idle
         /\ \A r \in Requests : r # q => tx'[r] = tx[r]
         /\ \A d \in Days : /\ rows'[d] = Row(q, d)
                            /\ rows[d].in # 0 => rows'[d].in = rows[d].in
         /\ \A r \in Requests, d \in Days : r # q /\ Row(r, d).in # 0 =>
                Row(r, d)'.in = Row(r, d).in
<1>1. /\ tx'[q] = Idle /\ \A r \in Requests : r # q => tx'[r] = tx[r]
  BY IdleIsTransaction, OneMoves DEF Commit
<1>2. \A d \in Days : rows'[d] = Row(q, d)
  BY DEF Commit
<1>3. \A d \in Days : rows[d].in # 0 => rows'[d].in = rows[d].in
  BY <1>2 DEF Ledger, Row
<1>4. ASSUME NEW r \in Requests, r # q, NEW d \in Days
      PROVE  /\ d \in tx[r].wrote => Row(r, d)' = tx[r].draft[d] /\ Row(r, d) = tx[r].draft[d]
             /\ d \notin tx[r].wrote => Row(r, d)' = Row(q, d) /\ Row(r, d) = rows[d]
  BY <1>1, <1>2, <1>4 DEF Row
<1>5. \A r \in Requests, d \in Days : r # q /\ Row(r, d).in # 0 =>
          Row(r, d)'.in = Row(r, d).in
  BY <1>2, <1>3, <1>4
<1>6. tx'[q].wrote = {} /\ \A d \in Days : Row(q, d)' = rows'[d]
  BY <1>1 DEF Idle, Row
<1>7. /\ \A d \in Days : Sound(rows'[d])
      /\ \A d, e \in Days : rows'[d].in = rows'[e].in /\ rows'[d].in # 0 => d = e
  BY <1>2 DEF Ledger, Row
<1>8. ASSUME NEW r \in Requests, NEW d \in tx'[r].wrote
      PROVE  /\ Sound(tx'[r].draft[d])
             /\ rows'[d].in # 0 => tx'[r].draft[d].in = rows'[d].in
  <2>1. r # q /\ d \in tx[r].wrote /\ tx'[r] = tx[r] /\ d \in Days
    BY <1>1, <1>6, <1>8, WroteDays
  <2>2. d \notin tx[q].wrote
    BY <2>1 DEF Ledger
  <2>3. rows'[d] = rows[d]
    BY <1>2, <2>1, <2>2 DEF Row
  <2>. QED  BY <2>1, <2>3 DEF Ledger
<1>9. ASSUME NEW r \in Requests, NEW d \in Days, NEW e \in Days,
             Row(r, d)'.in = Row(r, e)'.in, Row(r, d)'.in # 0
      PROVE  d = e
  <2>1. CASE r = q
    BY <1>6, <1>7, <1>9, <2>1
  <2>2. ASSUME r # q, NEW f \in tx[r].wrote, f \in Days, NEW g \in Days, g \notin tx[r].wrote,
               Row(r, f)'.in = Row(r, g)'.in, Row(r, f)'.in # 0
        PROVE  FALSE
    <3>1. Row(r, f)' = tx[r].draft[f] /\ Row(r, f) = tx[r].draft[f]
          /\ Row(r, g)' = Row(q, g) /\ Row(r, g) = rows[g]
      BY <1>4, <2>2
    <3>2. CASE g \in tx[q].wrote
      BY <2>2, <3>1, <3>2 DEF Ledger, Row
    <3>3. CASE g \notin tx[q].wrote
      <4>1. Row(q, g) = rows[g]
        BY <3>3 DEF Row
      <4>. QED  BY <2>2, <3>1, <4>1 DEF Ledger
    <3>. QED  BY <3>2, <3>3
  <2>3. CASE r # q /\ d \in tx[r].wrote /\ e \in tx[r].wrote
    BY <1>4, <1>9, <2>3 DEF Ledger
  <2>4. CASE r # q /\ d \notin tx[r].wrote /\ e \notin tx[r].wrote
    BY <1>4, <1>9, <2>4 DEF Ledger
  <2>. QED  BY <1>9, <2>1, <2>2, <2>3, <2>4
<1>10. ASSUME NEW r \in Requests, NEW s \in Requests, r # s,
              NEW d \in tx'[r].wrote, NEW e \in tx'[s].wrote
       PROVE  d # e /\ (tx'[r].draft[d].in # 0 => tx'[r].draft[d].in # tx'[s].draft[e].in)
  <2>1. r # q /\ s # q
    BY <1>6, <1>10
  <2>. QED  BY <1>1, <1>10, <2>1 DEF Ledger
<1>11. Ledger'
  BY <1>7, <1>8, <1>9, <1>10 DEF Ledger
<1>. QED  BY <1>1, <1>2, <1>3, <1>5, <1>11

LEMMA StoreEffect ==
  ASSUME Inv, NEW q \in Requests, StorePoint(q)
  PROVE  /\ Op(q) \in Ops /\ ops[Op(q)] = "gps" /\ AtWork(q) /\ rows' = rows
         /\ \A r \in Requests : r # q => tx'[r] = tx[r]
         /\ tx'[q].wrote = tx[q].wrote /\ tx'[q].draft = tx[q].draft
         /\ tx'[q].pc = "next" /\ tx'[q].todo = tx[q].todo \ {Op(q)}
         /\ tx'[q].left = tx[q].left /\ tx'[q].on = tx[q].on
         /\ tx'[q].results = [tx[q].results EXCEPT ![Op(q)] = "applied"]
<1>. DEFINE t == [tx[q] EXCEPT !.points = @ \cup {Op(q)}]
<1>1. /\ TypeOK /\ Op(q) \in Ops /\ ops[Op(q)] = "gps" /\ AtWork(q)
      /\ tx[q] \in Transactions /\ "applied" \in Answers
  BY AtWorkOnOp DEF StorePoint, Inv, RequestsKnow, Progress, TypeOK, Answers
<1>2. /\ t \in Transactions /\ t.wrote = tx[q].wrote /\ t.draft = tx[q].draft
      /\ t.todo = tx[q].todo /\ t.left = tx[q].left /\ t.results = tx[q].results
      /\ t.on = tx[q].on
  BY <1>1 DEF Transactions
<1>3. Settled(q, t, "applied") /\ rows' = rows
  BY DEF StorePoint, stored
<1>. HIDE DEF t
<1>4. /\ \A r \in Requests : r # q => tx'[r] = tx[r]
      /\ tx'[q].pc = "next" /\ tx'[q].todo = t.todo \ {Op(q)}
      /\ tx'[q].wrote = t.wrote /\ tx'[q].draft = t.draft
      /\ tx'[q].left = t.left /\ tx'[q].on = t.on
      /\ tx'[q].results = [t.results EXCEPT ![Op(q)] = "applied"]
  BY <1>1, <1>2, <1>3, SettledMoves
<1>. QED  BY <1>1, <1>2, <1>3, <1>4

LEMMA GoesEffect ==
  ASSUME TypeOK, NEW q \in Requests, Goes(q)
  PROVE  /\ UNCHANGED <<device, day, ids, stored, keys>>
         /\ \A r \in Requests : r # q => tx'[r] = tx[r]
         /\ tx'[q].wrote = tx[q].wrote /\ tx'[q].draft = tx[q].draft
         /\ tx'[q].todo = tx[q].todo /\ tx'[q].left = tx[q].left /\ tx'[q].on = tx[q].on
         /\ tx'[q].points = tx[q].points /\ tx'[q].results = tx[q].results
         /\ tx'[q].on = tx[q].on
         /\ \/ tx'[q].pc = "insert" /\ ops[Op(q)] = "in" /\ tx'[q].day \in Days
            \/ tx'[q].pc = "close" /\ ops[Op(q)] = "out" /\ tx'[q].day \in Days
            \/ tx'[q].pc = "store" /\ ops[Op(q)] = "gps" /\ AtWork(q)
<1>1. day \in Days /\ day \in 0..MaxDay /\ 0 \in 0..MaxDay /\ tx[q] \in Transactions
  BY Bounds DEF TypeOK, Days
<1>2. ASSUME NEW pc \in {"insert", "close", "store"}, NEW d \in 0..MaxDay, GoTo(q, pc, d)
      PROVE  /\ UNCHANGED <<device, day, ids, stored, keys>>
             /\ \A r \in Requests : r # q => tx'[r] = tx[r]
             /\ tx'[q].wrote = tx[q].wrote /\ tx'[q].draft = tx[q].draft
             /\ tx'[q].todo = tx[q].todo /\ tx'[q].left = tx[q].left /\ tx'[q].on = tx[q].on
             /\ tx'[q].points = tx[q].points /\ tx'[q].results = tx[q].results /\ tx'[q].on = tx[q].on
             /\ tx'[q].pc = pc /\ tx'[q].day = d
  <2>1. /\ UNCHANGED <<device, day, ids, stored, keys>>
        /\ \A r \in Requests : r # q => tx'[r] = tx[r]
        /\ tx'[q] = [tx[q] EXCEPT !.pc = pc, !.day = d]
    BY <1>2, GoToMoves DEF GoTo
  <2>. QED  BY <1>1, <2>1 DEF Transactions
<1>3. CASE ops[Op(q)] = "in" /\ GoTo(q, "insert", day)
  BY <1>1, <1>2, <1>3
<1>4. CASE ops[Op(q)] = "out" /\ GoTo(q, "close", day)
  BY <1>1, <1>2, <1>4
<1>5. CASE ops[Op(q)] = "gps" /\ GoTo(q, "store", 0) /\ AtWork(q)
  BY <1>1, <1>2, <1>5
<1>. QED  BY <1>3, <1>4, <1>5 DEF Goes

\* A request begins, or ends without a commit.
LEMMA FreshEffect ==
  ASSUME TypeOK, NEW q \in Requests, Send(q) \/ Abort(q)
  PROVE  /\ UNCHANGED <<device, day, ids, stored, keys>>
         /\ \A r \in Requests : r # q => tx'[r] = tx[r]
         /\ \/ tx'[q] = Idle
            \/ tx'[q] = [Idle EXCEPT !.pc = "next", !.todo = Unanswered]
  BY DEF Send, Abort, TypeOK

LEMMA NextLedger ==
  ASSUME Inv, [Next]_vars
  PROVE  Ledger'
<1>. TypeOK /\ Ledger
  BY DEF Inv
<1>1. CASE CheckIn \/ Ping \/ CheckOut \/ Kill \/ Midnight \/ UNCHANGED vars
  BY <1>1, SameRows DEF CheckIn, Ping, CheckOut, Kill, Midnight, Queue, vars, stored
<1>2. ASSUME NEW q \in Requests, Send(q) \/ Abort(q) PROVE Ledger'
  <2>1. \/ tx'[q] = Idle
        \/ tx'[q] = [Idle EXCEPT !.pc = "next", !.todo = Unanswered]
    BY <1>2, FreshEffect
  <2>2. CASE tx'[q] = Idle
    BY <1>2, <2>2, FreshEffect, SameRows DEF stored, Idle
  <2>3. CASE tx'[q] = [Idle EXCEPT !.pc = "next", !.todo = Unanswered]
    <3>1. tx'[q].wrote = {}
      BY <2>3 DEF Idle
    <3>. QED  BY <1>2, <3>1, FreshEffect, SameRows DEF stored
  <2>. QED  BY <2>1, <2>2, <2>3
<1>3. ASSUME NEW q \in Requests, Replies(q) PROVE Ledger'
  BY <1>3, ReplyMoves, SameRows DEF Replies, stored
<1>9. ASSUME NEW q \in Requests, Refuses(q) PROVE Ledger'
  BY <1>9, RefuseMoves, SameRows DEF Refuses, stored
<1>4. ASSUME NEW q \in Requests, Goes(q) PROVE Ledger'
  BY <1>4, GoesEffect, SameRows DEF stored
<1>5. ASSUME NEW q \in Requests, StorePoint(q) PROVE Ledger'
  BY <1>5, StoreEffect, SameRows
<1>6. ASSUME NEW q \in Requests, InsertCheckIn(q) PROVE Ledger'
  BY <1>6, InsertEffect, WriteKeepsLedger
<1>7. ASSUME NEW q \in Requests, CloseSession(q) PROVE Ledger'
  BY <1>7, CloseEffect, WriteKeepsLedger
<1>8. ASSUME NEW q \in Requests, Commit(q) PROVE Ledger'
  BY <1>8, CommitEffect
<1>. QED  BY <1>1, <1>2, <1>3, <1>4, <1>5, <1>6, <1>7, <1>8, <1>9,
             RequestSteps DEF Next

-----------------------------------------------------------------------------
(* What is known stays true *)

\* Operations, keys and check-outs are only added, and a session keeps its
\* check-in.
Grown ==
    /\ DOMAIN ops \subseteq DOMAIN ops'
    /\ \A op \in DOMAIN ops : ops'[op] = ops[op]
    /\ \A op \in Ops : keys[op] # 0 => keys'[op] # 0
    /\ left \subseteq left'
    /\ \A d \in Days : rows[d].in # 0 => rows'[d].in = rows[d].in

LEMMA Unchanged == UNCHANGED <<ops, keys, left, rows>> => Grown
  BY DEF Grown

LEMMA Queued ==
  ASSUME TypeOK, NEW kind \in {"in", "out", "gps"}, Queue(kind)
  PROVE  Grown
<1>1. /\ ops \in Seq({"in", "out", "gps"}) /\ ops' = Append(ops, kind)
      /\ UNCHANGED <<keys, left, rows>>
  BY DEF TypeOK, Queue, stored
<1>2. Len(ops) \in Nat /\ DOMAIN ops = 1..Len(ops) /\ DOMAIN ops' = 1..(Len(ops) + 1)
  BY <1>1
<1>3. \A op \in DOMAIN ops : ops'[op] = ops[op]
  BY <1>1, <1>2
<1>. QED  BY <1>1, <1>2, <1>3 DEF Grown

LEMMA NextGrown ==
  ASSUME Inv, [Next]_vars
  PROVE  Grown
<1>. TypeOK /\ Ledger
  BY DEF Inv
<1>1. CASE CheckIn \/ Ping \/ CheckOut
  BY <1>1, Queued DEF CheckIn, Ping, CheckOut
<1>2. CASE Kill \/ Midnight \/ UNCHANGED vars
  BY <1>2, Unchanged DEF Kill, Midnight, vars, device, stored
<1>3. ASSUME NEW q \in Requests,
             \/ Send(q) \/ Abort(q) \/ Replies(q) \/ Refuses(q) \/ Goes(q)
             \/ StorePoint(q) \/ InsertCheckIn(q)
      PROVE  Grown
  BY <1>3, Unchanged DEF Send, Abort, Replies, Reply, Refuses, Refuse, Goes, GoTo, StorePoint,
     InsertCheckIn, device, stored
<1>4. ASSUME NEW q \in Requests, CloseSession(q) PROVE Grown
  <2>1. Op(q) \in Ops /\ UNCHANGED <<ops, left, rows>>
    BY <1>4, AtWorkOnOp DEF CloseSession, device, stored
  <2>2. \A op \in Ops : keys[op] # 0 => keys'[op] # 0
    BY <1>4, <2>1 DEF CloseSession, TypeOK
  <2>. QED  BY <2>1, <2>2 DEF Grown
<1>5. ASSUME NEW q \in Requests, Commit(q) PROVE Grown
  <2>1. \A d \in Days : rows[d].in # 0 => rows'[d].in = rows[d].in
    BY <1>5, CommitEffect
  <2>. QED  BY <1>5, <2>1 DEF Commit, Grown
<1>. QED  BY <1>1, <1>2, <1>3, <1>4, <1>5, RequestSteps DEF Next

LEMMA SameOp ==
  ASSUME NEW q \in Requests, tx'[q].todo = tx[q].todo
  PROVE  Op(q)' = Op(q)
  BY DEF Op

\* The rows q sees keep their sessions.
RowsKept(q) == \A d \in Days : Row(q, d).in # 0 => Row(q, d)'.in = Row(q, d).in

LEMMA StillAtWork ==
  ASSUME NEW q \in Requests, RowsKept(q), AtWork(q)
  PROVE  AtWork(q)'
  BY DEF RowsKept, AtWork

\* A request that does not move.
LEMMA StillKnows ==
  ASSUME Inv, Grown, NEW q \in Requests, RowsKept(q), tx'[q] = tx[q]
  PROVE  Progress(q)' /\ Results(q)'
<1>1. Progress(q) /\ Results(q) /\ TypeOK
  BY DEF Inv, RequestsKnow
<1>2. AtWork(q) => AtWork(q)'
  BY StillAtWork
<1>3. tx[q].todo # {} => Op(q) \in DOMAIN ops /\ Op(q)' = Op(q)
  BY <1>1, SameOp, OpIsNext DEF Progress
<1>4. Progress(q)'
  BY <1>1, <1>2, <1>3 DEF Progress, Grown
<1>5. Results(q)'
  <2>1. \A op \in Ops : tx[q].results[op] # "pending" => op \in DOMAIN ops /\ op \in DOMAIN ops'
                                                      /\ ops'[op] = ops[op]
    BY <1>1 DEF Results, Grown
  <2>2. ASSUME NEW op \in Ops, tx[q].results[op] = "applied"
        PROVE  /\ ops'[op] = "in" => \E d \in Days : Row(q, d)'.in = op
               /\ ops'[op] = "out" => op \in tx[q].left \/ keys'[op] # 0
    <3>1. op # 0
      BY Bounds DEF Ops
    <3>. QED  BY <1>1, <2>1, <2>2, <3>1 DEF Results, RowsKept, Grown
  <2>3. \A op \in Ops : tx[q].results[op] = "conflict" /\ ops'[op] = "in" => Backed(q, op)'
    BY <1>1, <2>1 DEF Results, Backed, RowsKept
  <2>4. tx[q].points # {} => AtWork(q)'
    BY <1>1, <1>2 DEF Results
  <2>. QED  BY <2>1, <2>2, <2>3, <2>4 DEF Results
<1>. QED  BY <1>4, <1>5

\* A request that has settled its operation.
LEMMA SettledKnows ==
  ASSUME Inv, NEW q \in Requests, RowsKept(q),
         tx[q].todo # {}, NEW result \in Answers, result # "pending",
         UNCHANGED ops, \A op \in Ops : keys[op] # 0 => keys'[op] # 0,
         tx'[q].pc = "next", tx'[q].todo = tx[q].todo \ {Op(q)},
         tx[q].left \subseteq tx'[q].left,
         tx'[q].points = tx[q].points \/ AtWork(q),
         tx'[q].results = [tx[q].results EXCEPT ![Op(q)] = result],
         result = "applied" =>
             /\ ops[Op(q)] = "in" => \E d \in Days : Row(q, d)'.in = Op(q)
             /\ ops[Op(q)] = "out" => Op(q) \in tx'[q].left \/ keys'[Op(q)] # 0,
         \A op \in Ops : op # Op(q) => tx'[q].on[op] = tx[q].on[op],
         result = "conflict" /\ ops[Op(q)] = "in" =>
             \E d \in Days : Row(q, d)'.in # 0 /\ (d = tx'[q].on[Op(q)] \/ Row(q, d)'.in = Op(q))
  PROVE  Progress(q)' /\ Results(q)'
<1>1. Progress(q) /\ Results(q) /\ TypeOK
  BY DEF Inv, RequestsKnow
<1>2. AtWork(q) => AtWork(q)'
  BY StillAtWork
<1>3. Op(q) \in tx[q].todo /\ Op(q) \in Ops /\ Op(q) \in DOMAIN ops
  BY <1>1, OpIsNext DEF Progress
<1>4. Progress(q)'
  BY <1>1, <1>3 DEF Progress
<1>5. /\ tx'[q].results[Op(q)] = result
      /\ \A op \in Ops : op # Op(q) => tx'[q].results[op] = tx[q].results[op]
  BY <1>1, <1>3 DEF TypeOK, Transactions
<1>6. \A op \in Ops : tx'[q].results[op] # "pending" => op \in DOMAIN ops'
  BY <1>1, <1>3, <1>5 DEF Results
<1>7. ASSUME NEW op \in Ops, tx'[q].results[op] = "applied"
      PROVE  /\ ops'[op] = "in" => \E d \in Days : Row(q, d)'.in = op
             /\ ops'[op] = "out" => op \in tx'[q].left \/ keys'[op] # 0
  <2>1. CASE op = Op(q)
    BY <1>5, <1>7, <2>1
  <2>2. CASE op # Op(q)
    <3>1. op # 0 /\ tx[q].results[op] = "applied"
      BY <1>5, <1>7, <2>2, Bounds DEF Ops
    <3>. QED  BY <1>1, <3>1 DEF Results, RowsKept
  <2>. QED  BY <2>1, <2>2
<1>8. ASSUME NEW op \in Ops, tx'[q].results[op] = "conflict", ops'[op] = "in"
      PROVE  Backed(q, op)'
  <2>1. CASE op = Op(q)
    BY <1>5, <1>8, <2>1 DEF Backed
  <2>2. CASE op # Op(q)
    <3>1. Backed(q, op) /\ tx'[q].on[op] = tx[q].on[op]
      BY <1>1, <1>5, <1>8, <2>2 DEF Results
    <3>. QED  BY <3>1 DEF Backed, RowsKept
  <2>. QED  BY <2>1, <2>2
<1>9. tx'[q].points # {} => AtWork(q)'
  BY <1>1, <1>2 DEF Results
<1>. QED  BY <1>4, <1>6, <1>7, <1>8, <1>9 DEF Results

LEMMA OneKnows ==
  ASSUME Inv, Grown, NEW q \in Requests, Progress(q)' /\ Results(q)',
         \A r \in Requests : r # q => tx'[r] = tx[r] /\ RowsKept(r)
  PROVE  RequestsKnow'
<1>1. ASSUME NEW r \in Requests PROVE Progress(r)' /\ Results(r)'
  BY StillKnows
<1>. QED  BY <1>1 DEF RequestsKnow

LEMMA SeenRows ==
  ASSUME rows' = rows, NEW q \in Requests,
         tx'[q].wrote = tx[q].wrote, tx'[q].draft = tx[q].draft
  PROVE  RowsKept(q) /\ \A d \in Days : Row(q, d)' = Row(q, d)
  BY DEF RowsKept, Row

LEMMA NextRequestsKnow ==
  ASSUME Inv, [Next]_vars
  PROVE  RequestsKnow'
<1>. TypeOK /\ Ledger /\ Grown
  BY NextGrown DEF Inv
<1>1. CASE CheckIn \/ Ping \/ CheckOut \/ Kill \/ Midnight \/ UNCHANGED vars
  <2>1. rows' = rows /\ tx' = tx
    BY <1>1 DEF CheckIn, Ping, CheckOut, Kill, Midnight, Queue, vars, stored
  <2>2. \A q \in Requests : RowsKept(q)
    BY <2>1, SeenRows
  <2>. QED  BY <2>1, <2>2, StillKnows DEF RequestsKnow
<1>2. ASSUME NEW q \in Requests, rows' = rows, \A r \in Requests : r # q => tx'[r] = tx[r]
      PROVE  \A r \in Requests : r # q => tx'[r] = tx[r] /\ RowsKept(r)
  BY <1>2, SeenRows
<1>3. ASSUME NEW q \in Requests, tx'[q] = Idle PROVE Progress(q)' /\ Results(q)'
  BY <1>3 DEF Progress, Results, Idle
<1>4. ASSUME NEW q \in Requests, Send(q) \/ Abort(q) PROVE RequestsKnow'
  <2>1. /\ UNCHANGED <<ops, rows>> /\ \A r \in Requests : r # q => tx'[r] = tx[r]
        /\ \/ tx'[q] = Idle
           \/ tx'[q] = [Idle EXCEPT !.pc = "next", !.todo = Unanswered]
    BY <1>4, FreshEffect DEF device, stored
  <2>2. CASE tx'[q] = [Idle EXCEPT !.pc = "next", !.todo = Unanswered]
    <3>1. /\ tx'[q].pc = "next" /\ tx'[q].todo \subseteq DOMAIN ops'
          /\ tx'[q].points = {} /\ \A op \in Ops : tx'[q].results[op] = "pending"
      BY <2>1, <2>2 DEF Idle, Unanswered
    <3>2. Progress(q)' /\ Results(q)'
      BY <3>1 DEF Progress, Results
    <3>. QED  BY <1>2, <2>1, <3>2, OneKnows
  <2>. QED  BY <1>2, <1>3, <2>1, <2>2, OneKnows
<1>5. ASSUME NEW q \in Requests, Replies(q) PROVE RequestsKnow'
  <2>1. PICK result \in Answers :
          /\ Reply(q, result) /\ tx[q].todo # {} /\ Op(q) \in DOMAIN ops
          /\ result # "pending"
          /\ result = "applied" =>
               /\ ops[Op(q)] = "in" => \E d \in Days : Row(q, d).in = Op(q)
               /\ ops[Op(q)] = "out" => keys[Op(q)] # 0
          /\ result = "conflict" => ops[Op(q)] # "in"
    BY <1>5 DEF Replies
  <2>2. /\ \A r \in Requests : r # q => tx'[r] = tx[r]
        /\ tx'[q].pc = "next" /\ tx'[q].todo = tx[q].todo \ {Op(q)}
        /\ tx'[q].wrote = tx[q].wrote /\ tx'[q].draft = tx[q].draft
        /\ tx'[q].left = tx[q].left /\ tx'[q].points = tx[q].points /\ tx'[q].on = tx[q].on
        /\ tx'[q].results = [tx[q].results EXCEPT ![Op(q)] = result]
        /\ UNCHANGED <<ops, rows, keys>>
    BY <2>1, ReplyMoves DEF device, stored
  <2>3. RowsKept(q) /\ \A d \in Days : Row(q, d)' = Row(q, d)
    BY <2>2, SeenRows
  <2>4. Progress(q)' /\ Results(q)'
    BY <2>1, <2>2, <2>3, SettledKnows
  <2>. QED  BY <1>2, <2>2, <2>4, OneKnows
<1>12. ASSUME NEW q \in Requests, Refuses(q) PROVE RequestsKnow'
  <2>1. PICK d \in Days :
          /\ Refuse(q, d) /\ tx[q].todo # {} /\ Op(q) \in DOMAIN ops
          /\ \E e \in Days : Row(q, e).in # 0 /\ (e = d \/ Row(q, e).in = Op(q))
    BY <1>12 DEF Refuses
  <2>2. /\ \A r \in Requests : r # q => tx'[r] = tx[r]
        /\ tx'[q].pc = "next" /\ tx'[q].todo = tx[q].todo \ {Op(q)}
        /\ tx'[q].wrote = tx[q].wrote /\ tx'[q].draft = tx[q].draft
        /\ tx'[q].left = tx[q].left /\ tx'[q].points = tx[q].points
        /\ tx'[q].on = [tx[q].on EXCEPT ![Op(q)] = d]
        /\ tx'[q].results = [tx[q].results EXCEPT ![Op(q)] = "conflict"]
        /\ UNCHANGED <<ops, rows, keys>>
    BY <2>1, RefuseMoves DEF device, stored
  <2>3. RowsKept(q) /\ \A e \in Days : Row(q, e)' = Row(q, e)
    BY <2>2, SeenRows
  <2>4. /\ tx'[q].on[Op(q)] = d
        /\ \A op \in Ops : op # Op(q) => tx'[q].on[op] = tx[q].on[op]
    BY <2>1, <2>2, OpIsNext DEF TypeOK, Transactions
  <2>5. "conflict" \in Answers
    BY DEF Answers
  <2>6. \E e \in Days : Row(q, e)'.in # 0 /\ (e = tx'[q].on[Op(q)] \/ Row(q, e)'.in = Op(q))
    BY <2>1, <2>3, <2>4
  <2>. DEFINE result == "conflict"
  <2>7. /\ tx[q].left \subseteq tx'[q].left /\ tx'[q].points = tx[q].points
        /\ tx'[q].results = [tx[q].results EXCEPT ![Op(q)] = result]
        /\ \A op \in Ops : keys[op] # 0 => keys'[op] # 0
        /\ result # "pending" /\ result # "applied"
    BY <2>2
  <2>8. Progress(q)' /\ Results(q)'
    BY <2>1, <2>2, <2>3, <2>4, <2>5, <2>6, <2>7, SettledKnows
  <2>. QED  BY <1>2, <2>2, <2>8, OneKnows
<1>6. ASSUME NEW q \in Requests, Goes(q) PROVE RequestsKnow'
  <2>1. /\ UNCHANGED <<ops, rows, keys>>
        /\ \A r \in Requests : r # q => tx'[r] = tx[r]
        /\ tx'[q].wrote = tx[q].wrote /\ tx'[q].draft = tx[q].draft
        /\ tx'[q].todo = tx[q].todo /\ tx'[q].left = tx[q].left
        /\ tx'[q].points = tx[q].points /\ tx'[q].results = tx[q].results
        /\ tx'[q].on = tx[q].on
        /\ \/ tx'[q].pc = "insert" /\ ops[Op(q)] = "in" /\ tx'[q].day \in Days
           \/ tx'[q].pc = "close" /\ ops[Op(q)] = "out" /\ tx'[q].day \in Days
           \/ tx'[q].pc = "store" /\ ops[Op(q)] = "gps" /\ AtWork(q)
    BY <1>6, GoesEffect DEF device, stored
  <2>2. RowsKept(q) /\ \A d \in Days : Row(q, d)' = Row(q, d)
    BY <2>1, SeenRows
  <2>3. tx[q].todo # {} /\ Op(q)' = Op(q)
    BY <1>6, <2>1, SameOp DEF Goes
  <2>4. AtWork(q) => AtWork(q)'
    BY <2>2, StillAtWork
  <2>5. Progress(q) /\ Results(q)
    BY DEF Inv, RequestsKnow
  <2>6. Progress(q)'
    BY <2>1, <2>3, <2>4, <2>5 DEF Progress
  <2>7. Results(q)'
    BY <2>1, <2>2, <2>4, <2>5 DEF Results, Backed
  <2>. QED  BY <1>2, <2>1, <2>6, <2>7, OneKnows
<1>7. ASSUME NEW q \in Requests, StorePoint(q) PROVE RequestsKnow'
  <2>1. /\ ops[Op(q)] = "gps" /\ AtWork(q) /\ rows' = rows
        /\ \A r \in Requests : r # q => tx'[r] = tx[r]
        /\ tx'[q].wrote = tx[q].wrote /\ tx'[q].draft = tx[q].draft
        /\ tx'[q].pc = "next" /\ tx'[q].todo = tx[q].todo \ {Op(q)}
        /\ tx'[q].left = tx[q].left /\ tx'[q].on = tx[q].on
        /\ tx'[q].results = [tx[q].results EXCEPT ![Op(q)] = "applied"]
    BY <1>7, StoreEffect
  <2>2. /\ tx[q].todo # {} /\ UNCHANGED <<ops, keys>> /\ "applied" \in Answers
    BY <1>7, AtWorkOnOp DEF StorePoint, device, Answers
  <2>3. RowsKept(q)
    BY <2>1, SeenRows
  <2>4. Progress(q)' /\ Results(q)'
    BY <2>1, <2>2, <2>3, SettledKnows
  <2>. QED  BY <1>2, <2>1, <2>4, OneKnows
<1>8. ASSUME NEW q \in Requests, NEW d \in Days, NEW row \in Rows,
             MayWrite(q, d, row), Writes(q, d, row)
      PROVE  /\ rows' = rows /\ \A r \in Requests : r # q => tx'[r] = tx[r]
             /\ RowsKept(q) /\ Row(q, d)' = row
  BY <1>8, WrittenRow DEF MayWrite, Writes, RowsKept
<1>9. ASSUME NEW q \in Requests, InsertCheckIn(q) PROVE RequestsKnow'
  <2>. DEFINE drawn == tx[q].day
              row == [id |-> ids + 1, in |-> Op(q), out |-> 0]
  <2>1. /\ drawn \in Days /\ row \in Rows /\ ops[Op(q)] = "in"
        /\ MayWrite(q, drawn, row) /\ Writes(q, drawn, row)
        /\ tx'[q].pc = "next" /\ tx'[q].todo = tx[q].todo \ {Op(q)}
        /\ tx'[q].left = tx[q].left /\ tx'[q].points = tx[q].points /\ tx'[q].on = tx[q].on
        /\ tx'[q].results = [tx[q].results EXCEPT ![Op(q)] = "applied"]
    BY <1>9, InsertEffect
  <2>2. row.in = Op(q)
    OBVIOUS
  <2>. HIDE DEF drawn, row
  <2>3. PICK e \in Days : e = drawn
    BY <2>1
  <2>4. MayWrite(q, e, row) /\ Writes(q, e, row)
    BY <2>1, <2>3
  <2>5. /\ rows' = rows /\ \A r \in Requests : r # q => tx'[r] = tx[r]
        /\ RowsKept(q) /\ Row(q, e)' = row
    BY <1>8, <2>1, <2>4
  <2>6. /\ rows' = rows /\ \A r \in Requests : r # q => tx'[r] = tx[r]
        /\ RowsKept(q) /\ \E d \in Days : Row(q, d)'.in = Op(q)
        /\ ops[Op(q)] = "in"
        /\ tx'[q].pc = "next" /\ tx'[q].todo = tx[q].todo \ {Op(q)}
        /\ tx'[q].left = tx[q].left /\ tx'[q].points = tx[q].points /\ tx'[q].on = tx[q].on
        /\ tx'[q].results = [tx[q].results EXCEPT ![Op(q)] = "applied"]
    BY <2>1, <2>2, <2>5
  <2>7. /\ tx[q].todo # {} /\ UNCHANGED <<ops, keys>> /\ "applied" \in Answers
    BY <1>9, AtWorkOnOp DEF InsertCheckIn, device, Answers
  <2>8. Progress(q)' /\ Results(q)'
    BY <2>6, <2>7, SettledKnows
  <2>. QED  BY <1>2, <2>6, <2>8, OneKnows
<1>10. ASSUME NEW q \in Requests, CloseSession(q) PROVE RequestsKnow'
  <2>1. /\ rows' = rows /\ \A r \in Requests : r # q => tx'[r] = tx[r]
        /\ RowsKept(q) /\ ops[Op(q)] = "out"
        /\ tx'[q].pc = "next" /\ tx'[q].todo = tx[q].todo \ {Op(q)}
        /\ tx'[q].left = tx[q].left \cup {Op(q)} /\ tx'[q].points = tx[q].points /\ tx'[q].on = tx[q].on
        /\ tx'[q].results = [tx[q].results EXCEPT ![Op(q)] = "applied"]
    BY <1>8, <1>10, CloseEffect
  <2>2. /\ tx[q].todo # {} /\ UNCHANGED ops /\ "applied" \in Answers
        /\ \A op \in Ops : keys[op] # 0 => keys'[op] # 0
    BY <1>10, AtWorkOnOp DEF CloseSession, device, Answers, Grown
  <2>3. Progress(q)' /\ Results(q)'
    BY <2>1, <2>2, SettledKnows
  <2>. QED  BY <1>2, <2>1, <2>3, OneKnows
<1>11. ASSUME NEW q \in Requests, Commit(q) PROVE RequestsKnow'
  <2>1. /\ tx'[q] = Idle /\ \A r \in Requests : r # q => tx'[r] = tx[r] /\ RowsKept(r)
    BY <1>11, CommitEffect DEF RowsKept
  <2>. QED  BY <1>3, <2>1, OneKnows
<1>. QED  BY <1>1, <1>4, <1>5, <1>6, <1>7, <1>9, <1>10, <1>11, <1>12,
             RequestSteps DEF Next

LEMMA NextCommitted ==
  ASSUME Inv, [Next]_vars
  PROVE  Committed'
<1>. TypeOK /\ Ledger /\ Ledger' /\ Grown /\ Committed
  BY NextGrown, NextLedger DEF Inv
<1>1. (\E d \in Days : rows[d].id # 0) => \E d \in Days : rows'[d].id # 0
  BY DEF Ledger, Grown, Sound
<1>2. DOMAIN ops \subseteq Ops /\ 0 \notin Ops
  BY Bounds DEF TypeOK, Ops
<1>7. ASSUME NEW d \in Days, rows[d].id # 0
      PROVE  rows'[d].id # 0 /\ rows'[d].in = rows[d].in
  <2>1. rows[d].in # 0 /\ Sound(rows'[d])
    BY <1>7 DEF Ledger, Sound
  <2>. QED  BY <2>1 DEF Grown, Sound
<1>3. ASSUME answer' = answer, refused' = refused, points' = points PROVE Committed'
  <2>1. \A op \in Ops : answer[op] # "pending" => /\ op \in DOMAIN ops /\ op \in DOMAIN ops'
                                                  /\ ops'[op] = ops[op]
    BY DEF Committed, Grown
  <2>2. \A op \in DOMAIN ops' : op \in Ops
    <3>1. TypeOK'
      BY NextShapes
    <3>2. ops' \in Seq({"in", "out", "gps"}) /\ Len(ops') <= MaxOps
      BY <3>1 DEF TypeOK
    <3>3. Len(ops') \in Nat /\ DOMAIN ops' = 1..Len(ops')
      BY <3>2
    <3>. QED  BY <3>2, <3>3, Bounds DEF Ops
  <2>3. AcksAreRecorded'
    BY <1>2, <1>3, <2>1, <2>2 DEF AcksAreRecorded, Committed, Grown
  <2>4. RefusedForASession'
    BY <1>2, <1>3, <1>7, <2>1, <2>2 DEF RefusedForASession, Committed
  <2>5. StoredAtWork'
    BY <1>1, <1>3 DEF StoredAtWork, Committed
  <2>. QED  BY <1>3, <2>1, <2>3, <2>4, <2>5 DEF Committed
<1>4. CASE CheckIn \/ Ping \/ CheckOut \/ Kill \/ Midnight \/ UNCHANGED vars
  BY <1>3, <1>4 DEF CheckIn, Ping, CheckOut, Kill, Midnight, Queue, vars, device, stored
<1>5. ASSUME NEW q \in Requests,
             \/ Send(q) \/ Abort(q) \/ Replies(q) \/ Refuses(q) \/ Goes(q)
             \/ StorePoint(q) \/ InsertCheckIn(q) \/ CloseSession(q)
      PROVE  Committed'
  BY <1>3, <1>5 DEF Send, Abort, Replies, Reply, Refuses, Refuse, Goes, GoTo, StorePoint,
     InsertCheckIn, CloseSession, device, stored
<1>6. ASSUME NEW q \in Requests, Commit(q) PROVE Committed'
  <2>1. Results(q) /\ tx[q].results \in [Ops -> Answers]
    BY DEF Inv, RequestsKnow, TypeOK, Transactions
  <2>2. /\ ops' = ops /\ keys' = keys /\ left' = left \cup tx[q].left
        /\ points' = points \cup tx[q].points
        /\ \A d \in Days : rows'[d] = Row(q, d)
    BY <1>6 DEF Commit
  <2>3. AtWork(q) => \E d \in Days : rows'[d].id # 0
    BY <2>2 DEF AtWork, Ledger, Sound
  <2>4. \A op \in Ops : \/ answer'[op] = answer[op]
                        \/ answer'[op] = tx[q].results[op] /\ tx[q].results[op] # "pending"
    BY <1>6 DEF Commit, Heard, TypeOK
  <2>5. \A op \in Ops : answer'[op] # "pending" => op \in DOMAIN ops'
    BY <2>1, <2>2, <2>4 DEF Committed, Results
  <2>6. ASSUME NEW op \in DOMAIN ops, answer'[op] = "applied"
        PROVE  /\ ops[op] = "in" => \E d \in Days : rows'[d].in = op
               /\ ops[op] = "out" => op \in left' \/ keys'[op] # 0
    <3>1. CASE answer'[op] = answer[op]
      BY <1>2, <2>2, <2>6, <3>1 DEF Committed, AcksAreRecorded, Grown
    <3>2. CASE tx[q].results[op] = "applied"
      BY <1>2, <2>1, <2>2, <3>2 DEF Results
    <3>. QED  BY <1>2, <2>4, <2>6, <3>1, <3>2
  <2>7. ASSUME NEW op \in DOMAIN ops, ops[op] = "in", answer'[op] = "conflict"
        PROVE  \E d \in Days : rows'[d].id # 0 /\ (d = refused'[op] \/ rows'[d].in = op)
    <3>1. CASE answer'[op] = answer[op] /\ refused'[op] = refused[op]
      BY <1>7, <2>7, <3>1 DEF Committed, RefusedForASession
    <3>2. CASE tx[q].results[op] = "conflict" /\ refused'[op] = tx[q].on[op]
      <4>1. PICK d \in Days : Row(q, d).in # 0 /\ (d = tx[q].on[op] \/ Row(q, d).in = op)
        BY <1>2, <2>1, <2>7, <3>2 DEF Results, Backed
      <4>2. rows'[d] = Row(q, d) /\ rows'[d].id # 0
        BY <2>2, <4>1 DEF Ledger, Sound
      <4>. QED  BY <3>2, <4>1, <4>2
    <3>3. op \in Ops
      BY <1>2, <2>7
    <3>. QED  BY <1>6, <2>7, <3>1, <3>2, <3>3 DEF Commit, Heard, TypeOK
  <2>8. StoredAtWork'
    BY <1>1, <2>1, <2>2, <2>3 DEF StoredAtWork, Committed, Results
  <2>. QED  BY <2>2, <2>5, <2>6, <2>7, <2>8 DEF Committed, AcksAreRecorded, RefusedForASession
<1>. QED  BY <1>4, <1>5, <1>6, RequestSteps DEF Next

-----------------------------------------------------------------------------

LEMMA NextInv == Inv /\ [Next]_vars => Inv'
  BY NextShapes, NextLedger, NextRequestsKnow, NextCommitted DEF Inv

THEOREM Invariance == Spec => []Inv
  BY InitInv, NextInv, PTL DEF Spec

\* The state keeps its shape.
THEOREM TypeCorrect == Spec => []TypeOK
  BY Invariance, PTL DEF Inv

\* The phone holds an operation for applied only if the server has recorded
\* it, or a key says so.
THEOREM AcksRecorded == Spec => []AcksAreRecorded
<1>1. Inv => AcksAreRecorded
  BY DEF Inv, Committed
<1>. QED  BY <1>1, Invariance, PTL

\* One check-in opens one session.
THEOREM SessionsAreSingle == Spec => []OneSessionPerCheckIn
<1>1. Inv => OneSessionPerCheckIn
  BY DEF Inv, Ledger, OneSessionPerCheckIn
<1>. QED  BY <1>1, Invariance, PTL

\* A check-in is refused for the sake of a committed session: of the day it was
\* refused for, or its own.
THEOREM RefusalsAreBacked == Spec => []RefusedForASession
<1>1. Inv => RefusedForASession
  BY DEF Inv, Committed
<1>. QED  BY <1>1, Invariance, PTL

\* A position is committed only for a user who has been at work.
THEOREM PositionsAtWork == Spec => []StoredAtWork
<1>1. Inv => StoredAtWork
  BY DEF Inv, Committed
<1>. QED  BY <1>1, Invariance, PTL
==============================================================================
