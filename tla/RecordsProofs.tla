------------------------------ MODULE RecordsProofs ------------------------------
(***************************************************************************)
(* Proofs about Records for every set of sessions, rows, keys and dates,   *)
(* and for each kind of table.                                             *)
(***************************************************************************)
EXTENDS Records, SequenceTheorems, TLAPS

-----------------------------------------------------------------------------
(* The inductive invariant *)

Making(s)  == tx[s].pc \in {"insert", "commit"}
Writing(s) == tx[s].pc = "write"
Pricing(s) == tx[s].pc \in {"price", "reprice"}

\* The row of a creation is not there yet, and Redis names its id only for
\* the client_uuid of the row.
MakeOK(s) ==
    LET t == tx[s] IN
    Making(s) =>
        /\ rows[t.id].state = "absent"
        /\ t.row.state = "live" /\ t.row.version = 1
        /\ t.save => t.row.uuid # None
        /\ \A u \in Uuids : redis[u] = t.id => t.pc = "commit" /\ t.row.uuid = u

\* What the author of a versioned edit saw was once the content of the row.
Informed(s) ==
    LET t == tx[s] IN
    /\ t.before.version \in 1..Len(edits[t.id])
    /\ Seen(t.before) = edits[t.id][t.before.version].after
    /\ t.edit => t.after.version = t.before.version + 1
    /\ ~t.edit => t.after.version = t.before.version /\ Seen(t.after) = Seen(t.before)

WriteOK(s) ==
    LET t == tx[s] IN
    Writing(s) =>
        /\ rows[t.id].state # "absent"
        /\ t.before.state = "live" /\ t.after.state \in {"live", "deleted"}
        /\ t.after.uuid = t.before.uuid
        /\ t.edit /\ kind \in {"product", "contract", "promo", "user"} =>
            t.after.side = t.before.side
        /\ t.edit /\ ~t.named => t.after.link = t.before.link
        /\ kind \in Guarded => Informed(s)

\* A new price is open, and a price found under its lock is the open one.
PriceOK(s) ==
    LET t == tx[s] IN
    /\ Pricing(s) => t.new.to = None
    /\ t.pc = "reprice" => t.found \in OpenPrices \cup {None}

SessionOK(s) == MakeOK(s) /\ WriteOK(s) /\ PriceOK(s)

\* Two sessions make different rows and lock different prices.
Apart(s, t) ==
    /\ Making(s) /\ Making(t) => tx[s].id # tx[t].id
    /\ tx[s].pc = "reprice" /\ tx[t].pc = "reprice" /\ tx[s].found # None =>
        tx[s].found # tx[t].found

SessionsOK ==
    /\ \A s \in Sessions : SessionOK(s)
    /\ \A s, t \in Sessions : s # t => Apart(s, t)

\* A row of a guarded table has a history of edits once it is there.
Made ==
    kind \in Guarded => \A i \in Ids : Len(edits[i]) > 0 <=> rows[i].state # "absent"

\* What Redis names, once it is there, is what was asked for.
Named ==
    \A u \in Uuids : redis[u] # None /\ rows[redis[u]].state # "absent" =>
        rows[redis[u]].uuid = u

Opened == history = <<>> => OpenPrices = {}

Inv ==
    /\ TypeOK /\ SessionsOK /\ Made /\ EditsAreSerial
    /\ Named /\ AnswersNameTheirRow /\ Opened /\ HistoryIsAChain

EditRows == [version : Nat, before : Contents, after : Contents]

PriceChanges == [old : Nat, new : Amounts]

-----------------------------------------------------------------------------
(* Lemmas *)

LEMMA AbsentShape ==
  ASSUME kind \in Kinds
  PROVE  /\ Absent \in Rows /\ Absent.state = "absent" /\ Absent.side = "on"
         /\ Absent.link = "on"
         /\ Absent.key = None /\ Absent.from \in Days /\ Absent.to \in Days
         /\ Absent.status = "new"
<1>1. (CHOOSE d \in Days : TRUE) \in Days
  BY ConstantsAssumption
<1>. QED  BY <1>1 DEF Absent, Rows, Sides, TicketStatuses

LEMMA NewShape ==
  ASSUME kind \in Kinds, NEW u \in Uuids \cup {None}
  PROVE  New(u) \in Rows /\ New(u).state = "live" /\ New(u).version = 1
  BY AbsentShape DEF New, Rows

LEMMA TxShape ==
  ASSUME TypeOK, NEW s \in Sessions
  PROVE  /\ Making(s) => tx[s] \in
                [pc : {"insert", "commit"}, id : Ids, row : Rows, save : BOOLEAN]
         /\ Writing(s) => tx[s] \in
                [pc : {"write"}, id : Ids, before : Rows, after : Rows, edit : BOOLEAN,
                 named : BOOLEAN]
         /\ Pricing(s) => tx[s] \in
                [pc : {"price", "reprice"}, found : PriceRows \cup {None}, new : PriceRows]
<1>1. tx[s] \in Transactions
  BY DEF TypeOK
<1>. QED  BY <1>1 DEF Transactions, Idle, Making, Writing, Pricing

LEMMA SeenShape ==
  ASSUME NEW r \in Rows
  PROVE  Seen(r) \in Contents
  BY DEF Rows, Contents, Seen

\* What an edit may make of a row.
LEMMA EditedShape ==
  ASSUME kind \in Kinds, NEW b \in Rows, NEW r \in Edited(b)
  PROVE  /\ r \in Rows /\ r.state = b.state /\ r.uuid = b.uuid /\ r.version = b.version
         /\ kind \in {"product", "contract", "promo", "user"} => r.side = b.side
<1>1. NextStatus[b.status] \subseteq TicketStatuses
  BY DEF Rows, TicketStatuses, NextStatus
<1>2. kind \in {"product", "contract", "promo", "user"} => "side" \notin Editable
  BY DEF Editable
<1>3. r \in [state : {b.state}, version : {b.version}, uuid : {b.uuid},
            key : IF "key" \in Editable THEN Keys ELSE {b.key},
            from : IF "from" \in Editable THEN Days ELSE {b.from},
            to : IF "to" \in Editable THEN Days ELSE {b.to},
            side : IF "side" \in Editable THEN Sides ELSE {b.side},
            link : IF "link" \in Editable THEN Sides ELSE {b.link},
            status : IF kind = "ticket" THEN NextStatus[b.status] ELSE {b.status}]
  BY DEF Edited
<1>. QED  BY <1>1, <1>2, <1>3 DEF Rows

\* The columns of a row after the UPDATE.
LEMMA WrittenShape ==
  ASSUME TypeOK, NEW s \in Sessions, Writing(s), NEW old \in Rows
  PROVE  /\ Written(s, old) \in Rows
         /\ Written(s, old) =
             [state |-> IF tx[s].after.state # tx[s].before.state
                        THEN tx[s].after.state ELSE old.state,
              version |-> IF tx[s].after.version # tx[s].before.version
                          THEN tx[s].after.version ELSE old.version,
              uuid |-> IF tx[s].after.uuid # tx[s].before.uuid
                       THEN tx[s].after.uuid ELSE old.uuid,
              key |-> IF tx[s].after.key # tx[s].before.key
                      THEN tx[s].after.key ELSE old.key,
              from |-> IF tx[s].after.from # tx[s].before.from
                       THEN tx[s].after.from ELSE old.from,
              to |-> IF tx[s].after.to # tx[s].before.to
                     THEN tx[s].after.to ELSE old.to,
              side |-> IF tx[s].after.side # tx[s].before.side
                       THEN tx[s].after.side ELSE old.side,
              link |-> IF tx[s].after.link # tx[s].before.link \/ tx[s].named
                       THEN tx[s].after.link ELSE old.link,
              status |-> IF tx[s].after.status # tx[s].before.status
                         THEN tx[s].after.status ELSE old.status]
<1>1. tx[s].before \in Rows /\ tx[s].after \in Rows
  BY TxShape
<1>. QED  BY <1>1 DEF Written, Rows

LEMMA InitInv == Init => Inv
<1>. SUFFICES ASSUME Init PROVE Inv
  OBVIOUS
<1>1. Absent \in Rows /\ Absent.state = "absent"
  BY AbsentShape DEF Init
<1>2. TypeOK
  <2>1. <<>> \in Seq(EditRows) /\ <<>> \in Seq(PriceChanges)
    BY EmptySeq
  <2>2. Idle \in Transactions
    BY DEF Transactions
  <2>. QED  BY <1>1, <2>1, <2>2 DEF Init, TypeOK, EditRows, PriceChanges
<1>3. \A s \in Sessions : tx[s].pc = "idle"
  BY DEF Init, Idle
<1>4. SessionsOK
  BY <1>3 DEF SessionsOK, SessionOK, MakeOK, WriteOK, PriceOK, Apart, Making, Writing,
     Pricing
<1>5. Made /\ EditsAreSerial
  BY <1>1, EmptySeq DEF Init, Made, EditsAreSerial
<1>6. Named /\ AnswersNameTheirRow /\ Opened /\ HistoryIsAChain
  BY EmptySeq, LenProperties DEF Init, Named, AnswersNameTheirRow, Opened, OpenPrices,
     HistoryIsAChain
<1>. QED  BY <1>2, <1>4, <1>5, <1>6 DEF Inv

\* A step that publishes nothing: one session goes from one place to another.
LEMMA OwnStep ==
  ASSUME Inv, NEW s \in Sessions, NEW t \in Transactions, tx' = [tx EXCEPT ![s] = t],
         UNCHANGED <<kind, rows, edits, redis, prices, history>>,
         answered' \subseteq Uuids \X Ids, AnswersNameTheirRow',
         SessionOK(s)', \A r \in Sessions \ {s} : Apart(s, r)'
  PROVE  Inv'
<1>1. TypeOK'
  BY DEF Inv, TypeOK, Rows, Keys, Transactions, Contents
<1>2. \A r \in Sessions \ {s} : tx'[r] = tx[r]
  BY DEF Inv, TypeOK
<1>3. ASSUME NEW r \in Sessions \ {s} PROVE SessionOK(r)'
  <2>1. SessionOK(r) /\ tx'[r] = tx[r]
    BY <1>2 DEF Inv, SessionsOK
  <2>. QED  BY <2>1 DEF SessionOK, MakeOK, WriteOK, PriceOK, Informed, Making, Writing,
       Pricing, OpenPrices
<1>4. ASSUME NEW q \in Sessions, NEW r \in Sessions, q # r PROVE Apart(q, r)'
  <2>1. CASE q = s
    BY <1>4, <2>1
  <2>2. CASE r = s
    <3>1. Apart(s, q)'
      BY <1>4, <2>2
    <3>. QED  BY <2>2, <3>1 DEF Apart, Making
  <2>3. CASE q # s /\ r # s
    <3>1. Apart(q, r) /\ tx'[q] = tx[q] /\ tx'[r] = tx[r]
      BY <1>2, <1>4, <2>3 DEF Inv, SessionsOK
    <3>. QED  BY <3>1 DEF Apart, Making
  <2>. QED  BY <2>1, <2>2, <2>3
<1>5. SessionsOK'
  BY <1>3, <1>4 DEF SessionsOK
<1>6. Made' /\ EditsAreSerial' /\ Named' /\ Opened' /\ HistoryIsAChain'
  BY DEF Inv, Made, EditsAreSerial, Named, Opened, HistoryIsAChain, OpenPrices
<1>. QED  BY <1>1, <1>5, <1>6 DEF Inv

LEMMA AnswersKept ==
  ASSUME AnswersNameTheirRow, UNCHANGED <<rows, answered>>
  PROVE  AnswersNameTheirRow'
  BY DEF AnswersNameTheirRow

\* A transaction that ends without a commit.
LEMMA EndInv ==
  ASSUME Inv, NEW s \in Sessions, tx' = [tx EXCEPT ![s] = Idle],
         UNCHANGED <<kind, rows, edits, redis, prices, history>>,
         answered' \subseteq Uuids \X Ids, AnswersNameTheirRow'
  PROVE  Inv'
<1>1. Idle \in Transactions
  BY DEF Transactions
<1>2. tx'[s].pc = "idle"
  BY DEF Inv, TypeOK, Idle
<1>3. SessionOK(s)' /\ \A r \in Sessions \ {s} : Apart(s, r)'
  BY <1>2 DEF SessionOK, MakeOK, WriteOK, PriceOK, Apart, Making, Writing, Pricing
<1>. QED  BY <1>1, <1>3, OwnStep

-----------------------------------------------------------------------------
(* Creations *)

LEMMA CreateInv ==
  ASSUME Inv, NEW s \in Sessions, NEW r \in Rows, r.state = "live", r.version = 1,
         Create(s, r)
  PROVE  Inv'
<1>1. CASE CreateAgain(s, r)
  <2>1. /\ answered' = answered \cup {<<r.uuid, redis[r.uuid]>>}
        /\ UNCHANGED <<kind, rows, edits, redis, prices, history, tx>>
        /\ r.uuid # None /\ redis[r.uuid] # None
        /\ rows[redis[r.uuid]].state \in {"live", "deleted"}
    BY <1>1 DEF CreateAgain, Remembers
  <2>2. r.uuid \in Uuids /\ redis[r.uuid] \in Ids
    BY <2>1 DEF Rows, Inv, TypeOK
  <2>3. rows[redis[r.uuid]].uuid = r.uuid
    BY <2>1, <2>2 DEF Inv, Named
  <2>4. answered' \subseteq Uuids \X Ids
    BY <2>1, <2>2 DEF Inv, TypeOK
  <2>5. AnswersNameTheirRow'
    BY <2>1, <2>2, <2>3 DEF Inv, AnswersNameTheirRow
  <2>6. tx' = [tx EXCEPT ![s] = tx[s]] /\ tx[s] \in Transactions
    BY <2>1 DEF Inv, TypeOK
  <2>7. SessionOK(s)' /\ \A q \in Sessions \ {s} : Apart(s, q)'
    <3>1. SessionOK(s) /\ \A q \in Sessions \ {s} : Apart(s, q)
      BY DEF Inv, SessionsOK
    <3>. QED  BY <2>1, <3>1 DEF SessionOK, MakeOK, WriteOK, PriceOK, Informed, Making,
         Writing, Pricing, OpenPrices, Apart
  <2>. QED  BY <2>1, <2>4, <2>5, <2>6, <2>7, OwnStep
<1>2. CASE BeginCreate(s, r)
  <2>1. PICK i \in Ids, save \in BOOLEAN :
          /\ Unclaimed(i)
          /\ save => kind \in HaveRedis /\ r.uuid # None /\ ~Remembers(r.uuid)
          /\ tx' = [tx EXCEPT ![s] =
                [pc |-> "insert", id |-> i, row |-> r, save |-> save]]
    BY <1>2 DEF BeginCreate
  <2>2. UNCHANGED <<kind, rows, edits, redis, answered, prices, history>>
    BY <1>2 DEF BeginCreate
  <2> DEFINE t == [pc |-> "insert", id |-> i, row |-> r, save |-> save]
  <2>3. t \in Transactions
    BY DEF Transactions
  <2>4. tx'[s] = t /\ \A q \in Sessions \ {s} : tx'[q] = tx[q]
    BY <2>1 DEF Inv, TypeOK
  <2>5. SessionOK(s)'
    BY <2>1, <2>2, <2>4 DEF SessionOK, MakeOK, WriteOK, PriceOK, Making, Writing,
       Pricing, Unclaimed
  <2>6. \A q \in Sessions \ {s} : Apart(s, q)'
    BY <2>1, <2>4 DEF Apart, Making, Unclaimed
  <2>7. answered' \subseteq Uuids \X Ids /\ AnswersNameTheirRow'
    BY <2>2, AnswersKept DEF Inv, TypeOK
  <2>. QED  BY <2>1, <2>2, <2>3, <2>5, <2>6, <2>7, OwnStep
<1>. QED  BY <1>1, <1>2 DEF Create

LEMMA CreationsInv ==
  ASSUME Inv, NEW s \in Sessions,
         \/ CreateProduct(s) \/ CreateStore(s) \/ CreateContract(s)
         \/ CreatePromo(s) \/ CreateUser(s) \/ CreateBranch(s)
         \/ CreateTicket(s) \/ CreateEnterprise(s)
         \/ CreatePlatformStore(s) \/ CreateCategory(s) \/ CreateTemplate(s)
         \/ CreateSegment(s) \/ ApproveEntry(s) \/ CreateBanner(s)
  PROVE  Inv'
<1>1. \E u \in Uuids \cup {None} : \E k \in Keys \cup {None} : \E d \in Days : \E e \in Days :
        \/ Create(s, New(u))
        \/ Create(s, [New(u) EXCEPT !.key = k])
        \/ Create(s, [New(u) EXCEPT !.key = k, !.from = d, !.to = e])
        \/ Create(s, [New(u) EXCEPT !.from = d, !.to = e])
  BY ConstantsAssumption
  DEF CreateProduct, CreateStore, CreateContract, CreatePromo, CreateUser, CreateBranch,
      CreateTicket, CreateEnterprise, CreatePlatformStore, CreateCategory, CreateTemplate,
      CreateSegment, ApproveEntry, CreateBanner, MaybeUuid
<1>2. PICK u \in Uuids \cup {None}, k \in Keys \cup {None}, d \in Days, e \in Days :
        \/ Create(s, New(u))
        \/ Create(s, [New(u) EXCEPT !.key = k])
        \/ Create(s, [New(u) EXCEPT !.key = k, !.from = d, !.to = e])
        \/ Create(s, [New(u) EXCEPT !.from = d, !.to = e])
  BY <1>1
<1>3. New(u) \in Rows /\ New(u).state = "live" /\ New(u).version = 1
  BY NewShape DEF Inv, TypeOK
<1> DEFINE a == [New(u) EXCEPT !.key = k]
           b == [New(u) EXCEPT !.key = k, !.from = d, !.to = e]
           c == [New(u) EXCEPT !.from = d, !.to = e]
<1>4. /\ a \in Rows /\ a.state = "live" /\ a.version = 1
      /\ b \in Rows /\ b.state = "live" /\ b.version = 1
      /\ c \in Rows /\ c.state = "live" /\ c.version = 1
  BY <1>3 DEF Rows
<1>5. Create(s, New(u)) \/ Create(s, a) \/ Create(s, b) \/ Create(s, c)
  BY <1>2
<1>. HIDE DEF a, b, c
<1>. QED  BY <1>3, <1>4, <1>5, CreateInv

LEMMA InsertInv ==
  ASSUME Inv, NEW s \in Sessions, InsertRow(s)
  PROVE  Inv'
<1> DEFINE t == [tx[s] EXCEPT !.pc = "commit"]
<1>1. /\ tx[s].pc = "insert" /\ tx' = [tx EXCEPT ![s] = t]
      /\ redis' = IF tx[s].save THEN Remember(tx[s].row.uuid, tx[s].id) ELSE redis
      /\ UNCHANGED <<kind, rows, edits, answered, prices, history>>
  BY DEF InsertRow
<1>2. /\ Making(s) /\ MakeOK(s)
      /\ tx[s] \in [pc : {"insert", "commit"}, id : Ids, row : Rows, save : BOOLEAN]
  BY <1>1, TxShape DEF Making, Inv, SessionsOK, SessionOK
<1>3. /\ t \in Transactions /\ t.pc = "commit" /\ t.id = tx[s].id /\ t.row = tx[s].row
      /\ t.save = tx[s].save
  BY <1>2 DEF Transactions
<1>4. tx'[s] = t /\ \A r \in Sessions \ {s} : tx'[r] = tx[r]
  BY <1>1 DEF Inv, TypeOK
<1>5. \/ redis' = redis
      \/ /\ tx[s].row.uuid \in Uuids
         /\ redis' = [redis EXCEPT ![tx[s].row.uuid] = tx[s].id]
  BY <1>1, <1>2 DEF Remember, MakeOK, Rows
<1>6. redis' \in [Uuids -> Ids \cup {None}]
  BY <1>2, <1>5 DEF Inv, TypeOK
<1>7. \A u \in Uuids : \/ redis'[u] = redis[u]
                       \/ redis'[u] = tx[s].id /\ tx[s].row.uuid = u
  BY <1>5 DEF Inv, TypeOK
<1>8. TypeOK'
  BY <1>1, <1>3, <1>6 DEF Inv, TypeOK, Rows, Keys, Transactions, Contents
<1>. HIDE DEF t
<1>9. SessionOK(s)'
  <2>1. MakeOK(s)'
    BY <1>1, <1>2, <1>3, <1>4, <1>7 DEF MakeOK, Making
  <2>. QED  BY <1>3, <1>4, <2>1 DEF SessionOK, WriteOK, PriceOK, Writing, Pricing
<1>10. ASSUME NEW r \in Sessions \ {s} PROVE SessionOK(r)' /\ Apart(s, r)' /\ Apart(r, s)'
  <2>1. SessionOK(r) /\ tx'[r] = tx[r] /\ Apart(s, r) /\ Apart(r, s)
    BY <1>4 DEF Inv, SessionsOK
  <2>2. MakeOK(r)'
    BY <1>1, <1>2, <1>7, <2>1 DEF SessionOK, MakeOK, Making, Apart
  <2>3. WriteOK(r)' /\ PriceOK(r)'
    BY <1>1, <2>1 DEF SessionOK, WriteOK, PriceOK, Informed, Writing, Pricing, OpenPrices
  <2>4. Apart(s, r)' /\ Apart(r, s)'
    BY <1>2, <1>3, <1>4, <2>1 DEF Apart, Making
  <2>. QED  BY <2>2, <2>3, <2>4 DEF SessionOK
<1>11. ASSUME NEW q \in Sessions \ {s}, NEW r \in Sessions \ {s}, q # r PROVE Apart(q, r)'
  <2>1. Apart(q, r) /\ tx'[q] = tx[q] /\ tx'[r] = tx[r]
    BY <1>4, <1>11 DEF Inv, SessionsOK
  <2>. QED  BY <2>1 DEF Apart, Making
<1>12. SessionsOK'
  BY <1>9, <1>10, <1>11 DEF SessionsOK
<1>13. Named'
  BY <1>1, <1>2, <1>7 DEF Inv, Named, MakeOK
<1>14. /\ Made' /\ EditsAreSerial' /\ AnswersNameTheirRow' /\ Opened' /\ HistoryIsAChain'
  BY <1>1 DEF Inv, Made, EditsAreSerial, AnswersNameTheirRow, Opened, HistoryIsAChain,
     OpenPrices
<1>. QED  BY <1>8, <1>12, <1>13, <1>14 DEF Inv

LEMMA AnswerInv ==
  ASSUME Inv, NEW s \in Sessions, AnswerExisting(s)
  PROVE  Inv'
<1>1. PICK j \in Ids :
        /\ rows[j].uuid = tx[s].row.uuid /\ rows[j].state = "live"
        /\ answered' = answered \cup {<<tx[s].row.uuid, j>>}
  BY DEF AnswerExisting
<1>2. /\ tx[s].pc = "insert" /\ UuidTaken(tx[s].row.uuid) /\ tx' = [tx EXCEPT ![s] = Idle]
      /\ UNCHANGED <<kind, rows, edits, redis, prices, history>>
  BY DEF AnswerExisting
<1>3. tx[s].row.uuid \in Uuids
  <2>1. Making(s)
    BY <1>2 DEF Making
  <2>2. tx[s].row \in Rows
    BY <2>1, TxShape DEF Inv
  <2>. QED  BY <1>2, <2>2 DEF Rows, UuidTaken
<1>4. answered' \subseteq Uuids \X Ids
  BY <1>1, <1>3 DEF Inv, TypeOK
<1>5. AnswersNameTheirRow'
  BY <1>1, <1>2 DEF Inv, AnswersNameTheirRow
<1>. QED  BY <1>2, <1>4, <1>5, EndInv

LEMMA AbortInv ==
  ASSUME Inv, NEW s \in Sessions, Abort(s)
  PROVE  Inv'
<1>1. /\ tx' = [tx EXCEPT ![s] = Idle]
      /\ UNCHANGED <<kind, rows, edits, redis, answered, prices, history>>
  BY DEF Abort
<1>. QED  BY <1>1, AnswersKept, EndInv DEF Inv, TypeOK

LEMMA CommitCreateInv ==
  ASSUME Inv, NEW s \in Sessions, CommitCreate(s)
  PROVE  Inv'
<1> DEFINE i == tx[s].id
           r == tx[s].row
           e == [version |-> 1, before |-> Seen(r), after |-> Seen(r)]
<1>1. /\ tx[s].pc = "commit"
      /\ rows' = [rows EXCEPT ![i] = r]
      /\ edits' = IF kind \notin Guarded THEN edits ELSE [edits EXCEPT ![i] = <<e>>]
      /\ answered' = IF r.uuid = None THEN answered
                     ELSE answered \cup {<<r.uuid, i>>}
      /\ tx' = [tx EXCEPT ![s] = Idle]
      /\ UNCHANGED <<kind, redis, prices, history>>
  BY DEF CommitCreate
<1>2. Making(s) /\ MakeOK(s) /\ i \in Ids /\ r \in Rows
  BY <1>1, TxShape DEF Making, Inv, SessionsOK, SessionOK
<1>3. rows[i].state = "absent" /\ r.state = "live" /\ r.version = 1
      /\ \A u \in Uuids : redis[u] = i => r.uuid = u
  BY <1>2 DEF MakeOK
<1>4. e \in EditRows
  BY <1>2, SeenShape DEF EditRows
<1>5. /\ rows'[i] = r /\ \A j \in Ids \ {i} : rows'[j] = rows[j]
      /\ \A j \in Ids \ {i} : edits'[j] = edits[j]
      /\ kind \in Guarded => edits'[i] = <<e>>
  BY <1>1, <1>2 DEF Inv, TypeOK
<1>6. e.version = 1 /\ e.after = Seen(r)
  OBVIOUS
<1>. HIDE DEF e
<1>7. TypeOK'
  <2>1. <<e>> \in Seq(EditRows)
    BY <1>4
  <2>2. edits' \in [Ids -> Seq(EditRows)]
    BY <1>1, <1>2, <2>1 DEF Inv, TypeOK, EditRows
  <2>3. rows' \in [Ids -> Rows]
    BY <1>1, <1>2 DEF Inv, TypeOK
  <2>4. answered' \subseteq Uuids \X Ids
    BY <1>1, <1>2 DEF Inv, TypeOK, Rows
  <2>5. tx' \in [Sessions -> Transactions]
    BY <1>1 DEF Inv, TypeOK, Transactions
  <2>. QED  BY <1>1, <2>2, <2>3, <2>4, <2>5 DEF Inv, TypeOK, EditRows, Rows, Keys,
       Transactions, Contents
<1>8. tx'[s].pc = "idle" /\ \A q \in Sessions \ {s} : tx'[q] = tx[q]
  BY <1>1 DEF Inv, TypeOK, Idle
<1>9. SessionOK(s)' /\ \A q \in Sessions \ {s} : Apart(s, q)' /\ Apart(q, s)'
  BY <1>8 DEF SessionOK, MakeOK, WriteOK, PriceOK, Apart, Making, Writing, Pricing
<1>10. ASSUME NEW q \in Sessions \ {s} PROVE SessionOK(q)'
  <2>1. SessionOK(q) /\ tx'[q] = tx[q] /\ Apart(s, q)
    BY <1>8 DEF Inv, SessionsOK
  <2>2. MakeOK(q)'
    <3>1. Making(q) => tx[q].id # i /\ tx[q].id \in Ids
      BY <1>2, <2>1, TxShape DEF Apart, Inv
    <3>. QED  BY <1>1, <1>5, <2>1, <3>1 DEF SessionOK, MakeOK, Making
  <2>3. WriteOK(q)'
    <3>1. Writing(q) => tx[q].id # i /\ tx[q].id \in Ids
      BY <1>3, <2>1, TxShape DEF SessionOK, WriteOK, Inv
    <3>. QED  BY <1>1, <1>5, <2>1, <3>1 DEF SessionOK, WriteOK, Informed, Writing
  <2>4. PriceOK(q)'
    BY <1>1, <2>1 DEF SessionOK, PriceOK, Pricing, OpenPrices
  <2>. QED  BY <2>2, <2>3, <2>4 DEF SessionOK
<1>11. ASSUME NEW p \in Sessions \ {s}, NEW q \in Sessions \ {s}, p # q PROVE Apart(p, q)'
  <2>1. Apart(p, q) /\ tx'[p] = tx[p] /\ tx'[q] = tx[q]
    BY <1>8, <1>11 DEF Inv, SessionsOK
  <2>. QED  BY <2>1 DEF Apart, Making
<1>12. SessionsOK'
  BY <1>9, <1>10, <1>11 DEF SessionsOK
<1>13. Made' /\ EditsAreSerial'
  <2>1. Len(<<e>>) = 1 /\ <<e>>[1] = e /\ Last(<<e>>) = e
    BY DEF Last
  <2>2. Made'
    <3>. SUFFICES ASSUME kind \in Guarded, NEW j \in Ids
                  PROVE  Len(edits'[j]) > 0 <=> rows'[j].state # "absent"
      BY <1>1 DEF Made
    <3>1. CASE j = i
      <4>1. Len(edits'[j]) > 0
        <5>1. edits'[j] = <<e>>
          BY <1>5, <3>1
        <5>2. Len(edits'[j]) = 1
          BY <2>1, <5>1, Zenon
        <5>. QED  BY <5>2
      <4>2. rows'[j].state # "absent"
        BY <1>3, <1>5, <3>1
      <4>. QED  BY <4>1, <4>2
    <3>2. CASE j # i
      BY <1>5, <3>2 DEF Inv, Made
    <3>. QED  BY <3>1, <3>2
  <2>3. EditsAreSerial'
    BY <1>1, <1>3, <1>5, <1>6, <2>1 DEF Inv, EditsAreSerial
  <2>. QED  BY <2>2, <2>3
<1>14. Named'
  BY <1>1, <1>3, <1>5 DEF Inv, Named, TypeOK
<1>15. AnswersNameTheirRow'
  <2>. SUFFICES ASSUME NEW a \in answered'
                PROVE  rows'[a[2]].state # "absent" /\ rows'[a[2]].uuid = a[1]
    BY DEF AnswersNameTheirRow
  <2>1. CASE a \in answered
    <3>1. a[2] \in Ids /\ rows[a[2]].state # "absent" /\ rows[a[2]].uuid = a[1]
      BY <2>1 DEF Inv, TypeOK, AnswersNameTheirRow
    <3>. QED  BY <1>3, <1>5, <3>1
  <2>2. CASE a = <<r.uuid, i>>
    BY <1>3, <1>5, <2>2
  <2>. QED  BY <1>1, <2>1, <2>2
<1>16. Opened' /\ HistoryIsAChain'
  BY <1>1 DEF Inv, Opened, HistoryIsAChain, OpenPrices
<1>. QED  BY <1>7, <1>12, <1>13, <1>14, <1>15, <1>16 DEF Inv

-----------------------------------------------------------------------------
(* Edits and writes *)

\* The author of a change read the row as it is now.
LEMMA WriteBegins ==
  ASSUME Inv, NEW s \in Sessions, NEW i \in Ids, NEW after \in Rows, NEW edit \in BOOLEAN,
         NEW named \in BOOLEAN, rows[i].state = "live",
         tx' = [tx EXCEPT ![s] = [pc |-> "write", id |-> i, before |-> rows[i],
                                  edit |-> edit, named |-> named, after |-> after]],
         UNCHANGED <<kind, rows, edits, redis, answered, prices, history>>,
         after.state \in {"live", "deleted"}, after.uuid = rows[i].uuid,
         edit /\ kind \in {"product", "contract", "promo", "user"} =>
            after.side = rows[i].side,
         edit /\ ~named => after.link = rows[i].link,
         kind \in Guarded =>
            IF edit THEN after.version = rows[i].version + 1
            ELSE after.version = rows[i].version /\ Seen(after) = Seen(rows[i])
  PROVE  Inv'
<1> DEFINE t == [pc |-> "write", id |-> i, before |-> rows[i], edit |-> edit,
                 named |-> named, after |-> after]
<1>1. t \in Transactions
  BY DEF Inv, TypeOK, Transactions
<1>2. tx'[s] = t
  BY DEF Inv, TypeOK
<1>3. /\ t.pc = "write" /\ t.id = i /\ t.before = rows[i] /\ t.edit = edit
      /\ t.named = named /\ t.after = after
  OBVIOUS
<1>. HIDE DEF t
<1>4. ASSUME kind \in Guarded PROVE Informed(s)'
  <2>1. Len(edits[i]) > 0 /\ Len(edits[i]) \in Nat
    BY <1>4, LenProperties DEF Inv, Made, TypeOK
  <2>2. edits[i] # <<>>
    BY <2>1
  <2>3. rows[i].version = Len(edits[i]) /\ Seen(rows[i]) = edits[i][Len(edits[i])].after
    BY <1>4, <2>2 DEF Inv, EditsAreSerial, Last
  <2>. QED  BY <1>2, <1>3, <1>4, <2>1, <2>3 DEF Informed
<1>5. SessionOK(s)'
  <2>1. WriteOK(s)'
    BY <1>2, <1>3, <1>4 DEF WriteOK
  <2>. QED  BY <1>2, <1>3, <2>1 DEF SessionOK, MakeOK, PriceOK, Making, Pricing
<1>6. \A r \in Sessions \ {s} : Apart(s, r)'
  BY <1>2, <1>3 DEF Apart, Making
<1>7. answered' \subseteq Uuids \X Ids /\ AnswersNameTheirRow'
  BY AnswersKept DEF Inv, TypeOK
<1>. QED  BY <1>1, <1>2, <1>5, <1>6, <1>7, OwnStep DEF t

LEMMA BeginEditInv ==
  ASSUME Inv, NEW s \in Sessions, NEW i \in Ids, BeginEdit(s, i)
  PROVE  Inv'
<1>1. PICK r \in Edited(rows[i]), named \in BOOLEAN :
        /\ r.link # rows[i].link => named
        /\ tx' = [tx EXCEPT ![s] =
            [pc |-> "write", id |-> i, before |-> rows[i], edit |-> TRUE, named |-> named,
             after |-> [r EXCEPT !.version = rows[i].version + 1]]]
  BY DEF BeginEdit
<1>2. /\ rows[i].state = "live"
      /\ UNCHANGED <<kind, rows, edits, redis, answered, prices, history>>
  BY DEF BeginEdit, Open
<1>3. rows[i] \in Rows /\ kind \in Kinds
  BY DEF Inv, TypeOK
<1>4. /\ r \in Rows /\ r.state = rows[i].state /\ r.uuid = rows[i].uuid
      /\ kind \in {"product", "contract", "promo", "user"} => r.side = rows[i].side
  BY <1>3, EditedShape
<1> DEFINE after == [r EXCEPT !.version = rows[i].version + 1]
<1>5. /\ after \in Rows /\ after.state = r.state /\ after.uuid = r.uuid
      /\ after.side = r.side /\ after.link = r.link
      /\ after.version = rows[i].version + 1
  <2>1. rows[i].version + 1 \in Nat
    BY <1>3 DEF Rows
  <2>. QED  BY <1>4, <2>1 DEF Rows
<1>6. tx' = [tx EXCEPT ![s] = [pc |-> "write", id |-> i, before |-> rows[i],
                               edit |-> TRUE, named |-> named, after |-> after]]
  BY <1>1
<1>7. ~named => after.link = rows[i].link
  BY <1>1, <1>5
<1>. HIDE DEF after
<1>8. /\ TRUE /\ kind \in {"product", "contract", "promo", "user"} =>
          after.side = rows[i].side
      /\ TRUE /\ ~named => after.link = rows[i].link
      /\ kind \in Guarded =>
            IF TRUE THEN after.version = rows[i].version + 1
            ELSE after.version = rows[i].version /\ Seen(after) = Seen(rows[i])
      /\ after.state \in {"live", "deleted"} /\ after.uuid = rows[i].uuid
  BY <1>2, <1>4, <1>5, <1>7
<1>. QED  BY <1>2, <1>5, <1>6, <1>8, WriteBegins

LEMMA BeginWriteInv ==
  ASSUME Inv, NEW s \in Sessions, NEW i \in Ids, NEW r \in Rows, BeginWrite(s, i, r),
         r.state \in {"live", "deleted"}, r.uuid = rows[i].uuid,
         kind \in Guarded => r.version = rows[i].version,
         kind \in Guarded => Seen(r) = Seen(rows[i])
  PROVE  Inv'
<1>1. /\ rows[i].state = "live"
      /\ tx' = [tx EXCEPT ![s] = [pc |-> "write", id |-> i, before |-> rows[i],
                                  edit |-> FALSE, named |-> FALSE, after |-> r]]
      /\ UNCHANGED <<kind, rows, edits, redis, answered, prices, history>>
  BY DEF BeginWrite, Open
<1>. QED  BY <1>1, WriteBegins

\* Deletions, and what is written without a version.
LEMMA WritesInv ==
  ASSUME Inv, NEW s \in Sessions, NEW i \in Ids,
         \/ DeleteProduct(s, i) \/ DeleteStore(s, i) \/ DeleteContract(s, i)
         \/ DeletePromo(s, i) \/ DeleteBranch(s, i) \/ DeleteEnterprise(s, i)
         \/ UpdatePhotoUrl(s, i) \/ UpdateContractFile(s, i)
         \/ UpdateBanner(s, i) \/ DeactivateUser(s, i) \/ ActivateUser(s, i)
         \/ SuspendEnterprise(s, i) \/ ActivateEnterprise(s, i)
         \/ DeleteTemplate(s, i) \/ DeleteBanner(s, i)
         \/ ToggleMarketplace(s, i) \/ AssignAgent(s, i) \/ AddMessage(s, i)
         \/ TogglePromoFeatured(s, i) \/ ResetAdminPassword(s, i)
         \/ UpdateMyModules(s, i) \/ PatchBanner(s, i) \/ UpdateBannerImage(s, i)
  PROVE  Inv'
<1> DEFINE row == rows[i]
<1>1. row \in Rows
  BY DEF Inv, TypeOK
<1>2. ASSUME NEW state \in {"live", "deleted"}, NEW side \in Sides,
             NEW link \in Sides, NEW n \in Nat,
             NEW r \in Rows, BeginWrite(s, i, r),
             r = [row EXCEPT !.state = state, !.side = side, !.link = link, !.version = n],
             kind \in Guarded => n = row.version
      PROVE  Inv'
  <2>1. /\ r.state = state /\ r.uuid = row.uuid /\ r.version = n
        /\ Seen(r) = Seen(row)
    BY <1>1, <1>2 DEF Rows, Seen
  <2>. QED  BY <1>2, <2>1, BeginWriteInv
<1>3. /\ row.version \in Nat /\ row.version + 1 \in Nat /\ row.side \in Sides
      /\ row.link \in Sides /\ "off" \in Sides /\ "on" \in Sides
  BY <1>1 DEF Rows, Sides
<1>4. ASSUME BeginWrite(s, i, Deleted(i)) PROVE Inv'
  <2>1. /\ Deleted(i) \in Rows
        /\ Deleted(i) = [row EXCEPT !.state = "deleted", !.side = row.side,
                                    !.link = row.link, !.version = row.version]
    BY <1>1 DEF Deleted, Rows
  <2>. QED  BY <1>2, <1>3, <1>4, <2>1
<1>5. ASSUME NEW v \in Sides, BeginWrite(s, i, WithSide(i, v)) PROVE Inv'
  <2>1. rows[i].state = "live"
    BY <1>5 DEF BeginWrite, Open
  <2>2. /\ WithSide(i, v) \in Rows
        /\ WithSide(i, v) = [row EXCEPT !.state = "live", !.side = v,
                                        !.link = row.link, !.version = row.version]
    BY <1>1, <2>1 DEF WithSide, Rows
  <2>. QED  BY <1>2, <1>3, <1>5, <2>2
<1>13. ASSUME NEW v \in Sides, BeginWrite(s, i, WithLink(i, v)) PROVE Inv'
  <2>1. rows[i].state = "live"
    BY <1>13 DEF BeginWrite, Open
  <2>2. /\ WithLink(i, v) \in Rows
        /\ WithLink(i, v) = [row EXCEPT !.state = "live", !.side = row.side,
                                        !.link = v, !.version = row.version]
    BY <1>1, <2>1 DEF WithLink, Rows
  <2>. QED  BY <1>2, <1>3, <1>13, <2>2
<1>6. ASSUME NEW v \in Sides, kind \in {"promo", "enterprise"},
             BeginWrite(s, i, [WithSide(i, v) EXCEPT !.version = @ + 1])
      PROVE  Inv'
  <2>1. rows[i].state = "live"
    BY <1>6 DEF BeginWrite, Open
  <2> DEFINE r == [WithSide(i, v) EXCEPT !.version = @ + 1]
  <2>2. WithSide(i, v) \in Rows /\ WithSide(i, v).version = row.version
    BY <1>1 DEF WithSide, Rows
  <2>3. r \in Rows
    BY <1>3, <2>2 DEF Rows
  <2>4. r = [row EXCEPT !.state = "live", !.side = v, !.link = row.link,
                        !.version = row.version + 1]
    BY <1>1, <2>1, <2>2 DEF WithSide, Rows
  <2>5. BeginWrite(s, i, r) /\ kind \notin Guarded
    BY <1>6 DEF Guarded
  <2>. HIDE DEF r
  <2>. QED  BY <1>2, <1>3, <1>6, <2>3, <2>4, <2>5
<1>7. ASSUME kind = "enterprise", BeginWrite(s, i, [Deleted(i) EXCEPT !.side = "off"])
      PROVE  Inv'
  <2> DEFINE r == [Deleted(i) EXCEPT !.side = "off"]
  <2>1. /\ r \in Rows
        /\ r = [row EXCEPT !.state = "deleted", !.side = "off", !.link = row.link,
                           !.version = row.version]
    BY <1>1, <1>3 DEF Deleted, Rows
  <2>2. BeginWrite(s, i, r)
    BY <1>7
  <2>. HIDE DEF r
  <2>. QED  BY <1>2, <1>3, <1>7, <2>1, <2>2
<1>8. CASE \/ DeleteProduct(s, i) \/ DeleteStore(s, i) \/ DeleteContract(s, i)
           \/ DeletePromo(s, i) \/ DeleteBranch(s, i)
           \/ DeleteTemplate(s, i) \/ DeleteBanner(s, i)
  BY <1>4, <1>8 DEF DeleteProduct, DeleteStore, DeleteContract, DeletePromo, DeleteBranch,
     DeleteTemplate, DeleteBanner
<1>9. CASE DeleteEnterprise(s, i)
  BY <1>7, <1>9 DEF DeleteEnterprise
<1>10. CASE \/ UpdateContractFile(s, i) \/ DeactivateUser(s, i) \/ ActivateUser(s, i)
            \/ ToggleMarketplace(s, i) \/ AddMessage(s, i)
            \/ TogglePromoFeatured(s, i) \/ ResetAdminPassword(s, i)
            \/ UpdateMyModules(s, i) \/ UpdateBannerImage(s, i)
  BY <1>3, <1>5, <1>10 DEF UpdateContractFile, DeactivateUser, ActivateUser,
     ToggleMarketplace, AddMessage, TogglePromoFeatured, ResetAdminPassword,
     UpdateMyModules, UpdateBannerImage
<1>14. CASE UpdatePhotoUrl(s, i) \/ AssignAgent(s, i)
  BY <1>13, <1>14 DEF UpdatePhotoUrl, AssignAgent
<1>11. CASE UpdateBanner(s, i) \/ SuspendEnterprise(s, i) \/ ActivateEnterprise(s, i)
  BY <1>3, <1>6, <1>11 DEF UpdateBanner, SuspendEnterprise, ActivateEnterprise
<1>12. CASE PatchBanner(s, i)
  <2>1. PICK r \in Edited(row) : BeginWrite(s, i, r)
    BY <1>12 DEF PatchBanner
  <2>2. /\ r \in Rows /\ r.state = row.state /\ r.uuid = row.uuid
        /\ r.version = row.version
    BY <1>1, EditedShape DEF Inv, TypeOK
  <2>3. row.state = "live" /\ kind \notin Guarded
    BY <1>12, <2>1 DEF PatchBanner, BeginWrite, Open, Guarded
  <2>. QED  BY <2>1, <2>2, <2>3, BeginWriteInv
<1>. QED  BY <1>8, <1>9, <1>10, <1>11, <1>12, <1>14

LEMMA EditsInv ==
  ASSUME Inv, NEW s \in Sessions, NEW i \in Ids,
         \/ UpdateProduct(s, i) \/ UpdateStore(s, i) \/ UpdateContract(s, i)
         \/ UpdatePromo(s, i) \/ UpdateUser(s, i) \/ UpdateBranch(s, i)
         \/ UpdateStatus(s, i) \/ UpdateEnterprise(s, i)
  PROVE  Inv'
  BY BeginEditInv DEF UpdateProduct, UpdateStore, UpdateContract, UpdatePromo, UpdateUser,
     UpdateBranch, UpdateStatus, UpdateEnterprise

\* An UPDATE that names the version finds the row as its author saw it, and
\* leaves it as its author wants it; any other leaves what edits are about.
LEMMA WriteRowEffect ==
  ASSUME Inv, NEW s \in Sessions, WriteRow(s)
  PROVE  LET i == tx[s].id
             n == Len(edits[i]) + 1
             e == [version |-> tx[s].after.version, before |-> Seen(tx[s].before),
                   after |-> Seen(tx[s].after)]
         IN  kind \in Guarded =>
             /\ Len(edits[i]) \in Nat \ {0}
             /\ tx[s].edit =>
                 /\ edits' = [edits EXCEPT ![i] = Append(edits[i], e)]
                 /\ e \in EditRows
                 /\ e.version = n /\ e.before = edits[i][n - 1].after
                 /\ rows'[i].version = n /\ Seen(rows'[i]) = e.after
             /\ ~tx[s].edit =>
                 /\ edits' = edits
                 /\ rows'[i].version = rows[i].version /\ Seen(rows'[i]) = Seen(rows[i])
<1> DEFINE i == tx[s].id
           t == tx[s]
           e == [version |-> t.after.version, before |-> Seen(t.before),
                 after |-> Seen(t.after)]
<1>. SUFFICES ASSUME kind \in Guarded
     PROVE /\ Len(edits[i]) \in Nat \ {0}
           /\ t.edit =>
               /\ edits' = [edits EXCEPT ![i] = Append(edits[i], e)]
               /\ e \in EditRows
               /\ e.version = Len(edits[i]) + 1 /\ e.before = edits[i][Len(edits[i])].after
               /\ rows'[i].version = Len(edits[i]) + 1 /\ Seen(rows'[i]) = e.after
           /\ ~t.edit =>
               /\ edits' = edits
               /\ rows'[i].version = rows[i].version /\ Seen(rows'[i]) = Seen(rows[i])
  <2>1. Len(edits[i]) \in Nat \ {0} => Len(edits[i]) + 1 - 1 = Len(edits[i])
    OBVIOUS
  <2>. QED  BY <2>1
<1>1. Writing(s) /\ WriteOK(s) /\ i \in Ids /\ t.before \in Rows /\ t.after \in Rows
  BY TxShape DEF WriteRow, Writing, Inv, SessionsOK, SessionOK
<1>2. rows[i] \in Rows
  BY <1>1 DEF Inv, TypeOK
<1>3. rows' = [rows EXCEPT ![i] = Written(s, rows[i])]
  BY DEF WriteRow
<1>4. rows'[i] = Written(s, rows[i])
  BY <1>1, <1>3 DEF Inv, TypeOK
<1>5. Informed(s)
  BY <1>1 DEF WriteOK
<1>6. Len(edits[i]) \in Nat \ {0}
  <2>1. edits[i] \in Seq(EditRows)
    BY <1>1 DEF Inv, TypeOK, EditRows
  <2>2. Len(edits[i]) \in Nat
    BY <2>1, LenProperties
  <2>3. Len(edits[i]) > 0
    BY <1>1 DEF Inv, Made, WriteOK
  <2>. QED  BY <2>2, <2>3
<1>7. rows[i].version = Len(edits[i]) /\ Seen(rows[i]) = edits[i][Len(edits[i])].after
  <2>1. edits[i] # <<>>
    BY <1>6, EmptySeq
  <2>. QED  BY <1>1, <2>1 DEF Inv, EditsAreSerial, Last
<1>8. ASSUME t.edit
      PROVE  /\ edits' = [edits EXCEPT ![i] = Append(edits[i], e)]
             /\ e \in EditRows
             /\ e.version = Len(edits[i]) + 1 /\ e.before = edits[i][Len(edits[i])].after
             /\ rows'[i].version = Len(edits[i]) + 1 /\ Seen(rows'[i]) = e.after
  <2>1. rows[i].version = t.before.version
    BY <1>8 DEF WriteRow, VersionHolds
  <2>2. Seen(t.before) = Seen(rows[i]) /\ t.after.version = Len(edits[i]) + 1
    BY <1>5, <1>7, <1>8, <2>1 DEF Informed
  <2>3. edits' = [edits EXCEPT ![i] = Append(edits[i], e)]
    BY <1>8 DEF WriteRow
  <2>4. e \in EditRows
    BY <1>1, SeenShape DEF EditRows, Rows
  <2>5. rows'[i].version = Len(edits[i]) + 1
    <3>1. t.after.version # t.before.version
      <4>1. \A n \in Nat \ {0} : n + 1 # n
        OBVIOUS
      <4>2. Len(edits[i]) + 1 # Len(edits[i])
        BY <1>6, <4>1
      <4>. QED  BY <1>7, <2>1, <2>2, <4>2, Zenon
    <3>2. Written(s, rows[i]).version = t.after.version
      BY <1>1, <1>2, <3>1, WrittenShape DEF Inv
    <3>. QED  BY <1>4, <2>2, <3>2
  <2>6. Seen(rows'[i]) = Seen(t.after)
    <3>1. /\ t.before.key = rows[i].key /\ t.before.from = rows[i].from
          /\ t.before.to = rows[i].to /\ t.before.status = rows[i].status
      BY <2>2 DEF Seen
    <3>2. /\ rows'[i].key = t.after.key /\ rows'[i].from = t.after.from
          /\ rows'[i].to = t.after.to /\ rows'[i].status = t.after.status
      BY <1>1, <1>2, <1>4, <3>1, WrittenShape DEF Inv
    <3>. QED  BY <3>2 DEF Seen
  <2>. QED  BY <1>7, <2>2, <2>3, <2>4, <2>5, <2>6
<1>9. ASSUME ~t.edit
      PROVE  /\ edits' = edits
             /\ rows'[i].version = rows[i].version /\ Seen(rows'[i]) = Seen(rows[i])
  <2>1. t.after.version = t.before.version /\ Seen(t.after) = Seen(t.before)
    BY <1>5, <1>9 DEF Informed
  <2>2. /\ t.before.key = t.after.key /\ t.before.from = t.after.from
        /\ t.before.to = t.after.to /\ t.before.status = t.after.status
    BY <2>1 DEF Seen
  <2>3. /\ rows'[i].key = rows[i].key /\ rows'[i].from = rows[i].from
        /\ rows'[i].to = rows[i].to /\ rows'[i].status = rows[i].status
        /\ rows'[i].version = rows[i].version
    BY <1>1, <1>2, <1>4, <2>1, <2>2, WrittenShape DEF Inv
  <2>4. edits' = edits
    BY <1>9 DEF WriteRow
  <2>. QED  BY <2>3, <2>4 DEF Seen
<1>. QED  BY <1>6, <1>8, <1>9

\* What no UPDATE does.
LEMMA WriteRowKeeps ==
  ASSUME Inv, NEW s \in Sessions, WriteRow(s)
  PROVE  /\ tx[s].id \in Ids /\ rows[tx[s].id].state # "absent"
         /\ rows' \in [Ids -> Rows]
         /\ \A j \in Ids :
             /\ j # tx[s].id => rows'[j] = rows[j] /\ edits'[j] = edits[j]
             /\ rows[j].state = "absent" <=> rows'[j].state = "absent"
             /\ rows'[j].uuid = rows[j].uuid
<1> DEFINE i == tx[s].id
<1>1. Writing(s) /\ WriteOK(s) /\ i \in Ids
  BY TxShape DEF WriteRow, Writing, Inv, SessionsOK, SessionOK
<1>2. rows[i] \in Rows
  BY <1>1 DEF Inv, TypeOK
<1>3. rows' = [rows EXCEPT ![i] = Written(s, rows[i])]
  BY DEF WriteRow
<1>4. Written(s, rows[i]) \in Rows
  BY <1>1, <1>2, WrittenShape DEF Inv
<1>5. rows' \in [Ids -> Rows] /\ rows'[i] = Written(s, rows[i])
  BY <1>1, <1>3, <1>4 DEF Inv, TypeOK
<1>6. \A j \in Ids \ {i} : rows'[j] = rows[j] /\ edits'[j] = edits[j]
  BY <1>1, <1>3 DEF WriteRow, Inv, TypeOK
<1>7. /\ rows[i].state # "absent"
      /\ tx[s].before.state = "live" /\ tx[s].after.state \in {"live", "deleted"}
      /\ tx[s].after.uuid = tx[s].before.uuid
  BY <1>1 DEF WriteOK
<1>8. rows'[i].state # "absent" /\ rows'[i].uuid = rows[i].uuid
  BY <1>1, <1>2, <1>5, <1>7, WrittenShape DEF Inv
<1>. QED  BY <1>1, <1>5, <1>6, <1>7, <1>8

LEMMA WriteRowEdits ==
  ASSUME Inv, NEW s \in Sessions, WriteRow(s)
  PROVE  /\ kind \notin Guarded \/ ~tx[s].edit => edits' = edits
         /\ kind' = kind /\ redis' = redis /\ answered' = answered
         /\ prices' = prices /\ history' = history
         /\ tx' = [tx EXCEPT ![s] = Idle]
  BY DEF WriteRow

LEMMA WriteRowSerial ==
  ASSUME Inv, NEW s \in Sessions, WriteRow(s)
  PROVE  /\ edits' \in [Ids -> Seq(EditRows)]
         /\ Made' /\ EditsAreSerial'
         /\ kind \in Guarded => \A j \in Ids :
             /\ Len(edits'[j]) \in Nat /\ Len(edits'[j]) >= Len(edits[j])
             /\ \A n \in 1..Len(edits[j]) : edits'[j][n] = edits[j][n]
<1> DEFINE i == tx[s].id
           t == tx[s]
           e == [version |-> t.after.version, before |-> Seen(t.before),
                 after |-> Seen(t.after)]
<1>1. edits \in [Ids -> Seq(EditRows)] /\ \A j \in Ids : edits[j] \in Seq(EditRows)
  BY DEF Inv, TypeOK, EditRows
<1>2. \A j \in Ids : Len(edits[j]) \in Nat
  BY <1>1, LenProperties
<1>3. i \in Ids /\ rows[i].state # "absent" /\ kind' = kind
  BY WriteRowKeeps, WriteRowEdits
<1>4. \A j \in Ids \ {i} : rows'[j] = rows[j] /\ edits'[j] = edits[j]
  BY WriteRowKeeps
<1>5. CASE kind \notin Guarded
  <2>1. edits' = edits
    BY <1>5, WriteRowEdits
  <2>. QED  BY <1>1, <1>3, <1>5, <2>1 DEF Made, EditsAreSerial
<1>6. CASE kind \in Guarded
  <2>1. /\ Len(edits[i]) \in Nat \ {0}
        /\ ~t.edit =>
            /\ edits' = edits
            /\ rows'[i].version = rows[i].version /\ Seen(rows'[i]) = Seen(rows[i])
    BY <1>6, WriteRowEffect
  <2>2. t.edit =>
          /\ edits' = [edits EXCEPT ![i] = Append(edits[i], e)]
          /\ e \in EditRows
          /\ e.version = Len(edits[i]) + 1
          /\ e.before = edits[i][Len(edits[i]) + 1 - 1].after
          /\ rows'[i].version = Len(edits[i]) + 1 /\ Seen(rows'[i]) = e.after
    BY <1>6, WriteRowEffect
  <2>. HIDE DEF e
  <2>3. rows'[i].state # "absent"
    BY <1>3, WriteRowKeeps
  <2>4. CASE ~t.edit
    <3>1. edits' = edits
      BY <2>1, <2>4
    <3>2. Made'
      BY <1>3, <1>4, <2>3, <3>1 DEF Inv, Made
    <3>3. EditsAreSerial'
      BY <1>3, <1>4, <2>1, <2>4, <3>1 DEF Inv, EditsAreSerial
    <3>. QED  BY <1>1, <1>2, <3>1, <3>2, <3>3
  <2>5. CASE t.edit
    <3>1. /\ edits'[i] = Append(edits[i], e) /\ e \in EditRows
          /\ edits' \in [Ids -> Seq(EditRows)]
      <4>1. Append(edits[i], e) \in Seq(EditRows)
        BY <1>1, <1>3, <2>2, <2>5, AppendProperties
      <4>. QED  BY <1>1, <1>3, <2>2, <2>5, <4>1
    <3>2. /\ Len(edits'[i]) = Len(edits[i]) + 1
          /\ \A n \in 1..Len(edits[i]) : edits'[i][n] = edits[i][n]
          /\ edits'[i][Len(edits[i]) + 1] = e
      BY <1>1, <1>3, <3>1, AppendProperties
    <3>3. \A j \in Ids :
            /\ Len(edits'[j]) \in Nat /\ Len(edits'[j]) >= Len(edits[j])
            /\ \A n \in 1..Len(edits[j]) : edits'[j][n] = edits[j][n]
      BY <1>2, <1>4, <3>2
    <3>4. Made'
      <4>. SUFFICES ASSUME NEW j \in Ids
                    PROVE  Len(edits'[j]) > 0 <=> rows'[j].state # "absent"
        BY <1>3 DEF Made
      <4>1. CASE j = i
        BY <2>1, <2>3, <3>2, <4>1
      <4>2. CASE j # i
        BY <1>4, <1>6, <4>2 DEF Inv, Made
      <4>. QED  BY <4>1, <4>2
    <3>5. EditsAreSerial'
      <4>. SUFFICES ASSUME NEW j \in Ids
             PROVE  /\ \A n \in 2..Len(edits'[j]) :
                        /\ edits'[j][n].version = n
                        /\ edits'[j][n].before = edits'[j][n - 1].after
                    /\ edits'[j] # <<>> =>
                        /\ rows'[j].version = Len(edits'[j])
                        /\ Seen(rows'[j]) = Last(edits'[j]).after
        BY <1>3 DEF EditsAreSerial
      <4>1. CASE j # i
        BY <1>4, <1>6, <4>1 DEF Inv, EditsAreSerial
      <4>2. CASE j = i
        <5>1. ASSUME NEW n \in 2..Len(edits'[i])
              PROVE  /\ edits'[i][n].version = n
                     /\ edits'[i][n].before = edits'[i][n - 1].after
          <6>1. CASE n = Len(edits[i]) + 1
            <7>1. edits'[i][n] = e /\ n - 1 = Len(edits[i]) /\ n - 1 \in 1..Len(edits[i])
              BY <2>1, <3>2, <6>1
            <7>2. edits'[i][n - 1] = edits[i][n - 1]
              BY <3>2, <7>1
            <7>. QED  BY <2>2, <2>5, <6>1, <7>1, <7>2
          <6>2. CASE n # Len(edits[i]) + 1
            <7>1. n \in 2..Len(edits[i]) /\ n \in 1..Len(edits[i]) /\ n - 1 \in 1..Len(edits[i])
              BY <2>1, <3>2, <5>1, <6>2
            <7>2. edits[i][n].version = n /\ edits[i][n].before = edits[i][n - 1].after
              BY <1>3, <1>6, <7>1 DEF Inv, EditsAreSerial
            <7>. QED  BY <3>2, <7>1, <7>2
          <6>. QED  BY <6>1, <6>2
        <5>2. Last(edits'[i]) = e
          BY <3>2 DEF Last
        <5>3. rows'[i].version = Len(edits'[i]) /\ Seen(rows'[i]) = Last(edits'[i]).after
          BY <2>2, <2>5, <3>2, <5>2
        <5>. QED  BY <4>2, <5>1, <5>3
      <4>. QED  BY <4>1, <4>2
    <3>. QED  BY <3>1, <3>3, <3>4, <3>5
  <2>. QED  BY <2>4, <2>5
<1>. QED  BY <1>5, <1>6

LEMMA WriteRowInv ==
  ASSUME Inv, NEW s \in Sessions, WriteRow(s)
  PROVE  Inv'
<1>1. /\ kind' = kind /\ redis' = redis /\ answered' = answered
      /\ prices' = prices /\ history' = history
      /\ tx' = [tx EXCEPT ![s] = Idle]
  BY WriteRowEdits
<1>2. rows' \in [Ids -> Rows] /\ edits' \in [Ids -> Seq(EditRows)]
  BY WriteRowKeeps, WriteRowSerial
<1>3. \A j \in Ids : /\ rows[j].state = "absent" <=> rows'[j].state = "absent"
                     /\ rows'[j].uuid = rows[j].uuid
  BY WriteRowKeeps
<1>4. TypeOK'
  <2>1. tx' \in [Sessions -> Transactions]
    BY <1>1 DEF Inv, TypeOK, Transactions
  <2>. QED  BY <1>1, <1>2, <2>1 DEF Inv, TypeOK, EditRows, Rows, Keys, Transactions, Contents
<1>5. tx'[s].pc = "idle" /\ \A q \in Sessions \ {s} : tx'[q] = tx[q]
  BY <1>1 DEF Inv, TypeOK, Idle
<1>6. SessionOK(s)' /\ \A q \in Sessions \ {s} : Apart(s, q)' /\ Apart(q, s)'
  BY <1>5 DEF SessionOK, MakeOK, WriteOK, PriceOK, Apart, Making, Writing, Pricing
<1>7. ASSUME NEW q \in Sessions \ {s} PROVE SessionOK(q)'
  <2>1. SessionOK(q) /\ tx'[q] = tx[q]
    BY <1>5 DEF Inv, SessionsOK
  <2>2. MakeOK(q)'
    <3>1. Making(q) => tx[q].id \in Ids
      BY TxShape DEF Inv
    <3>. QED  BY <1>1, <1>3, <2>1, <3>1 DEF SessionOK, MakeOK, Making
  <2>3. WriteOK(q)'
    <3>1. Writing(q) => tx[q].id \in Ids
      BY TxShape DEF Inv
    <3>2. ASSUME Writing(q), kind \in Guarded PROVE Informed(q)'
      <4>1. Informed(q)
        BY <2>1, <3>2 DEF SessionOK, WriteOK
      <4>2. /\ Len(edits'[tx[q].id]) \in Nat
            /\ Len(edits'[tx[q].id]) >= Len(edits[tx[q].id])
            /\ \A n \in 1..Len(edits[tx[q].id]) :
                edits'[tx[q].id][n] = edits[tx[q].id][n]
        BY <3>1, <3>2, WriteRowSerial
      <4>3. edits[tx[q].id] \in Seq(EditRows)
        BY <3>1, <3>2 DEF Inv, TypeOK, EditRows
      <4>4. Len(edits[tx[q].id]) \in Nat
        BY <4>3, LenProperties
      <4>. QED  BY <2>1, <4>1, <4>2, <4>4 DEF Informed
    <3>. QED  BY <1>1, <1>3, <2>1, <3>1, <3>2 DEF SessionOK, WriteOK, Writing
  <2>4. PriceOK(q)'
    BY <1>1, <2>1 DEF SessionOK, PriceOK, Pricing, OpenPrices
  <2>. QED  BY <2>2, <2>3, <2>4 DEF SessionOK
<1>8. ASSUME NEW p \in Sessions \ {s}, NEW q \in Sessions \ {s}, p # q PROVE Apart(p, q)'
  <2>1. Apart(p, q) /\ tx'[p] = tx[p] /\ tx'[q] = tx[q]
    BY <1>5, <1>8 DEF Inv, SessionsOK
  <2>. QED  BY <2>1 DEF Apart, Making
<1>9. SessionsOK'
  BY <1>6, <1>7, <1>8 DEF SessionsOK
<1>10. Named' /\ AnswersNameTheirRow'
  BY <1>1, <1>3 DEF Inv, TypeOK, Named, AnswersNameTheirRow
<1>11. Opened' /\ HistoryIsAChain'
  BY <1>1 DEF Inv, Opened, HistoryIsAChain, OpenPrices
<1>. QED  BY <1>4, <1>9, <1>10, <1>11, WriteRowSerial DEF Inv

-----------------------------------------------------------------------------
(* Prices *)

LEMMA FindPriceInv ==
  ASSUME Inv, NEW s \in Sessions, FindPrice(s)
  PROVE  Inv'
<1>1. PICK a \in Amounts, d \in Days, found \in IF OpenPrices = {} THEN {None} ELSE OpenPrices :
        tx' = [tx EXCEPT ![s] = [pc |-> "price", found |-> found,
                                 new |-> [price |-> a, from |-> d, to |-> None]]]
  BY DEF FindPrice
<1>2. UNCHANGED <<kind, rows, edits, redis, answered, prices, history>>
  BY DEF FindPrice
<1> DEFINE new == [price |-> a, from |-> d, to |-> None]
           t == [pc |-> "price", found |-> found, new |-> new]
<1>3. t \in Transactions
  <2>1. new \in PriceRows /\ found \in PriceRows \cup {None}
    BY <1>1 DEF PriceRows, OpenPrices, Inv, TypeOK
  <2>. QED  BY <2>1 DEF Transactions
<1>4. tx'[s] = t
  BY <1>1 DEF Inv, TypeOK
<1>5. SessionOK(s)' /\ \A r \in Sessions \ {s} : Apart(s, r)'
  BY <1>4 DEF SessionOK, MakeOK, WriteOK, PriceOK, Apart, Making, Writing, Pricing
<1>6. answered' \subseteq Uuids \X Ids /\ AnswersNameTheirRow'
  BY <1>2, AnswersKept DEF Inv, TypeOK
<1>. QED  BY <1>1, <1>2, <1>3, <1>5, <1>6, OwnStep

LEMMA LockPriceInv ==
  ASSUME Inv, NEW s \in Sessions, LockPrice(s)
  PROVE  Inv'
<1> DEFINE found == IF tx[s].found \in OpenPrices THEN tx[s].found ELSE None
           t == [tx[s] EXCEPT !.pc = "reprice", !.found = found]
<1>1. /\ tx[s].pc = "price" /\ \A r \in Sessions : ~Locks(r, tx[s].found)
      /\ UNCHANGED <<kind, rows, edits, redis, answered, prices, history>>
  BY DEF LockPrice
<1>2. /\ Pricing(s) /\ PriceOK(s)
      /\ tx[s] \in [pc : {"price", "reprice"}, found : PriceRows \cup {None}, new : PriceRows]
  BY <1>1, TxShape DEF Pricing, Inv, SessionsOK, SessionOK
<1>3. tx' = [tx EXCEPT ![s] = t]
  BY DEF LockPrice
<1>4. /\ t \in Transactions /\ t.pc = "reprice" /\ t.found = found /\ t.new = tx[s].new
  BY <1>2 DEF Transactions
<1>5. tx'[s] = t /\ \A r \in Sessions \ {s} : tx'[r] = tx[r]
  BY <1>3 DEF Inv, TypeOK
<1>. HIDE DEF t
<1>6. SessionOK(s)'
  <2>1. PriceOK(s)'
    BY <1>1, <1>2, <1>4, <1>5 DEF PriceOK, Pricing, OpenPrices
  <2>. QED  BY <1>4, <1>5, <2>1 DEF SessionOK, MakeOK, WriteOK, Making, Writing
<1>7. \A r \in Sessions \ {s} : Apart(s, r)'
  BY <1>1, <1>4, <1>5 DEF Apart, Making, Locks
<1>8. answered' \subseteq Uuids \X Ids /\ AnswersNameTheirRow'
  BY <1>1, AnswersKept DEF Inv, TypeOK
<1>. QED  BY <1>1, <1>3, <1>4, <1>6, <1>7, <1>8, OwnStep

\* What set_price found under its lock is all there is to close, and the
\* last entry of the history ends in it.
LEMMA SetPriceFound ==
  ASSUME Inv, NEW s \in Sessions, SetPrice(s)
  PROVE  /\ tx[s].new \in PriceRows /\ tx[s].new.to = None
         /\ OpenPrices \subseteq {tx[s].found}
         /\ IF tx[s].found = None THEN history = <<>>
            ELSE /\ tx[s].found \in PriceRows /\ history # <<>>
                 /\ tx[s].found.price = Last(history).new
<1>1. /\ tx[s].pc = "reprice" /\ OpenPrices \subseteq {tx[s].found}
  BY DEF SetPrice, PriceIndex
<1>2. /\ Pricing(s) /\ PriceOK(s)
      /\ tx[s].new \in PriceRows /\ tx[s].found \in PriceRows \cup {None}
  BY <1>1, TxShape DEF Pricing, Inv, SessionsOK, SessionOK
<1>3. tx[s].new.to = None /\ tx[s].found \in OpenPrices \cup {None}
  BY <1>1, <1>2 DEF PriceOK
<1>4. OpenPrices \subseteq PriceRows
  BY DEF Inv, TypeOK, OpenPrices
<1>5. CASE tx[s].found = None
  <2>1. OpenPrices = {}
    BY <1>1, <1>4, <1>5, NoneAssumption
  <2>2. history = <<>>
    <3>. SUFFICES ASSUME history # <<>> PROVE FALSE
      OBVIOUS
    <3>1. {p.price : p \in OpenPrices} = {Last(history).new}
      BY DEF Inv, HistoryIsAChain
    <3>. QED  BY <2>1, <3>1
  <2>. QED  BY <1>1, <1>2, <1>3, <1>5, <2>2
<1>6. CASE tx[s].found # None
  <2>1. tx[s].found \in OpenPrices
    BY <1>3, <1>6
  <2>2. history # <<>>
    BY <2>1 DEF Inv, Opened
  <2>3. {p.price : p \in OpenPrices} = {Last(history).new}
    BY <2>2 DEF Inv, HistoryIsAChain
  <2>. QED  BY <1>1, <1>2, <1>3, <1>6, <2>1, <2>2, <2>3
<1>. QED  BY <1>5, <1>6

LEMMA SetPriceInv ==
  ASSUME Inv, NEW s \in Sessions, SetPrice(s)
  PROVE  Inv'
<1> DEFINE old == tx[s].found
           new == tx[s].new
           closed == [old EXCEPT !.to = new.from]
           h == [old |-> IF old = None THEN 0 ELSE old.price, new |-> new.price]
<1>1. /\ tx[s].pc = "reprice"
      /\ prices' = (prices \ {old}) \cup {new} \cup (IF old = None THEN {} ELSE {closed})
      /\ history' = Append(history, h)
      /\ tx' = [tx EXCEPT ![s] = Idle]
      /\ UNCHANGED <<kind, rows, edits, redis, answered>>
  BY DEF SetPrice
<1>2. /\ new \in PriceRows /\ new.to = None /\ OpenPrices \subseteq {old}
      /\ old = None => history = <<>>
      /\ old # None => /\ old \in PriceRows /\ history # <<>>
                       /\ old.price = Last(history).new
  BY SetPriceFound
<1>3. old # None => closed \in PriceRows /\ closed.to # None
  BY <1>2, ConstantsAssumption DEF PriceRows
<1>4. h \in PriceChanges /\ h.new = new.price /\ h.old = IF old = None THEN 0 ELSE old.price
  BY <1>2, ConstantsAssumption DEF PriceChanges, PriceRows
<1>5. prices' \subseteq PriceRows
  BY <1>1, <1>2, <1>3 DEF Inv, TypeOK
<1>6. OpenPrices' = {new}
  BY <1>1, <1>2, <1>3 DEF OpenPrices
<1>. HIDE DEF h, closed
<1>7. history \in Seq(PriceChanges) /\ history' \in Seq(PriceChanges)
  BY <1>1, <1>4, AppendProperties DEF Inv, TypeOK, PriceChanges
<1>8. TypeOK'
  <2>1. tx' \in [Sessions -> Transactions]
    BY <1>1 DEF Inv, TypeOK, Transactions
  <2>. QED  BY <1>1, <1>5, <1>7, <2>1 DEF Inv, TypeOK, PriceChanges, Rows, Keys,
       Transactions, Contents
<1>9. tx'[s].pc = "idle" /\ \A q \in Sessions \ {s} : tx'[q] = tx[q]
  BY <1>1 DEF Inv, TypeOK, Idle
<1>10. SessionOK(s)' /\ \A q \in Sessions \ {s} : Apart(s, q)' /\ Apart(q, s)'
  BY <1>9 DEF SessionOK, MakeOK, WriteOK, PriceOK, Apart, Making, Writing, Pricing
<1>11. ASSUME NEW q \in Sessions \ {s} PROVE SessionOK(q)'
  <2>1. SessionOK(q) /\ tx'[q] = tx[q] /\ Apart(q, s)
    BY <1>9 DEF Inv, SessionsOK
  <2>2. MakeOK(q)' /\ WriteOK(q)'
    BY <1>1, <2>1 DEF SessionOK, MakeOK, WriteOK, Informed, Making, Writing
  <2>3. tx[q].pc = "reprice" => tx[q].found = None
    BY <1>1, <1>2, <2>1 DEF SessionOK, PriceOK, Apart
  <2>4. PriceOK(q)'
    BY <2>1, <2>3 DEF SessionOK, PriceOK, Pricing
  <2>. QED  BY <2>2, <2>4 DEF SessionOK
<1>12. ASSUME NEW p \in Sessions \ {s}, NEW q \in Sessions \ {s}, p # q PROVE Apart(p, q)'
  <2>1. Apart(p, q) /\ tx'[p] = tx[p] /\ tx'[q] = tx[q]
    BY <1>9, <1>12 DEF Inv, SessionsOK
  <2>. QED  BY <2>1 DEF Apart, Making
<1>13. SessionsOK'
  BY <1>10, <1>11, <1>12 DEF SessionsOK
<1>14. Made' /\ EditsAreSerial' /\ Named' /\ AnswersNameTheirRow'
  BY <1>1 DEF Inv, Made, EditsAreSerial, Named, AnswersNameTheirRow
<1>15. /\ Len(history') = Len(history) + 1 /\ Len(history) \in Nat
       /\ \A n \in 1..Len(history) : history'[n] = history[n]
       /\ history'[Len(history) + 1] = h
  BY <1>1, <1>4, <1>7, AppendProperties, LenProperties
<1>16. Opened' /\ history' # <<>>
  BY <1>7, <1>15, EmptySeq DEF Opened
<1>17. HistoryIsAChain'
  <2>1. Last(history') = h
    BY <1>15 DEF Last
  <2>2. {p.price : p \in OpenPrices'} = {Last(history').new}
    BY <1>4, <1>6, <2>1
  <2>3. DOMAIN history' = 1..Len(history') /\ DOMAIN history = 1..Len(history)
    BY <1>7, LenProperties
  <2>4. ASSUME NEW n \in DOMAIN history'
        PROVE  history'[n].old = IF n = 1 THEN 0 ELSE history'[n - 1].new
    <3>1. CASE n = Len(history) + 1
      <4>1. CASE old = None
        <5>1. Len(history) = 0
          BY <1>2, <4>1, EmptySeq
        <5>. QED  BY <1>4, <1>15, <3>1, <4>1, <5>1
      <4>2. CASE old # None
        <5>1. Len(history) \in Nat \ {0}
          BY <1>2, <1>7, <1>15, <4>2, EmptySeq
        <5>2. n # 1 /\ n - 1 = Len(history) /\ Len(history) \in 1..Len(history)
          BY <3>1, <5>1
        <5>3. history'[n - 1] = history[Len(history)]
          BY <1>15, <5>2
        <5>4. history[Len(history)].new = old.price
          BY <1>2, <4>2 DEF Last
        <5>. QED  BY <1>4, <1>15, <3>1, <4>2, <5>2, <5>3, <5>4
      <4>. QED  BY <4>1, <4>2
    <3>2. CASE n # Len(history) + 1
      <4>1. n \in 1..Len(history) /\ n \in DOMAIN history /\ (n # 1 => n - 1 \in 1..Len(history))
        BY <1>15, <2>3, <2>4, <3>2
      <4>2. history[n].old = IF n = 1 THEN 0 ELSE history[n - 1].new
        BY <4>1 DEF Inv, HistoryIsAChain
      <4>. QED  BY <1>15, <4>1, <4>2
    <3>. QED  BY <3>1, <3>2
  <2>. QED  BY <2>2, <2>4 DEF HistoryIsAChain
<1>. QED  BY <1>8, <1>13, <1>14, <1>16, <1>17 DEF Inv

-----------------------------------------------------------------------------
(* The invariant *)

LEMMA StutterInv ==
  ASSUME Inv, UNCHANGED vars
  PROVE  Inv'
<1>1. UNCHANGED <<kind, rows, edits, redis, answered, prices, history, tx>>
  BY DEF vars
<1>2. TypeOK'
  BY <1>1 DEF Inv, TypeOK, Rows, Keys, Contents, Transactions
<1>3. SessionsOK'
  <2>1. \A s \in Sessions : SessionOK(s)'
    BY <1>1 DEF Inv, SessionsOK, SessionOK, MakeOK, WriteOK, PriceOK, Informed, Making,
       Writing, Pricing, OpenPrices
  <2>2. \A s, t \in Sessions : s # t => Apart(s, t)'
    BY <1>1 DEF Inv, SessionsOK, Apart, Making
  <2>. QED  BY <2>1, <2>2 DEF SessionsOK
<1>4. Made' /\ EditsAreSerial' /\ Named' /\ AnswersNameTheirRow'
  BY <1>1 DEF Inv, Made, EditsAreSerial, Named, AnswersNameTheirRow
<1>5. Opened' /\ HistoryIsAChain'
  BY <1>1 DEF Inv, Opened, HistoryIsAChain, OpenPrices
<1>. QED  BY <1>2, <1>3, <1>4, <1>5 DEF Inv

\* What one session does in a step.
StepOf(s) ==
    \/ CreateProduct(s) \/ CreateStore(s) \/ CreateContract(s)
    \/ CreatePromo(s) \/ CreateUser(s) \/ CreateBranch(s)
    \/ CreateTicket(s) \/ CreateEnterprise(s)
    \/ CreatePlatformStore(s) \/ CreateCategory(s) \/ CreateTemplate(s)
    \/ CreateSegment(s) \/ ApproveEntry(s) \/ CreateBanner(s)
    \/ InsertRow(s) \/ AnswerExisting(s) \/ CommitCreate(s)
    \/ \E i \in Ids :
        \/ UpdateProduct(s, i) \/ UpdateStore(s, i) \/ UpdateContract(s, i)
        \/ UpdatePromo(s, i) \/ UpdateUser(s, i) \/ UpdateBranch(s, i)
        \/ UpdateStatus(s, i) \/ UpdateEnterprise(s, i)
        \/ DeleteProduct(s, i) \/ DeleteStore(s, i) \/ DeleteContract(s, i)
        \/ DeletePromo(s, i) \/ DeleteBranch(s, i) \/ DeleteEnterprise(s, i)
        \/ UpdatePhotoUrl(s, i) \/ UpdateContractFile(s, i)
        \/ UpdateBanner(s, i) \/ DeactivateUser(s, i) \/ ActivateUser(s, i)
        \/ SuspendEnterprise(s, i) \/ ActivateEnterprise(s, i)
        \/ DeleteTemplate(s, i) \/ DeleteBanner(s, i)
        \/ ToggleMarketplace(s, i) \/ AssignAgent(s, i) \/ AddMessage(s, i)
        \/ TogglePromoFeatured(s, i) \/ ResetAdminPassword(s, i)
        \/ UpdateMyModules(s, i) \/ PatchBanner(s, i) \/ UpdateBannerImage(s, i)
    \/ WriteRow(s)
    \/ FindPrice(s) \/ LockPrice(s) \/ SetPrice(s)
    \/ Abort(s)

LEMMA NextInv == Inv /\ [Next]_vars => Inv'
<1>. SUFFICES ASSUME Inv, [Next]_vars PROVE Inv'
  OBVIOUS
<1>1. CASE UNCHANGED vars
  BY <1>1, StutterInv
<1>2. CASE Next
  <2>1. PICK s \in Sessions : StepOf(s)
    BY <1>2 DEF Next, StepOf
  <2>. QED  BY <2>1, CreationsInv, InsertInv, AnswerInv, CommitCreateInv, EditsInv, WritesInv,
       WriteRowInv, FindPriceInv, LockPriceInv, SetPriceInv, AbortInv
       DEF StepOf
<1>. QED  BY <1>1, <1>2

\* The invariant holds of every reachable state.
THEOREM Invariance == Spec => []Inv
  BY InitInv, NextInv, PTL DEF Spec

\* Whatever the tables, the columns, the answers and the open transactions
\* hold is of its type: versions and prices never leave their ranges.
THEOREM TypeCorrect == Spec => []TypeOK
<1>1. Inv => TypeOK
  BY DEF Inv
<1>. QED  BY Invariance, <1>1, PTL

\* The edits of a product, a store or a contract are serial, however many
\* sessions edit, delete and write beside them.
THEOREM SerialEdits == Spec => []EditsAreSerial
<1>1. Inv => EditsAreSerial
  BY DEF Inv
<1>. QED  BY Invariance, <1>1, PTL

\* The answer to a creation names a row with the request's client_uuid,
\* through Redis, the unique index or the insert.
THEOREM AnswersTrue == Spec => []AnswersNameTheirRow
<1>1. Inv => AnswersNameTheirRow
  BY DEF Inv
<1>. QED  BY Invariance, <1>1, PTL

\* However changes of one price wait for each other, its history is a chain.
THEOREM PriceHistory == Spec => []HistoryIsAChain
<1>1. Inv => HistoryIsAChain
  BY DEF Inv
<1>. QED  BY Invariance, <1>1, PTL

\* Only a commit changes a row.
LEMMA StepRows ==
  ASSUME NEW s \in Sessions, StepOf(s)
  PROVE  UNCHANGED rows \/ WriteRow(s) \/ CommitCreate(s)
<1>1. CASE \/ CreateProduct(s) \/ CreateStore(s) \/ CreateContract(s)
           \/ CreatePromo(s) \/ CreateUser(s) \/ CreateBranch(s)
           \/ CreateTicket(s) \/ CreateEnterprise(s)
           \/ CreatePlatformStore(s) \/ CreateCategory(s) \/ CreateTemplate(s)
           \/ CreateSegment(s) \/ ApproveEntry(s) \/ CreateBanner(s)
  <2>1. ASSUME NEW r, Create(s, r) PROVE UNCHANGED rows
    BY <2>1 DEF Create, CreateAgain, BeginCreate
  <2>. QED  BY <1>1, <2>1 DEF CreateProduct, CreateStore, CreateContract, CreatePromo,
       CreateUser, CreateBranch, CreateTicket, CreateEnterprise, CreatePlatformStore,
       CreateCategory, CreateTemplate, CreateSegment, ApproveEntry, CreateBanner
<1>2. CASE \/ InsertRow(s) \/ AnswerExisting(s) \/ Abort(s)
           \/ FindPrice(s) \/ LockPrice(s) \/ SetPrice(s)
  BY <1>2 DEF InsertRow, AnswerExisting, Abort, FindPrice, LockPrice, SetPrice
<1>3. ASSUME NEW i \in Ids,
             \/ UpdateProduct(s, i) \/ UpdateStore(s, i) \/ UpdateContract(s, i)
             \/ UpdatePromo(s, i) \/ UpdateUser(s, i) \/ UpdateBranch(s, i)
             \/ UpdateStatus(s, i) \/ UpdateEnterprise(s, i)
      PROVE  UNCHANGED rows
  BY <1>3 DEF UpdateProduct, UpdateStore, UpdateContract, UpdatePromo, UpdateUser,
     UpdateBranch, UpdateStatus, UpdateEnterprise, BeginEdit
<1>4. ASSUME NEW i \in Ids,
             \/ DeleteProduct(s, i) \/ DeleteStore(s, i) \/ DeleteContract(s, i)
             \/ DeletePromo(s, i) \/ DeleteBranch(s, i) \/ DeleteEnterprise(s, i)
             \/ UpdatePhotoUrl(s, i) \/ UpdateContractFile(s, i)
             \/ UpdateBanner(s, i) \/ DeactivateUser(s, i) \/ ActivateUser(s, i)
             \/ SuspendEnterprise(s, i) \/ ActivateEnterprise(s, i)
             \/ DeleteTemplate(s, i) \/ DeleteBanner(s, i)
             \/ ToggleMarketplace(s, i) \/ AssignAgent(s, i) \/ AddMessage(s, i)
             \/ TogglePromoFeatured(s, i) \/ ResetAdminPassword(s, i)
             \/ UpdateMyModules(s, i) \/ PatchBanner(s, i) \/ UpdateBannerImage(s, i)
      PROVE  UNCHANGED rows
  BY <1>4 DEF DeleteProduct, DeleteStore, DeleteContract, DeletePromo, DeleteBranch,
     DeleteEnterprise, UpdatePhotoUrl, UpdateContractFile, UpdateBanner, DeactivateUser,
     ActivateUser, SuspendEnterprise, ActivateEnterprise, DeleteTemplate, DeleteBanner,
     ToggleMarketplace, AssignAgent, AddMessage, TogglePromoFeatured, ResetAdminPassword,
     UpdateMyModules, PatchBanner, UpdateBannerImage, BeginWrite
<1>. QED  BY <1>1, <1>2, <1>3, <1>4 DEF StepOf

\* The UPDATE of an edit leaves alone what the edit is not about.
LEMMA EditLeaves ==
  ASSUME Inv, NEW s \in Sessions, WriteRow(s), tx[s].edit
  PROVE  /\ kind \in {"product", "contract", "promo", "user"} =>
              rows'[tx[s].id].side = rows[tx[s].id].side
         /\ ~tx[s].named => rows'[tx[s].id].link = rows[tx[s].id].link
<1>1. Writing(s) /\ WriteOK(s) /\ tx[s].id \in Ids
  BY TxShape DEF WriteRow, Writing, Inv, SessionsOK, SessionOK
<1>2. rows[tx[s].id] \in Rows
  BY <1>1 DEF Inv, TypeOK
<1>3. rows'[tx[s].id] = Written(s, rows[tx[s].id])
  BY <1>1 DEF WriteRow, Inv, TypeOK
<1>. QED  BY <1>1, <1>2, <1>3, WrittenShape DEF Inv, WriteOK

\* A session that ends with the write it held commits it, or nothing.
LEMMA WriteEnds ==
  ASSUME Inv, [Next]_vars, NEW s \in Sessions, tx[s].pc = "write", ~Busy(s)'
  PROVE  WriteRow(s) \/ UNCHANGED rows
<1>1. CASE UNCHANGED vars
  BY <1>1 DEF vars
<1>2. ASSUME NEW r \in Sessions, StepOf(r) PROVE WriteRow(s) \/ UNCHANGED rows
  <2>1. CASE WriteRow(r)
    <3>1. r = s
      BY <2>1 DEF WriteRow, Busy, Inv, TypeOK
    <3>. QED  BY <2>1, <3>1
  <2>2. CASE CommitCreate(r)
    <3>1. r # s /\ tx'[s] = tx[s]
      BY <2>2 DEF CommitCreate, Inv, TypeOK
    <3>. QED  BY <3>1 DEF Busy
  <2>. QED  BY <1>2, <2>1, <2>2, StepRows
<1>. QED  BY <1>1, <1>2 DEF Next, StepOf

\* What is written without a version survives every edit that is not about it.
THEOREM SidesSurvive == Spec => SidesAreKept
<1>1. Inv /\ [Next]_vars =>
        [\A s \in Sessions : tx[s].pc = "write" /\ tx[s].edit /\ ~Busy(s)' =>
           LET i == tx[s].id IN
           /\ kind \in {"product", "contract", "promo", "user"} =>
                rows'[i].side = rows[i].side
           /\ ~tx[s].named => rows'[i].link = rows[i].link]_vars
  BY WriteEnds, EditLeaves
<1>. QED  BY Invariance, <1>1, PTL DEF Spec, SidesAreKept
==============================================================================
