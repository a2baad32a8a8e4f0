------------------------------- MODULE WorkDay -------------------------------
(***************************************************************************)
(* A working day: the check-in, the positions and the check-out that the   *)
(* phone of one user puts into its outbox (features/attendance/), and the  *)
(* server that applies them (modules/attendance, modules/gps, through      *)
(* POST /sync/push).  Users share nothing but the event loop, so one user  *)
(* stands for all.                                                         *)
(*                                                                         *)
(* The outbox itself is module MobileOutbox; here a batch is what the      *)
(* phone believes unanswered, its answer is heard or lost, and a request   *)
(* may be served after the phone gave up on it.  A request is one          *)
(* transaction with a savepoint per operation.  The server takes every     *)
(* time, the working day included, from its own clock.                     *)
(*                                                                         *)
(* The Redis key of a check-in is left out: the row it leads to carries    *)
(* the same client_uuid, and the lookup in the table that follows finds    *)
(* it.  A check-out leaves no client_uuid in the table, and its key is all *)
(* there is.                                                               *)
(***************************************************************************)
EXTENDS Naturals, Sequences, FiniteSets

CONSTANTS
    Requests,      \* pushes that may be under way at once
    MaxOps,        \* bound on what the user does
    MaxDay,        \* bound on the days that pass
    MaxId,         \* bound on the attendance ids drawn
    MaxFailed      \* bound on the operations that failed at a time

ASSUME ConstantsAssumption == {MaxOps, MaxDay, MaxId, MaxFailed} \subseteq Nat \ {0}

VARIABLES
    phone,         \* AttendanceRepository._currentRecord: none or closed
                   \* ("out"), or open ("in")
    ops,           \* the operations queued, in the order of their making
    answer,        \* outbox_queue.status of each
    refused,       \* history: the day the check-in was refused for, as the
                   \* server that said so took it
    day,           \* the server's date
    ids,           \* attendance ids drawn
    rows,          \* attendance, committed: the row of each day
    left,          \* check-outs whose event was committed
    points,        \* gps_point, committed
    keys,          \* idem:attendance:check_out: the row id kept for each
    tx             \* the requests

device == <<phone, ops, answer, refused>>
stored == <<rows, left, points>>
vars   == <<device, day, ids, stored, keys, tx>>

Ops  == 1..MaxOps
Days == 1..MaxDay

\* uq_attendance_user_date: one row per day; id 0 is no row, in and out are
\* the operations that opened and closed it.
Rows  == [id : 0..MaxId, in : 0..MaxOps, out : 0..MaxOps]
NoRow == [id |-> 0, in |-> 0, out |-> 0]

Open(row) == row.in # 0 /\ row.out = 0

Answers == {"pending", "applied", "conflict", "error"}

\* What a request has still to do, the day it read for the write that comes
\* next, its own uncommitted rows, check-outs and positions, its results;
\* on, for the history, the day it refused a check-in for.
Transactions ==
    [pc : {"idle", "next", "insert", "close", "store"},
     todo : SUBSET Ops, day : 0..MaxDay,
     wrote : SUBSET Days, draft : [Days -> Rows],
     left : SUBSET Ops, points : SUBSET Ops, results : [Ops -> Answers],
     on : [Ops -> 0..MaxDay]]

Idle == [pc |-> "idle", todo |-> {}, day |-> 0, wrote |-> {},
         draft |-> [d \in Days |-> NoRow], left |-> {}, points |-> {},
         results |-> [op \in Ops |-> "pending"], on |-> [op \in Ops |-> 0]]

Init ==
    /\ phone = "out" /\ ops = <<>> /\ answer = [op \in Ops |-> "pending"]
    /\ refused = [op \in Ops |-> 0]
    /\ day = 1
    /\ ids = 0
    /\ rows = [d \in Days |-> NoRow] /\ left = {} /\ points = {}
    /\ keys = [op \in Ops |-> 0]
    /\ tx = [q \in Requests |-> Idle]

-----------------------------------------------------------------------------
(* The phone *)

Queue(kind) ==
    /\ Len(ops) < MaxOps
    /\ ops' = Append(ops, kind)
    /\ UNCHANGED <<answer, refused, day, ids, stored, keys, tx>>

\* checkIn, after the biometric check: what the server says of it later
\* changes nothing on the phone.
CheckIn == phone = "out" /\ phone' = "in" /\ Queue("in")

\* checkOut
CheckOut == phone = "in" /\ phone' = "out" /\ Queue("out")

\* ingestGps: at once after the check-in, then every 30 seconds.  The record
\* is marked after the check-out's outbox row, and a position may slip in
\* between.
Ping ==
    /\ phone = "in" \/ (ops # <<>> /\ ops[Len(ops)] = "out")
    /\ phone' = phone
    /\ Queue("gps")

\* The record lives in memory only.
Kill ==
    /\ phone' = "out"
    /\ UNCHANGED <<ops, answer, refused, day, ids, stored, keys, tx>>

Unanswered == {op \in DOMAIN ops : answer[op] \in {"pending", "error"}}

Send(q) ==
    /\ tx[q].pc = "idle"
    /\ Unanswered # {}
    /\ tx' = [tx EXCEPT ![q] = [Idle EXCEPT !.pc = "next", !.todo = Unanswered]]
    /\ UNCHANGED <<device, day, ids, stored, keys>>

-----------------------------------------------------------------------------
(* The server, one operation after the other *)

\* The operation being applied.
Op(q) == CHOOSE op \in tx[q].todo : \A other \in tx[q].todo : op <= other

\* The row of a day as a transaction sees it.
Row(q, d) == IF d \in tx[q].wrote THEN tx[q].draft[d] ELSE rows[d]

Starts(q, kind) ==
    /\ tx[q].pc = "next"
    /\ tx[q].todo # {}
    /\ ops[Op(q)] = kind

\* t, with the result of the operation, at the next one.
Settled(q, t, result) ==
    tx' = [tx EXCEPT ![q] =
        [t EXCEPT !.pc = "next", !.todo = @ \ {Op(q)}, !.day = 0,
                  !.results[Op(q)] = result]]

Reply(q, result) ==
    /\ Settled(q, tx[q], result)
    /\ UNCHANGED <<device, day, ids, stored, keys>>

\* already_checked_in, for the day d.
Refuse(q, d) ==
    /\ Settled(q, [tx[q] EXCEPT !.on[Op(q)] = d], "conflict")
    /\ UNCHANGED <<device, day, ids, stored, keys>>

GoTo(q, pc, d) ==
    /\ tx' = [tx EXCEPT ![q].pc = pc, ![q].day = d]
    /\ UNCHANGED <<device, day, ids, stored, keys>>

\* A row lock or an index entry that another transaction holds.
Held(q, d) == \E other \in Requests \ {q} : d \in tx[other].wrote

Write(q, d, row) ==
    [tx[q] EXCEPT !.wrote = @ \cup {d}, !.draft[d] = row]

\* The row of this client_uuid.
Recorded(q) == \E d \in Days : Row(q, d).in = Op(q)

\* check_in, before the INSERT.  The working day is drawn here.
ReadCheckIn(q) ==
    /\ Starts(q, "in")
    /\ IF Recorded(q) THEN Reply(q, "applied")
       ELSE IF Open(Row(q, day)) THEN Refuse(q, day)
       ELSE GoTo(q, "insert", day)

\* Mutated: client_uuid has no unique index.
TakenByDay(q, d) == Row(q, d).id # 0

\* uq_attendance_user_date and uq_attendance_client_uuid
Taken(q, d) == Row(q, d).id # 0 \/ Recorded(q)
Waits(q, d) ==
    \/ Held(q, d)
    \/ \E other \in Requests \ {q}, e \in Days :
        e \in tx[other].wrote /\ tx[other].draft[e].in = Op(q)

\* Mutated: the INSERT does not wait for a transaction under way.
RefuseAtOnce(q) ==
    /\ tx[q].pc = "insert"
    /\ Waits(q, tx[q].day) \/ Taken(q, tx[q].day)
    /\ Refuse(q, tx[q].day)

\* already_checked_in by the unique violation, in its savepoint.
RefuseCheckIn(q) ==
    /\ tx[q].pc = "insert"
    /\ ~Waits(q, tx[q].day)
    /\ Taken(q, tx[q].day)
    /\ Refuse(q, tx[q].day)

InsertCheckIn(q) ==
    /\ tx[q].pc = "insert"
    /\ ~Waits(q, tx[q].day)
    /\ ~Taken(q, tx[q].day)
    /\ ids < MaxId
    /\ ids' = ids + 1
    /\ Settled(q, Write(q, tx[q].day, [id |-> ids + 1, in |-> Op(q), out |-> 0]),
               "applied")
    /\ UNCHANGED <<device, day, stored, keys>>

\* check_out with a key that leads to a row, whether the row is closed or not.
ReplyFromKey(q) ==
    /\ Starts(q, "out")
    /\ keys[Op(q)] # 0
    /\ \E d \in Days : Row(q, d).id = keys[Op(q)]
    /\ Reply(q, "applied")

\* Mutated: a check-out that finds nothing open was applied before.
TakeForRepeat(q) ==
    /\ Starts(q, "out")
    /\ IF Open(Row(q, day)) THEN GoTo(q, "close", day) ELSE Reply(q, "applied")

\* No key, none that leads to a row, or no answer from Redis.  The session
\* open today is read without a lock.
ReadCheckOut(q) ==
    /\ Starts(q, "out")
    /\ IF Open(Row(q, day)) THEN GoTo(q, "close", day) ELSE Reply(q, "conflict")

\* The UPDATE by id waits for the row's lock and then writes check_out_at,
\* whatever the row has become; the key is set before the commit, if Redis
\* answers.
CloseSession(q) ==
    LET d == tx[q].day
        t == Write(q, d, [Row(q, d) EXCEPT !.out = Op(q)]) IN
    /\ tx[q].pc = "close"
    /\ ~Held(q, d)
    /\ \/ keys' = keys
       \/ keys[Op(q)] = 0 /\ keys' = [keys EXCEPT ![Op(q)] = Row(q, d).id]
    /\ Settled(q, [t EXCEPT !.left = @ \cup {Op(q)}], "applied")
    /\ UNCHANGED <<device, day, ids, stored>>

\* Mutated: positions are stored around the clock.
NoFilter(q) == {1}

\* _get_active_attendance: the open sessions of every day.
ActiveSessions(q) == {d \in Days : Open(Row(q, d))}

\* Nothing is stored outside work and the answer does not say so; two
\* sessions make scalar_one_or_none raise.
ReadActive(q) ==
    LET active == ActiveSessions(q) IN
    /\ Starts(q, "gps")
    /\ IF active = {} THEN Reply(q, "applied")
       ELSE IF Cardinality(active) = 1 THEN GoTo(q, "store", 0)
       ELSE Reply(q, "error")

\* INSERT ... ON CONFLICT DO NOTHING
StorePoint(q) ==
    /\ tx[q].pc = "store"
    /\ Settled(q, [tx[q] EXCEPT !.points = @ \cup {Op(q)}], "applied")
    /\ UNCHANGED <<device, day, ids, stored, keys>>

\* A statement fails: the savepoint of the operation is rolled back.
FailOp(q) ==
    LET failed == {op \in Ops : \/ answer[op] = "error"
                                \/ \E r \in Requests : tx[r].results[op] = "error"} IN
    /\ tx[q].pc = "next"
    /\ tx[q].todo # {}
    /\ Cardinality(failed) < MaxFailed
    /\ Reply(q, "error")

\* The results reach the phone, or not; an applied operation has left its
\* outbox.
Heard(q) ==
    /\ answer' = [op \in Ops |->
           IF tx[q].results[op] = "pending" \/ answer[op] = "applied"
           THEN answer[op] ELSE tx[q].results[op]]
    /\ refused' = [op \in Ops |->
           IF answer'[op] # "conflict" THEN 0
           ELSE IF tx[q].results[op] = "conflict" THEN tx[q].on[op] ELSE refused[op]]

\* get_db commits.
Commit(q) ==
    /\ tx[q].pc = "next"
    /\ tx[q].todo = {}
    /\ rows' = [d \in Days |-> Row(q, d)]
    /\ left' = left \cup tx[q].left
    /\ points' = points \cup tx[q].points
    /\ UNCHANGED <<answer, refused>> \/ Heard(q)
    /\ tx' = [tx EXCEPT ![q] = Idle]
    /\ UNCHANGED <<phone, ops, day, ids, keys>>

\* The connection is lost, the commit fails, the worker is killed.
Abort(q) ==
    /\ tx[q].pc # "idle"
    /\ tx' = [tx EXCEPT ![q] = Idle]
    /\ UNCHANGED <<device, day, ids, stored, keys>>

Midnight ==
    /\ day < MaxDay
    /\ day' = day + 1
    /\ UNCHANGED <<device, ids, stored, keys, tx>>

-----------------------------------------------------------------------------

Next ==
    \/ CheckIn \/ Ping \/ CheckOut \/ Kill
    \/ \E q \in Requests :
        \/ Send(q)
        \/ ReadCheckIn(q) \/ RefuseCheckIn(q) \/ InsertCheckIn(q)
        \/ ReplyFromKey(q) \/ ReadCheckOut(q) \/ CloseSession(q)
        \/ ReadActive(q) \/ StorePoint(q)
        \/ FailOp(q) \/ Commit(q) \/ Abort(q)
    \/ Midnight

Spec == Init /\ [][Next]_vars

-----------------------------------------------------------------------------
(* Properties *)

\* The state is well formed.
TypeOK ==
    /\ phone \in {"out", "in"}
    /\ ops \in Seq({"in", "out", "gps"}) /\ Len(ops) <= MaxOps
    /\ answer \in [Ops -> Answers] /\ refused \in [Ops -> 0..MaxDay]
    /\ day \in Days /\ ids \in 0..MaxId
    /\ rows \in [Days -> Rows] /\ left \subseteq Ops /\ points \subseteq Ops
    /\ keys \in [Ops -> 0..MaxId]
    /\ tx \in [Requests -> Transactions]

\* A check-in that the phone holds for applied has its row, and a check-out
\* its event -- or a key, which alone can outlive its transaction: lost
\* answers, rolled back requests, twins and midnight included.
AcksAreRecorded ==
    \A op \in DOMAIN ops : answer[op] = "applied" =>
        /\ ops[op] = "in" => \E d \in Days : rows[d].in = op
        /\ ops[op] = "out" => op \in left \/ keys[op] # 0

\* One check-in opens one session, also when it is sent again after midnight
\* while the first request is still under way.
OneSessionPerCheckIn ==
    \A d, e \in Days : rows[d].in = rows[e].in /\ rows[d].in # 0 => d = e

\* A check-in is refused for the sake of a session that is there, of the day
\* it was refused for or opened by the check-in itself, when its twin came
\* first: never for an INSERT that rolls back, across midnight included.
RefusedForASession ==
    \A op \in DOMAIN ops : ops[op] = "in" /\ answer[op] = "conflict" =>
        \E d \in Days : rows[d].id # 0 /\ (d = refused[op] \/ rows[d].in = op)

\* A position is stored only for a user who has been at work since the first
\* check-in: "GPS faqat ish vaqtida" (ADR-001, Maxfiylik).
StoredAtWork ==
    points # {} => \E d \in Days : rows[d].id # 0

\* The answer to an applied check-out has check_out_at filled
\* (docs/ATTENDANCE.md, POST /attendance/check-out).
AppliedOutIsClosed ==
    \A op \in DOMAIN ops : answer[op] = "applied" /\ ops[op] = "out" => op \in left

\* A session that is open lets positions pass: "Aktiv sessiya bor -> barcha
\* nuqtalar o'tadi" (gps/service.py, ingest).
SessionLetsPositionsPass ==
    \A q \in Requests : Starts(q, "gps") => Cardinality(ActiveSessions(q)) <= 1
==============================================================================
