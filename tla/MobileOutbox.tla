----------------------------- MODULE MobileOutbox -----------------------------
(***************************************************************************)
(* The outbox of the mobile app and the server that receives it: what a    *)
(* user does offline is written to the local database and to outbox_queue, *)
(* sync runs push the queue (mobile/lib/data/sync/sync_service.dart), and  *)
(* POST /sync/push applies it (modules/sync/service.py).                   *)
(*                                                                         *)
(* Two kinds of operation stand for the rest.  A creation (order.create)   *)
(* is idempotent by client_uuid.  The updates 1..N (delivery.status_update)*)
(* move one delivery: update i is accepted at version i only and has no    *)
(* other idempotency.  The queue fits one batch of 50.                     *)
(***************************************************************************)
EXTENDS Naturals, FiniteSets

CONSTANTS
    Creations,     \* order.create operations
    N,             \* updates of one delivery: at most its three transitions
    Runs,          \* sync runs that may be under way at once
    MaxAttempts,   \* OutboxDao._maxAttempts
    MaxAdrift      \* bound on the requests whose client gave up on them

Updates == 1..N
Ops     == Creations \cup Updates

ASSUME ConstantsAssumption ==
    /\ N \in Nat
    /\ IsFiniteSet(Runs)
    /\ MaxAttempts \in Nat \ {0}
    /\ Creations \cap Nat = {}

VARIABLES
    made,          \* operations the user sees as done on the device
    writing,       \* updates whose local row is written, their outbox row not
    queue,         \* outbox_queue.status; "none" before, "removed" after
    attempts,      \* outbox_queue.attempts
    synced,        \* creations whose local order carries the server's id
    syncing,       \* SyncNotifier's state is SyncState.syncing
    runs,          \* the sync runs
    adrift,        \* batches the server may still receive, unanswered
    done,          \* operations committed on the server
    version,       \* delivery.version on the server; 0: somebody failed it
    others         \* the updates whose transition somebody else made; history

device == <<made, writing, queue, attempts, synced, syncing, runs>>
server == <<done, version, others>>
vars   == <<device, adrift, server>>

QueueStatuses == {"none", "pending", "applied", "conflict", "error", "removed"}
Results == {"applied", "conflict", "error"}

\* A run at a step that needs nothing but the step's name.
At(pc) == [pc |-> pc, batch |-> {}, results |-> [op \in Ops |-> "error"], op |-> {}]

Ready == At("ready")

\* The steps of a run: the request is sent, the server has answered, the
\* answers are taken one by one (and an order stamped with its server id, or
\* a failed attempt counted), the queue is cleaned, changes are pulled.
RunStates ==
    [pc : {"ready", "sent", "answered", "take", "stamp", "count", "clean", "pull"},
     batch : SUBSET Ops, results : [Ops -> Results], op : SUBSET Ops]

Init ==
    /\ made = {}
    /\ writing = {}
    /\ queue = [op \in Ops |-> "none"]
    /\ attempts = [op \in Ops |-> 0]
    /\ synced = {}
    /\ syncing = FALSE
    /\ runs = [r \in Runs |-> Ready]
    /\ adrift = {}
    /\ done = {}
    /\ version = 1
    /\ others = {}

-----------------------------------------------------------------------------
(* The user *)

\* OrderRepository.createOrder: the order and its outbox row, in one
\* transaction.
CreateOrder(op) ==
    /\ op \in Creations \ made
    /\ made' = made \cup {op}
    /\ queue' = [queue EXCEPT ![op] = "pending"]
    /\ UNCHANGED <<writing, attempts, synced, syncing, runs, adrift, server>>

\* DeliveryRepository.updateStatus: the local row first.  isValidTransition
\* is checked against the local row.
UpdateLocalRow(i) ==
    /\ i \in Updates \ made
    /\ 1..(i - 1) \subseteq made
    /\ writing = {}
    /\ made' = made \cup {i}
    /\ writing' = {i}
    /\ UNCHANGED <<queue, attempts, synced, syncing, runs, adrift, server>>

\* The outbox row is a second write of the same Future.wait.
InsertOp(i) ==
    /\ i \in writing
    /\ queue' = [queue EXCEPT ![i] = "pending"]
    /\ writing' = {}
    /\ UNCHANGED <<made, attempts, synced, syncing, runs, adrift, server>>

-----------------------------------------------------------------------------
(* A sync run on the device *)

\* Mutated: failed operations are not sent again.
PendingOnly == {op \in Ops : queue[op] = "pending"}

\* OutboxDao.getPending
Pending == {op \in Ops : \/ queue[op] = "pending"
                         \/ queue[op] = "error" /\ attempts[op] < MaxAttempts}

\* The next result is taken.
TakeNext(r) == runs' = [runs EXCEPT ![r] = [@ EXCEPT !.pc = "take", !.op = {}]]

GoTo(r, pc) == runs' = [runs EXCEPT ![r] = At(pc)]

\* triggerSync: every minute, when the network is back, or by the user's hand.
\* An empty queue is not pushed.
StartRun(r) ==
    /\ runs[r].pc = "ready"
    /\ ~syncing
    /\ syncing' = TRUE
    /\ runs' = [runs EXCEPT ![r] = IF Pending = {} THEN At("pull")
                                   ELSE [At("sent") EXCEPT !.batch = Pending]]
    /\ UNCHANGED <<made, writing, queue, attempts, synced, adrift, server>>

\* The connectivity watch sets SyncState.offline, also while a run is under
\* way: the next trigger starts another run beside it.
GoOffline ==
    /\ syncing' = FALSE
    /\ UNCHANGED <<made, writing, queue, attempts, synced, runs, adrift, server>>

\* Mutated: a lost answer is taken for success.
LoseAnswerAsApplied(r) ==
    /\ runs[r].pc \in {"sent", "answered"}
    /\ adrift' = adrift
    /\ queue' = [op \in Ops |-> IF op \in runs[r].batch THEN "applied" ELSE queue[op]]
    /\ GoTo(r, "clean")
    /\ UNCHANGED <<made, writing, attempts, synced, syncing, server>>

\* networkError: the answer is lost, or too late.  A request the server has
\* not received yet may still arrive.
LoseAnswer(r) ==
    /\ runs[r].pc \in {"sent", "answered"}
    /\ \/ adrift' = adrift
       \/ /\ runs[r].pc = "sent"
          /\ Cardinality(adrift) < MaxAdrift
          /\ adrift' = adrift \cup {runs[r].batch}
    /\ GoTo(r, "clean")
    /\ UNCHANGED <<made, writing, queue, attempts, synced, syncing, server>>

\* authError: the run ends without cleaning up.
AuthError(r) ==
    /\ runs[r].pc = "sent"
    /\ runs' = [runs EXCEPT ![r] = Ready]
    /\ syncing' = FALSE
    /\ UNCHANGED <<made, writing, queue, attempts, synced, adrift, server>>

ReceiveAnswer(r) ==
    /\ runs[r].pc = "answered"
    /\ TakeNext(r)
    /\ UNCHANGED <<made, writing, queue, attempts, synced, syncing, adrift, server>>

\* OutboxDao.updateStatus with the result of one operation; a row that another
\* run has deleted stays deleted.
TakeResult(r, op) ==
    LET result == runs[r].results[op] IN
    /\ runs[r].pc = "take"
    /\ op \in runs[r].batch
    /\ queue' = IF queue[op] = "removed" THEN queue
                ELSE [queue EXCEPT ![op] = result]
    /\ runs' = [runs EXCEPT ![r] =
                [@ EXCEPT !.batch = runs[r].batch \ {op}, !.op = {op},
                          !.pc = IF result = "error" THEN "count"
                                 ELSE IF result = "applied" /\ op \in Creations
                                      THEN "stamp" ELSE "take"]]
    /\ UNCHANGED <<made, writing, attempts, synced, syncing, adrift, server>>

\* OrdersDao.updateSyncStatus
StampOrder(r) ==
    /\ runs[r].pc = "stamp"
    /\ synced' = synced \cup runs[r].op
    /\ TakeNext(r)
    /\ UNCHANGED <<made, writing, queue, attempts, syncing, adrift, server>>

\* OutboxDao.incrementAttempts
CountAttempt(r) ==
    /\ runs[r].pc = "count"
    /\ attempts' = [op \in Ops |->
                    IF op \in runs[r].op /\ queue[op] # "removed"
                    THEN attempts[op] + 1 ELSE attempts[op]]
    /\ TakeNext(r)
    /\ UNCHANGED <<made, writing, queue, synced, syncing, adrift, server>>

AllTaken(r) ==
    /\ runs[r].pc = "take"
    /\ runs[r].batch = {}
    /\ GoTo(r, "clean")
    /\ UNCHANGED <<made, writing, queue, attempts, synced, syncing, adrift, server>>

\* OutboxDao.deleteApplied
Clean(r) ==
    /\ runs[r].pc = "clean"
    /\ queue' = [op \in Ops |-> IF queue[op] = "applied" THEN "removed" ELSE queue[op]]
    /\ GoTo(r, "pull")
    /\ UNCHANGED <<made, writing, attempts, synced, syncing, adrift, server>>

\* The pull brings every order this device created and knows by client_uuid
\* (module SyncFeed tells how), or fails; either way the run ends.
Pull(r) ==
    /\ runs[r].pc = "pull"
    /\ synced' \in {synced, synced \cup (done \cap Creations)}
    /\ runs' = [runs EXCEPT ![r] = Ready]
    /\ syncing' = FALSE
    /\ UNCHANGED <<made, writing, queue, attempts, adrift, server>>

\* The app is killed: runs and half-done writes end, the database stays.  A
\* request under way may still reach the server.
Kill ==
    /\ writing' = {}
    /\ syncing' = FALSE
    /\ runs' = [r \in Runs |-> Ready]
    /\ \/ adrift' = adrift
       \/ \E r \in Runs :
            /\ runs[r].pc = "sent"
            /\ Cardinality(adrift) < MaxAdrift
            /\ adrift' = adrift \cup {runs[r].batch}
    /\ UNCHANGED <<made, queue, attempts, synced, server>>

-----------------------------------------------------------------------------
(* The server *)

\* Mutated: the version sent by the device is not compared.
AcceptsAnyVersion(v, i) == v # 0

\* delivery.update_status: the version and the transition fit.
Accepts(v, i) == v = i

\* The delivery's version after update n of a batch, whose operations are
\* applied in order, those in bad being refused for another reason.
VersionAfter(batch, bad) ==
    LET after[n \in 0..N] ==
            IF n = 0 THEN version
            ELSE IF n \in batch \ bad /\ Accepts(after[n - 1], n) THEN n + 1
            ELSE after[n - 1]
    IN  after

Result(batch, bad, op) ==
    IF op \in bad THEN "error"
    ELSE IF op \in Creations \/ Accepts(VersionAfter(batch, bad)[op - 1], op)
         THEN "applied" ELSE "conflict"

\* push: one transaction, a savepoint per operation.
Apply(batch, bad) ==
    /\ done' = done \cup {op \in batch : Result(batch, bad, op) = "applied"}
    /\ version' = VersionAfter(batch, bad)[N]
    /\ UNCHANGED others

\* The request is served and committed; its answer is on the way.
Serve(r) ==
    /\ runs[r].pc = "sent"
    /\ \E bad \in SUBSET runs[r].batch :
        /\ Apply(runs[r].batch, bad)
        /\ runs' = [runs EXCEPT ![r] =
            [@ EXCEPT !.pc = "answered",
                      !.results = [op \in Ops |->
                        IF op \in runs[r].batch THEN Result(runs[r].batch, bad, op)
                        ELSE "error"]]]
    /\ UNCHANGED <<made, writing, queue, attempts, synced, syncing, adrift>>

\* A request whose client has given up.
ServeAdrift(batch) ==
    /\ batch \in adrift
    /\ adrift' = adrift \ {batch}
    /\ \E bad \in SUBSET batch : Apply(batch, bad)
    /\ UNCHANGED device

\* An administrator fails the delivery.
FailDelivery ==
    /\ version \in 1..N
    /\ version' = 0
    /\ UNCHANGED <<device, adrift, done, others>>

\* An administrator, or the courier on a dashboard, makes the next transition
\* of the delivery: what update number version of the device is for.
AdvanceDelivery ==
    /\ version \in 1..N
    /\ others' = others \cup {version}
    /\ version' = version + 1
    /\ UNCHANGED <<device, adrift, done>>

-----------------------------------------------------------------------------

\* What a run, once started, goes through without loss.
Proceed(r) ==
    \/ Serve(r) \/ ReceiveAnswer(r)
    \/ \E op \in Ops : TakeResult(r, op)
    \/ StampOrder(r) \/ CountAttempt(r)
    \/ AllTaken(r) \/ Clean(r) \/ Pull(r)

Next ==
    \/ \E op \in Ops : CreateOrder(op) \/ UpdateLocalRow(op) \/ InsertOp(op)
    \/ \E r \in Runs : StartRun(r) \/ Proceed(r) \/ LoseAnswer(r) \/ AuthError(r)
    \/ GoOffline
    \/ Kill
    \/ \E batch \in adrift : ServeAdrift(batch)
    \/ FailDelivery \/ AdvanceDelivery

Spec == Init /\ [][Next]_vars

\* The app is opened again and again with a network that works for a while:
\* the timer starts a run each minute, and a run that can go on goes on.
Fairness ==
    /\ SF_vars(\E r \in Runs : StartRun(r))
    /\ \A r \in Runs :
        /\ SF_vars(Serve(r)) /\ SF_vars(ReceiveAnswer(r))
        /\ SF_vars(\E op \in Ops : TakeResult(r, op))
        /\ SF_vars(StampOrder(r)) /\ SF_vars(CountAttempt(r))
        /\ SF_vars(AllTaken(r)) /\ SF_vars(Clean(r)) /\ SF_vars(Pull(r))

FairSpec == Spec /\ Fairness

-----------------------------------------------------------------------------
(* Properties *)

\* The state is well formed.  Each run under way may add one attempt to an
\* operation it fetched below the limit.
TypeOK ==
    /\ made \subseteq Ops /\ writing \subseteq made
    /\ queue \in [Ops -> QueueStatuses]
    /\ attempts \in [Ops -> 0..(MaxAttempts + Cardinality(Runs) - 1)]
    /\ synced \subseteq Creations
    /\ syncing \in BOOLEAN
    /\ runs \in [Runs -> RunStates]
    /\ adrift \subseteq SUBSET Ops
    /\ done \subseteq Ops
    /\ version \in 0..(N + 1)
    /\ others \subseteq Updates

\* Nothing leaves the outbox, and no order shows as synced, that the server
\* has not committed: lost answers, kills, restarts and runs side by side
\* included.
NothingIsDropped ==
    /\ \A op \in Ops : queue[op] \in {"applied", "removed"} => op \in done
    /\ synced \subseteq done

\* A transition of the delivery is made once, after all those before it, by
\* the courier's queued update or by somebody else and never by both, however
\* often and late the batches arrive and whoever moves the delivery meanwhile.
\* (An update may well be applied after an earlier one came back as a conflict:
\* somebody else had made that one's transition.)
TransitionsInOrder ==
    /\ done \cap others = {}
    /\ \A i \in Updates \cap done : i \in made /\ 1..i \subseteq done \cup others

\* An update that the courier sees as done is in the outbox, or is about to
\* be: "Lokal yangilash + outbox -- BITTA tranzaksiyada"
\* (delivery_repository.dart).
UpdatesAreQueued ==
    \A i \in Updates \cap made : queue[i] # "none" \/ i \in writing

\* An update is shown as a conflict only when somebody else has touched the
\* delivery: "conflict" means another actor (docs/SYNC.md).
ConflictIsForeign ==
    \A op \in Ops : queue[op] = "conflict" => version = 0 \/ others # {}

\* No queued operation waits for ever: it reaches the server, is shown as a
\* conflict, or has used up its attempts.
EveryOpSettles ==
    \A op \in Ops :
        queue[op] = "pending" ~>
            \/ queue[op] \in {"applied", "removed", "conflict"}
            \/ queue[op] = "error" /\ attempts[op] >= MaxAttempts
===============================================================================
