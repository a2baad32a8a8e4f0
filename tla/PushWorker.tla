----------------------------- MODULE PushWorker -----------------------------
(***************************************************************************)
(* Push notifications (modules/push): the worker that looks for events     *)
(* without a row in push_log, sends a message to each user they concern,   *)
(* and tries failed messages again.                                        *)
(*                                                                         *)
(* A run of the worker is one transaction, committed at its end, while its *)
(* messages leave at once.  arq runs up to ten jobs side by side, so runs  *)
(* may overlap.  The message of a pair and its row are one step: what      *)
(* another run notices of the INSERT and the UPDATEs is their locks.       *)
(***************************************************************************)
EXTENDS Naturals, Sequences, FiniteSets, FiniteSetsExt

CONSTANTS
    Workers,       \* runs that may overlap
    Events,        \* seq of the events a push is made of
    Users,
    Targets,       \* whom each event concerns, in the order of list(set(...)):
                   \* the same in every process, as a UUID's hash is its value
    Limit,         \* rows one pass selects
    MaxRetries,    \* push_max_retries
    NoRow

ASSUME PushAssumption ==
    /\ Events \subseteq Nat /\ IsFiniteSet(Events)
    /\ Targets \in [Events -> Seq(Users)]
    /\ Limit \in Nat \ {0} /\ MaxRetries \in Nat \ {0}

Pairs == {p \in Events \X Users : \E i \in DOMAIN Targets[p[1]] : Targets[p[1]][i] = p[2]}

Rows == [status : {"sent", "failed"}, attempts : 1..MaxRetries]

ASSUME NoRowAssumption == NoRow \notin Rows

VARIABLES
    emitted,       \* committed events
    device,        \* users with a device_id
    log,           \* committed push_log rows
    skipped,       \* pairs passed over for want of a device when the
                   \* event's other rows were committed
    run            \* the transaction of each worker

pushVars == <<emitted, device, log, skipped, run>>

NoRun == [pc |-> "idle"]

\* A run with what it is still to push, the rows it wrote, the users whose
\* token it erased and the pairs it passed over.  seen is the row of a retry
\* as the session read it, NoRow for news.
Items == [pair : Pairs, seen : Rows \cup {NoRow}]

Runs ==
    {NoRun}
    \cup [pc : {"push"}, todo : SUBSET Items, rows : [Pairs -> Rows \cup {NoRow}],
          gone : SUBSET Users, passed : SUBSET Pairs]

Running(w) == run[w].pc = "push"

PushInit ==
    /\ emitted = {}
    /\ device \in SUBSET Users
    /\ log = [p \in Pairs |-> NoRow]
    /\ skipped = {}
    /\ run = [w \in Workers |-> NoRun]

-----------------------------------------------------------------------------
(* The rest of the system *)

\* An order or a delivery changes; the transaction commits.
Emit(e) ==
    /\ e \notin emitted
    /\ emitted' = emitted \cup {e}
    /\ UNCHANGED <<device, log, skipped, run>>

\* PATCH /push/device-token waits for a run that has erased the user's token.
UpdateDeviceToken(u) ==
    /\ \A w \in Workers : Running(w) => u \notin run[w].gone
    /\ \/ u \notin device /\ device' = device \cup {u}
       \/ u \in device /\ device' = device \ {u}
    /\ UNCHANGED <<emitted, log, skipped, run>>

-----------------------------------------------------------------------------
(* process_pending_pushes *)

Failed == {p \in Pairs : log[p] # NoRow /\ log[p].status = "failed"}

MayRetry(row) == row.attempts < MaxRetries

Retriable == {p \in Failed : MayRetry(log[p])}

Retry(p) == [pair |-> p, seen |-> log[p]]

SoonerTried(a, b) ==
    \/ a.seen.attempts < b.seen.attempts
    \/ a.seen.attempts = b.seen.attempts /\ a.pair[1] < b.pair[1]

\* Pass 2: the first Limit rows; their order leaves ties open.
RetryPages ==
    LET all == {Retry(p) : p \in Retriable}
    IN  {P \in SUBSET all : /\ Cardinality(P) = Min({Limit, Cardinality(all)})
                            /\ \A a \in P, b \in all \ P : ~SoonerTried(b, a)}

Logged(e) == \E p \in Pairs : p[1] = e /\ log[p] # NoRow

\* Mutated: the events there are, with a row or without.
AnyEvent(e) == e \in emitted

\* NOT EXISTS: no user has a row yet.
IsNews(e) == e \in emitted /\ ~Logged(e)

\* Pass 1: the first Limit events.
NewsPage ==
    {e \in Events : IsNews(e) /\ Cardinality({d \in Events : IsNews(d) /\ d < e}) < Limit}

\* An event nobody is to be told of leaves no trace.
ItemsOf(events) ==
    {[pair |-> p, seen |-> NoRow] : p \in {p \in Pairs : p[1] \in events}}

\* Both passes select; the rows of pass 2 stay in the session as they are now.
BeginRun(w) ==
    /\ run[w] = NoRun
    /\ \E retries \in RetryPages :
        run' = [run EXCEPT ![w] =
            [pc |-> "push", todo |-> ItemsOf(NewsPage) \cup retries,
             rows |-> [p \in Pairs |-> NoRow], gone |-> {}, passed |-> {}]]
    /\ UNCHANGED <<emitted, device, log, skipped>>

\* One event's users in the order of its targets.
ToldSooner(p, q) ==
    \/ p[1] < q[1]
    \/ p[1] = q[1] /\ \E i, j \in DOMAIN Targets[p[1]] :
            i < j /\ Targets[p[1]][i] = p[2] /\ Targets[p[1]][j] = q[2]

\* Pass 1 goes through the news, then pass 2 through the retries.
Precedes(a, b) ==
    \/ a.seen = NoRow /\ b.seen = NoRow /\ ToldSooner(a.pair, b.pair)
    \/ a.seen = NoRow /\ b.seen # NoRow
    \/ a.seen # NoRow /\ b.seen # NoRow /\ SoonerTried(a, b)

IsFirst(item, todo) == \A other \in todo : ~Precedes(other, item)

-----------------------------------------------------------------------------
(* _process_one_push *)

\* The row of the item's pair: a retry's object is in the session.
Existing(item) == IF item.seen = NoRow THEN log[item.pair] ELSE item.seen

\* There is no row, or it says failed with attempts left.
MayTry(old) == old # NoRow => old.status = "failed" /\ MayRetry(old)

Reachable(w, u) == u \in device \ run[w].gone

\* The row says sent or is out of attempts, or the user has no device; then
\* nothing is written.
Skip(w, item) ==
    LET p == item.pair IN
    /\ MayTry(Existing(item)) => ~Reachable(w, p[2])
    /\ run' = [run EXCEPT ![w].todo = @ \ {item},
            ![w].passed = IF MayTry(Existing(item)) THEN @ \cup {p} ELSE @]
    /\ UNCHANGED <<emitted, device, log, skipped>>

\* Another run has written p's row and not ended: an INSERT or UPDATE waits.
Locked(w, p) == \E v \in Workers \ {w} : Running(v) /\ run[v].rows[p] # NoRow

Erased(w, u) == \E v \in Workers \ {w} : Running(v) /\ u \in run[v].gone

\* PushResult: accepted, refused or unanswered, or the token is unknown.
Outcomes == {"ok", "error", "invalid_token"}

\* The message leaves, and an unknown token is erased.
Send(w, item) ==
    LET p == item.pair
        old == Existing(item)
    IN
    /\ MayTry(old) /\ Reachable(w, p[2])
    /\ ~Locked(w, p)
    /\ \E outcome \in Outcomes :
        /\ outcome = "invalid_token" => ~Erased(w, p[2])
        /\ run' = [run EXCEPT
            ![w].todo = @ \ {item},
            ![w].rows[p] =
                [status   |-> IF outcome = "ok" THEN "sent" ELSE "failed",
                 attempts |-> IF old = NoRow THEN 1 ELSE old.attempts + 1],
            ![w].gone = IF outcome = "invalid_token" THEN @ \cup {p[2]} ELSE @]
    /\ UNCHANGED <<emitted, device, log, skipped>>

\* The INSERT meets a row that another run has committed since.  It fails in
\* the flush that begin_nested makes before its savepoint, so that the whole
\* transaction is lost.
LoseRace(w, item) ==
    /\ item.seen = NoRow /\ Existing(item) # NoRow
    /\ run' = [run EXCEPT ![w] = NoRun]
    /\ UNCHANGED <<emitted, device, log, skipped>>

PushOne(w) ==
    /\ Running(w)
    /\ \E item \in run[w].todo :
        /\ IsFirst(item, run[w].todo)
        /\ Skip(w, item) \/ Send(w, item) \/ LoseRace(w, item)

-----------------------------------------------------------------------------
(* The end of a run *)

\* Mutated: each message is committed by itself.
AfterEachMessage(w) == TRUE

AllPushed(w) == run[w].todo = {}

\* Mutated: the UPDATE writes every column.
WholeRow(old, new) == new

\* An UPDATE writes what changed since its run read the row: a status that
\* was and stays failed is not written.
Written(old, new) ==
    IF old # NoRow /\ new.status = "failed" THEN [new EXCEPT !.status = old.status]
    ELSE new

CommitRun(w) ==
    LET r == run[w] IN
    /\ Running(w) /\ AllPushed(w)
    /\ log' = [p \in Pairs |->
        IF r.rows[p] = NoRow THEN log[p] ELSE Written(log[p], r.rows[p])]
    /\ device' = device \ r.gone
    /\ skipped' = {p \in skipped \cup r.passed : log'[p] = NoRow /\ Logged(p[1])'}
    /\ run' = [run EXCEPT ![w] = NoRun]
    /\ UNCHANGED <<emitted>>

\* An error, a lost connection, a killed worker, after messages have left.
LoseRun(w) ==
    /\ Running(w)
    /\ \E p \in Pairs : run[w].rows[p] # NoRow
    /\ run' = [run EXCEPT ![w] = NoRun]
    /\ UNCHANGED <<emitted, device, log, skipped>>

Work(w) ==
    BeginRun(w) \/ PushOne(w) \/ CommitRun(w)

PushNext ==
    \/ \E e \in Events : Emit(e)
    \/ \E u \in Users : UpdateDeviceToken(u)
    \/ \E w \in Workers : Work(w) \/ LoseRun(w)

PushSpec == PushInit /\ [][PushNext]_pushVars

\* A run that began goes on: sends have timeouts, a lock is released when its
\* run ends, and not all runs are lost.  Nothing in the code makes runs begin:
\* the cron_jobs of WorkerSettings are commented out.
FairPushSpec ==
    /\ PushSpec
    /\ \A w \in Workers : WF_pushVars(PushOne(w) \/ CommitRun(w))
    /\ <>[][\A w \in Workers : ~LoseRun(w)]_pushVars

-----------------------------------------------------------------------------
(* Properties *)

\* The rows are well formed; no message is tried more than MaxRetries times
\* by the row's count, overlapping runs or not.
PushTypeOK ==
    /\ emitted \subseteq Events /\ device \subseteq Users
    /\ log \in [Pairs -> Rows \cup {NoRow}]
    /\ skipped \subseteq Pairs
    /\ run \in [Workers -> Runs]

\* An event that has a row is never looked at as news again, so its other
\* users must not be left for later: each has a row, or had no device in a
\* run that wrote the others'.  A crash in the middle of a run, or a run that
\* loses a race for one of the rows, leaves no half.
ToldTogether ==
    \A p \in Pairs : Logged(p[1]) => log[p] # NoRow \/ p \in skipped

\* A row that says sent never says anything else, although an overlapping
\* run that read it as failed writes its own result over it.
SentIsFinal ==
    [][\A p \in Pairs : log[p] # NoRow /\ log[p].status = "sent" =>
        log'[p] # NoRow /\ log'[p].status = "sent"]_pushVars

\* p is on the first page of its pass, and its user has a device.
Turn(p) ==
    /\ p[2] \in device
    /\ \/ p[1] \in NewsPage
       \/ /\ p \in Retriable
          /\ Cardinality({q \in Retriable \ {p} : ~SoonerTried(Retry(p), Retry(q))})
                < Limit

\* An operator or a scheduler calls push_worker_task again and again.
RunsKeepComing == []<><<\E w \in Workers : BeginRun(w)>>_pushVars

\* As long as runs keep coming, nothing that could be sent stays on the first
\* page for good: an event is stuck only behind Limit events none of whose
\* users has a device (which docs/PUSH.md, section 2, does not expect), a
\* retry behind Limit rows of users without one.
NobodysTurnLasts == RunsKeepComing => \A p \in Pairs : []<>~Turn(p)

\* Runs come by themselves: "Har PUSH_POLL_INTERVAL = 30 soniyada
\* push_worker_task() chaqiriladi" (docs/PUSH.md, section 9).
EveryTurnIsServed == \A p \in Pairs : []<>~Turn(p)
=============================================================================
