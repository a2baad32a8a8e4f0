-------------------------- MODULE MobileOutboxProofs --------------------------
(***************************************************************************)
(* Proofs about MobileOutbox for every number of creations, updates, runs, *)
(* attempts and late requests; and about the pull that follows a push in a *)
(* sync run, SyncFeed, for every number of entities, writers and events,   *)
(* and pages of any size.                                                  *)
(***************************************************************************)
EXTENDS MobileOutbox, SyncFeed, Integers, FiniteSetTheorems, WellFoundedInduction, TLAPS

\* The runs that may still count a failed attempt of op.
Holders(op) == {r \in Runs : \/ op \in runs[r].batch
                             \/ runs[r].pc = "count" /\ op \in runs[r].op}

\* What a run carries is in the outbox, and what it takes for applied is
\* committed.
RunKnows(r) ==
    LET run == runs[r] IN
    /\ \A op \in run.batch \cup run.op : queue[op] # "none"
    /\ \A op \in run.batch : run.results[op] = "applied" => op \in done
    /\ run.pc = "stamp" => run.op \subseteq done \cap Creations
    /\ run.pc = "count" => /\ \A op \in run.op : queue[op] # "pending"
                           /\ run.op \cap run.batch = {}

RunsKnow == \A r \in Runs : RunKnows(r)

\* Only what the user made is queued, and it is queued once.
Queued ==
    /\ \A op \in Ops : queue[op] # "none" => op \in made
    /\ \A op \in writing : queue[op] = "none"
    /\ \A batch \in adrift : batch \subseteq made

\* An operation is sent below the limit of attempts, and each run that has it
\* counts once.
AttemptsLeft ==
    \A op \in Ops :
        /\ queue[op] \in {"none", "pending"} => attempts[op] = 0
        /\ attempts[op] + Cardinality(Holders(op)) <= MaxAttempts + Cardinality(Runs) - 1

\* Unless the delivery has failed, its version counts the transitions made, by
\* the updates that were applied or by somebody else.
VersionCounts == version # 0 => 1..(version - 1) = (Updates \cap done) \cup others

Shapes ==
    /\ made \subseteq Ops /\ writing \subseteq made
    /\ queue \in [Ops -> QueueStatuses]
    /\ attempts \in [Ops -> Nat]
    /\ synced \subseteq Creations
    /\ syncing \in BOOLEAN
    /\ runs \in [Runs -> RunStates]
    /\ adrift \subseteq SUBSET Ops
    /\ done \subseteq Ops
    /\ version \in 0..(N + 1)
    /\ others \subseteq Updates

Inv == /\ Shapes /\ RunsKnow /\ Queued /\ AttemptsLeft
       /\ VersionCounts /\ NothingIsDropped /\ TransitionsInOrder

-----------------------------------------------------------------------------
(* The version that a batch leaves *)

LEMMA LeastNumber ==
  ASSUME NEW S \in SUBSET Nat, S # {}
  PROVE  \E n \in S : \A m \in S : n <= m
<1>1. PICK n \in S : \A m \in S : ~ (<<m, n>> \in OpToRel(<, Nat))
  BY NatLessThanWellFounded, WFMin
<1>2. ASSUME NEW m \in S PROVE n <= m
  <2>1. n \in Nat /\ m \in Nat
    OBVIOUS
  <2>2. ~ (m < n)
    BY <1>1, <2>1 DEF OpToRel
  <2>. QED  BY <2>1, <2>2
<1>. QED  BY <1>2

\* The version after update n, from that after update n - 1.
After(n, before, batch, bad) ==
    IF n = 0 THEN version
    ELSE IF n \in batch \ bad /\ Accepts(before, n) THEN n + 1
    ELSE before

Counts(f, k, batch, bad) ==
    f = [n \in 0..k |-> After(n, f[n - 1], batch, bad)]

LEMMA VersionAfterIsChosen ==
  ASSUME NEW batch, NEW bad
  PROVE  VersionAfter(batch, bad) = CHOOSE f : Counts(f, N, batch, bad)
  BY DEF VersionAfter, Counts, After

\* The recursion of VersionAfter has a solution: the least k without one
\* would have one from k - 1.
LEMMA SomethingCounts ==
  ASSUME NEW batch, NEW bad, NEW k \in Nat
  PROVE  \E f : Counts(f, k, batch, bad)
<1>. DEFINE S == {n \in Nat : ~ \E f : Counts(f, n, batch, bad)}
<1>1. SUFFICES ASSUME S # {} PROVE FALSE
  OBVIOUS
<1>2. PICK n \in S : \A m \in S : n <= m
  <2>1. S \in SUBSET Nat
    OBVIOUS
  <2>. HIDE DEF S
  <2>. QED  BY <1>1, <2>1, LeastNumber
<1>3. n # 0
  <2>. DEFINE f == [m \in 0..0 |-> version]
  <2>1. Counts(f, 0, batch, bad)
    BY DEF Counts, After
  <2>. QED  BY <1>2, <2>1
<1>4. n - 1 \in Nat /\ ~ (n <= n - 1)
  BY <1>3
<1>5. PICK f : Counts(f, n - 1, batch, bad)
  BY <1>2, <1>4
<1>. DEFINE g == [m \in 0..n |-> IF m = n THEN After(n, f[n - 1], batch, bad) ELSE f[m]]
<1>6. \A m \in 0..n : g[m] = After(m, g[m - 1], batch, bad)
  <2>. SUFFICES ASSUME NEW m \in 0..n PROVE g[m] = After(m, g[m - 1], batch, bad)
    OBVIOUS
  <2>1. CASE m = n
    <3>1. n - 1 \in 0..n /\ n - 1 # n
      BY <1>4
    <3>. QED  BY <2>1, <3>1
  <2>2. CASE m # n
    <3>1. m \in 0..(n - 1)
      BY <2>2
    <3>2. f[m] = After(m, f[m - 1], batch, bad)
      BY <1>5, <3>1 DEF Counts
    <3>3. CASE m = 0
      BY <2>2, <3>2, <3>3 DEF After
    <3>4. CASE m # 0
      <4>1. m - 1 \in 0..n /\ m - 1 # n
        BY <3>1, <3>4
      <4>. QED  BY <2>2, <3>2, <4>1
    <3>. QED  BY <3>3, <3>4
  <2>. QED  BY <2>1, <2>2
<1>7. Counts(g, n, batch, bad)
  BY <1>6 DEF Counts
<1>. QED  BY <1>2, <1>7

LEMMA VersionAfterCounts ==
  ASSUME NEW batch, NEW bad, NEW n \in 0..N
  PROVE  VersionAfter(batch, bad)[n] =
             After(n, VersionAfter(batch, bad)[n - 1], batch, bad)
<1>1. Counts(VersionAfter(batch, bad), N, batch, bad)
  BY SomethingCounts, VersionAfterIsChosen, ConstantsAssumption
<1>. HIDE DEF VersionAfter
<1>. QED  BY <1>1 DEF Counts

Applied(batch, bad) == {op \in batch : Result(batch, bad, op) = "applied"}

\* After update n of a batch, the version has not gone back; it counts
\* transitions that are made, those of the batch's first n updates among them;
\* and a delivery that has failed stays so.
LEMMA VersionAfterIsBacked ==
  ASSUME Shapes, VersionCounts,
         NEW batch \in SUBSET Ops, NEW bad \in SUBSET Ops, NEW k \in 0..N
  PROVE  LET v == VersionAfter(batch, bad)[k] IN
         /\ v \in version..(N + 1)
         /\ v # 0 => /\ version # 0
                     /\ 1..(v - 1) \subseteq done \cup others \cup Applied(batch, bad)
         /\ \A i \in Updates \cap Applied(batch, bad) : i <= k => i < v
<1>. DEFINE V(n) == VersionAfter(batch, bad)[n]
            Made == done \cup others \cup Applied(batch, bad)
            Backed(n) == /\ V(n) \in version..(N + 1)
                         /\ V(n) # 0 => version # 0 /\ 1..(V(n) - 1) \subseteq Made
                         /\ \A i \in Updates \cap Applied(batch, bad) :
                                i <= n => i < V(n)
            S == {n \in 0..N : ~Backed(n)}
<1>. N \in Nat /\ version \in 0..(N + 1)
  BY ConstantsAssumption DEF Shapes
<1>1. SUFFICES ASSUME S # {} PROVE FALSE
  OBVIOUS
<1>2. PICK n \in S : \A m \in S : n <= m
  <2>1. S \in SUBSET Nat
    OBVIOUS
  <2>. HIDE DEF S
  <2>. QED  BY <1>1, <2>1, LeastNumber
<1>3. n \in 0..N /\ ~Backed(n)
  OBVIOUS
<1>4. V(n) = After(n, V(n - 1), batch, bad)
  BY <1>3, VersionAfterCounts
<1>5. n # 0
  <2>1. ASSUME n = 0 PROVE V(n) = version
    BY <1>4, <2>1 DEF After
  <2>. HIDE DEF V
  <2>. QED  BY <1>3, <2>1 DEF VersionCounts, Updates
<1>6. n - 1 \in 0..N /\ ~ (n <= n - 1)
  BY <1>3, <1>5
<1>7. Backed(n - 1)
  <2>. HIDE DEF Backed
  <2>. QED  BY <1>2, <1>6
<1>8. n \in Applied(batch, bad) <=> n \in batch \ bad /\ Accepts(V(n - 1), n)
  <2>1. n \notin Creations
    BY <1>3, ConstantsAssumption
  <2>. QED  BY <2>1 DEF Applied, Result
<1>9. V(n) = IF n \in Applied(batch, bad) THEN n + 1 ELSE V(n - 1)
  <2>. HIDE DEF V
  <2>. QED  BY <1>4, <1>5, <1>8 DEF After
<1>. HIDE DEF V
<1>10. n \in Applied(batch, bad)
  <2>1. ASSUME n \notin Applied(batch, bad),
               NEW i \in Updates \cap Applied(batch, bad), i <= n
        PROVE  i <= n - 1
    BY <1>3, <2>1 DEF Updates
  <2>. QED  BY <1>3, <1>7, <1>9, <2>1
<1>11. V(n - 1) = n /\ V(n) = n + 1
  BY <1>8, <1>9, <1>10 DEF Accepts
<1>12. 1..(n - 1) \subseteq Made /\ version # 0
  BY <1>3, <1>5, <1>7, <1>11
<1>13. 1..n \subseteq Made
  <2>. HIDE DEF Backed
  <2>. QED  BY <1>3, <1>10, <1>12
<1>14. \A i \in Updates \cap Applied(batch, bad) : i <= n => i < V(n)
  BY <1>3, <1>11 DEF Updates
<1>15. V(n) \in version..(N + 1)
  BY <1>3, <1>7, <1>11
<1>. QED  BY <1>3, <1>11, <1>12, <1>13, <1>14, <1>15

\* An update is applied after all those before it, and nobody else has made
\* its transition.
LEMMA AppliedAfterTheRest ==
  ASSUME Shapes, VersionCounts,
         NEW batch \in SUBSET Ops, NEW bad \in SUBSET Ops,
         NEW i \in Updates \cap Applied(batch, bad)
  PROVE  /\ 1..i \subseteq done \cup others \cup Applied(batch, bad)
         /\ version # 0 /\ i \notin others
<1>. N \in Nat /\ version \in 0..(N + 1)
  BY ConstantsAssumption DEF Shapes
<1>1. i \in 1..N /\ i \notin Creations
  BY ConstantsAssumption DEF Updates
<1>2. VersionAfter(batch, bad)[i - 1] = i
  BY <1>1 DEF Applied, Result, Accepts
<1>3. i - 1 \in 0..N /\ i # 0
  BY <1>1
<1>4. /\ i \in version..(N + 1) /\ version # 0
      /\ 1..(i - 1) \subseteq done \cup others \cup Applied(batch, bad)
  BY <1>2, <1>3, VersionAfterIsBacked
<1>5. i \notin 1..(version - 1)
  BY <1>1, <1>4
<1>6. others \subseteq 1..(version - 1)
  BY <1>4 DEF VersionCounts
<1>7. 1..i = 1..(i - 1) \cup {i}
  BY <1>1
<1>. QED  BY <1>4, <1>5, <1>6, <1>7

-----------------------------------------------------------------------------
(* The steps *)

LEMMA AtIsRunState == \A pc \in {"ready", "sent", "clean", "pull"} : At(pc) \in RunStates
  BY DEF At, RunStates, Results

LEMMA NumbersBelow ==
  ASSUME NEW v \in Nat, NEW w \in Nat, v <= w, w <= N + 1
  PROVE  /\ 1..(w - 1) \subseteq Updates /\ 1..(v - 1) \subseteq 1..(w - 1)
         /\ \A i \in Updates : i < w => i \in 1..(w - 1)
  BY ConstantsAssumption DEF Updates

\* What serving a batch does, whoever waits for its answer.
LEMMA ApplyEffect ==
  ASSUME Inv, NEW batch \in SUBSET made, NEW bad \in SUBSET batch, Apply(batch, bad),
         made' = made
  PROVE  /\ done \subseteq done' /\ done' \subseteq Ops /\ version' \in 0..(N + 1)
         /\ others' = others
         /\ \A op \in batch : Result(batch, bad, op) = "applied" => op \in done'
         /\ VersionCounts' /\ TransitionsInOrder'
<1>. N \in Nat
  BY ConstantsAssumption
<1>1. Shapes /\ VersionCounts /\ TransitionsInOrder /\ batch \in SUBSET Ops /\ bad \in SUBSET Ops
  BY DEF Inv, Shapes
<1>2. /\ done' = done \cup Applied(batch, bad)
      /\ version' = VersionAfter(batch, bad)[N]
  BY DEF Apply, Applied
<1>3. version \in 0..(N + 1) /\ others \subseteq Updates /\ others' = others
  BY <1>1 DEF Apply, Shapes
<1>4. /\ version' \in Nat /\ version <= version' /\ version' <= N + 1
      /\ version' # 0 => version # 0 /\ 1..(version' - 1) \subseteq done' \cup others
      /\ \A i \in Updates \cap Applied(batch, bad) : i < version'
  <2>1. N \in 0..N /\ \A i \in Updates : i <= N
    BY DEF Updates
  <2>2. /\ version' \in version..(N + 1)
        /\ version' # 0 => /\ version # 0
                           /\ 1..(version' - 1) \subseteq
                                  done \cup others \cup Applied(batch, bad)
        /\ \A i \in Updates \cap Applied(batch, bad) : i <= N => i < version'
    BY <1>1, <1>2, <2>1, VersionAfterIsBacked
  <2>. QED  BY <1>2, <1>3, <2>1, <2>2
<1>5. ASSUME NEW i \in Updates \cap done'
      PROVE  1..i \subseteq done' \cup others' /\ i \in made' /\ i \notin others'
  <2>1. CASE i \in done
    BY <1>1, <1>2, <1>3, <2>1 DEF TransitionsInOrder
  <2>2. CASE i \in Applied(batch, bad)
    <3>1. 1..i \subseteq done' \cup others /\ i \notin others
      BY <1>1, <1>2, <2>2, AppliedAfterTheRest
    <3>. QED  BY <1>3, <2>2, <3>1 DEF Applied
  <2>. QED  BY <1>2, <1>5, <2>1, <2>2
<1>6. TransitionsInOrder'
  BY <1>3, <1>5 DEF TransitionsInOrder
<1>7. VersionCounts'
  <2>. SUFFICES ASSUME version' # 0
                PROVE  1..(version' - 1) = (Updates \cap done') \cup others
    BY <1>3 DEF VersionCounts, Updates
  <2>1. /\ version # 0 /\ 1..(version - 1) = (Updates \cap done) \cup others
        /\ 1..(version' - 1) \subseteq done' \cup others
    BY <1>1, <1>4 DEF VersionCounts
  <2>2. /\ 1..(version' - 1) \subseteq Updates
        /\ 1..(version - 1) \subseteq 1..(version' - 1)
        /\ \A i \in Updates : i < version' => i \in 1..(version' - 1)
    <3>1. PICK w \in Nat : w = version'
      BY <1>4
    <3>2. version \in Nat /\ version <= w /\ w <= N + 1
      BY <1>3, <1>4, <3>1
    <3>3. /\ 1..(w - 1) \subseteq Updates /\ 1..(version - 1) \subseteq 1..(w - 1)
          /\ \A i \in Updates : i < w => i \in 1..(w - 1)
      BY <3>2, NumbersBelow
    <3>. QED  BY <3>1, <3>3
  <2>3. Updates \cap Applied(batch, bad) \subseteq 1..(version' - 1)
    BY <1>4, <2>2
  <2>. QED  BY <1>2, <2>1, <2>2, <2>3
<1>8. done' \subseteq Ops /\ \A op \in batch : Result(batch, bad, op) = "applied" => op \in done'
  BY <1>1, <1>2 DEF Applied, Shapes
<1>9. version' \in 0..(N + 1)
  BY <1>3, <1>4
<1>. QED  BY <1>2, <1>3, <1>6, <1>7, <1>8, <1>9

\* One run moves, the others stay.
LEMMA OneRunMoves ==
  ASSUME Shapes, NEW r \in Runs, NEW x \in RunStates, runs' = [runs EXCEPT ![r] = x]
  PROVE  /\ runs' \in [Runs -> RunStates] /\ runs'[r] = x
         /\ \A q \in Runs : q # r => runs'[q] = runs[q]
  BY DEF Shapes

LEMMA NextTaken ==
  ASSUME Shapes, NEW r \in Runs
  PROVE  [runs[r] EXCEPT !.pc = "take", !.op = {}] \in RunStates
<1>1. runs[r] \in RunStates
  BY DEF Shapes
<1>. QED  BY <1>1 DEF RunStates

LEMMA PendingIsQueued == \A op \in Pending : op \in Ops /\ queue[op] # "none"
  BY DEF Pending

LEMMA InitInv == Init => Inv
<1> SUFFICES ASSUME Init PROVE Inv
  OBVIOUS
<1> USE DEF Init
<1>. N \in Nat /\ MaxAttempts \in Nat \ {0} /\ IsFiniteSet(Runs)
  BY ConstantsAssumption
<1>1. \A r \in Runs : /\ runs[r] \in RunStates /\ runs[r].batch = {} /\ runs[r].op = {}
                      /\ runs[r].pc = "ready"
  BY AtIsRunState DEF Ready, At
<1>2. Shapes
  <2>1. runs \in [Runs -> RunStates]
    BY <1>1
  <2>2. queue \in [Ops -> QueueStatuses] /\ attempts \in [Ops -> Nat] /\ version \in 0..(N + 1)
    BY DEF QueueStatuses
  <2>. QED  BY <2>1, <2>2 DEF Shapes
<1>3. RunsKnow
  BY <1>1 DEF RunsKnow, RunKnows
<1>4. Queued /\ VersionCounts /\ NothingIsDropped /\ TransitionsInOrder
  BY DEF Queued, VersionCounts, NothingIsDropped, TransitionsInOrder
<1>5. AttemptsLeft
  <2>1. \A op \in Ops : Holders(op) = {}
    BY <1>1 DEF Holders
  <2>2. Cardinality(Runs) \in Nat /\ Cardinality({}) = 0
    BY FS_CardinalityType, FS_EmptySet
  <2>3. \A op \in Ops : attempts[op] = 0
    OBVIOUS
  <2>4. 0 <= MaxAttempts + Cardinality(Runs) - 1
    BY <2>2
  <2>. QED  BY <2>1, <2>2, <2>3, <2>4 DEF AttemptsLeft
<1>. QED  BY <1>2, <1>3, <1>4, <1>5 DEF Inv

LEMMA NextShapes ==
  ASSUME Inv, [Next]_vars
  PROVE  Shapes'
<1>. /\ Shapes /\ N \in Nat
  BY ConstantsAssumption DEF Inv
<1>. USE DEF Shapes, device, server, QueueStatuses
<1>1. ASSUME NEW op \in Ops, CreateOrder(op) \/ UpdateLocalRow(op) \/ InsertOp(op)
      PROVE  Shapes'
  BY <1>1 DEF CreateOrder, UpdateLocalRow, InsertOp, Updates, Ops
<1>2. ASSUME NEW r \in Runs, StartRun(r) PROVE Shapes'
  <2>1. [At("sent") EXCEPT !.batch = Pending] \in RunStates
    BY AtIsRunState, PendingIsQueued DEF RunStates
  <2>. QED  BY <1>2, <2>1, AtIsRunState DEF StartRun
<1>3. ASSUME NEW r \in Runs, Serve(r) PROVE Shapes'
  <2>1. PICK bad \in SUBSET runs[r].batch :
          /\ Apply(runs[r].batch, bad)
          /\ runs' = [runs EXCEPT ![r] =
               [@ EXCEPT !.pc = "answered",
                         !.results = [op \in Ops |->
                            IF op \in runs[r].batch THEN Result(runs[r].batch, bad, op)
                            ELSE "error"]]]
    BY <1>3 DEF Serve
  <2>2. runs[r].batch \subseteq made
    BY DEF Inv, RunsKnow, RunKnows, Queued, RunStates
  <2>3. done' \subseteq Ops /\ version' \in 0..(N + 1) /\ others' = others
    BY <1>3, <2>1, <2>2, ApplyEffect DEF Serve
  <2>4. \A op \in Ops : Result(runs[r].batch, bad, op) \in Results
    BY DEF Result, Results
  <2>5. [op \in Ops |-> IF op \in runs[r].batch THEN Result(runs[r].batch, bad, op)
                        ELSE "error"] \in [Ops -> Results]
    BY <2>4 DEF Results
  <2>6. [runs[r] EXCEPT !.pc = "answered",
           !.results = [op \in Ops |-> IF op \in runs[r].batch
                                       THEN Result(runs[r].batch, bad, op)
                                       ELSE "error"]] \in RunStates
    <3>1. runs[r] \in RunStates
      OBVIOUS
    <3>. QED  BY <2>5, <3>1 DEF RunStates
  <2>7. runs' \in [Runs -> RunStates]
    BY <2>1, <2>6
  <2>. QED  BY <1>3, <2>3, <2>7 DEF Serve
<1>4. ASSUME NEW r \in Runs, ReceiveAnswer(r) \/ AllTaken(r) \/ AuthError(r)
      PROVE  Shapes'
  BY <1>4, AtIsRunState, NextTaken
     DEF ReceiveAnswer, AllTaken, AuthError, TakeNext, GoTo, Ready
<1>5. ASSUME NEW r \in Runs, NEW op \in Ops, TakeResult(r, op) PROVE Shapes'
  <2>1. runs[r] \in RunStates /\ runs[r].results[op] \in Results
    BY DEF RunStates
  <2>2. queue' \in [Ops -> QueueStatuses]
    BY <1>5, <2>1 DEF TakeResult, Results
  <2>. DEFINE x == [runs[r] EXCEPT !.batch = runs[r].batch \ {op}, !.op = {op},
                     !.pc = IF runs[r].results[op] = "error" THEN "count"
                            ELSE IF runs[r].results[op] = "applied" /\ op \in Creations
                                 THEN "stamp" ELSE "take"]
  <2>3. x \in RunStates
    BY <2>1 DEF RunStates
  <2>4. runs' = [runs EXCEPT ![r] = x]
    BY <1>5 DEF TakeResult
  <2>5. runs' \in [Runs -> RunStates]
    BY <2>3, <2>4, OneRunMoves
  <2>. QED  BY <1>5, <2>2, <2>5 DEF TakeResult
<1>6. ASSUME NEW r \in Runs, StampOrder(r) PROVE Shapes'
  <2>1. runs[r] \in RunStates /\ runs[r].op \subseteq Creations
    BY <1>6 DEF StampOrder, Inv, RunsKnow, RunKnows
  <2>. QED  BY <1>6, <2>1, NextTaken DEF StampOrder, TakeNext
<1>7. ASSUME NEW r \in Runs, CountAttempt(r) PROVE Shapes'
  <2>1. runs' \in [Runs -> RunStates]
    BY <1>7, NextTaken DEF CountAttempt, TakeNext
  <2>2. attempts' \in [Ops -> Nat]
    BY <1>7 DEF CountAttempt
  <2>. QED  BY <1>7, <2>1, <2>2 DEF CountAttempt
<1>8. ASSUME NEW r \in Runs, Clean(r) \/ Pull(r) PROVE Shapes'
  BY <1>8, AtIsRunState DEF Clean, Pull, GoTo, Ready
<1>9. ASSUME NEW r \in Runs, LoseAnswer(r) PROVE Shapes'
  <2>1. runs[r].batch \subseteq Ops
    BY DEF RunStates
  <2>. QED  BY <1>9, <2>1, AtIsRunState DEF LoseAnswer, GoTo
<1>10. CASE GoOffline
  BY <1>10 DEF GoOffline
<1>11. CASE Kill
  <2>1. \A r \in Runs : runs[r].batch \subseteq Ops
    BY DEF RunStates
  <2>2. runs' \in [Runs -> RunStates]
    BY <1>11, AtIsRunState DEF Kill, Ready
  <2>3. adrift' \subseteq SUBSET Ops
    BY <1>11, <2>1 DEF Kill
  <2>. QED  BY <1>11, <2>2, <2>3 DEF Kill
<1>12. ASSUME NEW batch \in adrift, ServeAdrift(batch) PROVE Shapes'
  <2>1. batch \in SUBSET made
    BY DEF Inv, Queued
  <2>2. done' \subseteq Ops /\ version' \in 0..(N + 1) /\ others' = others
    BY <1>12, <2>1, ApplyEffect DEF ServeAdrift
  <2>. QED  BY <1>12, <2>2 DEF ServeAdrift
<1>13. CASE FailDelivery \/ AdvanceDelivery
  <2>1. CASE FailDelivery
    BY <2>1 DEF FailDelivery
  <2>2. CASE AdvanceDelivery
    <3>1. version \in 1..N /\ version' = version + 1 /\ others' = others \cup {version}
      BY <2>2 DEF AdvanceDelivery
    <3>2. version' \in 0..(N + 1) /\ others' \subseteq Updates
      BY <3>1 DEF Updates
    <3>. QED  BY <2>2, <3>2 DEF AdvanceDelivery
  <2>. QED  BY <1>13, <2>1, <2>2
<1>14. CASE UNCHANGED vars
  BY <1>14 DEF vars
<1>. QED  BY <1>1, <1>2, <1>3, <1>4, <1>5, <1>6, <1>7, <1>8, <1>9, <1>10, <1>11,
             <1>12, <1>13, <1>14 DEF Next, Proceed

\* An operation leaves neither the outbox nor the server, and what was
\* answered does not become pending again.
Onward ==
    /\ done \subseteq done'
    /\ \A op \in Ops : /\ queue[op] # "none" => queue'[op] # "none"
                       /\ queue[op] \notin {"none", "pending"} =>
                             queue'[op] \notin {"none", "pending"}

LEMMA NextOnward ==
  ASSUME Inv, [Next]_vars
  PROVE  Onward
<1>. Shapes /\ Queued
  BY DEF Inv
<1>. USE DEF Onward, device, server
<1>1. ASSUME NEW op \in Ops, CreateOrder(op) PROVE Onward
  <2>1. queue[op] = "none"
    BY <1>1 DEF CreateOrder, Queued
  <2>. QED  BY <1>1, <2>1 DEF CreateOrder, Shapes
<1>2. ASSUME NEW op \in Ops, UpdateLocalRow(op) \/ InsertOp(op) PROVE Onward
  BY <1>2 DEF UpdateLocalRow, InsertOp, Shapes, Queued
<1>3. ASSUME NEW r \in Runs, StartRun(r) \/ LoseAnswer(r) \/ AuthError(r) PROVE Onward
  BY <1>3 DEF StartRun, LoseAnswer, AuthError
<1>4. ASSUME NEW r \in Runs, NEW op \in Ops, TakeResult(r, op) PROVE Onward
  <2>1. runs[r].results[op] \in Results
    BY DEF Shapes, RunStates
  <2>. QED  BY <1>4, <2>1 DEF TakeResult, Results, Shapes
<1>5. ASSUME NEW r \in Runs, Proceed(r), \A op \in Ops : ~TakeResult(r, op) PROVE Onward
  BY <1>5 DEF Proceed, Serve, Apply, ReceiveAnswer, StampOrder, CountAttempt,
              AllTaken, Clean, Pull
<1>6. CASE GoOffline \/ Kill \/ FailDelivery \/ AdvanceDelivery \/ UNCHANGED vars
  BY <1>6 DEF GoOffline, Kill, FailDelivery, AdvanceDelivery, vars
<1>7. ASSUME NEW batch \in adrift, ServeAdrift(batch) PROVE Onward
  BY <1>7 DEF ServeAdrift, Apply
<1>. QED  BY <1>1, <1>2, <1>3, <1>4, <1>5, <1>6, <1>7 DEF Next

LEMMA StillKnows ==
  ASSUME Shapes, Onward, NEW r \in Runs, RunKnows(r), runs'[r] = runs[r]
  PROVE  RunKnows(r)'
<1>1. /\ runs[r].batch \subseteq Ops /\ runs[r].op \subseteq Ops
  BY DEF Shapes, RunStates
<1>. QED  BY <1>1 DEF Onward, RunKnows

LEMMA NothingToKnow ==
  ASSUME NEW r \in Runs, NEW pc \in {"ready", "clean", "pull"}, runs'[r] = At(pc)
  PROVE  RunKnows(r)'
  BY DEF RunKnows, At

\* Every run but one keeps its state in a step of that one.
LEMMA OneRunKnows ==
  ASSUME Inv, Onward, NEW r \in Runs, RunKnows(r)',
         \A q \in Runs : q # r => runs'[q] = runs[q]
  PROVE  RunsKnow'
<1>1. ASSUME NEW q \in Runs PROVE RunKnows(q)'
  <2>1. Shapes /\ RunKnows(q)
    BY DEF Inv, RunsKnow
  <2>2. CASE q # r
    BY <2>1, <2>2, StillKnows
  <2>. QED  BY <2>2
<1>. QED  BY <1>1 DEF RunsKnow

LEMMA NextRunsKnow ==
  ASSUME Inv, [Next]_vars
  PROVE  RunsKnow'
<1>. Shapes /\ RunsKnow /\ Onward
  BY NextOnward DEF Inv
<1>0. ASSUME runs' = runs PROVE RunsKnow'
  BY <1>0, StillKnows DEF RunsKnow
<1>1. ASSUME NEW op \in Ops, CreateOrder(op) \/ UpdateLocalRow(op) \/ InsertOp(op)
      PROVE  runs' = runs
  BY <1>1 DEF CreateOrder, UpdateLocalRow, InsertOp
<1>2. ASSUME NEW r \in Runs, StartRun(r) PROVE RunsKnow'
  <2>1. CASE Pending = {}
    BY <1>2, <2>1, AtIsRunState, OneRunMoves, NothingToKnow, OneRunKnows DEF StartRun
  <2>2. CASE Pending # {}
    <3>. DEFINE x == [At("sent") EXCEPT !.batch = Pending]
    <3>1. /\ x \in RunStates /\ x.pc = "sent" /\ x.batch = Pending /\ x.op = {}
          /\ \A op \in Ops : x.results[op] = "error"
      BY AtIsRunState, PendingIsQueued DEF RunStates, At
    <3>2. runs' = [runs EXCEPT ![r] = x] /\ queue' = queue
      BY <1>2, <2>2 DEF StartRun
    <3>. HIDE DEF x
    <3>3. runs'[r] = x /\ \A q \in Runs : q # r => runs'[q] = runs[q]
      BY <3>1, <3>2, OneRunMoves
    <3>4. RunKnows(r)'
      BY <3>1, <3>2, <3>3, PendingIsQueued DEF RunKnows
    <3>. QED  BY <3>3, <3>4, OneRunKnows
  <2>. QED  BY <2>1, <2>2
<1>3. ASSUME NEW r \in Runs, Serve(r) PROVE RunsKnow'
  <2>1. PICK bad \in SUBSET runs[r].batch :
          /\ Apply(runs[r].batch, bad)
          /\ runs' = [runs EXCEPT ![r] =
               [@ EXCEPT !.pc = "answered",
                         !.results = [op \in Ops |->
                            IF op \in runs[r].batch THEN Result(runs[r].batch, bad, op)
                            ELSE "error"]]]
    BY <1>3 DEF Serve
  <2>2. runs[r].batch \in SUBSET made /\ runs[r] \in RunStates /\ made' = made
    BY <1>3 DEF Serve, Inv, Shapes, RunsKnow, RunKnows, Queued, RunStates
  <2>3. \A op \in runs[r].batch : Result(runs[r].batch, bad, op) = "applied" => op \in done'
    BY <2>1, <2>2, ApplyEffect
  <2>4. /\ runs'[r].pc = "answered" /\ runs'[r].batch = runs[r].batch
        /\ runs'[r].op = runs[r].op
        /\ \A op \in runs[r].batch : runs'[r].results[op] = Result(runs[r].batch, bad, op)
    BY <2>1, <2>2 DEF Shapes, RunStates
  <2>5. \A q \in Runs : q # r => runs'[q] = runs[q]
    BY <2>1 DEF Shapes
  <2>6. RunKnows(r) /\ queue' = queue
    BY <1>3 DEF Serve, RunsKnow
  <2>7. RunKnows(r)'
    BY <2>3, <2>4, <2>6 DEF RunKnows
  <2>. QED  BY <2>5, <2>7, OneRunKnows
<1>4. ASSUME NEW r \in Runs, NEW pc \in {"ready", "clean", "pull"}, GoTo(r, pc)
      PROVE  RunsKnow'
  BY <1>4, AtIsRunState, OneRunMoves, NothingToKnow, OneRunKnows DEF GoTo
<1>5. ASSUME NEW r \in Runs, TakeNext(r) PROVE RunsKnow'
  <2>1. /\ runs'[r] = [runs[r] EXCEPT !.pc = "take", !.op = {}]
        /\ \A q \in Runs : q # r => runs'[q] = runs[q]
    BY <1>5, NextTaken, OneRunMoves DEF TakeNext
  <2>2. runs[r] \in RunStates /\ RunKnows(r)
    BY DEF Shapes, RunsKnow
  <2>3. /\ runs'[r].pc = "take" /\ runs'[r].op = {} /\ runs'[r].batch = runs[r].batch
        /\ runs'[r].results = runs[r].results /\ runs[r].batch \subseteq Ops
    BY <2>1, <2>2 DEF RunStates
  <2>4. RunKnows(r)'
    BY <2>2, <2>3 DEF RunKnows, Onward
  <2>. QED  BY <2>1, <2>4, OneRunKnows
<1>6. ASSUME NEW r \in Runs, NEW op \in Ops, TakeResult(r, op) PROVE RunsKnow'
  <2>1. runs[r] \in RunStates /\ RunKnows(r) /\ op \in runs[r].batch
    BY <1>6 DEF Shapes, RunsKnow, TakeResult
  <2>2. /\ runs'[r].batch = runs[r].batch \ {op} /\ runs'[r].op = {op}
        /\ runs'[r].results = runs[r].results
        /\ runs'[r].pc = "stamp" => /\ runs[r].results[op] = "applied"
                                    /\ op \in Creations
        /\ \A q \in Runs : q # r => runs'[q] = runs[q]
    BY <1>6, <2>1 DEF TakeResult, Shapes, RunStates
  <2>3. queue'[op] # "none" /\ queue'[op] # "pending" /\ done' = done
    <3>1. runs[r].results[op] \in Results
      BY <2>1 DEF RunStates
    <3>. QED  BY <1>6, <3>1 DEF TakeResult, Results, Shapes, server
  <2>4. runs[r].batch \subseteq Ops
    BY <2>1 DEF RunStates
  <2>5. RunKnows(r)'
    BY <2>1, <2>2, <2>3, <2>4 DEF RunKnows, Onward
  <2>. QED  BY <2>2, <2>5, OneRunKnows
<1>7. CASE Kill
  <2>1. \A r \in Runs : runs'[r] = At("ready")
    BY <1>7 DEF Kill, Ready
  <2>. QED  BY <2>1, NothingToKnow DEF RunsKnow
<1>8. CASE GoOffline \/ FailDelivery \/ AdvanceDelivery \/ UNCHANGED vars
  BY <1>0, <1>8 DEF GoOffline, FailDelivery, AdvanceDelivery, device, vars
<1>9. ASSUME NEW batch \in adrift, ServeAdrift(batch) PROVE RunsKnow'
  BY <1>0, <1>9 DEF ServeAdrift, device
<1>10. ASSUME NEW r \in Runs, StartRun(r) \/ Proceed(r) \/ LoseAnswer(r) \/ AuthError(r)
       PROVE  RunsKnow'
  BY <1>2, <1>3, <1>4, <1>5, <1>6, <1>10
     DEF Proceed, ReceiveAnswer, StampOrder, CountAttempt, AllTaken, Clean, Pull,
         LoseAnswer, AuthError, GoTo, Ready
<1>. QED  BY <1>0, <1>1, <1>7, <1>8, <1>9, <1>10 DEF Next

LEMMA NextQueued ==
  ASSUME Inv, [Next]_vars
  PROVE  Queued'
<1>. Shapes /\ Queued
  BY DEF Inv
<1>. USE DEF Queued, device, server
<1>1. ASSUME NEW op \in Ops, CreateOrder(op) PROVE Queued'
  <2>1. op \notin writing
    BY <1>1 DEF CreateOrder, Shapes
  <2>. QED  BY <1>1, <2>1 DEF CreateOrder, Shapes
<1>2. ASSUME NEW op \in Ops, UpdateLocalRow(op) PROVE Queued'
  BY <1>2 DEF UpdateLocalRow, Updates, Ops, Shapes
<1>3. ASSUME NEW op \in Ops, InsertOp(op) PROVE Queued'
  BY <1>3 DEF InsertOp, Shapes
<1>4. ASSUME NEW r \in Runs, LoseAnswer(r) PROVE Queued'
  <2>1. runs[r].batch \subseteq made
    BY DEF Inv, RunsKnow, RunKnows, RunStates, Shapes
  <2>. QED  BY <1>4, <2>1 DEF LoseAnswer
<1>5. ASSUME NEW r \in Runs, StartRun(r) \/ AuthError(r) PROVE Queued'
  BY <1>5 DEF StartRun, AuthError
<1>6. ASSUME NEW r \in Runs, NEW op \in Ops, TakeResult(r, op) PROVE Queued'
  <2>1. queue[op] # "none"
    BY <1>6 DEF TakeResult, Inv, RunsKnow, RunKnows
  <2>2. op \in made /\ op \notin writing
    BY <2>1
  <2>. QED  BY <1>6, <2>2 DEF TakeResult, Shapes
<1>7. ASSUME NEW r \in Runs, Proceed(r), \A op \in Ops : ~TakeResult(r, op) PROVE Queued'
  BY <1>7 DEF Proceed, Serve, Apply, ReceiveAnswer, StampOrder, CountAttempt,
              AllTaken, Clean, Pull, Shapes
<1>8. CASE GoOffline \/ FailDelivery \/ AdvanceDelivery \/ UNCHANGED vars
  BY <1>8 DEF GoOffline, FailDelivery, AdvanceDelivery, vars
<1>9. ASSUME NEW batch \in adrift, ServeAdrift(batch) PROVE Queued'
  BY <1>9 DEF ServeAdrift
<1>10. CASE Kill
  <2>1. \A q \in Runs : runs[q].batch \subseteq made
    BY DEF Inv, RunsKnow, RunKnows, RunStates, Shapes
  <2>. QED  BY <1>10, <2>1 DEF Kill
<1>. QED  BY <1>1, <1>2, <1>3, <1>4, <1>5, <1>6, <1>7, <1>8, <1>9, <1>10 DEF Next

LEMMA NextCommitted ==
  ASSUME Inv, [Next]_vars
  PROVE  VersionCounts' /\ TransitionsInOrder'
<1>. Shapes /\ VersionCounts /\ TransitionsInOrder
  BY DEF Inv
<1>1. ASSUME UNCHANGED server, made \subseteq made'
      PROVE  VersionCounts' /\ TransitionsInOrder'
  BY <1>1 DEF server, VersionCounts, TransitionsInOrder
<1>2. ASSUME NEW r \in Runs, Serve(r) PROVE VersionCounts' /\ TransitionsInOrder'
  <2>1. runs[r].batch \in SUBSET made /\ made' = made
    BY <1>2 DEF Serve, Inv, Shapes, RunsKnow, RunKnows, Queued, RunStates
  <2>. QED  BY <1>2, <2>1, ApplyEffect DEF Serve
<1>3. ASSUME NEW batch \in adrift, ServeAdrift(batch)
      PROVE  VersionCounts' /\ TransitionsInOrder'
  <2>1. batch \in SUBSET made /\ made' = made
    BY <1>3 DEF ServeAdrift, device, Inv, Queued
  <2>. QED  BY <1>3, <2>1, ApplyEffect DEF ServeAdrift
<1>4. CASE FailDelivery
  BY <1>4 DEF FailDelivery, device, VersionCounts, TransitionsInOrder
<1>5. CASE AdvanceDelivery
  <2>. N \in Nat
    BY ConstantsAssumption
  <2>1. /\ version \in 1..N /\ others' = others \cup {version} /\ version' = version + 1
        /\ done' = done /\ made' = made
    BY <1>5 DEF AdvanceDelivery, device
  <2>2. 1..(version - 1) = (Updates \cap done) \cup others
    BY <2>1 DEF VersionCounts
  <2>3. 1..(version' - 1) = 1..(version - 1) \cup {version} /\ version \notin 1..(version - 1)
    BY <2>1
  <2>4. version \notin done
    BY <2>1, <2>2, <2>3 DEF Updates
  <2>5. VersionCounts'
    BY <2>1, <2>2, <2>3 DEF VersionCounts, Updates
  <2>. QED  BY <2>1, <2>4, <2>5 DEF TransitionsInOrder
<1>6. ASSUME NEW op \in Ops, CreateOrder(op) \/ UpdateLocalRow(op) \/ InsertOp(op)
      PROVE  UNCHANGED server /\ made \subseteq made'
  BY <1>6 DEF CreateOrder, UpdateLocalRow, InsertOp
<1>7. ASSUME NEW r \in Runs, StartRun(r) \/ Proceed(r) \/ LoseAnswer(r) \/ AuthError(r),
             ~Serve(r)
      PROVE  UNCHANGED server /\ made \subseteq made'
  BY <1>7 DEF StartRun, LoseAnswer, AuthError, Proceed, ReceiveAnswer, TakeResult,
              StampOrder, CountAttempt, AllTaken, Clean, Pull
<1>8. CASE GoOffline \/ Kill \/ UNCHANGED vars
  BY <1>1, <1>8 DEF GoOffline, Kill, vars, device
<1>. QED  BY <1>1, <1>2, <1>3, <1>4, <1>5, <1>6, <1>7, <1>8 DEF Next

LEMMA NextNothingIsDropped ==
  ASSUME Inv, [Next]_vars
  PROVE  NothingIsDropped'
<1>. Shapes /\ Queued /\ NothingIsDropped /\ done \subseteq done'
  BY NextOnward DEF Inv, Onward
<1>. USE DEF NothingIsDropped, device, server
<1>1. ASSUME NEW op \in Ops, CreateOrder(op) \/ UpdateLocalRow(op) \/ InsertOp(op)
      PROVE  NothingIsDropped'
  BY <1>1 DEF CreateOrder, UpdateLocalRow, InsertOp, Shapes
<1>2. ASSUME NEW r \in Runs, NEW op \in Ops, TakeResult(r, op) PROVE NothingIsDropped'
  <2>1. runs[r].results[op] = "applied" => op \in done
    BY <1>2 DEF TakeResult, Inv, RunsKnow, RunKnows
  <2>2. runs[r].results[op] # "removed"
    BY DEF Shapes, RunStates, Results
  <2>. QED  BY <1>2, <2>1, <2>2 DEF TakeResult, Shapes
<1>3. ASSUME NEW r \in Runs, StampOrder(r) PROVE NothingIsDropped'
  <2>1. runs[r].op \subseteq done
    BY <1>3 DEF StampOrder, Inv, RunsKnow, RunKnows
  <2>. QED  BY <1>3, <2>1 DEF StampOrder
<1>4. ASSUME NEW r \in Runs, Clean(r) \/ Pull(r) PROVE NothingIsDropped'
  BY <1>4 DEF Clean, Pull
<1>5. ASSUME NEW r \in Runs,
             \/ StartRun(r) \/ LoseAnswer(r) \/ AuthError(r) \/ Serve(r)
             \/ ReceiveAnswer(r) \/ CountAttempt(r) \/ AllTaken(r)
      PROVE  NothingIsDropped'
  BY <1>5 DEF StartRun, LoseAnswer, AuthError, Serve, ReceiveAnswer, CountAttempt, AllTaken
<1>6. CASE GoOffline \/ Kill \/ FailDelivery \/ AdvanceDelivery \/ UNCHANGED vars
  BY <1>6 DEF GoOffline, Kill, FailDelivery, AdvanceDelivery, vars
<1>7. ASSUME NEW batch \in adrift, ServeAdrift(batch) PROVE NothingIsDropped'
  BY <1>7 DEF ServeAdrift
<1>. QED  BY <1>1, <1>2, <1>3, <1>4, <1>5, <1>6, <1>7 DEF Next, Proceed

-----------------------------------------------------------------------------
(* Attempts *)

Left(op) ==
    /\ queue[op] \in {"none", "pending"} => attempts[op] = 0
    /\ attempts[op] + Cardinality(Holders(op)) <= MaxAttempts + Cardinality(Runs) - 1

LEMMA HoldersAreRuns ==
  ASSUME NEW op
  PROVE  /\ IsFiniteSet(Holders(op)) /\ IsFiniteSet(Runs)
         /\ Cardinality(Holders(op)) \in Nat /\ Cardinality(Runs) \in Nat
         /\ Cardinality(Holders(op)) <= Cardinality(Runs)
<1>1. Holders(op) \subseteq Runs /\ IsFiniteSet(Runs)
  BY ConstantsAssumption DEF Holders
<1>. QED  BY <1>1, FS_Subset, FS_CardinalityType

\* Fewer runs that may count an attempt, and none counted.
LEMMA FewerHolders ==
  ASSUME Inv, Onward, NEW op \in Ops, attempts'[op] = attempts[op],
         Holders(op)' \subseteq Holders(op)
  PROVE  Left(op)'
<1>1. Left(op) /\ attempts[op] \in Nat
  BY DEF Inv, AttemptsLeft, Left, Shapes
<1>2. /\ Cardinality(Holders(op)) \in Nat /\ Cardinality(Holders(op)') \in Nat
      /\ Cardinality(Holders(op)') <= Cardinality(Holders(op))
      /\ Cardinality(Runs) \in Nat
  BY HoldersAreRuns, FS_Subset, FS_CardinalityType
<1>3. MaxAttempts \in Nat
  BY ConstantsAssumption
<1>4. queue'[op] \in {"none", "pending"} => queue[op] \in {"none", "pending"}
  BY DEF Onward
<1>. QED  BY <1>1, <1>2, <1>3, <1>4 DEF Left

\* A step that moves one run, which does not come to hold op by it.
LEMMA NoNewHolder ==
  ASSUME Inv, Onward, NEW op \in Ops, attempts'[op] = attempts[op], NEW r \in Runs,
         \A q \in Runs : q # r => runs'[q] = runs[q],
         r \in Holders(op)' => r \in Holders(op)
  PROVE  Left(op)'
<1>1. Holders(op)' \subseteq Holders(op)
  BY DEF Holders
<1>. QED  BY <1>1, FewerHolders

LEMMA NextAttempts ==
  ASSUME Inv, [Next]_vars
  PROVE  AttemptsLeft'
<1>. Shapes /\ RunsKnow /\ Onward /\ MaxAttempts \in Nat \ {0}
  BY NextOnward, ConstantsAssumption DEF Inv
<1>. SUFFICES ASSUME NEW op \in Ops PROVE Left(op)'
  BY DEF AttemptsLeft, Left
<1>. USE DEF device, server
<1>0. ASSUME runs' = runs, attempts' = attempts PROVE Left(op)'
  <2>1. Holders(op)' = Holders(op)
    BY <1>0 DEF Holders
  <2>. QED  BY <1>0, <2>1, FewerHolders
<1>1. ASSUME NEW o \in Ops, CreateOrder(o) \/ UpdateLocalRow(o) \/ InsertOp(o)
      PROVE  Left(op)'
  BY <1>0, <1>1 DEF CreateOrder, UpdateLocalRow, InsertOp
<1>2. ASSUME NEW r \in Runs, StartRun(r) PROVE Left(op)'
  <2>1. /\ \A q \in Runs : q # r => runs'[q] = runs[q]
        /\ runs'[r] = IF Pending = {} THEN At("pull")
                      ELSE [At("sent") EXCEPT !.batch = Pending]
        /\ attempts' = attempts
    BY <1>2 DEF StartRun, Shapes
  <2>2. CASE op \in Pending
    <3>1. attempts[op] < MaxAttempts /\ attempts[op] \in Nat
      BY <2>2 DEF Pending, Inv, AttemptsLeft, Shapes
    <3>2. /\ Cardinality(Holders(op)') <= Cardinality(Runs)
          /\ Cardinality(Holders(op)') \in Nat /\ Cardinality(Runs) \in Nat
      <4>1. Holders(op)' \subseteq Runs /\ IsFiniteSet(Runs)
        BY ConstantsAssumption DEF Holders
      <4>. QED  BY <4>1, FS_Subset, FS_CardinalityType
    <3>3. attempts'[op] + Cardinality(Holders(op)') <= MaxAttempts + Cardinality(Runs) - 1
      BY <2>1, <3>1, <3>2
    <3>4. queue'[op] \in {"none", "pending"} => attempts'[op] = 0
      BY <1>2, <2>1 DEF StartRun, Inv, AttemptsLeft
    <3>. QED  BY <3>3, <3>4 DEF Left
  <2>3. CASE op \notin Pending
    <3>1. op \notin runs'[r].batch /\ runs'[r].pc # "count"
      BY <2>1, <2>3 DEF At
    <3>2. r \notin Holders(op)'
      BY <3>1 DEF Holders
    <3>. QED  BY <2>1, <3>2, NoNewHolder
  <2>. QED  BY <2>2, <2>3
<1>3. ASSUME NEW r \in Runs, Serve(r) PROVE Left(op)'
  <2>1. runs[r] \in RunStates
    BY DEF Shapes
  <2>2. /\ \A q \in Runs : q # r => runs'[q] = runs[q]
        /\ runs'[r].batch = runs[r].batch /\ runs'[r].pc = "answered"
        /\ attempts' = attempts
    BY <1>3, <2>1 DEF Serve, Shapes, RunStates
  <2>3. r \in Holders(op)' => r \in Holders(op)
    BY <2>2 DEF Holders
  <2>. QED  BY <2>2, <2>3, NoNewHolder
<1>4. ASSUME NEW r \in Runs, NEW pc \in {"ready", "clean", "pull"}, GoTo(r, pc),
             attempts' = attempts
      PROVE  Left(op)'
  <2>1. /\ runs'[r] = At(pc) /\ \A q \in Runs : q # r => runs'[q] = runs[q]
    BY <1>4, AtIsRunState, OneRunMoves DEF GoTo
  <2>2. r \notin Holders(op)'
    BY <2>1 DEF Holders, At
  <2>. QED  BY <1>4, <2>1, <2>2, NoNewHolder
<1>5. ASSUME NEW r \in Runs, TakeNext(r)
      PROVE  /\ \A q \in Runs : q # r => runs'[q] = runs[q]
             /\ r \in Holders(op)' <=> op \in runs[r].batch
  <2>1. /\ runs'[r] = [runs[r] EXCEPT !.pc = "take", !.op = {}]
        /\ \A q \in Runs : q # r => runs'[q] = runs[q]
    BY <1>5, NextTaken, OneRunMoves DEF TakeNext
  <2>2. runs'[r].pc = "take" /\ runs'[r].batch = runs[r].batch
    BY <2>1 DEF Shapes, RunStates
  <2>. QED  BY <2>1, <2>2 DEF Holders
<1>6. ASSUME NEW r \in Runs, ReceiveAnswer(r) \/ StampOrder(r) PROVE Left(op)'
  <2>1. TakeNext(r) /\ attempts' = attempts
    BY <1>6 DEF ReceiveAnswer, StampOrder
  <2>2. r \in Holders(op)' => r \in Holders(op)
    BY <1>5, <2>1 DEF Holders
  <2>. QED  BY <1>5, <2>1, <2>2, NoNewHolder
<1>7. ASSUME NEW r \in Runs, CountAttempt(r) PROVE Left(op)'
  <2>1. /\ TakeNext(r) /\ runs[r].pc = "count" /\ queue' = queue
        /\ attempts'[op] = IF op \in runs[r].op /\ queue[op] # "removed"
                           THEN attempts[op] + 1 ELSE attempts[op]
    BY <1>7 DEF CountAttempt
  <2>2. CASE attempts'[op] = attempts[op]
    <3>1. r \in Holders(op)' => r \in Holders(op)
      BY <1>5, <2>1 DEF Holders
    <3>. QED  BY <1>5, <2>1, <2>2, <3>1, NoNewHolder
  <2>3. CASE op \in runs[r].op /\ attempts'[op] = attempts[op] + 1
    <3>1. /\ op \notin runs[r].batch /\ queue[op] \notin {"none", "pending"}
      BY <2>1, <2>3 DEF RunsKnow, RunKnows
    <3>2. r \in Holders(op)
      BY <2>1, <2>3 DEF Holders
    <3>3. Holders(op)' = Holders(op) \ {r}
      BY <1>5, <2>1, <3>1 DEF Holders
    <3>4. /\ Cardinality(Holders(op)') = Cardinality(Holders(op)) - 1
          /\ Cardinality(Holders(op)) \in Nat /\ Cardinality(Runs) \in Nat
      BY <3>2, <3>3, HoldersAreRuns, FS_RemoveElement
    <3>5. Left(op) /\ attempts[op] \in Nat
      BY DEF Inv, AttemptsLeft, Left, Shapes
    <3>. QED  BY <2>1, <2>3, <3>1, <3>4, <3>5 DEF Left
  <2>. QED  BY <2>1, <2>2, <2>3
<1>8. ASSUME NEW r \in Runs, NEW o \in Ops, TakeResult(r, o) PROVE Left(op)'
  <2>1. runs[r] \in RunStates /\ o \in runs[r].batch /\ attempts' = attempts
    BY <1>8 DEF Shapes, TakeResult
  <2>2. /\ runs'[r].batch = runs[r].batch \ {o} /\ runs'[r].op = {o}
        /\ \A q \in Runs : q # r => runs'[q] = runs[q]
    BY <1>8, <2>1 DEF TakeResult, Shapes, RunStates
  <2>3. r \in Holders(op)' => r \in Holders(op)
    BY <2>1, <2>2 DEF Holders
  <2>. QED  BY <2>1, <2>2, <2>3, NoNewHolder
<1>9. CASE Kill
  <2>1. Holders(op)' = {} /\ attempts' = attempts
    BY <1>9 DEF Kill, Ready, At, Holders
  <2>. QED  BY <2>1, FewerHolders
<1>10. CASE GoOffline \/ FailDelivery \/ AdvanceDelivery \/ UNCHANGED vars
  BY <1>0, <1>10 DEF GoOffline, FailDelivery, AdvanceDelivery, vars
<1>11. ASSUME NEW batch \in adrift, ServeAdrift(batch) PROVE Left(op)'
  BY <1>0, <1>11 DEF ServeAdrift
<1>12. ASSUME NEW r \in Runs, LoseAnswer(r) \/ AuthError(r) \/ AllTaken(r) \/ Clean(r) \/ Pull(r)
       PROVE  Left(op)'
  BY <1>4, <1>12 DEF LoseAnswer, AuthError, AllTaken, Clean, Pull, GoTo, Ready
<1>. QED  BY <1>1, <1>2, <1>3, <1>6, <1>7, <1>8, <1>9, <1>10, <1>11, <1>12
          DEF Next, Proceed

-----------------------------------------------------------------------------

LEMMA NextInv == Inv /\ [Next]_vars => Inv'
  BY NextShapes, NextRunsKnow, NextQueued, NextAttempts, NextCommitted,
     NextNothingIsDropped DEF Inv

THEOREM Invariance == Spec => []Inv
  BY InitInv, NextInv, PTL DEF Spec

\* The state keeps its shape; an operation is tried once more than the limit
\* by each run that ran beside another.
THEOREM TypeCorrect == Spec => []TypeOK
<1>1. Inv => TypeOK
  <2>. SUFFICES ASSUME Inv, NEW op \in Ops
                PROVE  attempts[op] \in 0..(MaxAttempts + Cardinality(Runs) - 1)
    BY DEF Inv, Shapes, TypeOK
  <2>1. attempts[op] + Cardinality(Holders(op)) <= MaxAttempts + Cardinality(Runs) - 1
    BY DEF Inv, AttemptsLeft
  <2>. QED  BY <2>1, HoldersAreRuns, ConstantsAssumption DEF Inv, Shapes
<1>. QED  BY <1>1, Invariance, PTL

\* What left the outbox, or shows as synced, is committed on the server.
THEOREM NoneDropped == Spec => []NothingIsDropped
  BY Invariance, PTL DEF Inv

\* A transition of a delivery is made once, after those before it, by a queued
\* update or by somebody else.
THEOREM InOrder == Spec => []TransitionsInOrder
  BY Invariance, PTL DEF Inv

-----------------------------------------------------------------------------
(***************************************************************************)
(* The other half of a sync run: the pull, over the change feed of the     *)
(* backend (SyncFeed).                                                     *)
(***************************************************************************)
\* The events that a cursor may not pass by: committed in order, and visible
\* ever since.
Owed == Committed \ (late \cup hidden)

\* Numbers are drawn once, and an event has the version of its commit.
Numbered ==
    /\ \A n \in Committed : n <= seq /\ log[n].version <= versions[log[n].entity]
    /\ \A w \in Writers : writer[w] # None =>
        /\ writer[w].n <= seq /\ writer[w].n \notin Committed
        /\ writer[w].does = "assign" => writer[w].entity \in Stores
    /\ \A w, x \in Writers :
        writer[w] # None /\ writer[x] # None /\ writer[w].n = writer[x].n => w = x

Visible == \A n \in Committed \ hidden : InScope(log[n].entity, scope)

\* Where a cursor may stand: nothing owed will ever be committed below it.
Place(n) == n = 0 \/ n \in Committed

\* What the device has.
Caught ==
    /\ Place(cursor)
    /\ \A e \in Entities : copy[e] <= versions[e]
    /\ \A n \in Owed : n <= cursor => Known(n)

Carries(x, n) == n \in x.page /\ x.snap[log[n].entity] >= log[n].version

\* What a pull has found: every event owed up to the next cursor, which the
\* device has got or the page still brings.
Found(x) ==
    /\ x.since = cursor /\ x.since <= x.next /\ Place(x.next)
    /\ x.page \subseteq Committed
    /\ x.pc = "select" => x.next = x.since
    /\ x.pc \in {"scope", "fetch"} =>
        \A n \in Owed : x.since < n /\ n <= x.next => n \in x.page
    /\ x.pc = "apply" =>
        /\ \A n \in Owed : x.since < n /\ n <= x.next => Known(n) \/ Carries(x, n)
        /\ x.page # {} => \A e \in Entities : copy[e] <= x.snap[e] /\ x.snap[e] <= versions[e]

\* The device has one run at a time, which is what the properties are stated
\* for.
OneRun == \A r, t \in Pulls : r = t

AllFound == \A r \in Pulls : pulls[r] # NoPull => Found(pulls[r])

\* What the backend guarantees by itself.
ServerInv == FeedTypeOK /\ Numbered /\ Visible

FeedInv == ServerInv /\ Caught /\ AllFound

-----------------------------------------------------------------------------
(* Shapes *)

LEMMA FeedNumbers ==
  MaxSeq \in Nat /\ Limit \in Nat \ {0} /\ 0 \in 0..MaxSeq
  BY FeedAssumption

LEMMA LargestSeq ==
  ASSUME NEW S \in SUBSET (0..MaxSeq), S # {}
  PROVE  Max(S) \in S /\ \A y \in S : y <= Max(S)
<1>. DEFINE T == {MaxSeq - y : y \in S}
<1>1. T \in SUBSET Nat /\ T # {}
  BY FeedNumbers
<1>. HIDE DEF T
<1>2. PICK k \in T : \A m \in T : ~ (<<m, k>> \in OpToRel(<, Nat))
  BY <1>1, NatLessThanWellFounded, WFMin
<1>3. PICK x \in S : k = MaxSeq - x
  BY DEF T
<1>4. ASSUME NEW y \in S PROVE x >= y
  <2>1. MaxSeq - y \in T /\ MaxSeq - y \in Nat /\ k \in Nat
    BY <1>1 DEF T
  <2>2. ~ (MaxSeq - y < k)
    BY <1>2, <2>1 DEF OpToRel
  <2>. QED  BY <1>3, <2>1, <2>2, FeedNumbers
<1>5. Max(S) \in S /\ \A y \in S : Max(S) >= y
  BY <1>4 DEF Max
<1>. QED  BY <1>5, FeedNumbers

LEMMA PullShape ==
  ASSUME FeedTypeOK, NEW r \in Pulls, pulls[r].pc # "ready"
  PROVE  pulls[r] \in PullStates /\ pulls[r] # NoPull
  BY DEF FeedTypeOK, NoPull

LEMMA EventTyped ==
  ASSUME FeedTypeOK, NEW n \in Committed
  PROVE  /\ n \in Seqs /\ n \in Nat \ {0} /\ log[n] \in Events
         /\ log[n].entity \in Entities /\ log[n].version \in Nat
<1>1. n \in Seqs /\ log[n] \in Events
  BY DEF FeedTypeOK, Committed
<1>. QED  BY <1>1, FeedNumbers DEF Seqs, Events

\* The page is the events right above since.
LEMMA PageFacts ==
  ASSUME FeedTypeOK, NEW since \in 0..MaxSeq
  PROVE  LET page == Page(since)
             next == NextCursor(since, page)
         IN  /\ page \subseteq Committed /\ page \subseteq Seqs
             /\ next \in 0..MaxSeq /\ since <= next /\ (next = since \/ next \in page)
             /\ \A n \in Committed : since < n /\ n <= next => n \in page
             /\ page = {} => next = since
<1>. DEFINE page == Page(since)
            above == {n \in Committed : n > since}
            next == NextCursor(since, page)
            Below(n) == {m \in above : m < n}
<1>1. page = {n \in above : Cardinality(Below(n)) < Limit}
  BY DEF Page
<1>2. /\ Committed \subseteq Seqs /\ Seqs \subseteq Nat
      /\ Seqs \subseteq 0..MaxSeq /\ since \in Nat
  BY FeedNumbers DEF Committed, Seqs
<1>3. ASSUME NEW m \in page, NEW n \in Committed, since < n, n <= m
      PROVE  n \in page
  <2>1. Below(n) \subseteq Below(m) /\ n \in above
    <3>1. m \in Nat /\ n \in Nat /\ above \subseteq Nat
      BY <1>1, <1>2, <1>3
    <3>2. n \in above
      BY <1>2, <1>3, <3>1
    <3>3. \A k \in above : k < n => k < m
      BY <1>3, <3>1
    <3>. HIDE DEF above
    <3>. QED  BY <3>2, <3>3
  <2>2. IsFiniteSet(Below(m)) /\ Cardinality(Below(m)) \in Nat
    <3>1. IsFiniteSet(Seqs)
      BY FeedNumbers, FS_Interval DEF Seqs
    <3>2. Below(m) \subseteq Seqs
      BY <1>2
    <3>. HIDE DEF Below
    <3>. QED  BY <3>1, <3>2, FS_Subset, FS_CardinalityType
  <2>3. Cardinality(Below(n)) \in Nat /\ Cardinality(Below(n)) <= Cardinality(Below(m))
    <3>. HIDE DEF Below
    <3>. QED  BY <2>1, <2>2, FS_Subset, FS_CardinalityType
  <2>4. Cardinality(Below(m)) < Limit
    BY <1>1
  <2>5. Cardinality(Below(n)) < Limit
    <3>. HIDE DEF Below
    <3>. QED  BY <2>2, <2>3, <2>4, FeedNumbers
  <2>. QED  BY <1>1, <2>1, <2>5
<1>4. page \subseteq above
  BY <1>1
<1>5. page \subseteq Committed /\ page \subseteq Seqs /\ \A n \in page : n > since
  BY <1>2, <1>4
<1>. HIDE DEF page
<1>6. {since} \cup page \in SUBSET (0..MaxSeq)
  BY <1>2, <1>5
<1>7. next \in {since} \cup page /\ \A n \in {since} \cup page : n <= next
  BY <1>6, LargestSeq DEF NextCursor
<1>. HIDE DEF next
<1>8. next \in 0..MaxSeq /\ since <= next /\ (next = since \/ next \in page)
  BY <1>6, <1>7
<1>9. \A n \in Committed : since < n /\ n <= next => n \in page
  BY <1>2, <1>3, <1>8
<1>10. page = {} => next = since
  BY <1>7
<1>. QED  BY <1>5, <1>8, <1>9, <1>10 DEF page, next

LEMMA FeedInitInv == FeedInit => FeedInv
<1>. SUFFICES ASSUME FeedInit PROVE FeedInv
  OBVIOUS
<1>1. FeedTypeOK
  BY FeedNumbers DEF FeedInit, FeedTypeOK
<1>2. Committed = {}
  BY DEF FeedInit, Committed
<1>3. Numbered /\ Visible /\ Caught /\ AllFound
  BY <1>2 DEF FeedInit, Numbered, Visible, Caught, Place, Owed, AllFound
<1>. QED  BY <1>1, <1>3 DEF FeedInv, ServerInv

-----------------------------------------------------------------------------
(* Writers *)

\* A step that moves nothing but the writers' numbers.
LEMMA FlushServer ==
  ASSUME ServerInv, NEW w \in Writers, NEW e \in Entities,
         NEW what \in {"write", "assign", "reassign"}, FlushEvent(w, e, what),
         what = "assign" => e \in Stores
  PROVE  ServerInv' /\ Committed' = Committed
<1>. DEFINE t == [entity |-> e, n |-> seq + 1, does |-> what]
<1>1. /\ seq < MaxSeq /\ seq' = seq + 1 /\ writer' = [writer EXCEPT ![w] = t]
      /\ UNCHANGED <<log, versions, scope, late, hidden, copy, cursor, pulls>>
  BY DEF FlushEvent, phone
<1>2. seq \in Nat /\ seq + 1 \in Seqs
  BY <1>1, FeedNumbers DEF ServerInv, FeedTypeOK, Seqs
<1>3. FeedTypeOK'
  BY <1>1, <1>2, FeedNumbers DEF ServerInv, FeedTypeOK, Seqs
<1>4. writer'[w] = t /\ \A x \in Writers \ {w} : writer'[x] = writer[x]
  BY <1>1 DEF ServerInv, FeedTypeOK
<1>5. Committed' = Committed /\ \A n \in Committed : n <= seq /\ n \in Nat
  BY <1>1, EventTyped DEF Committed, ServerInv, Numbered
<1>6. \A x \in Writers : writer[x] # None => writer[x].n <= seq /\ writer[x].n \in Nat
  BY FeedNumbers DEF ServerInv, FeedTypeOK, Numbered, Seqs
<1>7. Numbered'
  BY <1>1, <1>2, <1>4, <1>5, <1>6 DEF ServerInv, Numbered
<1>8. Visible'
  BY <1>1, <1>5 DEF ServerInv, Visible
<1>. QED  BY <1>3, <1>5, <1>7, <1>8 DEF ServerInv

LEMMA RollBackServer ==
  ASSUME ServerInv, NEW w \in Writers, RollBack(w)
  PROVE  ServerInv' /\ Committed' = Committed
<1>1. /\ writer' = [writer EXCEPT ![w] = None]
      /\ UNCHANGED <<seq, log, versions, scope, late, hidden, copy, cursor, pulls>>
  BY DEF RollBack, phone
<1>2. FeedTypeOK'
  BY <1>1 DEF ServerInv, FeedTypeOK
<1>3. writer'[w] = None /\ \A x \in Writers \ {w} : writer'[x] = writer[x]
  BY <1>1 DEF ServerInv, FeedTypeOK
<1>4. Committed' = Committed
  BY <1>1 DEF Committed
<1>5. Numbered'
  BY <1>1, <1>3, <1>4 DEF ServerInv, Numbered
<1>6. Visible'
  BY <1>1, <1>4 DEF ServerInv, Visible
<1>. QED  BY <1>2, <1>4, <1>5, <1>6 DEF ServerInv

\* The device and its pull do not notice a writer that commits nothing.
LEMMA UncommittedInv ==
  ASSUME FeedInv, ServerInv', Committed' = Committed,
         UNCHANGED <<log, versions, late, hidden, copy, cursor, pulls>>
  PROVE  FeedInv'
  BY DEF FeedInv, Caught, Place, Owed, Known, AllFound, Found, Carries

\* An event owed after a commit was owed before, or is above every place.
LEMMA CommitEffect ==
  ASSUME ServerInv, NEW w \in Writers, Commit(w)
  PROVE  \E n \in Seqs, e \in Entities :
            /\ n \notin Committed /\ Committed' = Committed \cup {n}
            /\ log' = [log EXCEPT ![n] = [entity |-> e, version |-> versions[e] + 1]]
            /\ n = writer[w].n /\ e = writer[w].entity
            /\ versions' = [versions EXCEPT ![e] = @ + 1]
            /\ late \subseteq late' /\ late' \subseteq Seqs
            /\ \A m \in Committed : m > n => n \in late'
<1>. DEFINE n == writer[w].n
            e == writer[w].entity
            event == [entity |-> e, version |-> versions[e] + 1]
<1>1. /\ writer[w] # None
      /\ versions' = [versions EXCEPT ![e] = @ + 1]
      /\ log' = [log EXCEPT ![n] = event]
      /\ late' = IF \E m \in Committed : m > n THEN late \cup {n} ELSE late
  BY DEF Commit
<1>2. n \in Seqs /\ e \in Entities /\ n \notin Committed
  BY <1>1 DEF ServerInv, FeedTypeOK, Numbered
<1>3. versions[e] \in Nat /\ event \in Events
  BY <1>2 DEF ServerInv, FeedTypeOK, Events
<1>4. event # None
  BY <1>3, NoneAssumption
<1>. HIDE DEF event
<1>5. log'[n] = event /\ \A m \in Seqs \ {n} : log'[m] = log[m]
  BY <1>1, <1>2 DEF ServerInv, FeedTypeOK
<1>6. Committed' = Committed \cup {n}
  BY <1>2, <1>4, <1>5 DEF Committed
<1>7. /\ late \subseteq late' /\ late' \subseteq Seqs
      /\ \A m \in Committed : m > n => n \in late'
  BY <1>1, <1>2 DEF ServerInv, FeedTypeOK
<1>. QED  BY <1>1, <1>2, <1>6, <1>7 DEF event

\* Commits only add: what is owed up to a place was owed before.
LEMMA CommitServer ==
  ASSUME ServerInv, NEW w \in Writers, Commit(w)
  PROVE  /\ ServerInv' /\ Committed \subseteq Committed'
         /\ \A n \in Committed : log'[n] = log[n]
         /\ \A e \in Entities : versions[e] <= versions'[e] /\ versions'[e] \in Nat
         /\ \A n \in Committed' \ Committed : log'[n].version > 0
         /\ \A k : Place(k) => \A n \in Owed' : n <= k => n \in Owed
<1>1. PICK n \in Seqs, e \in Entities :
            /\ n \notin Committed /\ Committed' = Committed \cup {n}
            /\ log' = [log EXCEPT ![n] = [entity |-> e, version |-> versions[e] + 1]]
            /\ n = writer[w].n /\ e = writer[w].entity
            /\ versions' = [versions EXCEPT ![e] = @ + 1]
            /\ late \subseteq late' /\ late' \subseteq Seqs
            /\ \A m \in Committed : m > n => n \in late'
  BY CommitEffect
<1>2. /\ writer[w] # None /\ writer' = [writer EXCEPT ![w] = None]
      /\ UNCHANGED <<seq, copy, cursor, pulls>>
      /\ hidden' = hidden \cup {m \in Committed' : ~InScope(log'[m].entity, scope')}
      /\ scope' = CASE writer[w].does = "write"    -> scope
                    [] writer[w].does = "assign"   -> scope \cup {writer[w].entity}
                    [] writer[w].does = "reassign" -> scope \ {writer[w].entity}
  BY DEF Commit, phone
<1>3. /\ versions'[e] = versions[e] + 1 /\ versions[e] \in Nat
      /\ \A f \in Entities : versions[f] <= versions'[f] /\ versions'[f] \in Nat
  BY <1>1 DEF ServerInv, FeedTypeOK
<1>4. /\ log'[n].entity = e /\ log'[n].version = versions'[e]
      /\ \A m \in Committed : m # n /\ log'[m] = log[m]
  BY <1>1, <1>3, EventTyped DEF ServerInv, FeedTypeOK
<1>5. FeedTypeOK'
  <2>1. scope' \subseteq Stores
    <3>1. writer[w].does \in {"write", "assign", "reassign"}
      BY <1>2 DEF ServerInv, FeedTypeOK
    <3>. QED  BY <1>2, <3>1 DEF ServerInv, FeedTypeOK, Numbered
  <2>2. log' \in [Seqs -> Events \cup {None}]
    <3>1. [entity |-> e, version |-> versions[e] + 1] \in Events
      BY <1>3 DEF Events
    <3>. QED  BY <1>1, <3>1 DEF ServerInv, FeedTypeOK
  <2>3. versions' \in [Entities -> Nat]
    BY <1>1, <1>3 DEF ServerInv, FeedTypeOK
  <2>4. hidden' \subseteq Seqs
    BY <1>1, <1>2, EventTyped DEF ServerInv, FeedTypeOK
  <2>. QED  BY <1>1, <1>2, <2>1, <2>2, <2>3, <2>4 DEF ServerInv, FeedTypeOK
<1>6. writer'[w] = None /\ \A x \in Writers \ {w} : writer'[x] = writer[x]
  BY <1>2 DEF ServerInv, FeedTypeOK
<1>7. \A m \in Committed : /\ m \in Nat /\ log[m].entity \in Entities
                                 /\ log[m].version \in Nat
                                 /\ log[m].version <= versions[log[m].entity]
                                 /\ versions[log[m].entity] \in Nat
  BY EventTyped DEF ServerInv, Numbered, FeedTypeOK
<1>8. Numbered'
  <2>1. \A m \in Committed' : m <= seq' /\ log'[m].version <= versions'[log'[m].entity]
    <3>. SUFFICES ASSUME NEW m \in Committed'
                  PROVE  m <= seq /\ log'[m].version <= versions'[log'[m].entity]
      BY <1>2
    <3>1. CASE m = n
      BY <1>1, <1>2, <1>3, <1>4, <3>1 DEF ServerInv, Numbered
    <3>2. CASE m \in Committed
      BY <1>3, <1>4, <1>7, <3>2 DEF ServerInv, Numbered
    <3>. QED  BY <1>1, <3>1, <3>2
  <2>2. \A x \in Writers : writer'[x] # None =>
            /\ writer'[x].n <= seq' /\ writer'[x].n \notin Committed'
            /\ writer'[x].does = "assign" => writer'[x].entity \in Stores
    BY <1>1, <1>2, <1>6 DEF ServerInv, Numbered
  <2>. QED  BY <1>6, <2>1, <2>2 DEF ServerInv, Numbered
<1>9. Visible'
  BY <1>2 DEF Visible
<1>10. \A m \in Owed' : m \in Owed \/ (m = n /\ \A k \in Committed : k < m)
  <2>1. Owed' \subseteq Committed' /\ Owed' \cap late' = {} /\ Owed' \cap hidden' = {}
    BY DEF Owed
  <2>2. \A m \in Owed' : m \in Committed => m \in Owed
    BY <1>1, <1>2, <2>1 DEF Owed
  <2>3. n \in Owed' => \A k \in Committed : k < n
    <3>1. n \in Nat
      BY FeedNumbers DEF Seqs
    <3>. QED  BY <1>1, <1>4, <1>7, <2>1, <3>1
  <2>. QED  BY <1>1, <2>1, <2>2, <2>3
<1>11. ASSUME NEW k, Place(k), NEW m \in Owed', m <= k PROVE m \in Owed
  <2>1. n \in Nat \ {0}
    BY FeedNumbers DEF Seqs
  <2>. QED  BY <1>7, <1>10, <1>11, <2>1 DEF Place
<1>12. Committed \subseteq Committed' /\ \A m \in Committed' \ Committed : m = n
  BY <1>1
<1>13. log'[n].version > 0
  BY <1>3, <1>4
<1>. QED  BY <1>3, <1>4, <1>5, <1>8, <1>9, <1>11, <1>12, <1>13 DEF ServerInv

LEMMA CommitInv ==
  ASSUME FeedInv, NEW w \in Writers, Commit(w)
  PROVE  FeedInv'
<1>1. /\ ServerInv' /\ Committed \subseteq Committed'
      /\ \A m \in Committed : log'[m] = log[m]
      /\ \A f \in Entities : versions[f] <= versions'[f] /\ versions'[f] \in Nat
      /\ \A k : Place(k) => \A m \in Owed' : m <= k => m \in Owed
  BY CommitServer DEF FeedInv
<1>2. UNCHANGED <<copy, cursor, pulls>>
  BY DEF Commit, phone
<1>3. Owed \subseteq Committed /\ FeedTypeOK
  BY DEF Owed, FeedInv, ServerInv
<1>4. \A k : Place(k) => Place(k)'
  BY <1>1 DEF Place
<1>5. Caught'
  <2>1. \A f \in Entities : copy'[f] <= versions'[f]
    BY <1>1, <1>2, <1>3 DEF FeedInv, Caught, FeedTypeOK
  <2>2. \A m \in Owed' : m <= cursor' => Known(m)'
    BY <1>1, <1>2, <1>3 DEF FeedInv, Caught, Known
  <2>. QED  BY <1>2, <1>4, <2>1, <2>2 DEF FeedInv, Caught, Place
<1>6. ASSUME NEW r \in Pulls, pulls'[r] # NoPull PROVE Found(pulls[r])'
  <2>. DEFINE x == pulls[r]
  <2>1. pulls' = pulls /\ Found(x) /\ x \in PullStates /\ cursor' = cursor /\ copy' = copy
    BY <1>2, <1>3, <1>6 DEF FeedInv, AllFound, FeedTypeOK
  <2>2. /\ x.since = cursor /\ x.since <= x.next /\ Place(x.next)'
        /\ x.page \subseteq Committed'
        /\ x.pc = "select" => x.next = x.since
    BY <1>1, <1>4, <2>1 DEF Found
  <2>3. \A m \in Owed' : m <= x.next => m \in Owed /\ log'[m] = log[m]
    BY <1>1, <1>3, <2>1 DEF Found
  <2>4. x.pc \in {"scope", "fetch"} =>
            \A m \in Owed' : x.since < m /\ m <= x.next => m \in x.page
    BY <2>1, <2>3 DEF Found
  <2>5. x.pc = "apply" =>
          /\ \A m \in Owed' : x.since < m /\ m <= x.next =>
                Known(m)' \/ (m \in x.page /\ x.snap[log'[m].entity] >= log'[m].version)
          /\ x.page # {} => \A f \in Entities : copy[f] <= x.snap[f] /\ x.snap[f] <= versions'[f]
    <3>. SUFFICES ASSUME x.pc = "apply"
                  PROVE  /\ \A m \in Owed' : x.since < m /\ m <= x.next =>
                              \/ Known(m)'
                              \/ m \in x.page /\ x.snap[log'[m].entity] >= log'[m].version
                         /\ x.page # {} => \A f \in Entities :
                              copy[f] <= x.snap[f] /\ x.snap[f] <= versions'[f]
      OBVIOUS
    <3>1. \A m \in Owed' : x.since < m /\ m <= x.next =>
                              \/ Known(m)'
                              \/ m \in x.page /\ x.snap[log'[m].entity] >= log'[m].version
      BY <2>1, <2>3 DEF Found, Carries, Known
    <3>2. x.snap \in [Entities -> Nat]
      BY <2>1 DEF PullStates
    <3>3. x.page # {} => \A f \in Entities : copy[f] <= x.snap[f] /\ x.snap[f] <= versions'[f]
      BY <1>1, <1>3, <2>1, <3>2 DEF Found, FeedTypeOK
    <3>. QED  BY <3>1, <3>3
  <2>. QED  BY <2>1, <2>2, <2>4, <2>5 DEF Found, Carries
<1>7. AllFound'
  BY <1>6 DEF AllFound
<1>. QED  BY <1>1, <1>5, <1>7 DEF FeedInv

-----------------------------------------------------------------------------
(* Pulls *)

\* A step of the only run.
LEMMA PullMoves ==
  ASSUME FeedInv, OneRun, NEW r \in Pulls,
         NEW x \in PullStates \cup {NoPull},
         pulls' = [pulls EXCEPT ![r] = x], UNCHANGED backend,
         copy' \in [Entities -> Nat], cursor' \in 0..MaxSeq,
         Caught', x # NoPull => Found(x)'
  PROVE  FeedInv'
<1>1. UNCHANGED <<seq, writer, log, versions, scope, late, hidden>>
  BY DEF backend
<1>2. FeedTypeOK'
  BY <1>1 DEF FeedInv, ServerInv, FeedTypeOK
<1>3. Committed' = Committed
  BY <1>1 DEF Committed
<1>4. Numbered' /\ Visible'
  BY <1>1, <1>3 DEF FeedInv, ServerInv, Numbered, Visible, InScope
<1>5. pulls'[r] = x /\ \A t \in Pulls : t = r
  BY DEF FeedInv, ServerInv, FeedTypeOK, OneRun
<1>6. AllFound'
  BY <1>5 DEF AllFound, Found, Place, Carries, Known
<1>. QED  BY <1>2, <1>4, <1>6 DEF FeedInv, ServerInv

\* Nothing but the run moves.
LEMMA ServerStill ==
  ASSUME FeedInv, UNCHANGED <<backend, phone>>
  PROVE  /\ Caught' /\ copy' \in [Entities -> Nat] /\ cursor' \in 0..MaxSeq
         /\ Owed' = Owed /\ Committed' = Committed
  BY DEF backend, phone, FeedInv, ServerInv, Caught, FeedTypeOK, Place, Owed,
         Committed, Known

LEMMA QuietPull ==
  ASSUME FeedInv, OneRun, NEW r \in Pulls,
         NEW x \in PullStates \cup {NoPull},
         pulls' = [pulls EXCEPT ![r] = x], UNCHANGED <<backend, phone>>,
         x # NoPull => Found(x)
  PROVE  FeedInv'
<1>1. x # NoPull => Found(x)'
  BY ServerStill DEF Found, backend, phone, Place, Carries, Known
<1>. QED  BY <1>1, ServerStill, PullMoves

LEMMA StartPullInv ==
  ASSUME FeedInv, OneRun, NEW r \in Pulls, StartPull(r) \/ Fail(r)
  PROVE  FeedInv'
<1>1. CASE StartPull(r)
  <2>. DEFINE x == [pc |-> "select", since |-> cursor, page |-> {}, next |-> cursor,
                    more |-> FALSE, snap |-> [e \in Entities |-> 0]]
  <2>1. x \in PullStates
    BY DEF PullStates, FeedInv, ServerInv, FeedTypeOK
  <2>2. Found(x)
    BY FeedNumbers DEF Found, FeedInv, ServerInv, Caught, FeedTypeOK
  <2>3. pulls' = [pulls EXCEPT ![r] = x] /\ UNCHANGED <<backend, phone>>
    BY <1>1 DEF StartPull
  <2>. HIDE DEF x
  <2>. QED  BY <2>1, <2>2, <2>3, QuietPull
<1>2. CASE Fail(r)
  BY <1>2, QuietPull DEF Fail
<1>. QED  BY <1>1, <1>2

LEMMA SelectEventsInv ==
  ASSUME FeedInv, OneRun, NEW r \in Pulls, SelectEvents(r)
  PROVE  FeedInv'
<1>. DEFINE y == pulls[r]
            page == Page(y.since)
            next == NextCursor(y.since, page)
            pc == IF page = {} THEN "apply" ELSE "scope"
            more == Cardinality(page) >= Limit
            x == [y EXCEPT !.pc = pc, !.page = page, !.next = next, !.more = more]
<1>1. /\ pulls' = [pulls EXCEPT ![r] = x] /\ UNCHANGED <<backend, phone>>
      /\ y.pc = "select"
  BY DEF SelectEvents
<1>2. y \in PullStates /\ Found(y)
  BY <1>1, PullShape DEF FeedInv, ServerInv, AllFound
<1>3. y.since \in 0..MaxSeq
  BY <1>2 DEF PullStates
<1>4. /\ page \subseteq Committed /\ page \subseteq Seqs
      /\ next \in 0..MaxSeq /\ y.since <= next /\ (next = y.since \/ next \in page)
      /\ \A n \in Committed : y.since < n /\ n <= next => n \in page
      /\ page = {} => next = y.since
  BY <1>3, PageFacts DEF FeedInv, ServerInv
<1>5. pc \in {"apply", "scope"} /\ (pc = "apply" => page = {}) /\ more \in BOOLEAN
  OBVIOUS
<1>. HIDE DEF page, next, pc, more
<1>6. /\ x \in PullStates /\ x.pc = pc /\ x.page = page /\ x.next = next
      /\ x.since = y.since /\ x.snap = y.snap
  BY <1>2, <1>4, <1>5 DEF PullStates
<1>. HIDE DEF x
<1>7. Owed \subseteq Committed /\ Owed \subseteq Nat
  BY EventTyped DEF Owed, FeedInv, ServerInv
<1>8. Found(x)
  <2>1. Place(next)
    BY <1>2, <1>4 DEF Found, Place, FeedInv, ServerInv, Caught
  <2>2. pc = "apply" => next = y.since
    BY <1>4, <1>5
  <2>3. \A n \in Owed : y.since < n /\ n <= next => n \in page /\ next # y.since
    BY <1>3, <1>4, <1>7
  <2>. QED  BY <1>2, <1>4, <1>5, <1>6, <2>1, <2>2, <2>3 DEF Found
<1>. QED  BY <1>1, <1>6, <1>8, QuietPull

LEMMA ReadScopeInv ==
  ASSUME FeedInv, OneRun, NEW r \in Pulls, ReadScope(r)
  PROVE  FeedInv'
<1>. DEFINE y == pulls[r]
            seen == {n \in y.page : InScope(log[n].entity, scope)}
            x == [y EXCEPT !.pc = "fetch", !.page = seen]
<1>1. /\ pulls' = [pulls EXCEPT ![r] = x] /\ UNCHANGED <<backend, phone>>
      /\ y.pc = "scope"
  BY DEF ReadScope
<1>2. y \in PullStates /\ Found(y)
  BY <1>1, PullShape DEF FeedInv, ServerInv, AllFound
<1>3. seen \subseteq y.page /\ \A n \in Owed : n \in y.page => n \in seen
  BY DEF Owed, FeedInv, ServerInv, Visible
<1>. HIDE DEF seen
<1>4. /\ x \in PullStates /\ x.pc = "fetch" /\ x.page = seen /\ x.next = y.next
      /\ x.since = y.since
  BY <1>2, <1>3 DEF PullStates
<1>. HIDE DEF x
<1>5. Found(x)
  BY <1>1, <1>2, <1>3, <1>4 DEF Found
<1>. QED  BY <1>1, <1>4, <1>5, QuietPull

LEMMA FetchInv ==
  ASSUME FeedInv, OneRun, NEW r \in Pulls, FetchSnapshots(r)
  PROVE  FeedInv'
<1>. DEFINE y == pulls[r]
            x == [y EXCEPT !.pc = "apply", !.snap = versions]
<1>1. /\ pulls' = [pulls EXCEPT ![r] = x] /\ UNCHANGED <<backend, phone>>
      /\ y.pc = "fetch"
  BY DEF FetchSnapshots
<1>2. y \in PullStates /\ Found(y) /\ versions \in [Entities -> Nat]
  BY <1>1, PullShape DEF FeedInv, ServerInv, AllFound, FeedTypeOK
<1>3. /\ x \in PullStates /\ x.pc = "apply" /\ x.page = y.page /\ x.next = y.next
      /\ x.since = y.since /\ x.snap = versions
  BY <1>2 DEF PullStates
<1>. HIDE DEF x
<1>4. \A n \in Owed : versions[log[n].entity] >= log[n].version
  <2>. SUFFICES ASSUME NEW n \in Committed PROVE versions[log[n].entity] >= log[n].version
    BY DEF Owed
  <2>1. log[n].version <= versions[log[n].entity]
    BY DEF FeedInv, ServerInv, Numbered
  <2>. QED  BY <1>2, <2>1, EventTyped DEF FeedInv, ServerInv
<1>5. \A e \in Entities : copy[e] <= versions[e] /\ versions[e] <= versions[e]
  BY <1>2 DEF FeedInv, ServerInv, Caught
<1>6. Found(x)
  BY <1>1, <1>2, <1>3, <1>4, <1>5 DEF Found, Carries
<1>. QED  BY <1>1, <1>3, <1>6, QuietPull

LEMMA ApplyChangeInv ==
  ASSUME FeedInv, OneRun, NEW r \in Pulls, NEW n \in Seqs,
         ApplyChange(r, n)
  PROVE  FeedInv' /\ \A e \in Entities : copy'[e] >= copy[e]
<1>1. /\ pulls[r] \in PullStates /\ Found(pulls[r])
      /\ pulls[r].pc = "apply" /\ n \in pulls[r].page
  BY PullShape DEF ApplyChange, FeedInv, ServerInv, AllFound
<1>2. PICK y \in PullStates : y = pulls[r]
  BY <1>1
<1>3. PICK e : e = log[n].entity
  OBVIOUS
<1>4. PICK x : x = [y EXCEPT !.page = y.page \ {n}]
  OBVIOUS
<1>5. /\ y.pc = "apply" /\ n \in y.page /\ Found(y)
      /\ copy' = [copy EXCEPT ![e] = y.snap[e]]
      /\ pulls' = [pulls EXCEPT ![r] = x] /\ UNCHANGED <<backend, cursor>>
  BY <1>1, <1>2, <1>3, <1>4 DEF ApplyChange
<1>6. /\ y.snap \in [Entities -> Nat] /\ copy \in [Entities -> Nat]
      /\ versions \in [Entities -> Nat] /\ y.page \subseteq Committed
  BY <1>5 DEF PullStates, Found, FeedInv, ServerInv, FeedTypeOK
<1>7. /\ x \in PullStates /\ x.pc = "apply" /\ x.page = y.page \ {n} /\ x.next = y.next
      /\ x.since = y.since /\ x.snap = y.snap
  BY <1>4, <1>5 DEF PullStates
<1>8. e \in Entities /\ y.snap[e] \in Nat
  BY <1>3, <1>5, <1>6, EventTyped DEF FeedInv, ServerInv
<1>9. \A f \in Entities : copy[f] <= y.snap[f] /\ y.snap[f] <= versions[f]
  BY <1>5 DEF Found
<1>10. /\ copy' \in [Entities -> Nat] /\ copy'[e] = y.snap[e]
       /\ \A f \in Entities \ {e} : copy'[f] = copy[f]
  BY <1>5, <1>6, <1>8
<1>11. \A f \in Entities : /\ copy'[f] >= copy[f] /\ copy'[f] <= y.snap[f]
                            /\ copy'[f] <= versions[f]
  BY <1>6, <1>9, <1>10
<1>12. /\ UNCHANGED <<seq, writer, log, versions, scope, late, hidden, cursor>>
       /\ Committed' = Committed /\ Owed' = Owed
  BY <1>5 DEF backend, Committed, Owed
<1>13. \A m \in Owed : /\ m \in Committed /\ log[m].entity \in Entities
                        /\ log[m].version \in Nat
  BY EventTyped DEF Owed, FeedInv, ServerInv
<1>14. \A m \in Owed : Known(m) => Known(m)'
  BY <1>6, <1>10, <1>11, <1>12, <1>13 DEF Known
<1>15. Caught'
  BY <1>11, <1>12, <1>14 DEF FeedInv, ServerInv, Caught, Place
<1>16. ASSUME NEW m \in Owed, y.since < m, m <= y.next
       PROVE  Known(m)' \/ (m \in x.page /\ x.snap[log[m].entity] >= log[m].version)
  <2>1. Known(m) \/ Carries(y, m)
    BY <1>5, <1>16 DEF Found
  <2>2. CASE Carries(y, m) /\ m = n
    BY <1>3, <1>10, <1>12, <2>2 DEF Known, Carries
  <2>3. CASE Carries(y, m) /\ m # n
    BY <1>7, <2>3 DEF Carries
  <2>. QED  BY <1>14, <2>1, <2>2, <2>3
<1>17. Found(x)'
  <2>1. /\ x.since = cursor' /\ x.since <= x.next /\ Place(x.next)'
        /\ x.page \subseteq Committed' /\ x.pc = "apply"
    BY <1>5, <1>6, <1>7, <1>12 DEF Found, Place
  <2>2. \A m \in Owed' : x.since < m /\ m <= x.next => Known(m)' \/ Carries(x, m)'
    BY <1>7, <1>12, <1>16 DEF Carries
  <2>3. \A f \in Entities : copy'[f] <= x.snap[f] /\ x.snap[f] <= versions'[f]
    BY <1>7, <1>9, <1>11, <1>12
  <2>. QED  BY <2>1, <2>2, <2>3 DEF Found
<1>18. cursor' \in 0..MaxSeq
  BY <1>12 DEF FeedInv, ServerInv, FeedTypeOK
<1>19. UNCHANGED backend
  BY <1>5
<1>20. FeedInv'
  BY <1>5, <1>7, <1>10, <1>15, <1>17, <1>18, <1>19, PullMoves
<1>. QED  BY <1>11, <1>20

LEMMA SaveCursorInv ==
  ASSUME FeedInv, OneRun, NEW r \in Pulls, SaveCursor(r)
  PROVE  FeedInv'
<1>1. /\ pulls[r] \in PullStates /\ Found(pulls[r])
      /\ pulls[r].pc = "apply" /\ pulls[r].page = {}
  BY PullShape DEF SaveCursor, FeedInv, ServerInv, AllFound
<1>2. PICK y \in PullStates : y = pulls[r]
  BY <1>1
<1>3. PICK x : x = IF y.more
                   THEN [y EXCEPT !.pc = "select", !.since = y.next, !.more = FALSE,
                                  !.snap = [e \in Entities |-> 0]]
                   ELSE NoPull
  OBVIOUS
<1>4. /\ y.pc = "apply" /\ y.page = {} /\ Found(y)
      /\ cursor' = IF y.next > y.since THEN y.next ELSE cursor
      /\ pulls' = [pulls EXCEPT ![r] = x] /\ UNCHANGED <<backend, copy>>
  BY <1>1, <1>2, <1>3 DEF SaveCursor
<1>5. /\ y.since \in 0..MaxSeq /\ y.next \in 0..MaxSeq /\ y.since = cursor
      /\ y.since <= y.next /\ Place(y.next)
  BY <1>4 DEF PullStates, Found
<1>6. cursor' = y.next
  BY <1>4, <1>5, FeedNumbers
<1>7. /\ x \in PullStates \cup {NoPull}
      /\ x # NoPull => /\ x.pc = "select" /\ x.since = y.next /\ x.next = y.next
                           /\ x.page = {}
  BY <1>3, <1>4, <1>5 DEF PullStates
<1>8. /\ UNCHANGED <<seq, writer, log, versions, scope, late, hidden, copy>>
      /\ Committed' = Committed /\ Owed' = Owed
  BY <1>4 DEF backend, Committed, Owed
<1>9. Caught'
  <2>1. \A m \in Owed : m <= y.next => Known(m)
    <3>. SUFFICES ASSUME NEW m \in Owed, m <= y.next PROVE Known(m)
      OBVIOUS
    <3>1. m \in Nat
      BY EventTyped DEF Owed, FeedInv, ServerInv
    <3>2. CASE m <= y.since
      BY <1>5, <3>2 DEF FeedInv, ServerInv, Caught
    <3>3. CASE y.since < m
      BY <1>4, <3>3 DEF Found, Carries
    <3>. QED  BY <1>5, <3>1, <3>2, <3>3
  <2>. QED  BY <1>5, <1>6, <1>8, <2>1 DEF FeedInv, ServerInv, Caught, Place, Known
<1>10. copy' \in [Entities -> Nat] /\ cursor' \in 0..MaxSeq
  BY <1>5, <1>6, <1>8 DEF FeedInv, ServerInv, FeedTypeOK
<1>11. x # NoPull => Found(x)'
  BY <1>5, <1>6, <1>7, <1>8 DEF Found, Place
<1>12. UNCHANGED backend
  BY <1>4
<1>. QED  BY <1>4, <1>7, <1>9, <1>10, <1>11, <1>12, PullMoves

LEMMA FeedStutterInv ==
  ASSUME FeedInv, UNCHANGED feedVars
  PROVE  FeedInv'
  BY DEF feedVars, backend, phone, FeedInv, ServerInv, FeedTypeOK, Numbered, Visible, Caught,
         AllFound, Found,
         Place, Carries, Known, Owed, Committed, InScope

LEMMA FeedNextInv ==
  OneRun /\ FeedInv /\ [FeedNext]_feedVars => FeedInv'
<1>. SUFFICES ASSUME OneRun, FeedInv, [FeedNext]_feedVars PROVE FeedInv'
  OBVIOUS
<1>1. ASSUME NEW w \in Writers, NEW e \in Entities,
             Flush(w, e) \/ Assign(w, e) \/ Reassign(w, e)
      PROVE  FeedInv'
  <2>1. Assign(w, e) => e \in Stores
    BY FeedAssumption DEF Assign, Stores
  <2>2. /\ ServerInv' /\ Committed' = Committed
        /\ UNCHANGED <<log, versions, late, hidden, copy, cursor, pulls>>
    BY <1>1, <2>1, FlushServer DEF Flush, Assign, Reassign, FlushEvent, phone, FeedInv
  <2>. QED  BY <2>2, UncommittedInv
<1>2. ASSUME NEW r \in Pulls, PullStep(r) \/ Fail(r) PROVE FeedInv'
  BY <1>2, StartPullInv, SelectEventsInv, ReadScopeInv, FetchInv, ApplyChangeInv,
     SaveCursorInv DEF PullStep
<1>3. ASSUME NEW w \in Writers, RollBack(w) PROVE FeedInv'
  <2>1. ServerInv' /\ Committed' = Committed
    BY <1>3, RollBackServer DEF FeedInv
  <2>. QED  BY <1>3, <2>1, UncommittedInv DEF RollBack, phone
<1>. QED  BY <1>1, <1>2, <1>3, CommitInv, FeedStutterInv DEF FeedNext

-----------------------------------------------------------------------------

\* The inductive invariant of the feed and the pull.
THEOREM FeedInvariance == ASSUME OneRun PROVE FeedSpec => []FeedInv
  BY FeedInitInv, FeedNextInv, PTL DEF FeedSpec

\* With one run at a time, what is not late and was never hidden reaches the
\* device before the cursor passes it.
THEOREM NothingMissed ==
  ASSUME OneRun PROVE FeedSpec => []MissedOnlyWhenLate
<1>1. FeedInv => MissedOnlyWhenLate
  BY DEF FeedInv, ServerInv, Caught, Owed, MissedOnlyWhenLate, Due
<1>. QED  BY <1>1, FeedInvariance, PTL

\* With one run at a time, no copy goes back.
THEOREM CopiesMoveForward ==
  ASSUME OneRun PROVE FeedSpec => CopyNeverGoesBack
<1>1. OneRun /\ FeedInv /\ [FeedNext]_feedVars =>
        [\A e \in Entities : copy'[e] >= copy[e]]_feedVars
  <2>. SUFFICES ASSUME OneRun, FeedInv, FeedNext
                PROVE  \A e \in Entities : copy'[e] >= copy[e]
    OBVIOUS
  <2>1. ASSUME copy' = copy PROVE \A e \in Entities : copy'[e] >= copy[e]
    BY <2>1 DEF FeedInv, ServerInv, FeedTypeOK
  <2>2. ASSUME NEW r \in Pulls, NEW n \in Seqs, ApplyChange(r, n)
        PROVE  \A e \in Entities : copy'[e] >= copy[e]
    BY <2>2, ApplyChangeInv
  <2>. QED
    BY <2>1, <2>2 DEF FeedNext, Flush, Assign, Reassign, FlushEvent,
       Commit, RollBack, PullStep, StartPull, SelectEvents,
       ReadScope, FetchSnapshots, SaveCursor, Fail, phone
<1>. QED  BY <1>1, FeedInvariance, PTL DEF FeedSpec, CopyNeverGoesBack

-----------------------------------------------------------------------------
(***************************************************************************)
(* Any number of runs side by side.  A run may write an older snapshot over *)
(* a newer one, and an older cursor; but what it writes is a version that   *)
(* was there when the event was on its page, so an entity that the device   *)
(* has does not vanish.                                                     *)
(***************************************************************************)

\* The entities of the events owed up to k are on the device.
Present(k) == \A n \in Owed : n <= k => copy[log[n].entity] > 0

\* An event owed up to x.next is present or on the page of x.
Brings(x) ==
    /\ x.since <= x.next /\ Place(x.since) /\ Place(x.next) /\ Present(x.since)
    /\ x.page \subseteq Committed
    /\ x.pc = "select" => x.next = x.since
    /\ x.pc \in {"scope", "fetch"} =>
        \A n \in Owed : x.since < n /\ n <= x.next => n \in x.page
    /\ x.pc = "apply" =>
        /\ \A n \in Owed : x.since < n /\ n <= x.next =>
            n \in x.page \/ copy[log[n].entity] > 0
        /\ \A n \in x.page : x.snap[log[n].entity] > 0

\* An event comes with a version, and so does its entity.
Announced == \A n \in Committed : log[n].version > 0

AllBring == \A r \in Pulls : pulls[r] # NoPull => Brings(pulls[r])

OverlapInv ==
    ServerInv /\ Announced /\ Place(cursor) /\ Present(cursor) /\ AllBring

LEMMA OverlapInitInv == FeedInit => OverlapInv
<1>. SUFFICES ASSUME FeedInit PROVE OverlapInv
  OBVIOUS
<1>1. ServerInv
  BY FeedInitInv DEF FeedInv
<1>2. Committed = {}
  BY DEF FeedInit, Committed
<1>3. Announced /\ Place(cursor) /\ Present(cursor) /\ AllBring
  BY <1>2 DEF FeedInit, Announced, Place, Present, Owed, AllBring
<1>. QED  BY <1>1, <1>3 DEF OverlapInv

LEMMA OwedTyped ==
  ASSUME FeedTypeOK
  PROVE  /\ Owed \subseteq Committed /\ Owed \subseteq Nat /\ Committed \subseteq Nat
         /\ \A n \in Committed : log[n].entity \in Entities
  BY EventTyped DEF Owed

\* What is present stays: commits add nothing below a place, and no copy
\* vanishes.
LEMMA StillPresent ==
  ASSUME OverlapInv,
         Committed \subseteq Committed', \A n \in Committed : log'[n] = log[n],
         \A k : Place(k) => \A n \in Owed' : n <= k => n \in Owed,
         \A e \in Entities : copy[e] > 0 => copy'[e] > 0
  PROVE  /\ \A k : Place(k) => Place(k)'
         /\ \A k : Place(k) /\ Present(k) => Present(k)'
         /\ \A x : x \in PullStates /\ Brings(x) => Brings(x)'
<1>1. /\ Owed \subseteq Committed /\ Owed \subseteq Nat /\ Committed \subseteq Nat
      /\ \A n \in Committed : log[n].entity \in Entities
  BY OwedTyped DEF OverlapInv, ServerInv
<1>2. \A k : Place(k) => Place(k)'
  BY DEF Place
<1>3. ASSUME NEW k, Place(k), Present(k) PROVE Present(k)'
  BY <1>1, <1>3 DEF Present
<1>4. ASSUME NEW x \in PullStates, Brings(x) PROVE Brings(x)'
  <2>1. /\ x.since <= x.next /\ Place(x.since) /\ Place(x.next) /\ Present(x.since)
        /\ x.page \subseteq Committed
    BY <1>4 DEF Brings
  <2>2. Place(x.since)' /\ Place(x.next)' /\ Present(x.since)' /\ x.page \subseteq Committed'
    BY <1>2, <1>3, <2>1
  <2>3. \A n \in Owed' : n <= x.next => n \in Owed /\ log'[n] = log[n]
    BY <1>1, <2>1
  <2>4. x.pc \in {"scope", "fetch"} =>
          \A n \in Owed' : x.since < n /\ n <= x.next => n \in x.page
    BY <1>4, <2>3 DEF Brings
  <2>5. x.pc = "apply" =>
          /\ \A n \in Owed' : x.since < n /\ n <= x.next =>
              n \in x.page \/ copy'[log'[n].entity] > 0
          /\ \A n \in x.page : x.snap[log'[n].entity] > 0
    BY <1>1, <1>4, <2>1, <2>3 DEF Brings
  <2>6. x.pc = "select" => x.next = x.since
    BY <1>4 DEF Brings
  <2>. QED  BY <2>1, <2>2, <2>4, <2>5, <2>6 DEF Brings
<1>. QED  BY <1>2, <1>3, <1>4

LEMMA RunsArePulls ==
  ASSUME FeedTypeOK, NEW r \in Pulls, pulls[r] # NoPull
  PROVE  pulls[r] \in PullStates
  BY DEF FeedTypeOK

\* The backend moves, the device does not.
LEMMA ServerStepOverlap ==
  ASSUME OverlapInv, ServerInv', Announced',
         Committed \subseteq Committed', \A n \in Committed : log'[n] = log[n],
         \A k : Place(k) => \A n \in Owed' : n <= k => n \in Owed,
         UNCHANGED <<copy, cursor, pulls>>
  PROVE  OverlapInv'
<1>1. \A e \in Entities : copy[e] > 0 => copy'[e] > 0
  OBVIOUS
<1>2. /\ Place(cursor)' /\ Present(cursor)'
      /\ \A x : x \in PullStates /\ Brings(x) => Brings(x)'
  <2>1. Place(cursor) /\ Present(cursor) /\ cursor' = cursor
    BY DEF OverlapInv
  <2>2. PICK k : k = cursor
    OBVIOUS
  <2>3. Place(k)' /\ Present(k)' /\ \A x : x \in PullStates /\ Brings(x) => Brings(x)'
    BY <1>1, <2>1, <2>2, StillPresent
  <2>. QED  BY <2>1, <2>2, <2>3 DEF Place, Present
<1>3. ASSUME NEW r \in Pulls, pulls'[r] # NoPull PROVE Brings(pulls[r])'
  <2>1. PICK x : x = pulls[r]
    OBVIOUS
  <2>2. x \in PullStates /\ Brings(x) /\ pulls'[r] = x
    BY <1>3, <2>1, RunsArePulls DEF OverlapInv, ServerInv, AllBring
  <2>3. Brings(x)'
    BY <1>2, <2>2
  <2>. QED  BY <2>2, <2>3 DEF Brings
<1>4. AllBring'
  BY <1>3 DEF AllBring
<1>. QED  BY <1>2, <1>4 DEF OverlapInv

LEMMA WriterOverlap ==
  ASSUME OverlapInv, ServerInv', Committed' = Committed,
         UNCHANGED <<log, versions, late, hidden, copy, cursor, pulls>>
  PROVE  OverlapInv'
<1>1. Announced' /\ Owed' = Owed
  BY DEF OverlapInv, Announced, Owed
<1>. QED  BY <1>1, ServerStepOverlap

LEMMA CommitOverlap ==
  ASSUME OverlapInv, NEW w \in Writers, Commit(w)
  PROVE  OverlapInv'
<1>1. /\ ServerInv' /\ Committed \subseteq Committed'
      /\ \A n \in Committed : log'[n] = log[n]
      /\ \A n \in Committed' \ Committed : log'[n].version > 0
      /\ \A k : Place(k) => \A n \in Owed' : n <= k => n \in Owed
  BY CommitServer DEF OverlapInv
<1>2. UNCHANGED <<copy, cursor, pulls>>
  BY DEF Commit, phone
<1>3. Announced'
  BY <1>1 DEF OverlapInv, Announced
<1>. QED  BY <1>1, <1>2, <1>3, ServerStepOverlap

\* One run moves, and with it at most the copies, none of which vanishes, and
\* the cursor.
LEMMA PullOverlap ==
  ASSUME OverlapInv, NEW r \in Pulls,
         NEW x \in PullStates \cup {NoPull},
         pulls' = [pulls EXCEPT ![r] = x], UNCHANGED backend,
         copy' \in [Entities -> Nat], \A e \in Entities : copy[e] > 0 => copy'[e] > 0,
         NEW c \in 0..MaxSeq, cursor' = c, Place(c), Present(c),
         x # NoPull => Brings(x)'
  PROVE  OverlapInv'
<1>1. UNCHANGED <<seq, writer, log, versions, scope, late, hidden>>
  BY DEF backend
<1>2. Committed' = Committed /\ Owed' = Owed
  BY <1>1 DEF Committed, Owed
<1>3. ServerInv' /\ Announced'
  <2>1. FeedTypeOK'
    BY <1>1 DEF OverlapInv, ServerInv, FeedTypeOK
  <2>2. Numbered' /\ Visible' /\ Announced'
    BY <1>1, <1>2 DEF OverlapInv, ServerInv, Numbered, Visible, Announced, InScope
  <2>. QED  BY <2>1, <2>2 DEF ServerInv
<1>4. /\ \A k : Place(k) /\ Present(k) => Place(k)' /\ Present(k)'
      /\ \A y : y \in PullStates /\ Brings(y) => Brings(y)'
  BY <1>1, <1>2, StillPresent
<1>5. Place(cursor)' /\ Present(cursor)'
  <2>1. Place(c)' /\ Present(c)'
    BY <1>4
  <2>. QED  BY <2>1 DEF Place, Present
<1>6. ASSUME NEW t \in Pulls, pulls'[t] # NoPull PROVE Brings(pulls[t])'
  <2>1. CASE t = r
    <3>1. pulls'[t] = x
      BY <2>1 DEF OverlapInv, ServerInv, FeedTypeOK
    <3>. QED  BY <1>6, <3>1 DEF Brings
  <2>2. CASE t # r
    <3>1. PICK y : y = pulls[t]
      OBVIOUS
    <3>2. pulls'[t] = y /\ y # NoPull
      BY <1>6, <2>2, <3>1 DEF OverlapInv, ServerInv, FeedTypeOK
    <3>3. y \in PullStates /\ Brings(y)
      BY <3>1, <3>2, RunsArePulls DEF OverlapInv, ServerInv, AllBring
    <3>4. Brings(y)'
      BY <1>4, <3>3
    <3>. QED  BY <3>2, <3>4 DEF Brings
  <2>. QED  BY <2>1, <2>2
<1>7. AllBring'
  BY <1>6 DEF AllBring
<1>. QED  BY <1>3, <1>5, <1>7 DEF OverlapInv

LEMMA QuietOverlap ==
  ASSUME OverlapInv, NEW r \in Pulls,
         NEW x \in PullStates \cup {NoPull},
         pulls' = [pulls EXCEPT ![r] = x], UNCHANGED <<backend, phone>>,
         x # NoPull => Brings(x)
  PROVE  OverlapInv'
<1>1. /\ UNCHANGED <<log, late, hidden, copy, cursor>>
      /\ Committed' = Committed /\ Owed' = Owed
  BY DEF backend, phone, Committed, Owed
<1>2. x # NoPull => Brings(x)'
  BY <1>1, StillPresent
<1>3. PICK c \in 0..MaxSeq : c = cursor
  BY DEF OverlapInv, ServerInv, FeedTypeOK
<1>4. cursor' = c /\ Place(c) /\ Present(c) /\ copy' \in [Entities -> Nat]
  BY <1>1, <1>3 DEF OverlapInv, ServerInv, FeedTypeOK
<1>5. \A e \in Entities : copy[e] > 0 => copy'[e] > 0
  BY <1>1
<1>. QED  BY <1>2, <1>4, <1>5, PullOverlap

LEMMA StartPullOverlap ==
  ASSUME OverlapInv, NEW r \in Pulls, StartPull(r) \/ Fail(r)
  PROVE  OverlapInv'
<1>1. CASE StartPull(r)
  <2>. DEFINE x == [pc |-> "select", since |-> cursor, page |-> {}, next |-> cursor,
                    more |-> FALSE, snap |-> [e \in Entities |-> 0]]
  <2>1. x \in PullStates
    BY DEF PullStates, OverlapInv, ServerInv, FeedTypeOK
  <2>2. Brings(x)
    BY FeedNumbers DEF Brings, OverlapInv, ServerInv, FeedTypeOK
  <2>3. pulls' = [pulls EXCEPT ![r] = x] /\ UNCHANGED <<backend, phone>>
    BY <1>1 DEF StartPull
  <2>. HIDE DEF x
  <2>. QED  BY <2>1, <2>2, <2>3, QuietOverlap
<1>2. CASE Fail(r)
  BY <1>2, QuietOverlap DEF Fail
<1>. QED  BY <1>1, <1>2

LEMMA SelectEventsOverlap ==
  ASSUME OverlapInv, NEW r \in Pulls, SelectEvents(r)
  PROVE  OverlapInv'
<1>. DEFINE y == pulls[r]
            page == Page(y.since)
            next == NextCursor(y.since, page)
            pc == IF page = {} THEN "apply" ELSE "scope"
            more == Cardinality(page) >= Limit
            x == [y EXCEPT !.pc = pc, !.page = page, !.next = next, !.more = more]
<1>1. /\ pulls' = [pulls EXCEPT ![r] = x] /\ UNCHANGED <<backend, phone>>
      /\ y.pc = "select"
  BY DEF SelectEvents
<1>2. y \in PullStates /\ Brings(y)
  BY <1>1, PullShape DEF OverlapInv, ServerInv, AllBring
<1>3. y.since \in 0..MaxSeq
  BY <1>2 DEF PullStates
<1>4. /\ page \subseteq Committed /\ page \subseteq Seqs
      /\ next \in 0..MaxSeq /\ y.since <= next /\ (next = y.since \/ next \in page)
      /\ \A n \in Committed : y.since < n /\ n <= next => n \in page
      /\ page = {} => next = y.since
  BY <1>3, PageFacts DEF OverlapInv, ServerInv
<1>5. pc \in {"apply", "scope"} /\ (pc = "apply" => page = {}) /\ more \in BOOLEAN
  OBVIOUS
<1>. HIDE DEF page, next, pc, more
<1>6. /\ x \in PullStates /\ x.pc = pc /\ x.page = page /\ x.next = next
      /\ x.since = y.since
  BY <1>2, <1>4, <1>5 DEF PullStates
<1>. HIDE DEF x
<1>7. Owed \subseteq Committed /\ Owed \subseteq Nat
  BY OwedTyped DEF OverlapInv, ServerInv
<1>8. Brings(x)
  <2>1. Place(y.since) /\ Place(next) /\ Present(y.since)
    BY <1>2, <1>4 DEF Brings, Place
  <2>2. pc = "apply" => next = y.since
    BY <1>4, <1>5
  <2>3. \A n \in Owed : y.since < n /\ n <= next => n \in page /\ next # y.since
    BY <1>3, <1>4, <1>7
  <2>. QED  BY <1>4, <1>5, <1>6, <2>1, <2>2, <2>3 DEF Brings
<1>. QED  BY <1>1, <1>6, <1>8, QuietOverlap

LEMMA ReadScopeOverlap ==
  ASSUME OverlapInv, NEW r \in Pulls, ReadScope(r)
  PROVE  OverlapInv'
<1>. DEFINE y == pulls[r]
            seen == {n \in y.page : InScope(log[n].entity, scope)}
            x == [y EXCEPT !.pc = "fetch", !.page = seen]
<1>1. /\ pulls' = [pulls EXCEPT ![r] = x] /\ UNCHANGED <<backend, phone>>
      /\ y.pc = "scope"
  BY DEF ReadScope
<1>2. y \in PullStates /\ Brings(y)
  BY <1>1, PullShape DEF OverlapInv, ServerInv, AllBring
<1>3. seen \subseteq y.page /\ \A n \in Owed : n \in y.page => n \in seen
  BY DEF Owed, OverlapInv, ServerInv, Visible
<1>. HIDE DEF seen
<1>4. /\ x \in PullStates /\ x.pc = "fetch" /\ x.page = seen /\ x.next = y.next
      /\ x.since = y.since
  BY <1>2, <1>3 DEF PullStates
<1>. HIDE DEF x
<1>5. Brings(x)
  BY <1>1, <1>2, <1>3, <1>4 DEF Brings
<1>. QED  BY <1>1, <1>4, <1>5, QuietOverlap

\* The entity of an event on the page exists by then.
LEMMA FetchOverlap ==
  ASSUME OverlapInv, NEW r \in Pulls, FetchSnapshots(r)
  PROVE  OverlapInv'
<1>. DEFINE y == pulls[r]
            x == [y EXCEPT !.pc = "apply", !.snap = versions]
<1>1. /\ pulls' = [pulls EXCEPT ![r] = x] /\ UNCHANGED <<backend, phone>>
      /\ y.pc = "fetch"
  BY DEF FetchSnapshots
<1>2. y \in PullStates /\ Brings(y) /\ versions \in [Entities -> Nat]
  BY <1>1, PullShape DEF OverlapInv, ServerInv, AllBring, FeedTypeOK
<1>3. /\ x \in PullStates /\ x.pc = "apply" /\ x.page = y.page /\ x.next = y.next
      /\ x.since = y.since /\ x.snap = versions
  BY <1>2 DEF PullStates
<1>. HIDE DEF x
<1>4. \A n \in Committed : versions[log[n].entity] > 0
  <2>. SUFFICES ASSUME NEW n \in Committed PROVE versions[log[n].entity] > 0
    OBVIOUS
  <2>1. log[n].version > 0 /\ log[n].version <= versions[log[n].entity]
    BY DEF OverlapInv, ServerInv, Announced, Numbered
  <2>. QED  BY <1>2, <2>1, EventTyped DEF OverlapInv, ServerInv
<1>5. Brings(x)
  BY <1>1, <1>2, <1>3, <1>4 DEF Brings
<1>. QED  BY <1>1, <1>3, <1>5, QuietOverlap

LEMMA ApplyChangeOverlap ==
  ASSUME OverlapInv, NEW r \in Pulls, NEW n \in Seqs, ApplyChange(r, n)
  PROVE  OverlapInv'
<1>1. /\ pulls[r] \in PullStates /\ Brings(pulls[r])
      /\ pulls[r].pc = "apply" /\ n \in pulls[r].page
  BY PullShape DEF ApplyChange, OverlapInv, ServerInv, AllBring
<1>2. PICK y \in PullStates : y = pulls[r]
  BY <1>1
<1>3. PICK e : e = log[n].entity
  OBVIOUS
<1>4. PICK x : x = [y EXCEPT !.page = y.page \ {n}]
  OBVIOUS
<1>5. /\ y.pc = "apply" /\ n \in y.page /\ Brings(y)
      /\ copy' = [copy EXCEPT ![e] = y.snap[e]]
      /\ pulls' = [pulls EXCEPT ![r] = x] /\ UNCHANGED <<backend, cursor>>
  BY <1>1, <1>2, <1>3, <1>4 DEF ApplyChange
<1>6. y.snap \in [Entities -> Nat] /\ copy \in [Entities -> Nat] /\ y.page \subseteq Committed
  BY <1>5 DEF PullStates, Brings, OverlapInv, ServerInv, FeedTypeOK
<1>7. /\ x \in PullStates /\ x.pc = "apply" /\ x.page = y.page \ {n} /\ x.next = y.next
      /\ x.since = y.since /\ x.snap = y.snap
  BY <1>4, <1>5 DEF PullStates
<1>8. e \in Entities /\ y.snap[e] > 0
  BY <1>3, <1>5, <1>6, EventTyped DEF OverlapInv, ServerInv, Brings
<1>9. /\ copy' \in [Entities -> Nat] /\ copy'[e] > 0
      /\ \A f \in Entities \ {e} : copy'[f] = copy[f]
      /\ \A f \in Entities : copy[f] > 0 => copy'[f] > 0
  BY <1>5, <1>6, <1>8
<1>10. /\ UNCHANGED <<log, late, hidden>> /\ Committed' = Committed /\ Owed' = Owed
  BY <1>5 DEF backend, Committed, Owed
<1>11. Brings(y)' /\ log' = log
  BY <1>5, <1>9, <1>10, StillPresent
<1>12. Brings(x)'
  <2>1. \A m \in Owed' : x.since < m /\ m <= x.next =>
          m \in x.page \/ copy'[log'[m].entity] > 0
    BY <1>3, <1>5, <1>7, <1>9, <1>11 DEF Brings
  <2>. QED  BY <1>5, <1>7, <1>11, <2>1 DEF Brings
<1>13. PICK c \in 0..MaxSeq : c = cursor
  BY DEF OverlapInv, ServerInv, FeedTypeOK
<1>14. cursor' = c /\ Place(c) /\ Present(c)
  BY <1>5, <1>13 DEF OverlapInv
<1>15. UNCHANGED backend
  BY <1>5
<1>. QED  BY <1>5, <1>7, <1>9, <1>12, <1>14, <1>15, PullOverlap

\* The cursor is the next one of the run, wherever another run has put it.
LEMMA SaveCursorOverlap ==
  ASSUME OverlapInv, NEW r \in Pulls, SaveCursor(r)
  PROVE  OverlapInv'
<1>1. /\ pulls[r] \in PullStates /\ Brings(pulls[r])
      /\ pulls[r].pc = "apply" /\ pulls[r].page = {}
  BY PullShape DEF SaveCursor, OverlapInv, ServerInv, AllBring
<1>2. PICK y \in PullStates : y = pulls[r]
  BY <1>1
<1>3. PICK x : x = IF y.more
                   THEN [y EXCEPT !.pc = "select", !.since = y.next, !.more = FALSE,
                                  !.snap = [e \in Entities |-> 0]]
                   ELSE NoPull
  OBVIOUS
<1>4. PICK c : c = IF y.next > y.since THEN y.next ELSE cursor
  OBVIOUS
<1>5. /\ y.pc = "apply" /\ y.page = {} /\ Brings(y) /\ cursor' = c
      /\ pulls' = [pulls EXCEPT ![r] = x] /\ UNCHANGED <<backend, copy>>
  BY <1>1, <1>2, <1>3, <1>4 DEF SaveCursor
<1>6. y.since \in 0..MaxSeq /\ y.next \in 0..MaxSeq /\ y.since <= y.next /\ Place(y.next)
  BY <1>5 DEF PullStates, Brings
<1>7. /\ x \in PullStates \cup {NoPull}
      /\ x # NoPull => /\ x.pc = "select" /\ x.since = y.next /\ x.next = y.next
                       /\ x.page = {}
  BY <1>3, <1>5, <1>6 DEF PullStates
<1>8. Present(y.next)
  <2>. SUFFICES ASSUME NEW m \in Owed, m <= y.next PROVE copy[log[m].entity] > 0
    BY DEF Present
  <2>1. m \in Nat
    BY OwedTyped DEF OverlapInv, ServerInv
  <2>2. CASE m <= y.since
    BY <1>5, <2>2 DEF Brings, Present
  <2>3. CASE y.since < m
    BY <1>5, <2>3 DEF Brings
  <2>. QED  BY <1>6, <2>1, <2>2, <2>3
<1>9. c \in 0..MaxSeq /\ Place(c) /\ Present(c)
  BY <1>4, <1>6, <1>8 DEF OverlapInv, ServerInv, FeedTypeOK
<1>10. x # NoPull => Brings(x)
  BY <1>6, <1>7, <1>8, FeedNumbers DEF Brings
<1>11. /\ UNCHANGED backend /\ copy' = copy
       /\ Committed' = Committed /\ Owed' = Owed /\ log' = log
  BY <1>5 DEF backend, Committed, Owed
<1>12. x # NoPull => Brings(x)'
  BY <1>7, <1>10, <1>11, StillPresent
<1>13. copy' \in [Entities -> Nat] /\ \A e \in Entities : copy[e] > 0 => copy'[e] > 0
  BY <1>11 DEF OverlapInv, ServerInv, FeedTypeOK
<1>. QED  BY <1>5, <1>7, <1>9, <1>11, <1>12, <1>13, PullOverlap

LEMMA OverlapNextInv == OverlapInv /\ [FeedNext]_feedVars => OverlapInv'
<1>. SUFFICES ASSUME OverlapInv, [FeedNext]_feedVars PROVE OverlapInv'
  OBVIOUS
<1>1. ASSUME NEW w \in Writers, NEW e \in Entities,
             Flush(w, e) \/ Assign(w, e) \/ Reassign(w, e)
      PROVE  OverlapInv'
  <2>1. Assign(w, e) => e \in Stores
    BY FeedAssumption DEF Assign, Stores
  <2>2. /\ ServerInv' /\ Committed' = Committed
        /\ UNCHANGED <<log, versions, late, hidden, copy, cursor, pulls>>
    BY <1>1, <2>1, FlushServer DEF Flush, Assign, Reassign, FlushEvent, phone, OverlapInv
  <2>. QED  BY <2>2, WriterOverlap
<1>2. ASSUME NEW w \in Writers, RollBack(w) PROVE OverlapInv'
  <2>1. ServerInv' /\ Committed' = Committed
    BY <1>2, RollBackServer DEF OverlapInv
  <2>. QED  BY <1>2, <2>1, WriterOverlap DEF RollBack, phone
<1>3. ASSUME NEW r \in Pulls, PullStep(r) \/ Fail(r) PROVE OverlapInv'
  BY <1>3, StartPullOverlap, SelectEventsOverlap, ReadScopeOverlap, FetchOverlap,
     ApplyChangeOverlap, SaveCursorOverlap DEF PullStep
<1>4. CASE UNCHANGED feedVars
  <2>1. ServerInv' /\ Committed' = Committed
    BY <1>4 DEF feedVars, backend, OverlapInv, ServerInv, FeedTypeOK, Numbered, Visible,
       Committed, InScope, phone
  <2>. QED  BY <1>4, <2>1, WriterOverlap DEF feedVars, backend, phone
<1>. QED  BY <1>1, <1>2, <1>3, <1>4, CommitOverlap DEF FeedNext

\* What holds of a device that pulls with any number of runs.
THEOREM OverlapInvariance == FeedSpec => []OverlapInv
  BY OverlapInitInv, OverlapNextInv, PTL DEF FeedSpec

\* The feed keeps its shape.
THEOREM FeedTypeCorrect == FeedSpec => []FeedTypeOK
  BY OverlapInvariance, PTL DEF OverlapInv, ServerInv

\* Runs side by side leave nothing out.
THEOREM NothingAbsent == FeedSpec => []NothingBelowCursorIsAbsent
<1>1. OverlapInv => NothingBelowCursorIsAbsent
  BY DEF OverlapInv, Present, Owed, NothingBelowCursorIsAbsent
<1>. QED  BY <1>1, OverlapInvariance, PTL
===============================================================================
