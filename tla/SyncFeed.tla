------------------------------- MODULE SyncFeed -------------------------------
(***************************************************************************)
(* The change feed: transactions of the backend write outbox events, whose *)
(* seq is drawn from a database sequence when the row is flushed           *)
(* (models/outbox.py), and mobile clients pull the events above their      *)
(* cursor, page by page (pull in modules/sync/service.py and in            *)
(* mobile/lib/data/sync/sync_service.dart).  An event names an entity; the *)
(* page carries the entity as it is when the page is built.  The user is   *)
(* an agent, who sees products and what belongs to the agent's stores;     *)
(* stores are assigned and taken away while the device pulls.              *)
(***************************************************************************)
EXTENDS Naturals, FiniteSets, FiniteSetsExt

CONSTANTS
    Entities,      \* orders, stores and products
    StoreOf,       \* the store of an order, a store itself; None: a product
    Writers,       \* sessions that write
    Pulls,         \* sync runs of one device that may be under way at once
    Limit,         \* events per page
    MaxSeq,        \* bound on the events ever written
    None           \* no event, no open transaction, no store

ASSUME FeedAssumption ==
    /\ DOMAIN StoreOf = Entities /\ None \notin Entities
    /\ Limit \in Nat \ {0}
    /\ MaxSeq \in Nat

Seqs == 1..MaxSeq

Stores == {StoreOf[e] : e \in Entities} \ {None}

Events == [entity : Entities, version : Nat]

ASSUME NoneAssumption == None \notin Events

VARIABLES
    seq,           \* the last value drawn from outbox_event_seq
    writer,        \* the event a session has flushed and not committed
    log,           \* committed events
    versions,      \* committed version of each entity; 0: not created
    scope,         \* the stores of the user: store.agent_id and agent_store
    late,          \* events committed after one with a higher seq
    hidden,        \* events that were out of the scope at some time
    copy,          \* the device's version of each entity; 0: none
    cursor,        \* sync_cursors.last_seq
    pulls          \* the pulls of the device

backend  == <<seq, writer, log, versions, scope, late, hidden>>
phone    == <<copy, cursor>>
feedVars == <<backend, phone, pulls>>

Committed == {n \in Seqs : log[n] # None}

NoPull == [pc |-> "ready"]

\* page: the events scanned; snap: the versions the page carries.
PullStates ==
    [pc : {"select", "scope", "fetch", "apply"}, since : 0..MaxSeq, page : SUBSET Seqs,
     next : 0..MaxSeq, more : BOOLEAN, snap : [Entities -> Nat]]

FeedInit ==
    /\ seq = 0
    /\ writer = [w \in Writers |-> None]
    /\ log = [n \in Seqs |-> None]
    /\ versions = [e \in Entities |-> 0]
    /\ scope = {}
    /\ late = {}
    /\ hidden = {}
    /\ copy = [e \in Entities |-> 0]
    /\ cursor = 0
    /\ pulls = [r \in Pulls |-> NoPull]

-----------------------------------------------------------------------------
(* Writers *)

\* The entity's row and the event are flushed: the row is locked and the
\* event has its number, but nobody else sees either.
FlushEvent(w, e, what) ==
    /\ writer[w] = None
    /\ \A x \in Writers : writer[x] # None => writer[x].entity # e
    /\ seq < MaxSeq
    /\ seq' = seq + 1
    /\ writer' = [writer EXCEPT ![w] = [entity |-> e, n |-> seq + 1, does |-> what]]
    /\ UNCHANGED <<log, versions, scope, late, hidden, phone, pulls>>

Flush(w, e) == FlushEvent(w, e, "write")

\* assign_agent, or an edit of the store that names the user: the event is the
\* store's, none is written for its orders.  Of a store the user has, this is
\* no more than a write.
Assign(w, e) ==
    e = StoreOf[e] /\ e \notin scope /\ FlushEvent(w, e, "assign")

\* An edit that names another agent, of a store the user has no link to.
Reassign(w, e) ==
    e = StoreOf[e] /\ e \in scope /\ FlushEvent(w, e, "reassign")

InScope(e, stores) == StoreOf[e] \in stores \cup {None}

Commit(w) ==
    /\ writer[w] # None
    /\ LET e == writer[w].entity
           n == writer[w].n
       IN  /\ versions' = [versions EXCEPT ![e] = @ + 1]
           /\ log' = [log EXCEPT ![n] = [entity |-> e, version |-> versions[e] + 1]]
           /\ late' = IF \E m \in Committed : m > n THEN late \cup {n} ELSE late
           /\ scope' = CASE writer[w].does = "write"    -> scope
                         [] writer[w].does = "assign"   -> scope \cup {e}
                         [] writer[w].does = "reassign" -> scope \ {e}
    /\ hidden' = hidden \cup
        {m \in Committed' : ~InScope(log'[m].entity, scope')}
    /\ writer' = [writer EXCEPT ![w] = None]
    /\ UNCHANGED <<seq, phone, pulls>>

\* A number that was drawn is not given back.
RollBack(w) ==
    /\ writer[w] # None
    /\ writer' = [writer EXCEPT ![w] = None]
    /\ UNCHANGED <<seq, log, versions, scope, late, hidden, phone, pulls>>

-----------------------------------------------------------------------------
(* The pull: the server's part *)

\* The first events above since, in the order of seq.
Page(since) ==
    LET above == {n \in Committed : n > since}
    IN  {n \in above : Cardinality({m \in above : m < n}) < Limit}

\* Mutated: the cursor moves to the last event the user can see.
NextCursorVisible(since, page) ==
    Max({since} \cup {n \in page : InScope(log[n].entity, scope)})

\* The last event scanned, visible or not.
NextCursor(since, page) == Max({since} \cup page)

\* One SELECT over outbox_event; without events the answer is empty.
SelectEvents(r) ==
    /\ pulls[r].pc = "select"
    /\ LET page == Page(pulls[r].since) IN
       pulls' = [pulls EXCEPT ![r] =
                [@ EXCEPT !.pc = IF page = {} THEN "apply" ELSE "scope", !.page = page,
                          !.next = NextCursor(pulls[r].since, page),
                          !.more = Cardinality(page) >= Limit]]
    /\ UNCHANGED <<backend, phone>>

\* The user's stores are read by a later statement; the events of other
\* stores are left out.
ReadScope(r) ==
    /\ pulls[r].pc = "scope"
    /\ pulls' = [pulls EXCEPT ![r] =
                [@ EXCEPT !.pc = "fetch",
                          !.page = {n \in pulls[r].page : InScope(log[n].entity, scope)}]]
    /\ UNCHANGED <<backend, phone>>

\* Mutated: the device saves the cursor before it applies the page.
FetchAndSave(r) ==
    /\ pulls[r].pc = "fetch"
    /\ pulls' = [pulls EXCEPT ![r] = [@ EXCEPT !.pc = "apply", !.snap = versions]]
    /\ cursor' = pulls[r].next
    /\ UNCHANGED <<backend, copy>>

\* Later statements fetch the entities of the visible events, as they are by
\* then.
FetchSnapshots(r) ==
    /\ pulls[r].pc = "fetch"
    /\ pulls' = [pulls EXCEPT ![r] = [@ EXCEPT !.pc = "apply", !.snap = versions]]
    /\ UNCHANGED <<backend, phone>>

-----------------------------------------------------------------------------
(* The pull: the device's part *)

StartPull(r) ==
    /\ pulls[r] = NoPull
    /\ pulls' = [pulls EXCEPT ![r] =
                [pc |-> "select", since |-> cursor, page |-> {}, next |-> cursor,
                 more |-> FALSE, snap |-> [e \in Entities |-> 0]]]
    /\ UNCHANGED <<backend, phone>>

\* Mutated: the device takes the version from the event, not the snapshot.
ApplyPayload(r, n) ==
    /\ pulls[r].pc = "apply"
    /\ n \in pulls[r].page
    /\ copy' = [copy EXCEPT ![log[n].entity] = log[n].version]
    /\ pulls' = [pulls EXCEPT ![r] = [@ EXCEPT !.page = pulls[r].page \ {n}]]
    /\ UNCHANGED <<backend, cursor>>

\* One change of the page; changes are grouped by type, so in any order.  The
\* row is overwritten, whatever version it has.
ApplyChange(r, n) ==
    /\ pulls[r].pc = "apply"
    /\ n \in pulls[r].page
    /\ copy' = [copy EXCEPT ![log[n].entity] = pulls[r].snap[log[n].entity]]
    /\ pulls' = [pulls EXCEPT ![r] = [@ EXCEPT !.page = pulls[r].page \ {n}]]
    /\ UNCHANGED <<backend, cursor>>

\* The whole page is applied: the cursor moves, and the next page is asked
\* for while there is more.
SaveCursor(r) ==
    /\ pulls[r].pc = "apply"
    /\ pulls[r].page = {}
    /\ cursor' = IF pulls[r].next > pulls[r].since THEN pulls[r].next ELSE cursor
    /\ pulls' = [pulls EXCEPT ![r] =
                IF pulls[r].more
                THEN [@ EXCEPT !.pc = "select", !.since = pulls[r].next, !.more = FALSE,
                               !.snap = [e \in Entities |-> 0]]
                ELSE NoPull]
    /\ UNCHANGED <<backend, copy>>

\* The network fails, or the app is killed; what is in the local database
\* stays.
Fail(r) ==
    /\ pulls[r] # NoPull
    /\ pulls' = [pulls EXCEPT ![r] = NoPull]
    /\ UNCHANGED <<backend, phone>>

-----------------------------------------------------------------------------

PullStep(r) ==
    \/ StartPull(r) \/ SelectEvents(r) \/ ReadScope(r) \/ FetchSnapshots(r)
    \/ \E n \in Seqs : ApplyChange(r, n)
    \/ SaveCursor(r)

FeedNext ==
    \/ \E w \in Writers :
        \/ \E e \in Entities : Flush(w, e) \/ Assign(w, e) \/ Reassign(w, e)
        \/ Commit(w) \/ RollBack(w)
    \/ \E r \in Pulls : PullStep(r) \/ Fail(r)

FeedSpec == FeedInit /\ [][FeedNext]_feedVars

Applying(r) == pulls[r].pc = "apply" /\ pulls[r].page # {}

\* The timer pulls again and again, and the network holds now and then for as
\* long as one page takes; the app is not killed in the middle of a page for
\* ever.  A transaction ends.
FeedFairness ==
    /\ \A r \in Pulls :
        /\ WF_feedVars(StartPull(r)) /\ SF_feedVars(SelectEvents(r))
        /\ SF_feedVars(ReadScope(r)) /\ SF_feedVars(FetchSnapshots(r))
        /\ WF_feedVars(\E n \in Seqs : ApplyChange(r, n)) /\ SF_feedVars(SaveCursor(r))
        /\ <>[][Fail(r) => ~Applying(r)]_feedVars
    /\ \A w \in Writers : WF_feedVars(Commit(w) \/ RollBack(w))

FairFeedSpec == FeedSpec /\ FeedFairness

-----------------------------------------------------------------------------
(* Properties *)

\* The state is well formed.
FeedTypeOK ==
    /\ seq \in 0..MaxSeq
    /\ writer \in [Writers -> {None} \cup
        [entity : Entities, n : Seqs, does : {"write", "assign", "reassign"}]]
    /\ log \in [Seqs -> Events \cup {None}]
    /\ versions \in [Entities -> Nat]
    /\ scope \subseteq Stores
    /\ late \subseteq Seqs /\ hidden \subseteq Seqs
    /\ copy \in [Entities -> Nat]
    /\ cursor \in 0..MaxSeq
    /\ pulls \in [Pulls -> PullStates \cup {NoPull}]

\* The device has what event n announced, or something newer.
Known(n) == copy[log[n].entity] >= log[n].version

Due(n) == n \in Committed /\ n <= cursor /\ InScope(log[n].entity, scope)

\* The cursor is "the last seq seen" (docs/SYNC.md): what lies at or below it
\* has reached the device.
NothingBelowCursorIsMissed == \A n \in Seqs : Due(n) => Known(n)

\* With one run at a time, an event can lie unknown below the cursor only
\* because it was committed after a higher one, or because its store was not
\* the user's for a while: pages, failures and kills between applying and
\* saving lose nothing, and neither does a scope that changes between the
\* statements of a pull.
MissedOnlyWhenLate == \A n \in Seqs \ (late \cup hidden) : Due(n) => Known(n)

\* With one run at a time, the device's copy of an entity never goes back to
\* an older version, although pages are applied without comparing versions
\* and may be applied again.
CopyNeverGoesBack == [][\A e \in Entities : copy'[e] >= copy[e]]_feedVars

\* However many runs overlap, the device has the entity of an event below its
\* cursor in some version, unless the event was late or hidden for a while: an
\* overlap can leave a copy stale, but nothing out.
NothingBelowCursorIsAbsent ==
    \A n \in Seqs \ (late \cup hidden) :
        n \in Committed /\ n <= cursor => copy[log[n].entity] > 0

\* When writing ceases the device catches up with every entity in scope whose
\* last event was neither committed late nor ever hidden: no page of events
\* the user may not see holds the pull up.
EventuallyFresh ==
    <>[](\A e \in Entities : InScope(e, scope) =>
            \/ copy[e] = versions[e]
            \/ \E n \in late \cup hidden :
                log[n] = [entity |-> e, version |-> versions[e]])
===============================================================================
