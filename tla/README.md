# RETAIL: a TLA+ verification project

RETAIL is a distribution system for small shops: a FastAPI backend (`src/backend`, a
modular monolith over PostgreSQL and Redis, two worker processes per server), an
offline-first Flutter app for agents, couriers and shop owners (`src/mobile`), and a
React client (`src/web`). This directory holds TLA+ models of the parts of it where
concurrency, lost messages and crashes decide whether goods and money are counted
right, the TLC runs that check them, and TLAPS proofs about the core.

Contents: [Inventory](#inventory) · [Modules](#modules) · [Runs](#runs) ·
[Proofs](#proofs) · [What the models leave out](#what-the-models-leave-out) ·
[Findings](#findings) · [Plan](#plan)

## Inventory

How the parts talk to each other:

```
 Flutter app                      backend (2 workers)                  stores
 ------------------------------   ----------------------------------   -----------
 repositories --> local tables    routers --> services ---------------> PostgreSQL
      \--> outbox_queue           services --> outbox_event (same tx)   (row locks)
 SyncNotifier -> SyncService
      push ---- POST /sync/push -> sync.push -> orders, delivery, ...
      pull ---- GET  /sync/pull -> sync.pull <- outbox_event
                                  services <-> idempotency keys ------> Redis
 React client --- REST ---------> routers
                                  arq worker -> push_log -> FCM
```

| Component | State | Operations | Hard behaviour | What makes it correct |
|---|---|---|---|---|
| Orders (`modules/orders`) | `order`, `order_line` | `create_order`, `update_status`, templates | several row locks in one transaction; the version check on an unlocked read; retries by `client_uuid` | all or nothing; one order per `client_uuid`; a cancellation returns what was taken, once |
| Stock (`modules/stock`) | `stock_balance`, append-only `stock_movement` | `record_movement`, `_record_movement_tx` | read, check, write under `FOR UPDATE` beside other requests | balance = sum of the log; never negative |
| Finance (`modules/finance`) | `account_balance`, append-only `ledger_entry` | `record_entry`, `_record_entry_tx`, `approve_entry` | the same, after the stock rows | balance = sum of the entries |
| Deliveries (`modules/delivery`) | `delivery`, `store_inventory` rows it creates | `create_delivery`, `update_status`, `set_proof_photo` | check-then-insert backed by partial unique indexes; update under a row lock | one active delivery per order; the store's inventory filled once |
| Idempotency (`core/redis.py`, used by each service) | keys with a TTL of 24 h | GET before, SET NX after the flush and before the commit | a key may outlive a rollback, expire, or be unreachable | an answered retry names a committed row |
| Events (`models/outbox.py`) | `outbox_event`, `outbox_event_seq` | written in each mutating transaction | numbered at flush, visible at commit | every change has an event |
| Sync push (`modules/sync`) | none of its own | `push`: one transaction, a savepoint per operation | repeated and late batches; partial failure | an operation has its effect once, in order |
| Sync pull (`modules/sync`) | none of its own | `pull`: events above a cursor, filtered by scope, with snapshots | pages of invisible events; commits between its statements | the client catches up with all it may see |
| Mobile outbox (`data/sync`, `outbox_dao.dart`) | `outbox_queue`, the sync state | enqueue, `push`, `triggerSync` | lost answers, kills, overlapping runs, attempts | nothing is dropped or taken for done |
| Mobile copy (`sync_service.dart`) | local tables, `sync_cursors` | `pull`, `_applyChanges` | failure between applying and saving the cursor | copies move forward and catch up |
| POS (`modules/pos`) | `pos_sale`, `store_inventory` | `create_sale`, expiry scan | the oldest batch is found in a snapshot and then waited for; duplicates found at the INSERT; a scan beside checkouts | what left a batch is what was sold from it; a repeated sale is one sale |
| Catalogue (`modules/catalog`) | `product`, `product_price`, `price_history` | create, update, delete, photo, `set_price` | versions beside unversioned writes; closing one price and opening the next | edits are serial; the price history is a chain |
| Other master records (`customers`, `contracts`, `promo`, `users`, `branches`, `tickets`, `superadmin`; categories, price segments, templates of orders, approvals of entries, banners) | one row per record, most with a version | create (by `client_uuid`), update, delete, side columns | Redis keys of rolled-back creations; versions compared with unlocked reads | an answer names the row the request made; no column is undone by an edit that does not name it |
| Marketplace (`modules/marketplace`) | `marketplace_order`, `store_inventory` | create, confirm, reject, ship, deliver, accept | supplier steps unlocked, acceptance locked; two buyers with one `client_uuid` | an answer is the buyer's own; no goods in an inventory without a delivery |
| Session of the app (`auth_interceptor.dart`, `modules/auth`) | tokens on the phone, denylist in Redis | send, refresh, park, retry, login, logout | many 401s at once; lost answer of a refresh; kills | a refresh token is presented once; the refreshing flag is cleared |
| Push notifications (`modules/push`) | `push_log`, device tokens | a worker with two passes | messages leave before the commit; runs overlap | an event is recorded for all its users together; a sent row stays sent; progress |
| Attendance, GPS (`modules/attendance`, `modules/gps`, `features/attendance`) | `attendance`, `gps_point`; the record of the day in the phone's memory | `check_in`, `check_out`, `ingest` | the key of a check-out is set before the commit; the server's date at midnight; twins of a request | an answer has its row; one session per check-in; positions only at work |
| Imports, leads, assistant, statistics, analytics, RBAC (but for the scope of a pull), web, deployment | own rows or none | CRUD, arithmetic, reads | little beyond a unique key | see `PROJECT.json`, "components" |

Everything that is hard to test is listed, each at its line, under "hazards" in
`PROJECT.json`, with the properties that watch over it or the reason why none does yet.

## Modules

| Module | Models | Kind |
|---|---|---|
| `OrderLedger` | orders, stock, accounts, idempotency keys, as transactions of concurrent sessions | detailed specification |
| `AtomicOrders` | what orders promise: goods and money move in one step | abstract specification, implemented by `OrderLedger` |
| `OrderLedgerProofs` | theorems about `OrderLedger` | proofs |
| `Deliveries` | creation and progress of deliveries, the store's inventory | specification |
| `MobileOutbox` | the app's queue composed with `POST /sync/push` | specification |
| `SyncFeed` | writers of events composed with `GET /sync/pull` and the device's copy | specification |
| `Marketplace` | orders between a supplier and a buyer, up to the buyer's inventory | detailed specification |
| `Handover` | what the marketplace promises: an order is placed once, and goods are stocked once per report of a delivery | abstract specification, implemented by `Marketplace` |
| `MarketplaceProofs` | theorems about `Marketplace` | proofs |
| `StoreSales` | the shelves of a store: checkouts and the expiry scan | specification |
| `Records` | the master records: creation, versioned and unversioned writes, prices | specification |
| `PhoneSession` | the app's interceptor composed with the server's token rotation | specification |
| `PushWorker` | overlapping runs of the push worker over events, users and devices | specification |
| `WorkDay` | the phone's check-in, positions and check-out composed with the server's sessions | specification |
| `DeliveriesProofs`, `StoreSalesProofs`, `RecordsProofs`, `PhoneSessionProofs`, `MobileOutboxProofs`, `WorkDayProofs` | theorems about the modules they are named for; `DeliveriesProofs` also about `PushWorker`, `MobileOutboxProofs` about `SyncFeed` | proofs |
| `MC*` | values of the constants, symmetry | for TLC |

### How a request becomes actions

The backend runs each request in one PostgreSQL transaction, at READ COMMITTED, without
autoflush; `get_db` commits when the handler returns and rolls back when it raises. In
`OrderLedger` and `Deliveries`, `tx[s]` is the transaction of session `s`: the program
counter, what the handler has read, the locks it holds. An action is the code between
two points where another session can be told apart: a lock, a unique index that may make
an INSERT wait, a call to Redis, the commit. Writes appear in the committed state only
in the commit action; until then they are in `tx`.

`OrderLedger`, for `create_order`:

| Action | Code in `orders/service.py` |
|---|---|
| `ReplyFromCache` | the key is in Redis and its order in the database (524-549) |
| `BeginCreate` | past the lookup and the validations, the row built (543-651) |
| `InsertOrder` | flush within the savepoint; waits while another session has inserted the same pair (652-717) |
| `ResolveDuplicate` | `IntegrityError`: the existing order or `idempotency_conflict` (673-700) |
| `LockStock`, `InsufficientStock` | `_record_movement_tx`, once per line (148-236) |
| `LockAccount`, `SkipAccount` | `_record_entry_tx`, or a total of 0 (242-329) |
| `PublishKey` | SET NX (765-773) |
| `CommitCreate` | all writes, the event, the reply |

`BeginUpdate` is `update_status` up to the compensation, reading the row without a lock;
a cancellation then goes through the same stock and account actions, and `CommitUpdate`
writes the row by its id, as the ORM's UPDATE does. `RecordMovement` and `RecordEntry`
are the other users of the balances; each locks one row, so it is one step. `Abort` is
any exception, lost connection or killed worker; `DeadlockVictim` is PostgreSQL's
detector; `ExpireKey` is Redis.

Movements and entries are append-only, so the log is kept as totals per order (`taken`,
`returned`, `debited`, `credited`) and as the net of everything else (`moved`, `posted`).

`Deliveries` follows the same scheme: `PassCheck`/`RefuseAssigned` are the search for an
active delivery, `InsertDelivery`/`InsertConflict` the INSERT under the two unique
indexes of migration 0012, `LockDelivery` the `SELECT ... FOR UPDATE` with its checks,
`CommitUpdate` the rest of `update_status` with `_create_inventory_from_delivery`.

`MobileOutbox` has a device and a server. `runs[r]` is a sync run between two awaits;
`Serve` is the server's transaction, one step, since the delivery's row lock is held to
its end. `LoseAnswer` covers a request that never arrived, one that was served, and one
that will be served later (`adrift`). `Result` is how a batch is judged: operations in
order, each in its savepoint, some failing for a passing reason (`bad`). `FailDelivery` and
`AdvanceDelivery` are `update_status` called by somebody else: an administrator, or the
courier on a dashboard. `others` remembers whose transitions those were.

`SyncFeed`: `Flush` draws the number and locks the entity's row, `Commit` shows both.
`Assign` and `Reassign` change whose store it is, with the store's event. `SelectEvents`,
`ReadScope` and `FetchSnapshots` are the statements of `pull`; `ApplyChange` writes one
local row, `SaveCursor` ends a page. `hidden` remembers the events that were out of the
user's scope at some time.

`Marketplace` follows the scheme of `OrderLedger`. `ReadForStep` is the unlocked read of
a supplier's step, `Confirm`, `Reject`, `Ship`, `Deliver` choose the step, `CommitStep`
is the UPDATE by id with its commit; `LockForAccept` reads the row again under its lock
and `CommitAccept` fills the inventory. `told` counts the outbox events of an order and
`fills` how often its lines were put into the inventory.

`StoreSales`: `SelectBatches` takes the snapshot of `SELECT ... ORDER BY created_at LIMIT
1 FOR UPDATE` for the next product of the cart; `TakeBatch` is granted the lock of the
oldest batch left in it, `SkipSoldOut` is PostgreSQL going on to the next one, and
`TakeCatalogue` the branch without a batch. `InsertSale` or `AnswerDuplicate` follow,
and `CommitSale` writes quantities from what was read under the locks. A scan is
`BeginScan` (the UPDATE of expired batches), `ScanBatch` per batch, `CommitScan`; `told`
remembers what had been announced when it began.

`Records` is about one table at a time (`kind`), because no request writes two of them.
`Create*` begin a creation, `InsertRow`/`AnswerExisting` meet the unique indexes,
`CommitCreate` ends it. `Update*`, `Delete*` and the writers of side columns read the row
and remember it; `WriteRow` is their UPDATE, with the version in its WHERE
(`VersionHolds`) where the service has it there, writing the columns that changed
(`Written`) or that the edit names. `edits` is the history of what each guarded edit saw
and wrote. A table has one `side`, which stands for the columns written without a version
(`Sides` names them), and one `link`: the photo of a product and the agent of a store,
which have a writer of their own, without a version, and may be named by an edit too
(`named`). `FindPrice`, `LockPrice`, `SetPrice` are the statements of `set_price`.

`PhoneSession`: `req[r]` is a request of the app, `call[r]` the interceptor's `onError`
of it between two awaits: `ReadRefreshToken`, `Present` (POST), `SaveTokens`,
`RetryPending` (one parked request each time), `RetryOwn`, or `GiveUp`. `Rotate` is the
server's `refresh_tokens`; its answer may be lost (`RotateInVain`). Logout is three steps.

`PushWorker`: `BeginRun` selects both pages, `PushOne` handles the next item (`IsFirst`:
news by event and target, then retries by attempts; ties are open) by `Skip`,
`Send` or `LoseRace`, `CommitRun` publishes the rows and erases dead tokens; `LoseRun`
loses the rows, but not the messages.

`WorkDay`: `CheckIn`, `Ping` and `CheckOut` put operations into the phone's outbox, `Send`
pushes those without an answer. A request applies them in order, as one transaction:
`ReadCheckIn` draws the working day, `RefuseCheckIn` and `InsertCheckIn` are the two ends
of the INSERT, which waits for the index entries of others; `ReplyFromKey` and
`ReadCheckOut` are the lookup of a check-out, `CloseSession` its UPDATE by id and its key;
`ReadActive` and `StorePoint` are `ingest`. `FailOp` is a statement that fails inside its
savepoint, `Commit` publishes the rows and answers (or the answer is lost), `Abort` rolls
back. `Midnight` is the server's date; `refused` remembers for which day a check-in was
refused.

## Runs

| Run | Question | Bounds | Distinct states |
|---|---|---|---|
| `orders` | Do balances agree with their logs, does a cancellation return what was taken, does `OrderLedger` implement `AtomicOrders`? | 2 sessions, 2 orders, 2 products (one scarce), 1 store, 1 other movement and entry | 460 thousand |
| `orders_end` | Is a `client_uuid` used once, does every accepted reply name its order, does every request end, although orders may list products in opposite order, and is no debit lost when orders meet only at the account? | 2 sessions, 2 orders of one product or gifts of both, 1 `client_uuid`, an agent and a clerk, Redis up, down, expiring, fairness | 160 thousand |
| `deliveries` | One active delivery per order, inventory exactly once, an event per version? | 2 sessions, 3 deliveries, 2 orders, 1 `client_uuid`, 2 users | 120 thousand |
| `outbox` | Is nothing dropped, and is each transition of a delivery made once and in order, with two runs side by side, late requests and an administrator at the same delivery? | 2 updates, 2 runs, 1 late request, 1 attempt | 400 thousand |
| `outbox_end` | Does every operation settle? | 1 order, 1 update, 1 run, 2 attempts, fairness | 12 thousand |
| `feed` | Which events can be missed, do copies go back, does the device catch up? | 2 writers, a store that comes and goes, its order, an order of another store, pages of 2, 4 events, fairness | 330 thousand |
| `marketplace` | Does an answer name the buyer's own order, is the inventory filled only for reported deliveries, does `Marketplace` implement `Handover`? | 2 sessions, 2 orders, 2 buyers with 1 `client_uuid`, each step once, the acceptance twice | 950 thousand |
| `sales` | Do shelves agree with sales, is a repeated checkout one sale, do only overlapping scans announce a batch twice? | 2 sessions, 2 sales, 2 cashiers, 1 `client_uuid`, 2 batches of 1 and 2, 4 days | 1.1 million |
| `records` | Are guarded edits serial, do answers name the row made, is the price history a chain, does an edit keep the columns it is not about? | each of 14 tables, 2 sessions, 2 rows, 1 key (users: 2), 1 `client_uuid`, 2 versions; 3 prices | 1.4 million |
| `session` | Is a refresh token presented once, does every refresh end? | 3 requests, 2 token pairs, 1 kill, fairness | 650 thousand |
| `push` | Are an event's users recorded together, is a sent row final, is nobody's turn held for ever as long as runs keep coming? | 2 runs, 2 events, 2 users, pages of 1, 2 attempts, fairness | 225 thousand |
| `workday` | Has an applied check-in or check-out its row, is a check-in one session, is it refused only for a session of the day it was refused for or its own, is a position stored only after a check-in? | 2 requests, 3 operations, 2 days, 2 row ids, 1 failed operation at a time | 2.8 million |

Twelve further configurations are kept for what the source does and should perhaps not do;
TLC stops in each at a counterexample of a few steps. They are described under
[Findings](#findings): `orders_race.cfg`, `delivery_retry.cfg`, `outbox_conflict.cfg`,
`outbox_kill.cfg`, `feed_gap.cfg`, `marketplace_late.cfg`, `tickets.cfg`,
`workday_ack.cfg`, `workday_night.cfg`, `sales_notice.cfg`, `records_link.cfg`,
`push_schedule.cfg` (each with the `MC` module of its component). `feed_overlap.cfg`
passes: it was used to try `NothingBelowCursorIsAbsent` with two runs side by side before
it was proved.

`TypeOK` is an invariant of the runs `orders`, `deliveries` and `records`. It is proved
of the modules with proofs; the configurations of the other runs may be run with it
added.

Every passing property has a mutant in `PROJECT.json`: an operator next to the one it
mutates ("Mutated: ..."), with which TLC finds the property violated.

**Why these bounds.** Two sessions are enough for every race the code can have on one
balance, index or key: each involves a holder and a waiter, or a reader and a writer. A
third order or delivery lets one id be spent by a rollback while two others are used
(`deliveries`). Two products are the least with which two orders can lock rows in opposite
order, and a stock of 1 and 2 lets the first line succeed and the second fail; in
`orders_end` two orders of different products contend for the account alone, which the
stock locks would otherwise hide. In `SyncFeed` two writers give one late event; a page of
two out of four events gives a full page, a short one, and pages without a visible event.
`moved` and `posted` stay within `0..MaxMoved` and `0..MaxPosted`, `IdLeft` starts a
creation only while an id is left for it, `MaxAdrift` bounds the late requests, `MaxSeq`
the events; the app's limit of 5 attempts is 1 or 2 here. `MaxTold` is the number of times
an order of the marketplace may report a status: an acceptance twice, since an unlocked
step can set an order back behind it. The first batch of `sales` holds one bottle and the
second two, so that a cart can empty the oldest batch under another checkout's wait; four
days let both margins of the expiry dates pass. `MaxVersion` 2 in `records` is enough for
two edits that saw the same version, and one key enough for two rows to collide; users have
two, so that a row may also move to a free one. In `session` a second pair of tokens can
come from a refresh or a login, and three requests give one that refreshes, one that is
parked and one that comes late. In `workday` three operations are the least for a check-in,
a position and a check-out, two days for a session that midnight leaves open; a failed
operation is kept by the phone and sent again behind later ones. Deadlock is checked in
`orders`, `outbox`, `outbox_end`, `feed` and `push`; elsewhere the ids run out and the
system may rightly stop.

**Fairness.** `orders_end`: strong fairness of each session's steps. The event loop of a
worker serves every task, and PostgreSQL grants row locks in the order of the queue, so a
step that becomes possible again and again is taken; deadlocks are its detector's work, and
without it (the mutant) the property fails. `outbox_end` and `feed`: strong fairness of a
run's steps, since the timer starts a run every minute and the network works now and then
for long enough; nothing is assumed of lost answers or the administrator who moves or fails
a delivery, nor of kills, except in `feed` that the app is not killed in the middle of a
page for ever. A transaction of a writer ends (weak fairness of commit or rollback).
`session`: what a call of the interceptor awaits answers or fails (weak fairness of each of
its steps), nothing about logins, logouts or the user. `push`: a run that began goes on,
since a message is answered or times out and a lock is released with its run, and not every
run is lost (`FairPushSpec` says that aborts stop eventually; without it no row would ever
be committed). That runs begin is not assumed, since nothing in the code schedules them: it
is the hypothesis `RunsKeepComing` of `NobodysTurnLasts`, and `push_schedule.cfg` shows
what happens without it.

## Proofs

TLAPS proves, for all sets of sessions, rows, products, stores, buyers, users, requests,
quotes and all bounds, what the table lists. The assumptions are those of the modules:
`ConstantsAssumption` (`FeedAssumption`, `PushAssumption`) says that bounds, quotes, dates
and quantities are numbers and that "none" is no value; `NoneAssumption`
(`NoRowAssumption`) says the latter of records (a row, a sale, a price).
Where a model adds up or counts, what it adds over is finite: the orders that may ever be
placed (`OrderIds`), the sales (`SaleIds`), the sessions of a store, the sync runs
(`Runs`). Their number is not bounded.

| Theorem | Property |
|---|---|
| `OrderLedgerProofs!TypeCorrect` | `TypeOK` |
| `OrderLedgerProofs!LocksProtect` | `LockedIsCurrent` |
| `OrderLedgerProofs!UuidUsedOnce` | `OneOrderPerUuid` |
| `OrderLedgerProofs!StockNeverNegative` | `NoNegativeStock` |
| `OrderLedgerProofs!OrdersAllOrNothing` | `AllOrNothing` |
| `OrderLedgerProofs!CancelReturnsAll` | `CanceledIsReturned` |
| `OrderLedgerProofs!StockStepsLogged` | `StockStepLogged` |
| `OrderLedgerProofs!StockAddsUp` | `StockMatchesLog` |
| `OrderLedgerProofs!AccountAddsUp` | `AccountMatchesLedger` |
| `OrderLedgerProofs!AckedIsCommitted` | `AckedOrderExists` |
| `OrderLedgerProofs!Refinement` | `ImplementsAtomicOrders` |
| `DeliveriesProofs!TypeCorrect` | `TypeOK` |
| `DeliveriesProofs!ActiveOnce` | `OneActiveDelivery` |
| `DeliveriesProofs!UuidOnce` | `OneDeliveryPerUuid` |
| `DeliveriesProofs!StockedOnce` | `StockedIffDelivered` |
| `DeliveriesProofs!EventsTell` | `EventsTellTheStory` |
| `DeliveriesProofs!MovesForward` | `DeliveriesMoveForward` |
| `DeliveriesProofs!PushTypeCorrect` | `PushTypeOK` of `PushWorker` |
| `DeliveriesProofs!UsersToldTogether` | `ToldTogether` of `PushWorker` |
| `DeliveriesProofs!SentStaysSent` | `SentIsFinal` of `PushWorker` |
| `MarketplaceProofs!AnswersNameTheRequest` | `AckedIsPlaced` |
| `MarketplaceProofs!FillsAreReported` | `FillsFollowDeliveries` |
| `MarketplaceProofs!Refinement` | `ImplementsHandover` |
| `StoreSalesProofs!TypeCorrect` | `TypeOK` |
| `StoreSalesProofs!ToldOfTheSale` | `AckedIsSold` |
| `StoreSalesProofs!SoldFresh` | `FreshWhenSold` |
| `StoreSalesProofs!ShelvesAddUp` | `ShelvesMatchSales` |
| `StoreSalesProofs!AnnouncedByOverlap` | `NoticesOverlap` |
| `StoreSalesProofs!ShelvesMoveBySales` | `ShelfStep` |
| `RecordsProofs!TypeCorrect` | `TypeOK` |
| `RecordsProofs!SerialEdits` | `EditsAreSerial` |
| `RecordsProofs!AnswersTrue` | `AnswersNameTheirRow` |
| `RecordsProofs!PriceHistory` | `HistoryIsAChain` |
| `RecordsProofs!SidesSurvive` | `SidesAreKept` |
| `PhoneSessionProofs!TypeCorrect` | `TypeOK` |
| `PhoneSessionProofs!PresentedOnce` | `TokenPresentedOnce` |
| `PhoneSessionProofs!FlagIsHeld` | `FlagHasItsCall` |
| `MobileOutboxProofs!TypeCorrect` | `TypeOK` |
| `MobileOutboxProofs!NoneDropped` | `NothingIsDropped` |
| `MobileOutboxProofs!InOrder` | `TransitionsInOrder` |
| `MobileOutboxProofs!FeedTypeCorrect` | `FeedTypeOK` of `SyncFeed` |
| `MobileOutboxProofs!NothingMissed` | `MissedOnlyWhenLate` of `SyncFeed` |
| `MobileOutboxProofs!CopiesMoveForward` | `CopyNeverGoesBack` of `SyncFeed` |
| `MobileOutboxProofs!NothingAbsent` | `NothingBelowCursorIsAbsent` of `SyncFeed` |
| `WorkDayProofs!TypeCorrect` | `TypeOK` |
| `WorkDayProofs!AcksRecorded` | `AcksAreRecorded` |
| `WorkDayProofs!SessionsAreSingle` | `OneSessionPerCheckIn` |
| `WorkDayProofs!RefusalsAreBacked` | `RefusedForASession` |
| `WorkDayProofs!PositionsAtWork` | `StoredAtWork` |

**The argument.** None of these is inductive alone. `Inv` (theorem `Invariance`) has
four parts. `TypeOK` gives the shapes. `OrdersKnown` says that a transaction past its
INSERT has drawn its id, that the id of an order that exists was drawn, and that an
update works on an order that exists and has the row's basket, store and amount: without
it an update could return goods that were never taken. `Fresh` says that a drawn id is
in one transaction only and its order not committed, and that no other order, committed
or under way, has its store and `client_uuid`: this is what the unique index keeps true
from the INSERT to the commit, and `OneOrderPerUuid` follows at the commit. `Locks` says
that what was read under a lock is still in the row and that a row has one holder;
`StockAfter` is a correct new balance only because of it. `Books`
adds the three properties about effects and is preserved with `Inv` at hand. The
refinement maps `orders`, `stock` and `account` to themselves: a `CommitCreate` is
`Place`, a `CommitUpdate` is `Cancel` or `Advance`, `RecordMovement` is `Move`,
`RecordEntry` is `Post`, all else stutters.

`DeliveriesProofs` rests on the same idea with a unique index that is conditional. `Used`
and `Bound` tie each transaction to its row: an inserted row has a drawn id that no row
and no other transaction has, and an update under its lock holds the row as it is.
`Indexed` states both indexes over committed rows and rows inserted by transactions
that have not ended; without the second part a commit could not be shown to keep the
first. An update may only make a row inactive (`StepsFromActive`), so it cannot bring a
collision about. `Told` says that the events of a delivery are a function of its
versions 1 to n; `EventsTellTheStory` counts them by a bijection with 1..n
(`AsManyAsVersions`).

`MarketplaceProofs` has to do without a row lock for half of the steps. Nothing is
known of the status an unlocked step finds, so the invariant only keeps what survives
any overwriting: `Bound` and `Used` for ids, `Indexed` for the pair of buyer and
`client_uuid`, `Exclusive` for the session that accepts (it holds the row, and the row
says `delivered` while it does), and `FillsFollowDeliveries` itself, whose two sides move
together because the status is set in the commit that reports it. In the refinement a
`CommitCreate` is `Place`, a `CommitStep` to
`delivered` is `Hand` of `Handover`, a `CommitAccept` is `Stock`; all else stutters.

The replies of `create_order` need `Inv` strengthened by what Redis may say. A key is set
before the commit and outlives a rollback, so nothing can be claimed of the order it names,
except this (`KeysName`, `KeyedCreates`): the id was drawn, and whatever order has it,
committed or under way, has the key's store and `client_uuid`. A hit is answered only after
the order was found in the database; hence the reply is true, and stays so because orders
are never removed.

**Sums.** A balance is compared with a sum over all orders, a shelf with a sum over all
sales. `SumUnfolds` proves that such a sum is what its recursive definition says, and
`SumRemove` that any term may be taken out, both by a smallest counterexample
(`SmallestSubset`: the library's induction theorems cannot be instantiated here). What
the commits need is then `SumMoves`: when one term changes, the sum changes by as much. A
commit of an order moves the balance and its own term (`CreationIsPosted`,
`UpdateIsPosted`, from the effects of commits that `Inv` and `Books` give);
`StoreSalesProofs` repeats the lemmas over natural numbers.

`StoreSalesProofs`: what a checkout locked is the row as it is, and serves the line of the
cart it was locked for; two checkouts hold no batch in common. `CommitSale` writes
quantities from what was read, and only this makes them right: a shelf falls by what the
sale records (`ShelfStep`), and since the lines of a cart are for different products, a
sale takes from a batch in one line at most (`SaleTakes`). The
date of a checkout is at most one day old when its lock is granted, because no
transaction lives through two midnights; the margin `BlockDays` covers it. A notice is
never taken back, so what a scan found announced when it began (`told`) has its event in the
table when the scan looks for it (`Heard`), and the scan adds none: `NoticesOverlap`.

`RecordsProofs`: what the author of a versioned edit saw is an entry of `edits`
(`Informed`), so when the version in the WHERE still holds, it is the last one, and the
edit continues the chain. A write without a version keeps the version and everything an
edit is about (`Seen`). Ids that Redis names belong, once their row is there, to the
`client_uuid` of the key (`Named`); the id of an open creation is named by its own key at
most, and only after its INSERT. A price found under its lock is the open one, so no two
sessions hold one, and a session that found none can only insert into an empty history.
`SidesSurvive` rests on what an edit may change of the row it read (`EditLeaves`): a column
that it leaves as it was, and does not name, is taken from the row it finds (`WriteEnds`).

`PhoneSessionProofs`: at most one call of `onError` is past the flag (`FlagHasItsCall`), the
stored refresh token is unspent unless its successor is about to be stored, and a failed
refresh deletes it. A kill forgets the flag and may leave one POST under way; this is the
`1 + kills` of `TokenPresentedOnce`.

`MobileOutboxProofs`: a run that takes an operation for applied has an answer of the server
(`RunKnows`), and what is committed stays so; hence nothing is dropped. The order rests on
the version: it counts the transitions made, each by an update that was applied or by
somebody else (`VersionCounts`), and the server accepts update `n` only when the version
is `n`. Whoever makes transition `n` moves the version past it, so nobody makes it again.
An update may be applied although an earlier one came back as a conflict, when somebody
else had made that one's transition: this is why the order is claimed of transitions, not
of updates. A batch is judged by a recursive function
(`VersionAfter`); that it has a value, and that every version it passes through stands for
an update of the batch or a transition made before (`VersionAfterIsBacked`), is shown by the
least number for which it fails. `TypeOK` bounds the attempts by the limit and one more
for each run beside the first, because each run that still carries an operation may count
once (`Holders`, `AttemptsLeft`).

`WorkDayProofs`: `Ledger` describes the rows as each open request would leave them: a
request keeps the session it found on a day, no day is written by two requests, and no
check-in stands on two days, whichever requests commit. `RequestsKnow` says that what a
request is about to answer holds in the rows it would commit, and `Committed` the same of
what the phone was told. A commit turns the second into the third, and a request that
rolls back takes its answers with it; only the key of a check-out outlives it, which
`AcksAreRecorded` allows for. A refusal that a request holds is backed (`Backed`) by a row
of the day it is for or by one of the check-in's own, as the request sees the rows; what
it waits for at an index is settled before it answers, so the row is committed or its own.

The proofs about `SyncFeed` and `PushWorker` are in `MobileOutboxProofs` and
`DeliveriesProofs`, which extend both modules: a sync run pushes the outbox and then pulls
the feed, and the push worker tells users of orders and deliveries. That is why the
specifications of the feed and of the worker have names of their own (`FeedSpec`,
`PushSpec`). `NothingMissed` and `CopiesMoveForward` have the hypothesis `OneRun`: with two
runs both properties are false, because the older of two snapshots may be applied last.

The feed: an event that was not committed late has a higher number than all committed
before it, and so than every place a cursor may have reached (`Place`: 0 or the number of a
committed event). `Found` says what a pull has of the events it owes up to the cursor it
will save: before the snapshots they are on its page, after that each is known to the
device or still carried with a version at least its own. The page is the lowest events
above the cursor, so nothing is owed in between (`PageFacts`), and taking events out of
it by scope takes none that was always visible (`Visible`). Snapshots are read later than
the device's copies and committed versions only grow, hence no copy goes back.

With any number of runs side by side (`NothingAbsent`, no hypothesis) a copy may go back and
the cursor too, but a snapshot that is applied was read after the event on its page was
committed, so a copy that exists never vanishes. Hence what a run has found below the place
it started from (`Brings`) stays found whatever other runs write, and a cursor of any of
them may be saved over any other: the device is stale at worst, and lacks no entity that
`MissedOnlyWhenLate` would have promised it. Both arguments rest on what the backend
guarantees by itself (`ServerInv`, lemmas `FlushServer`, `CommitServer`).

The push worker: `ToldTogether` speaks of committed rows only. `RunTogether` extends it to
what each open run would leave: when a run has a pair of an event in hand, written or still
to do, every other pair of the event is in hand too, passed over, or handled by others. A
run that took an event as news begins with all of its pairs; a retry's row is in the log,
so its event was told before. A commit turns the second statement into the first, and
nothing a run leaves out can be undone, because rows are never removed.

**Only model-checked.** Every safety property that a run checks is a theorem. Liveness
(`EveryRequestEnds`, `EveryOpSettles`, `EventuallyFresh`, `RefreshEnds`,
`NobodysTurnLasts`) is beyond TLAPS here.

## What the models leave out

- The commit is taken to happen when the handler returns and before the answer leaves. So
  it does in the FastAPI versions before 0.118; from there on the part of `get_db` behind
  its `yield`, and so the commit, runs after the answer was sent, and `pyproject.toml`
  admits both (`>=0.111.0,<0.200`). `AckedOrderExists`, `NothingIsDropped`, `AckedIsSold`,
  `AckedIsPlaced`, `AnswersNameTheirRow`, `AcksAreRecorded`: with a later version a commit
  that fails has been answered as a success already, and these hold of answers only up to
  that failure.
- One order per transaction: `OrderLedger` takes stock rows and then the account row, as
  `create_order` does. In a batch of `sync.push` the savepoints of several orders stay in
  one transaction (`sync/service.py:873`), so a second order's stock rows are waited for
  while the first one's account row is held. The detector ends such a wait too, but
  `EveryRequestEnds` does not speak of it.
- A balance row that does not exist yet counts as a balance of 0. Two first INSERTs of it
  collide on its unique key, and one request is rolled back: an `Abort`.
- A currency that differs from the account's ends the request: an `Abort`.
- The row lock an UPDATE holds between its flush and the commit is merged with the
  commit: the flush is the last step of `update_status` that another session notices.
- Prices, promotions and limits decide the quote of an order and are not computed;
  `Quotes` is any set of baskets and totals. RBAC refuses requests and changes nothing.
- Orders and deliveries are never soft-deleted by the code modelled here.
- `Deliveries` knows orders as open or closed; the photo of the proof is not modelled.
- `MobileOutbox`: the queue fits one batch of 50; the server never answers `duplicate`
  (its handlers return `applied`), and the app treats both alike; writes to the local
  database do not fail. An empty queue returns before `deleteApplied`, so a row may stay
  `applied` until the next push: `EveryOpSettles` counts it as settled.
- `SyncFeed`: an order that the device has no local row for is ignored by the app;
  entities are those the device keeps. The user is an agent; other roles see all or one
  store. Stores gained by a link (`agent_store`), which stay, and by an edit, which may
  be lost again, are not told apart. With two runs side by
  side (which `SyncNotifier` allows after the network flaps) an older page can be
  written over a newer one and the cursor can go back; `MissedOnlyWhenLate` and
  `CopyNeverGoesBack` are claims about one run at a time. What is left with more runs is
  `NothingBelowCursorIsAbsent`, which is proved and which `feed_overlap.cfg` checks with
  two of them.

- `Marketplace`: prices, debts and the lists of a supplier's products; a buyer without an
  enterprise is scoped by its store. The events are counted, not delivered.
- `StoreSales`: one store; `product_expired`, `insufficient_inventory` and `no_price` end
  in `Abort`. No transaction lives through two midnights. The scan's push rows
  (`push_log`, status `pending`) are not modelled: no pass of the worker selects them.
- `Records`: columns are reduced to a key, a period or a content, a side column, a link and
  the status of a ticket; barcodes follow the SKU and are left out. What a request appends
  beside its row (the link of an agent, a ticket's message, lines of a template) is part of
  its transaction and not kept; `apply_template` reads a template and ends in
  `create_order`.
- `PhoneSession`: one user on one phone; the server's other reasons to refuse a token
  (user deactivated) are an answer 401. `PushWorker`: texts, OAuth tokens of the provider
  and the per-user switches are not modelled.
- `WorkDay`: one user, whose requests meet nobody else's rows. The biometric check, the
  limits on a position's age and on the rate of calls and the reads of a track are left
  out, so is the day of a position: `StoredAtWork` speaks of any check-in, and cannot fail
  once one is committed; it does not exclude a position outside the hours of work. The
  outbox's attempts are `MobileOutbox`'s.
- Not modelled at all: imports, statistics, analytics,
  assistant, leads, the filters RBAC adds to queries (but for the scope of a pull, in
  `SyncFeed`), storage, encryption, i18n, telemetry, the
  web client and deployment: arithmetic, rendering, reads or library calls without a
  protocol between actors. They are most of the repository's lines.

## Findings

Disagreements between the code and what its documents or comments say of it, each with a
configuration of its own:

- **Two cancellations return the goods twice** (`orders_race.cfg`). The version is compared
  with an unlocked read (`orders/service.py:834`), and the UPDATE names the id alone.
- **A retry of a creation is refused because of its own delivery**
  (`delivery_retry.cfg`). The check for an active delivery comes before `client_uuid` is
  looked at (`delivery/service.py:305`), and `db.add` before `begin_nested` makes the flush
  fail outside the savepoint; `docs/DELIVERY.md:156` promises the existing delivery.
- **A conflict that is nobody's** (`outbox_conflict.cfg`). A courier's own update comes
  back as `conflict` after a lost answer, or behind another update that failed for a
  passing reason, and is not sent again (`sync/service.py:341`, `docs/SYNC.md:113`).
- **An update that is never sent** (`outbox_kill.cfg`). The local row and the outbox row
  are two writes (`delivery_repository.dart:162`; the comment above says one transaction).
- **An event below the cursor** (`feed_gap.cfg`). Numbers are drawn at the flush and shown
  at the commit (`models/outbox.py:100`), so a pull between two commits passes an event
  for good.
- **Goods in an inventory twice** (`marketplace_late.cfg`). Two requests to deliver one
  order are both read as `delivering`; when the second commits after the buyer's
  acceptance the order is `delivered` again and can be accepted again
  (`marketplace/service.py:1306` takes the row lock for a guard against this).
- **A closed ticket is reopened** (`tickets.cfg`). Two status changes read the same
  version; the flush names the id alone (`tickets/service.py:496`, `models/ticket.py:47`).
- **A check-out that is applied and closes nothing** (`workday_ack.cfg`). Its key is set
  before the commit and points at the session, open or not. A repetition behind a rolled
  back request is answered with that session (`attendance/service.py:298`), although
  `docs/ATTENDANCE.md:143` shows `check_out_at` filled.
- **A forgotten check-out stops the positions of the next day** (`workday_night.cfg`). A
  session open at midnight stays open; with the next day's there are two,
  `scalar_one_or_none` raises (`gps/service.py:143`) and every position comes back as an
  error, against "Aktiv sessiya bor" in the docstring of `ingest`.
- **A batch is announced twice a day** (`sales_notice.cfg`). The scan promises "bir kun, bir
  partiya = bir bildirishnoma" (`pos/expiry_scan.py:118`, also 10-13 and
  `pos/router.py:148`), but looks for the event and writes it later, and no unique index
  covers it: two scans that overlap announce a batch each, and every later scan of the day
  fails, because `scalar_one_or_none` (128) finds two rows. `NoticesOverlap` says that
  there is no other way.
- **An edit undoes an upload it did not see** (`records_link.cfg`). `ProductUpdate` carries
  `photo_url` (`catalog/schemas.py:148`, `catalog/service.py:600`), and `StoreUpdate` the
  agent, while `update_photo_url` (802-824) and `assign_agent` leave the version as it is.
  An edit of the version its author read therefore passes the conditional UPDATE (#34) and
  writes its own photo or agent over the newer one. Columns an edit does not name survive
  (`SidesAreKept`).
- **Nothing runs the push worker** (`push_schedule.cfg`). `docs/PUSH.md:228` says that
  `push_worker_task` is called every 30 seconds, and so does `push/worker.py:9`; its
  `cron_jobs` are commented out (130-135, "function qo'lda yoki scheduler ... orqali
  chaqiriladi"), and nothing else in the repository calls it.

And what a reader of the models will notice in the code, without a configuration of its own:

- When an administrator, or the courier on a dashboard, has made the first of two queued
  transitions (`delivery/router.py:13`, `docs/DELIVERY.md:102`), the app's first update
  comes back as a conflict and its second one is applied: the screen shows a conflict of a
  step that was made, and `TransitionsInOrder` is all that can be said.
- Promotions, users, branches, tickets and enterprises lose one of two concurrent edits
  although they carry a version. The guarded UPDATEs do not name `deleted_at`, so an edit
  may land on a row deleted meanwhile. The period of a promotion can end before it begins
  when its two dates are edited at once.
- `set_price` of two sessions at once ends one of them in an `IntegrityError` no handler
  maps. Orders take a price with `valid_to IS NULL` although it starts in the future
  (`orders/service.py:355`); the marketplace compares `valid_from` (`:346`).
- `client_uuid` of a contract stays taken by a deleted contract, whose repetition is then
  refused.
- In the app's interceptor any failure of the repeated request logs the user out, though
  its class comment names only a 401 of `/auth/refresh`. A call that is parked between
  `clear()` and the reset of the flag is never completed (`NothingStranded` of
  `PhoneSession` states it and does not hold); one parked during the loop changes the list
  under iteration. A refresh whose answer is lost has already denied its token, so the
  next one logs the user out. A logout beside a refresh is undone by `saveTokens`.
- An event none of whose users has a device stays on the worker's page for good, against
  `docs/PUSH.md:55`; `NobodysTurnLasts` says that this is the only way a turn lasts while
  runs keep coming. `begin_nested` flushes before it opens the savepoint, so the handler of
  the `IntegrityError` (`push/service.py:448`) does not save the rest of the run. arq runs
  up to ten jobs at once, while `push/worker.py:17` says one. A token registered while a
  run erases the old one is overwritten with NULL.
- Two deliveries of one check-out both read the open session; the second overwrites
  `check_out_at` (`attendance/service.py:327`), where `docs/ATTENDANCE.md:235` expects an
  error. A check-in is refused on a day whose session is closed already. A check-out that
  failed and is sent again may close a later session. The phone's record of the day is
  forgotten by a kill.
- With two sync runs side by side an older page is written over a newer one, so that
  `CopyNeverGoesBack` fails with two runs (`sync_service.dart:342`); no entity gets lost
  by it (`NothingAbsent`).

What holds all the same is stated by the passing runs: stock is never negative and agrees
with its log even when two cancellations return the goods (the log shows the second
return), a late commit is the only way an event can be missed (`MissedOnlyWhenLate`), and a
repeated acceptance needs a repeated report of a delivery (`FillsFollowDeliveries`).

## Plan

Done: orders, stock and accounts with their abstract specification and proofs;
deliveries; the mobile outbox with sync push; the feed; the marketplace with its abstract
specification and proofs; the store's sales; master records and prices; the app's
session; push notifications; the working day. What would come next:

1. `Fulfilment`: `Deliveries` composed with the statuses of orders, for the goods that
   are both returned to the warehouse and put into a store's inventory, and for a second
   delivery of one order.
2. Sync push over `OrderLedger`: several orders in one transaction, whose savepoints
   keep account rows locked while stock rows are waited for.
