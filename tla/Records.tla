------------------------------- MODULE Records -------------------------------
(***************************************************************************)
(* The tables people edit with a form: every row carries a version, and an *)
(* edit names the version its author saw.  A behaviour is about one table, *)
(* kind, or about the prices of one product and segment.                   *)
(*                                                                         *)
(* Products, stores and contracts are written by an UPDATE whose WHERE     *)
(* names the version.  Promotions, users, branches, tickets and            *)
(* enterprises are objects of the session: read without a lock, compared,  *)
(* assigned, and flushed as an UPDATE of the changed columns by id alone.  *)
(* The rest has no version: categories, price segments, templates of       *)
(* orders, approvals of ledger entries and banners.                        *)
(* A writer waits for the row's lock, so a write and its commit are one    *)
(* step here; an insert is two, because its Redis key is set in between.   *)
(***************************************************************************)
EXTENDS Naturals, Sequences, SequencesExt

CONSTANTS
    Kinds,         \* tables to look at
    Sessions,      \* database sessions: one per request being served
    Ids,           \* uuid7 values of rows
    KeysOf,        \* per table: SKUs, INNs, contract numbers, phone numbers,
                   \* names of segments, ledger entries approved
    Uuids,         \* client_uuid values
    None,
    Days,          \* dates of a period; for other tables, contents of columns
    Amounts,       \* prices
    MaxVersion,    \* bound: rows with this version are not edited
    MaxPrices      \* bound on the prices set

Guarded    == {"product", "store", "contract"}
Plain      == {"promo", "user", "branch", "ticket", "enterprise"}
Unversioned == {"category", "segment", "template", "approval", "banner"}
HavePeriod == {"contract", "promo", "banner"}
\* Tables with a unique client_uuid, and those that look it up in Redis.
HaveUuid   == {"contract", "promo", "ticket"}
HaveRedis  == {"product", "store", "contract", "promo", "user", "ticket"}

ASSUME ConstantsAssumption ==
    /\ Kinds \subseteq Guarded \cup Plain \cup Unversioned \cup {"price"}
    /\ Days \subseteq Nat /\ Days # {}
    /\ Amounts \subseteq Nat \ {0}
    /\ MaxVersion \in Nat \ {0} /\ MaxPrices \in Nat
    /\ None \notin Ids \cup Uuids \cup Days \cup UNION {KeysOf[k] : k \in Kinds}

TicketStatuses == {"new", "in_progress", "resolved", "closed"}

\* side: columns only some requests write, one of them per table:
\* marketplace_published, file_url, banner_url or marketplace_featured,
\* is_active or password_hash, updated_at of a ticket, the status or the
\* modules of an enterprise, image_url.  link: photo_url of a product and
\* agent_id of a store, which have a request of their own and may be named by
\* an edit too.
Sides == {"off", "on"}

VARIABLES
    kind,          \* the table
    rows,          \* its committed rows
    edits,         \* per row of a guarded table, what its creation and its
                   \* edits saw and wrote
    redis,         \* idem:<table>:create:<actor>:<client_uuid>
    answered,      \* <<client_uuid, id>> of the answers to creations
    prices,        \* committed product_price rows of one product and segment
    history,       \* committed price_history rows
    tx             \* the transaction of each session

vars == <<kind, rows, edits, redis, answered, prices, history, tx>>

Keys == KeysOf[kind]

Rows ==
    [state : {"absent", "live", "deleted"}, version : Nat,
     uuid : Uuids \cup {None}, key : Keys \cup {None}, from : Days, to : Days,
     side : Sides, link : Sides, status : TicketStatuses]

Contents ==
    [key : Keys \cup {None}, from : Days, to : Days, status : TicketStatuses]

\* The columns an edit of the table may change.
Editable ==
    CASE kind = "product"                      -> {"key", "from", "link"}
      [] kind = "user"                         -> {"key", "from"}
      [] kind = "store"                        -> {"key", "link"}
      [] kind = "contract"                     -> {"key", "from", "to"}
      [] kind = "promo"                        -> {"from", "to"}
      [] kind = "ticket"                       -> {"status"}
      [] kind \in {"branch", "enterprise"}     -> {"from", "side"}
      [] kind = "banner"                       -> {"from", "to"}
      [] OTHER                                 -> {}

PriceRows == [price : Amounts, from : Days, to : Days \cup {None}]

\* None is no product_price row.
ASSUME NoneAssumption == None \notin PriceRows

Idle == [pc |-> "idle"]

\* named: whether an edit names the link, be it with the value it has.
Transactions ==
    {Idle}
    \cup [pc : {"insert", "commit"}, id : Ids, row : Rows, save : BOOLEAN]
    \cup [pc : {"write"}, id : Ids, before : Rows, after : Rows, edit : BOOLEAN,
          named : BOOLEAN]
    \cup [pc : {"price", "reprice"}, found : PriceRows \cup {None}, new : PriceRows]

Busy(s) == tx[s].pc # "idle"

Absent ==
    [state |-> "absent", version |-> 0, uuid |-> None, key |-> None,
     from |-> CHOOSE d \in Days : TRUE, to |-> CHOOSE d \in Days : TRUE,
     side |-> "on", link |-> "on", status |-> "new"]

Init ==
    /\ kind \in Kinds
    /\ rows = [i \in Ids |-> Absent]
    /\ edits = [i \in Ids |-> <<>>]
    /\ redis = [u \in Uuids |-> None]
    /\ answered = {}
    /\ prices = {}
    /\ history = <<>>
    /\ tx = [s \in Sessions |-> Idle]

\* A refused request, an error, a lost connection: nothing is committed.
Abort(s) ==
    /\ Busy(s)
    /\ tx' = [tx EXCEPT ![s] = Idle]
    /\ UNCHANGED <<kind, rows, edits, redis, answered, prices, history>>

-----------------------------------------------------------------------------
(* Creations *)

\* The unique index of the table: of the live rows, for users of all.
HasKey(j, k) ==
    rows[j].key = k /\ (rows[j].state = "live" \/ kind = "user")

KeyTaken(k, i) == k # None /\ \E j \in Ids \ {i} : HasKey(j, k)

\* Deleted rows keep their client_uuid.
UuidTaken(u) ==
    kind \in HaveUuid /\ u # None /\ \E j \in Ids : rows[j].uuid = u

\* An INSERT or UPDATE waits for an uncommitted row with its key.
NoPending(s, r) ==
    \A t \in Sessions \ {s} : tx[t].pc = "commit" =>
        /\ r.key = None \/ tx[t].row.key # r.key
        /\ kind \notin HaveUuid \/ r.uuid = None \/ tx[t].row.uuid # r.uuid

Unclaimed(i) ==
    /\ rows[i].state = "absent"
    /\ \A t \in Sessions : tx[t].pc \in {"insert", "commit"} => tx[t].id # i
    /\ \A u \in Uuids : redis[u] # i

\* Mutated: what Redis names is not looked up again.
RemembersAny(u) == u # None /\ redis[u] # None

\* A key may name a row that was never committed, or is deleted; promotions
\* and users are looked up without deleted_at.
Remembers(u) ==
    /\ u # None /\ redis[u] # None
    /\ rows[redis[u]].state \in
        IF kind \in {"promo", "user"} THEN {"live", "deleted"} ELSE {"live"}

\* Redis is up and knows the request.
CreateAgain(s, r) ==
    /\ ~Busy(s)
    /\ kind \in HaveRedis /\ Remembers(r.uuid)
    /\ answered' = answered \cup {<<r.uuid, redis[r.uuid]>>}
    /\ UNCHANGED <<kind, rows, edits, redis, prices, history, tx>>

\* Redis knows nothing (save), or is down; no committed row has the key.
BeginCreate(s, r) ==
    /\ ~Busy(s)
    /\ ~KeyTaken(r.key, None)
    /\ \E i \in Ids, save \in BOOLEAN :
        /\ Unclaimed(i)
        /\ save => kind \in HaveRedis /\ r.uuid # None /\ ~Remembers(r.uuid)
        /\ tx' = [tx EXCEPT ![s] =
            [pc |-> "insert", id |-> i, row |-> r, save |-> save]]
    /\ UNCHANGED <<kind, rows, edits, redis, answered, prices, history>>

New(u) == [Absent EXCEPT !.state = "live", !.version = 1, !.uuid = u]

Create(s, r) == CreateAgain(s, r) \/ BeginCreate(s, r)

MaybeUuid == Uuids \cup {None}

CreateProduct(s) ==
    /\ kind = "product"
    /\ \E k \in Keys, u \in MaybeUuid : Create(s, [New(u) EXCEPT !.key = k])

\* The INN is optional.
CreateStore(s) ==
    /\ kind = "store"
    /\ \E k \in Keys \cup {None}, u \in MaybeUuid :
        Create(s, [New(u) EXCEPT !.key = k])

CreateContract(s) ==
    /\ kind = "contract"
    /\ \E k \in Keys, u \in MaybeUuid, d, e \in Days :
        /\ d <= e
        /\ Create(s, [New(u) EXCEPT !.key = k, !.from = d, !.to = e])

CreatePromo(s) ==
    /\ kind = "promo"
    /\ \E u \in MaybeUuid, d, e \in Days :
        /\ d <= e
        /\ Create(s, [New(u) EXCEPT !.from = d, !.to = e])

CreateUser(s) ==
    /\ kind = "user"
    /\ \E k \in Keys, u \in MaybeUuid : Create(s, [New(u) EXCEPT !.key = k])

CreateBranch(s) == kind = "branch" /\ Create(s, New(None))

CreateTicket(s) ==
    /\ kind = "ticket"
    /\ \E u \in MaybeUuid : Create(s, New(u))

\* Its first administrator is created in the same transaction.
CreateEnterprise(s) == kind = "enterprise" /\ Create(s, New(None))

\* A store of the platform: its INN is compared with theirs, but the index is
\* about all stores.
CreatePlatformStore(s) ==
    /\ kind = "store"
    /\ \E k \in Keys \cup {None} : Create(s, [New(None) EXCEPT !.key = k])

CreateCategory(s) == kind = "category" /\ Create(s, New(None))
CreateTemplate(s) == kind = "template" /\ Create(s, New(None))

CreateSegment(s) ==
    kind = "segment" /\ \E k \in Keys : Create(s, [New(None) EXCEPT !.key = k])

\* ledger_approval: one row per entry.
ApproveEntry(s) ==
    kind = "approval" /\ \E k \in Keys : Create(s, [New(None) EXCEPT !.key = k])

CreateBanner(s) ==
    /\ kind = "banner"
    /\ \E d, e \in Days :
        /\ d <= e
        /\ Create(s, [New(None) EXCEPT !.from = d, !.to = e])

\* Mutated: the client's uuid is stored in place of the row's id.
RememberUuid(u, i) == [redis EXCEPT ![u] = u]

\* The key in Redis is set before the commit; promotions keep an older one.
Remember(u, i) ==
    IF kind = "promo" /\ redis[u] # None THEN redis
    ELSE [redis EXCEPT ![u] = i]

InsertRow(s) ==
    /\ tx[s].pc = "insert"
    /\ NoPending(s, tx[s].row)
    /\ ~KeyTaken(tx[s].row.key, tx[s].id) /\ ~UuidTaken(tx[s].row.uuid)
    /\ tx' = [tx EXCEPT ![s].pc = "commit"]
    /\ redis' = IF tx[s].save THEN Remember(tx[s].row.uuid, tx[s].id) ELSE redis
    /\ UNCHANGED <<kind, rows, edits, answered, prices, history>>

\* client_uuid collides: promotions and tickets roll back and answer the row
\* there is; otherwise, and for a key, the request is refused (Abort).
AnswerExisting(s) ==
    /\ tx[s].pc = "insert"
    /\ kind \in {"promo", "ticket"}
    /\ NoPending(s, tx[s].row)
    /\ UuidTaken(tx[s].row.uuid)
    /\ \E j \in Ids :
        /\ rows[j].uuid = tx[s].row.uuid /\ rows[j].state = "live"
        /\ answered' = answered \cup {<<tx[s].row.uuid, j>>}
    /\ tx' = [tx EXCEPT ![s] = Idle]
    /\ UNCHANGED <<kind, rows, edits, redis, prices, history>>

Seen(r) ==
    [key |-> r.key, from |-> r.from, to |-> r.to, status |-> r.status]

CommitCreate(s) ==
    LET i == tx[s].id
        r == tx[s].row
    IN
    /\ tx[s].pc = "commit"
    /\ rows' = [rows EXCEPT ![i] = r]
    /\ edits' = IF kind \notin Guarded THEN edits ELSE [edits EXCEPT ![i] =
        <<[version |-> 1, before |-> Seen(r), after |-> Seen(r)]>>]
    /\ answered' = IF r.uuid = None THEN answered
                   ELSE answered \cup {<<r.uuid, i>>}
    /\ tx' = [tx EXCEPT ![s] = Idle]
    /\ UNCHANGED <<kind, redis, prices, history>>

-----------------------------------------------------------------------------
(* Edits with a version, and writes without one *)

\* Every transition the matrix allows.
NextStatus ==
    [new |-> {"in_progress"},
     in_progress |-> {"resolved", "closed"},
     resolved |-> {"in_progress", "closed"},
     closed |-> {}]

InOrder(r) == kind \in HavePeriod => r.from <= r.to

\* What an edit may make of the row b, or leave as it is.
Edited(b) ==
    {r \in [state : {b.state}, version : {b.version}, uuid : {b.uuid},
            key : IF "key" \in Editable THEN Keys ELSE {b.key},
            from : IF "from" \in Editable THEN Days ELSE {b.from},
            to : IF "to" \in Editable THEN Days ELSE {b.to},
            side : IF "side" \in Editable THEN Sides ELSE {b.side},
            link : IF "link" \in Editable THEN Sides ELSE {b.link},
            status : IF kind = "ticket" THEN NextStatus[b.status] ELSE {b.status}] :
        InOrder(r)}

Open(i) == rows[i].state = "live"

\* The row is read, its version is the one the author saw, and no committed
\* row has the new key.
BeginEdit(s, i) ==
    /\ ~Busy(s)
    /\ Open(i) /\ rows[i].version < MaxVersion
    /\ \E r \in Edited(rows[i]), named \in BOOLEAN :
        /\ r.key # rows[i].key => ~KeyTaken(r.key, i)
        /\ named => "link" \in Editable
        /\ r.link # rows[i].link \/ r = rows[i] => named
        /\ tx' = [tx EXCEPT ![s] =
            [pc |-> "write", id |-> i, before |-> rows[i], edit |-> TRUE, named |-> named,
             after |-> [r EXCEPT !.version = rows[i].version + 1]]]
    /\ UNCHANGED <<kind, rows, edits, redis, answered, prices, history>>

\* A write of the columns in which r differs from the row read.
BeginWrite(s, i, r) ==
    /\ ~Busy(s)
    /\ Open(i) /\ r.version <= MaxVersion /\ r # rows[i]
    /\ tx' = [tx EXCEPT ![s] =
        [pc |-> "write", id |-> i, before |-> rows[i], after |-> r, edit |-> FALSE,
         named |-> FALSE]]
    /\ UNCHANGED <<kind, rows, edits, redis, answered, prices, history>>

UpdateProduct(s, i)    == kind = "product" /\ BeginEdit(s, i)
UpdateStore(s, i)      == kind = "store" /\ BeginEdit(s, i)
UpdateContract(s, i)   == kind = "contract" /\ BeginEdit(s, i)
UpdatePromo(s, i)      == kind = "promo" /\ BeginEdit(s, i)
UpdateUser(s, i)       == kind = "user" /\ BeginEdit(s, i)
UpdateBranch(s, i)     == kind = "branch" /\ BeginEdit(s, i)
UpdateStatus(s, i)     == kind = "ticket" /\ BeginEdit(s, i)
UpdateEnterprise(s, i) == kind = "enterprise" /\ BeginEdit(s, i)

Deleted(i) == [rows[i] EXCEPT !.state = "deleted"]

DeleteProduct(s, i)  == kind = "product" /\ BeginWrite(s, i, Deleted(i))
DeleteStore(s, i)    == kind = "store" /\ BeginWrite(s, i, Deleted(i))
DeleteContract(s, i) == kind = "contract" /\ BeginWrite(s, i, Deleted(i))
DeletePromo(s, i)    == kind = "promo" /\ BeginWrite(s, i, Deleted(i))
DeleteBranch(s, i)   == kind = "branch" /\ BeginWrite(s, i, Deleted(i))
DeleteTemplate(s, i) == kind = "template" /\ BeginWrite(s, i, Deleted(i))
\* Its row goes.
DeleteBanner(s, i)   == kind = "banner" /\ BeginWrite(s, i, Deleted(i))

DeleteEnterprise(s, i) ==
    /\ kind = "enterprise"
    /\ BeginWrite(s, i, [Deleted(i) EXCEPT !.side = "off"])

WithSide(i, v) == [rows[i] EXCEPT !.side = v]
WithLink(i, v) == [rows[i] EXCEPT !.link = v]

UpdatePhotoUrl(s, i) ==
    kind = "product" /\ \E v \in Sides : BeginWrite(s, i, WithLink(i, v))

UpdateContractFile(s, i) ==
    kind = "contract" /\ \E v \in Sides : BeginWrite(s, i, WithSide(i, v))

ToggleMarketplace(s, i) ==
    kind = "product" /\ \E v \in Sides : BeginWrite(s, i, WithSide(i, v))

\* store.agent_id; an edit by an administrator may name it too.
AssignAgent(s, i) ==
    kind = "store" /\ \E v \in Sides : BeginWrite(s, i, WithLink(i, v))

\* A message is appended, and the ticket is marked as changed.
AddMessage(s, i) ==
    kind = "ticket" /\ \E v \in Sides : BeginWrite(s, i, WithSide(i, v))

TogglePromoFeatured(s, i) ==
    kind = "promo" /\ \E v \in Sides : BeginWrite(s, i, WithSide(i, v))

ResetAdminPassword(s, i) ==
    kind = "user" /\ \E v \in Sides : BeginWrite(s, i, WithSide(i, v))

UpdateMyModules(s, i) ==
    kind = "enterprise" /\ \E v \in Sides : BeginWrite(s, i, WithSide(i, v))

\* The dates are compared as the session sees them.
PatchBanner(s, i) ==
    kind = "banner" /\ \E r \in Edited(rows[i]) : BeginWrite(s, i, r)

UpdateBannerImage(s, i) ==
    kind = "banner" /\ \E v \in Sides : BeginWrite(s, i, WithSide(i, v))

\* The banner of a promotion bumps the version, whatever version its author saw.
UpdateBanner(s, i) ==
    /\ kind = "promo"
    /\ \E v \in Sides :
        BeginWrite(s, i, [WithSide(i, v) EXCEPT !.version = @ + 1])

DeactivateUser(s, i) == kind = "user" /\ BeginWrite(s, i, WithSide(i, "off"))
ActivateUser(s, i)   == kind = "user" /\ BeginWrite(s, i, WithSide(i, "on"))

SuspendEnterprise(s, i) ==
    /\ kind = "enterprise"
    /\ BeginWrite(s, i, [WithSide(i, "off") EXCEPT !.version = @ + 1])

ActivateEnterprise(s, i) ==
    /\ kind = "enterprise"
    /\ BeginWrite(s, i, [WithSide(i, "on") EXCEPT !.version = @ + 1])

\* Mutated: the WHERE names the id alone.
VersionIgnored(s) == TRUE

\* WHERE id AND version of the guarded edits; deleted_at is not named.
VersionHolds(s) ==
    kind \in Guarded /\ tx[s].edit =>
        rows[tx[s].id].version = tx[s].before.version

\* Mutated: the UPDATE writes the whole row its session read.
Overwritten(s, old) == tx[s].after

\* The columns that changed since the row was read, and the link an edit
\* names.
Written(s, old) ==
    [c \in DOMAIN old |->
        IF tx[s].after[c] # tx[s].before[c] \/ (c = "link" /\ tx[s].named)
        THEN tx[s].after[c] ELSE old[c]]

\* The UPDATE and its commit.  No row in WHERE is a version_conflict (for a
\* banner that is gone, StaleDataError), a taken key a duplicate: they refuse
\* the request (Abort).
WriteRow(s) ==
    LET i == tx[s].id
        r == tx[s].after
    IN
    /\ tx[s].pc = "write"
    /\ VersionHolds(s)
    /\ kind = "banner" => Open(i)
    /\ r.key # tx[s].before.key /\ Open(i) =>
        NoPending(s, [r EXCEPT !.uuid = None]) /\ ~KeyTaken(r.key, i)
    /\ rows' = [rows EXCEPT ![i] = Written(s, rows[i])]
    /\ edits' = IF ~tx[s].edit \/ kind \notin Guarded THEN edits ELSE [edits EXCEPT ![i] =
        Append(@, [version |-> r.version, before |-> Seen(tx[s].before),
                   after |-> Seen(r)])]
    /\ tx' = [tx EXCEPT ![s] = Idle]
    /\ UNCHANGED <<kind, redis, answered, prices, history>>

-----------------------------------------------------------------------------
(* set_price *)

OpenPrices == {p \in prices : p.to = None}

\* The product and the segment exist.  SELECT ... FOR UPDATE finds the open
\* price in the snapshot of the statement, or none.
FindPrice(s) ==
    /\ ~Busy(s)
    /\ kind = "price" /\ Len(history) < MaxPrices
    /\ \E a \in Amounts, d \in Days, found \in
            IF OpenPrices = {} THEN {None} ELSE OpenPrices :
        tx' = [tx EXCEPT ![s] = [pc |-> "price", found |-> found,
                                 new |-> [price |-> a, from |-> d, to |-> None]]]
    /\ UNCHANGED <<kind, rows, edits, redis, answered, prices, history>>

Locks(s, p) == tx[s].pc = "reprice" /\ p # None /\ tx[s].found = p

\* The lock is granted when its holder ended; a row that is closed by then
\* no longer matches, and the statement returns nothing.
LockPrice(s) ==
    /\ tx[s].pc = "price"
    /\ \A t \in Sessions : ~Locks(t, tx[s].found)
    /\ tx' = [tx EXCEPT ![s].pc = "reprice",
                        ![s].found = IF @ \in OpenPrices THEN @ ELSE None]
    /\ UNCHANGED <<kind, rows, edits, redis, answered, prices, history>>

\* Mutated: no unique index on the open price.
NoPriceIndex(p, old) == TRUE

\* One open price, and one row per valid_from; otherwise an error (Abort).
PriceIndex(p, old) ==
    /\ OpenPrices \subseteq {old}
    /\ \A q \in prices : q.from # p.from

\* The old price is closed, the history and the new price are written.
SetPrice(s) ==
    LET old == tx[s].found
        new == tx[s].new
    IN
    /\ tx[s].pc = "reprice"
    /\ PriceIndex(new, old)
    /\ prices' = (prices \ {old}) \cup {new} \cup
        (IF old = None THEN {} ELSE {[old EXCEPT !.to = new.from]})
    /\ history' = Append(history,
        [old |-> IF old = None THEN 0 ELSE old.price, new |-> new.price])
    /\ tx' = [tx EXCEPT ![s] = Idle]
    /\ UNCHANGED <<kind, rows, edits, redis, answered>>

-----------------------------------------------------------------------------
Next ==
    \E s \in Sessions :
        \/ CreateProduct(s) \/ CreateStore(s) \/ CreateContract(s)
        \/ CreatePromo(s) \/ CreateUser(s) \/ CreateBranch(s)
        \/ CreateTicket(s) \/ CreateEnterprise(s)
        \/ CreatePlatformStore(s) \/ CreateCategory(s) \/ CreateTemplate(s)
        \/ CreateSegment(s) \/ ApproveEntry(s) \/ CreateBanner(s)
        \/ InsertRow(s) \/ AnswerExisting(s) \/ CommitCreate(s)
        \/ \E i \in Ids :
            \/ UpdateProduct(s, i) \/ UpdateStore(s, i) \/ UpdateContract(s, i)
            \/ UpdatePromo(s, i) \/ UpdateUser(s, i) \/ UpdateBranch(s, i)
            \/ UpdateStatus(s, i) \/ UpdateEnterprise(s, i)
            \/ DeleteProduct(s, i) \/ DeleteStore(s, i) \/ DeleteContract(s, i)
            \/ DeletePromo(s, i) \/ DeleteBranch(s, i) \/ DeleteEnterprise(s, i)
            \/ UpdatePhotoUrl(s, i) \/ UpdateContractFile(s, i)
            \/ UpdateBanner(s, i) \/ DeactivateUser(s, i) \/ ActivateUser(s, i)
            \/ SuspendEnterprise(s, i) \/ ActivateEnterprise(s, i)
            \/ DeleteTemplate(s, i) \/ DeleteBanner(s, i)
            \/ ToggleMarketplace(s, i) \/ AssignAgent(s, i) \/ AddMessage(s, i)
            \/ TogglePromoFeatured(s, i) \/ ResetAdminPassword(s, i)
            \/ UpdateMyModules(s, i) \/ PatchBanner(s, i) \/ UpdateBannerImage(s, i)
        \/ WriteRow(s)
        \/ FindPrice(s) \/ LockPrice(s) \/ SetPrice(s)
        \/ Abort(s)

Spec == Init /\ [][Next]_vars

-----------------------------------------------------------------------------
(* Properties *)

\* The columns have values their tables may hold.
TypeOK ==
    /\ kind \in Kinds
    /\ rows \in [Ids -> Rows]
    /\ edits \in [Ids -> Seq([version : Nat, before : Contents, after : Contents])]
    /\ redis \in [Uuids -> Ids \cup {None}]
    /\ answered \subseteq Uuids \X Ids
    /\ prices \subseteq PriceRows
    /\ history \in Seq([old : Nat, new : Amounts])
    /\ tx \in [Sessions -> Transactions]

\* Edits of products, stores and contracts (#34) are serial: each one saw
\* what the one before it had written, each version was written once, and
\* the row holds what the last one wrote.
EditsAreSerial ==
    kind \in Guarded => \A i \in Ids :
        /\ \A n \in 2..Len(edits[i]) :
            /\ edits[i][n].version = n
            /\ edits[i][n].before = edits[i][n - 1].after
        /\ edits[i] # <<>> =>
            /\ rows[i].version = Len(edits[i])
            /\ Seen(rows[i]) = Last(edits[i]).after

\* No contract ends before it begins, although update_contract compares a
\* new date with the other one as it was read.
PeriodsInOrder ==
    kind = "contract" => \A i \in Ids : rows[i].from <= rows[i].to

\* What is written without a version (the shop window of a product, a file, a
\* banner, the activity of a user) is never undone by an edit that read the
\* row before, nor a photo or an agent by an edit that does not name one: an
\* UPDATE names only the columns its request is about.
SidesAreKept ==
    [][\A s \in Sessions : tx[s].pc = "write" /\ tx[s].edit /\ ~Busy(s)' =>
        LET i == tx[s].id IN
        /\ kind \in {"product", "contract", "promo", "user"} =>
             rows'[i].side = rows[i].side
        /\ ~tx[s].named => rows'[i].link = rows[i].link]_vars

\* An edit of the version its author saw undoes no write in between: "#34",
\* the conditional UPDATE of the guarded tables, of the links as well.
LinksAreKept ==
    [][\A s \in Sessions : tx[s].pc = "write" /\ tx[s].edit /\ ~Busy(s)' =>
        LET i == tx[s].id IN
        rows'[i].link # rows[i].link => rows[i].link = tx[s].before.link]_vars

\* The answer to a creation names a row the request made, however often it
\* is repeated and whatever Redis remembers.
AnswersNameTheirRow ==
    \A a \in answered :
        rows[a[2]].state # "absent" /\ rows[a[2]].uuid = a[1]

\* The history of a price is a chain that starts at zero and ends in the
\* open price, when changes wait for each other too.
HistoryIsAChain ==
    /\ \A n \in DOMAIN history :
        history[n].old = IF n = 1 THEN 0 ELSE history[n - 1].new
    /\ history # <<>> => {p.price : p \in OpenPrices} = {Last(history).new}

\* models/ticket.py: a closed ticket goes nowhere.
ClosedIsTerminal ==
    [][\A i \in Ids : kind = "ticket" /\ rows[i].status = "closed" =>
        rows'[i].status = "closed"]_vars
==============================================================================
