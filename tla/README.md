# A TLA+ model of the aboo ERP: shipping ledger, synchronisation, shipments and money

The repository is an ERP for shipping offices: a React client, an Electron shell and an
Android app over an Express server and PostgreSQL (`server/src`). Two things in it are hard
to get right and hard to test, and they are what this project is about.

The shipping ledger is also worked *offline*: a Windows PC runs the same server against a
PostgreSQL of its own, every write of the ledger screens goes to a local outbox in the same
transaction, and a worker pushes the outbox to the central server and pulls its change feed
(`server/src/sync/`, migration `112_offline_sync_foundation.sql`).

And the services of the office, the posting of ledger rows as shipments, the undo of a
dispatch, deliveries and their stock, vouchers and transfers, salaries, are handlers that read
without a lock, decide, and write in *several* transactions. What another handler does in
between, and what is left when one stops half way, no test of the repository reaches.

Paths are relative to `src/` of the repository, mostly under `server/src/`. "The report" is
`docs/OFFLINE_FIRST_SHIPPING_IMPLEMENTATION_REPORT_2026-07-17.md`.

## 1. Inventory

| Component | Code | State | Operations | Interacts by | Hard part |
|---|---|---|---|---|---|
| Ledger sync, central node | `sync/centralSyncService.ts`, `routes/syncRoutes.ts`, migration 112 | the seven `daily_ledger_*` tables with `sync_version`, `sync_origin_device_id`, `sync_last_device_sequence`; `sync_operation_results`; `sync_conflicts`; `sync_change_feed`; `linked_devices` | push, pull, scoped snapshot, review of a conflict, block of a device; writes of the screens | HTTP requests of devices; triggers | repeated and reordered requests, two handlers of one operation, a failure handler in a transaction of its own |
| Ledger sync, desktop node | `sync/localSyncWorker.ts`, `sync/localOutbox.ts`, `middleware/localOfflinePolicy.ts` | mirror of the tables, `sync_outbox`, `sync_conflicts`, `sync_local_state`, `sync_device_sequence` | local write, batch selection, handling of results, pull, snapshot, grant, recovery at start | HTTP to the centre; its screens write at any moment | steps of the worker interleaved with the screens; lost answers; restarts |
| Change feed | migration 112 (`sync_capture_shipping_change`), `pullChanges`, `createScopedSnapshot` | `cursor_id` sequence, committed entries, cursor of a reader | insert by trigger, commit, rollback, pull, snapshot | shared table | order of cursor values is not order of commits |
| Deferred ledger posting | `sync/centralDeferredActions.ts`, `sync/localDeferredActions.ts` | deferred actions on both sides | ACTION operations, posting at the centre | push, shipment posting | stop between the posting and its record; the action sent again; a failure handler that writes over the verdict |
| Ledger rows and sessions, row transfer | `repositories/dailyLedgerRepository.ts`, `services/dailyLedgerService.ts`, `services/dailyLedgerTransferService.ts` | sessions, rows, row and receipt numbers | upsert, delete, cancel a session, transfer rows, load | sync triggers, posting, undo | numbers and live sessions under concurrency |
| Posting of ledger rows | `services/dailyLedgerShipmentPostingService.ts` | row status, shipments | post a row or a session | shipments, finance | several transactions per row |
| Dispatch save and undo | `services/dailyLedgerDispatchUndoService.ts`, dispatch repositories, `src/pages/ShipmentQuickLedger.tsx` | dispatch operations with the rows as they were before and after | begin, journal, finalize, undo | ledger rows, shipments, charges | an inverse that must restore everything, and nothing else |
| Shipment lifecycle and charge | `domain/shipmentStatus.ts`, `services/shipmentService.ts`, `services/shipmentFinancialPostingService.ts` | shipment status, financial status, account charges | create, update, transition, confirm, repost, delete | delivery, finance, stock | the status commits before the charge |
| Delivery and inventory | `services/deliveryService.ts`, `repositories/deliveryRepository.ts`, `repositories/shipmentInventoryMovementRepository.ts` | deliveries, stock row, movements | deliver, fail, return, delete; reserve, release, deduct, adjust | shipments, receipts | deduction and receipt after the delivery is stored |
| Vouchers and cashboxes | `services/financeService.ts`, `repositories/financeRepository.ts` | vouchers, cashbox entries, running balance | create, update, cancel, reconcile | SQL | read without a lock, write by what was read |
| Money transfers | `services/transfersService.ts`, `routes/transfers.ts` | transfer status, its vouchers | issue, complete, cancel, delete, set status | vouchers | two operations on one transfer |
| Agent portal vouchers | `services/agentPortalVoucherService.ts` | draft requests | ask, approve | vouchers | two approvals of one draft |
| Payroll | `repositories/salaryRepository.ts`, `routes/salaryRoutes.ts`, `src/pages/finance/Salaries.tsx` | salary records, advances, deductions | create, edit, pay, delete; grant, edit, repay, delete | payment vouchers | an advance is deducted in three places |
| Bilateral reconciliation | `services/bilateralReconciliationService.ts` | status per side | propose, approve, reject, close | two parties | both approve at once |
| Manifests | `repositories/manifestRepository.ts` | lists of shipments per truck | create, load, close | shipments, ledger rows | — |
| Authentication sessions, request guards | `services/authService.ts`, `routes/linkedDeviceRoutes.ts`, `middleware/idempotency.ts` | sessions, tokens, idempotency keys | login, refresh, revoke; key life cycle | every request | rotation and retry at once |
| Backup and restore; reports; user interfaces | `services/backupService.ts`, report services, `src/`, `electron/`, `apk/` | none of their own that a model would add to | — | — | external tools, read-only SQL, rendering |

What makes each of them correct, in one line: the **centre** decides an operation once,
writes the ledger at most once for it, and publishes a feed from which its tables can be
rebuilt; the **node** loses no operation, shows after a quiet period what the centre shows,
and never skips a part of the feed; the **feed** is read in the order in which each row was
written; a **row** belongs to a live session under a number of its own, and stays where it is
once it is loaded; a **posting** charges a shipment once; a **dispatch undo** takes back the
effects of its save, all of them and no others; a **shipment** that is confirmed is charged
once, a **delivery** comes to its receipt, and **stock** is held back for somebody and leaves
with a delivery; a **voucher** is confirmed exactly when its money stands, and the **balance**
is the sum of the entries; a **transfer** pays once, a cancelled one leaves no money behind;
a **salary** is paid once, and what is written off an **advance** came off a salary.

`PROJECT.json` lists the hazards of this code line by line, with the property that covers
each, or why none does.

## 2. The modules

```
SyncBase            entities, operations, verdicts, row shapes; what a screen may write
 ├─ CentralSync     the centre            ── implements ──>  DecisionLog
 │   └─ CentralSync_proofs
 ├─ LocalNode       the node (no behaviour of its own)
 └─ LedgerSync      CentralSync + LocalNode + network + other actors
     └─ LedgerSync_proofs   (on CentralSync_proofs)
ChangeFeed          the feed with cursor values drawn before the commit
 └─ ChangeFeed_proofs

LedgerRows          rows and sessions of one day
 └─ RowPosting      saves and postings as chains of transactions; shipments and charges
     └─ DeferredPosting   "post the shipments", asked for by a node
         └─ LedgerOffice  + dispatch operations and their undo; everything at once
             └─ LedgerOffice_proofs

FiniteSums ─ FiniteSums_proofs     sums over finite sets
 ├─ Stock           one stock row and its movements
 │   └─ ShipmentLife      shipments, deliveries, charges, receipts ─ ShipmentLife_proofs
 ├─ Vouchers        vouchers, entries, balance, reconciliation
 │   └─ Transfers         transfers and settlements on them ─ Transfers_proofs
 └─ Payroll         salaries and advances ─ Payroll_proofs
MC*                 instances for TLC
```

**SyncBase.** A *row* of one of the synchronised tables is a model value of `Entities`; its
parent (a ledger row belongs to a session) is fixed, its business columns are a member of
`Contents`, `Deleted` being the content of a row whose `deleted_at` is set. Sessions and
ledger rows are deleted softly (`SoftEntities`), print documents for good. An operation is
identified by device and `device_sequence`, which stand for `operation_id`; the payload stands
for its hash. `ScreenMayWrite` collects what the screens check before they write.

**CentralSync.** One action per committed transaction. `Push(op)` is `applyPushOperation`
with one disjunct per way out: parked for a missing parent, outside the scope, conflict, the
three outcomes of an UPSERT (insert, nothing to do, update), the three of a DELETE, and the
failure handler. `ReplayFails` is that handler meeting an operation that already has a
result (`on conflict(operation_id) do update`). `ResolveSyncConflict` has the review that
writes a row and the one that finds it gone. The triggers are part of every write: `Bumped`
is `sync_increment_row_version`, `Publish` is `sync_capture_shipping_change`. `CentralEdit`
and `CentralRevive` are the ledger screens of the centre, `SetDevice` the block.
On its own the module accepts any operation of `Requests` at any time, any number of times:
the network, retries and any number of devices in one.

**DecisionLog.** What the centre promises about operations: undecided, then accepted (at
most one write of the ledger), refused or disputed; a dispute is settled once, with one
write. `Spoil` is there because the code's failure handler can overwrite the record of a
decision; the promise that remains is that the *ledger* is not written again.

**LocalNode.** The variables are the tables of the local PostgreSQL and the program counter
of `runLocalSyncCycle` (`phase`, `batch`, `handled`). A local write and its outbox row are
one step. `SelectBatch` takes the lowest sequences among those that are PENDING or whose
backoff has run out (any subset: the delay is random). The worker's statements that are
separate transactions are separate actions, so that the screens get in between:
the check of a pulled change and its application (`PullCheck`, `PullApply`), the count of
unresolved operations and the truncate of a snapshot (`SnapshotCleared`,
`SnapshotReplaces`), and each result of a batch.

**LedgerSync.** Requests are sequences of operations the centre works through one
transaction at a time; the node may give up waiting while the centre goes on (`orphan`), and
the two handlers may meet on one operation (`late`, `Twins`). `Faults` names the
disturbances an instance has: `loss` (a request or answer fails), `overlap` (two handlers of
one operation), `restart`, `failure` (an exception at the centre), `edit`, `undo` and
`review` (the people at the centre), `block`, `purge` (entries of the feed are
removed), `expiry` (the offline grant ends). Another device pushes the operations of `Others`.

**ChangeFeed.** In CentralSync an entry is drawn and committed in one step. Here they
are apart, with row locks held from one to the other, and a reader pulls pages or takes
snapshots in between. It shows what of the simplification is sound: the order per row.

**LedgerRows.** The sessions are those of one branch, date and line, each of a driver; the
main session has none and cannot be cancelled. A row has its session, its number in it, its
receipt number, and whether it is posted, loaded and deleted. Each action is a transaction of
`dailyLedgerRepository` or `confirmTransfer`: an update that migrates the row to the
session of another driver, an insert, a transfer, the cancellation of a session (its rows go
to the main one), a deletion, a loading. Numbers are the largest plus one, under the lock of
the session. `held` are the rows and shipments an open undo has locked.

**RowPosting.** A *job* is a running handler. `SaveRow` checks the receipt number and
`SaveNewRow` inserts in a later transaction; `Journal` writes the row into the dispatch
operation in a statement of its own. `PostRow` starts `postRowAsShipment`: *look* for a
shipment of this number, *fund* it or *create* it, *mark* the row posted, *record* what was
done with the operation, *tag* the charge with it. A charge carries the operation it was made
for (`charges[t]`), which is what an undo reverses. `Stop` ends a job anywhere; `Torn` says
whether it may also stop between the two statements of `markPostedShipment`.

**DeferredPosting.** The first push of a deferred action stores it as PROCESSING (`Receive`).
The failure handler of `applyPushOperation` writes over any verdict (`PersistFailure`): any push
may come to it, and the slower one of two first pushes must, whose insert meets the unique
`operation_id`; the rest of its transaction is rolled back, so that this write is all it leaves.
`processDeferredAction` reads the verdict again and executes what is not ACCEPTED (`Execute`):
it posts the rows that wait, one after the other, each through the same chain as the screen
(`PostNext`), and records ACCEPTED whatever became of single rows (`Accept`). A *request* is such
an execution; a node that got no answer sends the action again while the first one may still run.
The advisory lock is not in the model, because it excludes nobody: `processDeferredAction` is
returned without `await` (`centralSyncService.ts:211`, `235`), so that the `finally` gives the
client back to the pool while it still holds the session lock, another request may get this
client, and for its session the lock is re-entrant; and the posting runs on the pool and
outlives the lock. What has to hold all the same is what the run checks, above all that every
shipment is charged once.

**LedgerOffice.** The dispatch operations, `BeginOperation` (the rows as they are), the
journal, `Finalize`, and the undo in its three parts: the blockers (`CheckUndo`) are looked up
before the rows are locked (`LockUndo`), and `CommitUndo` puts rows, sessions, shipments and
charges back. Next composes them with the screens, the jobs and the deferred action.

**Stock, ShipmentLife.** Stock is one `item_stock` row with the movements of each shipment.
A shipment has its status (the table of `SHIPMENT_TRANSITIONS`), its financial status and its
charges; a delivery has a status and its receipt voucher, none, standing or cancelled. `MakeReceipt` looks for
a receipt that is not cancelled and inserts one, which fails when there is a cancelled one
(`unique (delivery_id)`, `003_operations_core.sql:21`); the finance screen enters receipts by hand and
cancels them. The handlers are jobs: an
update checks the transition on what it read, releases the stock of a cancelled shipment,
writes the status, and posts the charge, each in a transaction of its own; a delivery is
written with the status it imposes on the shipment, then the stock is deducted, then the
receipt is made. `expects` is the time stamp a screen may send of what it had read. `Stop` is
an error or a crash between two of these.

**Vouchers, Transfers.** One cashbox. A voucher leaves an entry when it is confirmed and a
reversal when it is cancelled (`entry`, `reversed`), and moves the running balance. The
finance screens read a voucher without a lock and write later by what they read (`BeginUpdate`,
`WriteVoucher`); the listing of the cashboxes sums the entries up as of the start of its
statement and writes the sum later (`BeginReconcile`, `Reconcile`). Transfers and settlements
run in one locked transaction each, except that the approval of a settlement first reads the
draft without a lock (`BeginSettle`). A transfer is created by the confirmation of its
shipment, or by `POST /transfers` with whatever status the request names, linked or not, collected or not
(`CreateLinked`, `CreateAndCollect`); `PutStatus` is the endpoint that sets a status directly. `bypassed` marks
the transfers that are cancelled, or opened again, in these ways. Two history variables tell where the code gives no
guarantee: `outdated` holds the vouchers a handler wrote on a reading that no longer held, and
`drift` is true from such a write, or an overtaken reconciliation, to the next reconciliation
that was not overtaken. The properties hold for all others, and for everything while no handler is outdated.

**Payroll.** One employee, one currency. Creating a salary sums up the open advances in one
statement and inserts in another; paying it takes open advances off, oldest first, under a
lock; the routes of an advance read it, write it, and carry the difference to the pending
salary of its month in a third statement (`SyncSalary`), which a stop may cut off. A request may also set the status of an advance alone (`restated`).

Definitions named `...Always`, `...Backwards`, `...Without...`, `...Again` and so on under the
heading "Faulty variant" are plausible mistakes in the definition that follows them. No
behaviour uses them; replacing the right definition by one of them must break the property
named in `PROJECT.json`, which shows that the property can fail.

## 3. The runs and what they show

| Run | Instance | Shows |
|---|---|---|
| `central` | 2 devices, session/row/document, 1 sequence number each, bases 0 and 1, feed of 3 | types; the feed rebuilds the tables; published versions grow; every stored CONFLICT has a case and back; the origin column is what `sameDeviceContinuation` takes it for; DecisionLog is implemented |
| `ledger_faults` | a session and a row of it, 2 local operations and 1 of another device, feed of 3; loss, overlap, restart, failure | no operation is stranded in SENDING; a settled row has content and version the centre published; the centre hears of a row, and of the rows attached to it, in the order of the writes |
| `ledger_review` | session and a row of it, 3 local operations, feed of 4; edit, undo, review | a quiescent node shows what the centre shows; of the rows it only reads it holds what the centre holds, as soon as the feed is read to its end |
| `ledger_maintenance` | session, document, 1 local operation, feed of 4; edit, purge, expiry, block, restart | nothing of the feed is skipped silently; a blocked device is shut out |
| `ledger_live` | a session, otherwise as `ledger_faults`, with loss and restart, the other device changing the content, under fairness | every operation leaves the queue; the node reads to the end of the feed |
| `feed_order` | 3 transactions, 2 rows, pages of 2, 5 cursor values | per row, entries are committed and read in version order |
| `office` | 2 rows, 1 receipt number, 2 sessions, 1 job, 1 dispatch operation | types; `financial_status` tells the truth about the charge through saves, postings and undo; a loaded row stays where it is |
| `deferred` | 2 rows, 2 receipt numbers, 2 sessions, 2 jobs, 1 deferred action | kept rows are in live sessions under numbers of their own, and every shipment is charged once, although requests overlap, overwrite each other's verdict and execute the action again |
| `shipment` | 1 shipment, 1 delivery, 1 lot of stock, 2 jobs, 1 stop; the screens ask for REGISTERED, CONFIRMED, CANCELLED and give deliveries pending and delivered | stock is held back for somebody and leaves with a delivery; one charge; a confirmed shipment is charged and a delivered one has its receipt in the end |
| `money` | 2 vouchers, amounts 1 and 2, 1 transfer, 1 finance handler, 2 approvals, balance within ±2 | status and entries agree; the balance is the sum of the entries; cancelled transfers are cleared; settlements have both sides |
| `payroll` | 1 month, 2 advances of 1 or 2, a salary of 3, 1 handler, 2 payments | repaid is what salaries took; the status of an advance is true; a salary is paid once, within its amount |
| `payroll_net` | as `payroll` | the disagreement of section 5 |

**Why these bounds.** A conflict takes two writers and a base older than the row: two devices
and one operation each. A child before its parent, a retry that overtakes, and a batch with
one bad result take two operations of the node. A tombstone followed by a review, and a
row that goes and comes back, take three entries of the feed; a write on top of it, four.
A handler overtaking another takes two requests: the node has one in hand and at most
one it has given up (the bound named at `orphan`). The feed bound `MaxFeed` would stop
the centre from deciding operations that are already issued, which would look like a
program that is stuck; `Spare` therefore keeps one place free for each of them.
`MaxSeq` bounds the operations of a device, `BatchSize` 2 makes both a full and a partial
batch. `SYNC_PULL_BATCH_SIZE` is 1 in LedgerSync, so that something can happen after every
change, and 2 in ChangeFeed, where page and commit are what interleaves.
In `ledger_review` the other writers are the screens, the undo and the reviewer of the centre; writes of
another device, which reach the node in the same way, are in the other runs. `Converged` needs this
world: with a lost request or with print documents it fails (section 5). `ReadRowsAreTrue`
needs none of it and is proved for all (section 4); the rows it is about here are those the
screens of the centre make, edit and delete. `ledger_faults` has a session and a row of it, so that a child
may try to pass its parent.

In `office` and `deferred` two rows compete for a row number and for a receipt number (entered
again after a deletion, or slipping past the check together); two sessions are the source and the
target of a move, and the main one of them takes in what a cancelled one leaves. With two
receipt numbers, in `deferred`, two rows also move together. `office` has
one job and one operation: its interleavings are those of a job with the screens, the shipment
screens and an undo. Two jobs meet in `deferred`, which needs no operation because the centre
records none for a deferred posting. `MaxNo` 2 bounds row numbers; an undo may give a higher one.
In `shipment` two jobs are what an overtaken check takes, and one more actor is there in
the steps of `Direct`; the statuses asked for are those that lead to a charge, to a release
and to neither, all others are reached through deliveries. `Outcomes` are the statuses the screens give a
delivery: one that is under way, to which an overtaken edit also takes a delivered one back, and the one that deducts
and makes a receipt. A failed or returned delivery writes one more status of the shipment and does nothing to
stock, charge or receipt; the theorems of section 4 are about every set of them. One shipment and one lot are
enough to reserve, release, deduct and adjust in any order; that several shipments keep the
properties of the stock is proved (section 4). `MaxMoves` bounds repeated releases, `MaxStops` the stops.
In `money` two vouchers are a collection and a payout, or the two sides of a settlement, and
the handler works on either while the transfer does; two amounts tell an entry from an edited
voucher. `MaxBalance` 2 leaves out two vouchers of amount 2 on one side, and some of the deviations of section 5.
In `payroll` two advances, of which together more may be open than the salary of 3 leaves, are
what a partial repayment takes; `MaxPayments` bounds how often an edit reopens a paid salary, `MaxDeductions` what is entered on it;
`Settable` is the one status set by a request that no other step sets.
Symmetry is used in `feed_order`, over transactions and rows, in `deferred`, over handlers, rows
and receipt numbers, and in `money`, over the approvals; no definition tells these apart.

**Deadlock** is checked in the six runs of the synchronisation, where somebody must always be
able to go on. It is not checked in the others: these are offices whose numbers (vouchers,
payments, releases, row numbers) are bounded, so that in the end nobody has anything left to
do; handlers that must go on have the liveness property below.

**Fairness.** In LedgerSync (`Fairness`): the timer of `startLocalSyncWorker` runs a cycle every
few seconds and each `await` of a cycle returns or throws: weak fairness of the worker. The
centre finishes requests it has received: weak fairness of `Serve` and `ServeOrphan`. The
backoff of an operation is bounded (`nextDelay`: five minutes and a quarter at random), so an operation that stays in
RETRY is selected again and again: strong fairness per operation, because selections in which
it is not due come in between. Nothing is assumed of users, reviewers, other devices or the
administrator. Both liveness properties carry the premise `Calm`: from some moment on no loss
and no restart. Without it a network that always fails refutes them and says nothing about
the code.
In ShipmentLife: a handler that is not cut off goes on (`WF` of `Continue(j)`), because it is a
chain of awaits on one connection pool; `ConfirmedIsCharged` and `DeliveredIsReceipted` make no promise about runs in
which a handler was cut off, and excuse the shipment that was deleted and the delivery whose status was taken back.

## 4. What is proved

TLAPS checks the theorems below for every value of the constants: any sets of devices,
entities, requests, transactions, sessions, rows, shipments, transfers, months, handlers; any
number of vouchers and advances; any batch size, any combination of disturbances, any amounts
and bounds. Where a theorem has a hypothesis beyond these, the table says so; the run of the
property makes the same one. They rest on the assumptions of the modules only:
`BaseAssumption` (shapes of the constants; parents are entities), `SentinelAssumption` (the
null values are not rows, results or conflicts), `CentralAssumption` (requests are
operations), `LocalAssumption` (the node is a device, a batch holds at least one operation, the
null values are none), `LedgerAssumption` (disturbances are those of the module, the
others' operations are not the node's and write what their table can hold), `RowsAssumption` and `NoRowAssumption` (finitely many rows;
sessions have drivers; receipts are not rows; the null row is none), `PostingAssumption`
(the null operation is none),
`FeedAssumption` (a page has at least one entry; the null row is not a row),
`StockAssumption` (finitely many shipments, each wants something; bounds are numbers),
`LifeAssumption` (the null shipment is none), `AskedAssumption` (screens ask for statuses of
the table, and give deliveries statuses of theirs), `VouchersAssumption` (amounts are positive, and there are some) and
`PayrollAssumption` (finitely many months; amounts are natural numbers, those of advances positive).

| Theorem | Module | Property |
|---|---|---|
| `TypeCorrect` | `CentralSync_proofs` | `CentralTypeOK` |
| `DisputesAreReviewable` | `CentralSync_proofs` | `ConflictsHaveACase` |
| `FeedIsComplete` | `CentralSync_proofs` | `FeedRebuildsRows` |
| `VersionsNameContents` | `CentralSync_proofs` | `SoftVersionsGrow` |
| `OriginIsTheLastWriter` | `CentralSync_proofs` | `OriginIsLastDevice` |
| `ImplementsDecisionLog` | `CentralSync_proofs` | `DecidesOnce`, the refinement of DecisionLog |
| `NodeTypeCorrect` | `LedgerSync_proofs` | `LocalTypeOK` |
| `NothingIsStranded` | `LedgerSync_proofs` | `NoStrandedSending` |
| `NoChangeIsSkipped` | `LedgerSync_proofs` | `NoSilentGap` |
| `BlockedStaysOut` | `LedgerSync_proofs` | `BlockedDeviceIsShutOut`, without `failure` and `review` |
| `SettledIsPublished` | `LedgerSync_proofs` | `SettledRowsArePublished` |
| `TriesKeepOrder` | `LedgerSync_proofs` | `HeardInOrder` |
| `ReadRowsStayTrue` | `LedgerSync_proofs` | `ReadRowsAreTrue` |
| `FeedIsTyped` | `ChangeFeed_proofs` | `FeedTypeOK` |
| `RowsStayInOrder` | `ChangeFeed_proofs` | `RowsAreReadInOrder` |
| `OfficeTypes` | `LedgerOffice_proofs` | `OfficeTypeOK` |
| `NumbersStayUnique` | `LedgerOffice_proofs` | `RowNumbersAreUnique` |
| `LoadedRowsStayPut` | `LedgerOffice_proofs` | `LoadedRowsStay` |
| `RowsStayInLiveSessions` | `LedgerOffice_proofs` | `RowsInLiveSessions`, as long as nothing is undone |
| `StatusIsTrue` | `LedgerOffice_proofs` | `FinancialStatusIsTrue`, unless handlers stop between charge and tag *and* something is undone |
| `LifeTypes` | `ShipmentLife_proofs` | `LifeTypeOK` |
| `ChargesOnce` | `ShipmentLife_proofs` | `ChargedOnce` |
| `ReservationsCover` | `ShipmentLife_proofs` | `ReservedIsOwned` |
| `GoodsAreAccounted` | `ShipmentLife_proofs` | `NothingVanishes` |
| `MoneyTypes` | `Transfers_proofs` | `MoneyTypeOK` |
| `EntriesFollowStatus` | `Transfers_proofs` | `StatusFollowsEntries` |
| `BalanceStaysTrue` | `Transfers_proofs` | `BalanceIsTrue` |
| `CancelledStayCleared` | `Transfers_proofs` | `CancelledTransfersAreCleared` |
| `PaysOutOnce` | `Transfers_proofs` | `PaidOutOnce` (no run is spent on it) |
| `SettlesBothSides` | `Transfers_proofs` | `SettledOnBothSides` |
| `PayrollTypes` | `Payroll_proofs` | `PayrollTypeOK` |
| `WrittenOffIsDeducted` | `Payroll_proofs` | `RepaymentsAreDeductions` |
| `StatusFollowsRepayment` | `Payroll_proofs` | `AdvanceStatusIsTrue` |
| `PaysOnce` | `Payroll_proofs` | `PaidOnce` |
| `PaysWithinTheSalary` | `Payroll_proofs` | `NeverMoreThanTheSalary` |
| `SumShift` | `FiniteSums_proofs` | (how a sum moves when summands move) |

*The argument, synchronisation.* `StepsOfTheLedger` reduces every action of the centre to four effects on the
tables and the feed (`LedgerStep`): nothing, one written row with its entry, one erased row
with its tombstone, or a second tombstone for a row that is gone. `PushDecides` and
`ReviewCloses` do the same for results and conflicts. The invariants are then proved on
those effects, not on the twenty actions.

- `CentralTypeOK` is *not* inductive: `resolveSyncConflict` updates the stored result of its
  operation, which is a record only because an open case has a result. The inductive
  invariant is `CentralInv`, types together with `ConflictsHaveACase`.
- `FeedRebuildsRows` is inductive over `CentralInv`. The new entry is the last one about its
  row, and all others keep their last entry.
- `SoftVersionsGrow` needs `SoftRowsStay`: a row deleted softly never leaves its table, its
  version is at least all published ones, and a conflict is on a row that exists, so that no
  second tombstone is ever published for it.
- `OriginIsLastDevice` needs `Buried`: when a row is gone its last entry is a tombstone, so a
  row that is created again starts without an origin of before.
- The refinement maps a result to a verdict, the open cases to the disputes, and the feed to
  the sequence of its authors. `DecisionStep` states the steps of DecisionLog in these terms;
  each action of the centre is shown to be one of them.
- `RowsAreReadInOrder` is not inductive: nothing in it keeps an entry that is about to be
  committed behind the committed ones. `FeedInv` adds that a row is locked by one
  transaction at most (`LocksAreExclusive`), that a transaction's one pending entry carries
  the next version of its row and the highest cursor value drawn for it (`PendingIsNext`), and
  that committed and known versions do not exceed the row's (`VersionsAreCommitted`). The
  largest cursor of a page exists because cursors are bounded by the last value drawn, by
  well-founded induction (`LargestExists`).

*The argument, the node.* The inductive invariant of LedgerSync is `SyncInv`: the tables and the
feed of the centre (`CentreInv`, from CentralSync_proofs), the node (`NodeInv`), and what travels
(`NetTypeOK`). The last is where the two meet: what the node sends, and what a handler at
the centre still works on after the node has given up, is an operation of a sequence it has
issued, on the row its outbox has under it (`OwnOps`). `StepsOfTheCentre` says that a step of the whole is
one of the centre, on such an operation or of somebody else, so that the lemmas about CentralSync
apply; `OutboxStep` says that a step of the node keeps the operations of the outbox, adds one, or
empties it.

- `NoStrandedSending` needs that a batch is in hand in the push only, and that its rows are in the
  outbox (`BatchInHand`): the pull, a snapshot and a local write then never meet one.
- `NoSilentGap` is about one change at a time, but the change is read in one step and applied in
  another. `NothingBetween` carries over: nothing in scope lies between the cursor and the change in hand.
- `BlockedStaysOut` has its hypotheses because a failing replay and a review change
  what is on record for a blocked device, and are meant to.
- `SettledRowsArePublished` takes `TraceInv`, which follows a version on all of its ways: an
  ACCEPTED record names a version that was published (`RecordsAreRight`), so does each answer
  of the batch (`AnswersAreRight`, where the answers and the rest of the request make up the batch), so does each row
  of a snapshot (`ImageIsPublished`), and a mirror row is one of these or has an
  operation that is not acknowledged (`MirrorIsRight`).
- `TriesKeepOrder` takes `TriesInOrder`: an operation counts as *tried* (`Tried`) from its first
  selection on, which its status, its result, the batch or a request remember, and none that was never tried is older
  than a tried one: those tried so far are a beginning of the queue. Only the selection tries anything new, and a batch in the order of
  `device_sequence` takes every PENDING operation below its last (`BatchesAscend`): backoff holds back
  operations that were tried, never one that was not. Everything else, losses, restarts,
  conflicts and snapshots, only forgets. It is this order that keeps a child from being
  parked for a parent which was not sent yet; once both were tried, the backoff
  may bring the child first, and section 5 says what follows.
- `ReadRowsStayTrue` takes `ReadInv`. A copy of a row *follows* the centre from a position of
  the feed when the feed has news of the row further on, or the copy is what the centre holds (`Follows`).
  The mirror follows from the cursor, for every row the outbox knows nothing about
  (`MirrorFollows`), and a snapshot in hand from its own cursor (`ImageFollows`): a write of
  the centre is news to both (`FollowsOn`). A pull turns the news into the row, for
  which the last entry about it must be what the table holds (`FeedRebuildsRows`), and moves over no
  entry of the node (`NextInHand`). A hard row has no `deleted_at` (`HardRowsLive`), or a snapshot
  would leave out what the feed has. Rows of a deleted session are left out of a snapshot;
  the property excuses them, because their session may come back without them (section 5).

*The argument, the office.* `OfficeInv` is types with what the handlers have in hand: an
operation has jobs only while it is open, a job and a journal entry are about rows that exist, an undo
about a complete operation. `RowNumbersAreUnique` is part of it. `FinancialStatusIsTrue` needs
`ChargeInv`: a job between charge and tag is the only one that claims the untagged charge of its
shipment (`ClaimsCount`), and a posting an operation would take back is the one charge of
its shipment, tagged or about to be (`EntriesCount`). A handler that stops in between
(`Torn`) breaks the second of these, which only an undo needs: `StatusIsTrue` therefore covers both
cases, none stops there, or nothing is undone. `RowsInLiveSessions` has its hypothesis for a reason the proof
turned up: an undo that has locked its rows may put one back into a session that was cancelled since.

*Sums.* `Sum` is a fold of the community modules, whose value on a set is chosen by a
recursive function over subsets. `FiniteSums_proofs` derives its equations by well-founded
induction over the strict subsets of a finite set, through a minimal counterexample instead of
the library's induction rule: the empty sum, the sum with one element more, sums of equal
functions, of natural numbers, of one or two changed summands, and `SumShift`.

*Money.* The invariant is `Inv`: types, `VoucherInv` (a voucher that is not
outdated is confirmed exactly when its entry stands, and a draft has none), `JobInv` (what the running handlers have read), `TransferInv`
(the vouchers of a transfer exist, are confirmed unless outdated, a pending transfer has paid
nothing, a cancelled one is cleared unless it is bypassed) and `BalanceIsTrue`. The hard part is the
reconciliation, which writes an old sum and calls it right if *as many* entries are
there as when it read: `CountTells` shows that entries only grow, so that their number tells
two readings apart. `OneVoucherMoves` and `Assemble` reduce the actions to the vouchers they
touch.

*Shipments.* `ReservedIsOwned` is not inductive without `StockInv`: nothing was released or
deducted for a shipment that had not been reserved. What a release takes off is then either an
outstanding reservation, which leaves the sum with it, or already covered by
others. The floor at zero only ever takes off less than it should, which is the safe side of the inequality, and
the reason why the opposite one (`EveryReservationIsHeld`) fails.

*Payroll.* `SalaryOK` (a salary that was paid is not pending unless it was reopened; months
without a salary took nothing) and `AdvanceOK` (status and repaid amount belong together while nobody
enters a repayment by hand, and what is repaid of an advance is at most its amount) are the
inductive parts; a status that a request sets alone is excepted. `GreedyTakings` shows that taking from the oldest first takes at most the capacity,
by induction over the advances; it is where `NeverMoreThanTheSalary` comes from.

*Only model-checked.* Liveness (`QueueDrains`, `ReadsToTheEnd`, `ConfirmedIsCharged`,
`DeliveredIsReceipted`): outside this prover. `Converged`, which holds only where nothing is
lost, no print document is in the scope and no feed is purged; for what a node *reads*, `ReadRowsStayTrue`
needs none of that. Every other property of a passing run is a theorem.
The deviations of section 5 are counterexamples, which TLC finds.

## 5. Where code and documentation disagree

`payroll_net` has a run that finds it (`findings` in `PROJECT.json` gives lines and quotes). A
salary that is created merges the open advances into its deductions, and the page shows the
net amount after them. Paying it starts from the merged amount and takes the open advances off
once more (`salaryRepository.ts:540` and `603`), so that less is handed out than the page shows
and reports. `PaysWhatItShows` is about salaries that hold exactly the open advances
(`HoldsOpenAdvances`) and are paid with nothing else under way: what the run finds is the double deduction and nothing else.

**Deviations without a run.** Most of what follows is stated in a module under the name given
and refuted by TLC in a few steps; the rest was met while modelling. No run is
kept for them, because each follows from lines that are easy to point at.

*Synchronisation.*

- `FailedMeansNotApplied`: two handlers of one operation; the second one's failure handler
  turns a stored ACCEPTED into "The operation was not applied" (`centralSyncService.ts:344-348`).
- `AcknowledgedMeansDecided`: any change pulled for a row acknowledges all its conflicts, also
  those nobody has reviewed and the centre has never seen (`localSyncWorker.ts:346-354`).
- `ReplacedOnlyWhenResolved`: a write that commits between the count of unresolved operations
  and the truncate of a snapshot is lost with the outbox (`localSyncWorker.ts:203-208`, comment at 370).
- `QueueDrains`, when messages are lost: DEPENDENCY_PENDING is stored as a final result and
  replayed for ever (`centralSyncService.ts:213`, `245`). A parent and a child that were both tried are
  each in a backoff of their own, and the child may be sent first; before that
  `HeardInOrder` holds.
- `Converged`, with late replays: the answer to a retried operation carries the row as it was
  then and is written over what has been pulled since (`localSyncWorker.ts:300-304`; report, line 45).
- `Converged`, with print documents on the node, and nothing lost. The pull of the node's own
  creation brings back a row that the user has deleted meanwhile, because a change of this
  device ignores what waits (`localSyncWorker.ts:339`); the user deletes it again. The answer of the first
  delete writes it back once more (`300-304`), and the user deletes a third time. The answer of
  the second then has no row to write to, which throws, and both operations go
  to RETRY. The tombstone is pulled and passes the cursor; the replay of the first delete then
  writes the erased row back, everything is ACKNOWLEDGED, and the row stays for good.
- `CursorFitsSnapshot`: a transaction that drew its cursor value before a snapshot and commits
  after it is behind the cursor of the node, which never gets the change; a pull that passes
  such a value loses it in the same way (`centralSyncService.ts:440`; report, line 211).
- `ConflictsAreReviewable`: `pullOnce` flags a local operation as CONFLICT
  (`localSyncWorker.ts:339-343`) without telling the centre, and a flagged operation is never
  pushed; the review screen of the centre has no case for it. The report counts this among
  the conflicts with solutions (section 6).
- `PullSparesPending`: a local write that commits between the look at the outbox and the
  update (`localSyncWorker.ts:339-344`) is written over (report, line 209).
- `ResultsAreFinal`: one result that cannot be applied sends the whole batch, acknowledged
  rows included, back to RETRY (`localSyncWorker.ts:320`; report, line 201).
- `GrantIsRenewed`: the grant is only set when a snapshot is applied; a node in contact whose
  grant has run out does not get it back (`localOfflinePolicy.ts:30`).
- `DeviceOrder`: a conflict that is reviewed writes an earlier operation of a device over its
  later ones, and an UPSERT with the right base is not compared with
  `sync_last_device_sequence` (`centralSyncService.ts:260-267`).
- `StaleBaseConflicts`: the screens of the centre do not change `sync_origin_device_id`, so
  that a device's next operation passes over their write as a continuation
  (`centralSyncService.ts:262-265`).
- `Converged`, when the screens undo a dispatch: a snapshot leaves out the rows of a deleted
  session (`centralSyncService.ts:428-429`); when the undo brings the session back, the feed
  carries the session only, and its rows never reach a node whose snapshot is from in between.
  The screens delete no session that has rows; a review or another device may.
- A cursor of 0, and a feed purged to its last entry, are not taken for a gap
  (`centralSyncService.ts:382`); REJECTED by DEVICE_REVOKED is final on the node, so that after
  the block is lifted the operation is not sent (`localSyncWorker.ts:317`).

*Ledger office.*

- `PostedRowsHaveShipments`: the undo of the operation that created a shipment deletes it under
  another row that is posted to it, although
  `dailyLedgerDispatchOperationRepository.ts:422` says "so undo reverses only this operation's
  effects".
- `RowsInLiveSessions`, with an undo: a row may go back to a session that was alive when the undo
  looked and is cancelled before it commits ("Ensure target session is alive",
  `dailyLedgerDispatchUndoService.ts:321`). The run without operations keeps it.
- The exception in `LoadedRowsStay`: the blockers of an undo (`203-215`) are looked up before the
  rows are locked (`221`), so a row loaded in between is put back all the same.
- `FinancialStatusIsTrue`, with `Torn`: a stop between the two statements of
  `markPostedShipment` leaves a charge without the tag of its operation; an undo calls the
  shipment REVERSED and the charge stands.
- Two jobs may create two shipments for one receipt number, or two rows with one: the look
  and the insert are apart (`dailyLedgerShipmentPostingService.ts:572`). The unique
  `shipment_no` stops the second shipment, not the second row.
- `shipment_no` is unique over deleted shipments too: after an undo removed the
  shipment it created, its number can never be posted again (`dailyLedgerDispatchUndoService.ts:377`).
- A failure of the journal is swallowed, and the row then has no entry for the undo;
  `finalize` does not look at the status of the operation.
- On a desktop node the page returns before it saves the log when the posting was deferred
  (`ShipmentQuickLedger.tsx`, the `pendingCentral` branch): the operation stays PROCESSING and
  cannot be undone. The operation id it sends is the node's own and means nothing at the centre.
- A deferred posting is ACCEPTED although single rows failed
  (`dailyLedgerShipmentPostingService.ts:762`).
- An accepted deferred action is executed again: two first requests race on the insert
  (`centralSyncService.ts:227`), the failure handler of the one that loses writes
  CENTRAL_PROCESSING_FAILED over whatever is stored (`336-353`), and a third request executes what is not
  ACCEPTED (`210`). The advisory lock does not prevent it (section 2). Rows that came to wait in the
  meantime are posted without anybody asking; none is charged twice (`FinancialStatusIsTrue`).
- The client that `processDeferredAction` still uses is in the pool again (`211`, `235`): statements
  of two requests may mix in one transaction. The model keeps transactions apart.

*Shipments, deliveries and stock.*

- `ReceiptsFollowDeductions`: a receipt is made although the deduction failed or was cut off
  (`deliveryService.ts:105-110` says that finance posting cannot succeed without it): the
  finance screen makes it, or a later edit.
- `TerminalStays`: an update that was overtaken, or an edit of a delivery, writes over a
  terminal status (`shipmentService.ts:476`, `deliveryRepository.ts:236`). Editing a delivered
  delivery imposes DELIVERED again.
- `EveryReservationIsHeld`: `releaseStock` takes off what was reserved, also when it was
  released or deducted before, and so releases what others hold
  (`shipmentInventoryMovementRepository.ts:129`, "Safe to call even if reservations were already
  released").
- A receipt that was cancelled cannot be made again: `autoGenerateReceiptFromDelivery` takes a
  cancelled one for none (`financeRepository.ts:2451-2454`) and its insert fails on
  `unique (delivery_id)`. The delivery stays delivered; `DeliveredIsReceipted` asks for a receipt, standing or not.
- The cancel button (`transitionStatus`) and the deletion of a shipment never release its stock.
- A failed deduction answers 409 although the delivery is committed. A delivery that sets
  DELIVERED does not post the charge of its shipment.

*Money.*

- `PayoutsAreCovered`: the collection of a transfer is cancelled on the finance screen, and the
  transfer is paid out all the same; the refusal of `transfersService.ts:471` looks only
  whether there *is* a collection voucher.
- Two handlers of the finance screens on one voucher write by what each has read: a voucher
  may be confirmed after it was cancelled, or cancelled with its entry standing. The vouchers in `outdated` are
  those.
- The listing of the cashboxes recomputes the balances and may write over what commits
  meanwhile; the next listing repairs it (`drift`).
- `updatePaymentVoucher` (`financeRepository.ts:2319-2380`) begins a transaction without a
  handler that rolls it back. A failing statement aborts the transaction in the database, but an error of
  JavaScript after the update, such as the refusal of a currency (`1593`), gives the client back to the pool with the
  transaction open, and what the next user of the client commits may commit it. In the model
  (`Stop`) an error rolls back. Changing the amount of a confirmed voucher leaves its entry.
- `POST /transfers` takes any status (`routes/transfers.ts:31`, `121`) and collects the money all the
  same: a transfer is born CANCELLED with its collection standing, or COMPLETED and never paid
  out. `CancelledTransfersAreCleared` is about the transfers `cancelTransfer` cancelled.
- `deleteTransfer` keeps the money of the transfer although its audit entry says it was
  converted to a cancellation; `PUT /:id/status` reopens ended transfers; two confirmations of
  one shipment may create two linked transfers.
- A settlement whose draft is edited during its approval gets a receipt for the old amount.

*Payroll.*

- An edit with an old form makes a paid salary pending again, and it is paid a second time; an
  edit may also set it paid without a voucher. Cancelling the voucher leaves it paid.
- A request may set the status of an advance alone (`salaryRoutes.ts:63-70`), CANCELLED
  with repayments included, or open again with everything repaid (`restated`).
- The page sends the repaid amount of an advance as it computes it from what it loaded and
  writes over what a payment has deducted meanwhile (`byHand`).
- All open advances are merged into a new salary, but the later change of one is carried only
  to the salary of its own month (`salaryRepository.ts:402`), in a statement that a stop may cut
  off; two edits of one advance at once carry a difference that was never there.
- Deductions entered by an edit are shown and not paid by; with them `net_amount` may be
  negative. A deleted month cannot be entered again.

## 6. What is not modelled

- *Sync.* `VALIDATION_REJECTED` and the checks of tokens, hashes and payload shapes, which
  answer before anything is read or written; `preferNewerLedgerSession` and the renumbering of
  sessions that collide on a node; optional foreign keys, which `normalizeMissingForeignKeys`
  sets to null (the required parent is modelled, `ParentHere`); the read-only reference
  tables of a snapshot, local backups, the status display. `Parent` is a constant here; moves of
  rows are in LedgerRows. The other devices of LedgerSync push, they have no state of their own.
  Removal of feed entries is not done by this code (`Purge` is external); `retention_gap` is,
  and is what the run is about. `sameBusinessPayload` compares the hash of the row as the
  database driver gives it (dates, numbers as strings) with that of the JSON payload
  (`centralSyncService.ts:88-94`, `payloadHash.ts:3-13`), which hardly ever agree, so that what is `SameBusiness` here
  mostly goes the way of an update or a conflict there; both ways are in the model, and no property depends on which is
  taken. A node draws `device_sequence` before it commits (`112:347`) and the model in one step: writes of different rows
  may be numbered in another order than committed, those of a row, or of a row and its parent, not, because of the row
  locks and the foreign keys. `HeardInOrder` is about the latter only.
- *Office.* The money transfers an undo cancels with its shipments; the saved dispatch
  definitions and logs; print documents; the lookups of clients and parties, which only fill in
  columns; idempotency keys: no request is assumed to carry one; changes of
  the receipt number by an update of the row (a row keeps the one it is entered with).
- *Shipments.* The accounts and amounts of the journal (a charge is counted, not split);
  shipment lines beyond the quantity they ask for; stock counts and imports.
- *Money.* Currencies, exchange, commissions, expenses; more than one cashbox. *Payroll:*
  currencies, edits of the basic amount, records created as paid.
- *Bilateral reconciliation*: `sendToAgent` and `markDisputed` look at the status before they write; `approve`
  looks at none and writes the reconciliation, that of the agent and the document one after the other. *Manifests*: lists; their loading enters as
  `LoadShipment`. *Authentication sessions* and *request guards*: tokens are checked before the
  handlers modelled here; refreshes with one token at once are a listed hazard without a
  property. *Backup and restore, reports, user interfaces*: external tools, read-only SQL and
  rendering; the pages are modelled as far as they order requests (the dispatch save of
  `ShipmentQuickLedger.tsx`, the repayment of `Salaries.tsx`).

## 7. What could come next

1. `Reconciliation` and `AuthSessions` (with the idempotency keys): refresh rotation against
   retries, and the approval of a reconciliation, which looks at no status, against its dispute.
2. The cancellation of transfers by an undo, composing LedgerOffice with Transfers.
3. Manifests with the loading of their shipments.
4. Proofs: `Converged` in the worlds where it holds, and the refinements of the offices, once
   their abstract specifications are stated.
