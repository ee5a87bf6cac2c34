# Verification of the warehouse and shop back end

TLA+ models, TLC runs and TLAPS proofs for `be-wms-ecom`: a NestJS monorepo with
a shop (`apps/ecommerce`), a warehouse management system (`apps/wms`) and a
notifier (`apps/notification`). Each application has its own MongoDB database;
they only talk through BullMQ queues (`libs/events`).

`PROJECT.json` maps every definition to the lines it models and lists the runs,
their mutants, the findings, the hazards and the theorems.

## 1. The system

### Components, state, operations

| Component | State | Operations | What makes it correct |
|---|---|---|---|
| order-queue and workers (`libs/events`, four `@Processor(QUEUES.ORDER)`) | jobs waiting, delayed, active | add, take, complete, retry with back-off | a job reaches the handler it was meant for and ends |
| stock reservation (`wms/reservation`, `wms/stock/stock.repository.ts`) | `stock_balances`, `stock_movements` | reserve, release | never oversell; all lines or none; at most once; balance equals ledger; an answer per request |
| goods issue (`wms/goods-issue`) | `goods_issues` | create, confirm a line, announce | picks only what was reserved; announced when picked |
| checkout, order lifecycle, payment gateway (`ecommerce/order`) | `orders`, `payment_transactions`, payment links | check out, reserve replies, payments, cancel, return, callbacks | the three statuses agree with the ledger and with the warehouse |
| cart (`ecommerce/cart`) | `carts` | add, set, remove, clear, check out, restore | no more in a cart than was asked for |
| catalog and its stock counter (`ecommerce/catalog`) | products, variants with `availableQty`, `processed_events` | apply a change of stock once, draft a variant once, edit | follows the warehouse; one variant per item |
| shipping (`wms/shipping`) | `carriers`, `shipments` | create, assign, update | legal transitions; each milestone told once and truly |
| print jobs (`wms/print-job`) | `print_jobs`, blanks held | create, consume, complete | holds accounted for; nothing printed without a blank |
| goods return, scrap notes, stock count | a document with a status, stock | create, inspect or count, approve, cancel | books agree; moves stock once; the shop hears the truth |
| goods receipt notes | notes, stock, received quantities, put-away tasks | create, edit, submit, approve, reject | booked once; the order counts what came |
| expired lots | `lots`, `expired` of the balance | daily scan | a lot expires once |
| items, barcodes, SKU options (`wms/stock`) | `warehouse_items`, the register and its counter, options | make, edit, delete | a barcode is one item's |
| suppliers, purchase orders | suppliers, quotes, orders | make, quote, order, change status | numbers without a gap; refused only if outrun |
| warehouse layout (`wms/location`) | zones, racks, shelves, cells, template, revision; their places, aisles, gates | edit one, save all | no orphan, no stock without a cell; a sound floor plan |
| put-away, reconciliation, suggestions, navigation | tasks, stock per cell | confirm, assign, suggest, find a way | no box into a cell without room; stock moved, not made; a plan that works |
| users, accounts, reports, notifier | documents and read models | | no protocol with the rest |

### How they interact

```
            stock.reserve_requested, order.cancelled,
            order.ready_to_fulfill, order.returned
  shop  ------------------ order-queue ------------------>  warehouse
   |  ^---- auto.cancel (its own job on the same queue)        |
   |  <------------ order-reply-queue --------------------     |  stock.reserved / reserve_failed
   |  <------------ shipment-queue -----------------------     |  goods.issued, print.completed, shipment.*
   |  ------------- print-queue -------------------------->    |
   |  <------------ stock-queue --------------------------     |  stock.changed, stock.expired, warehouse_item.created
  PayOS: payment links, webhooks           shipment-internal-queue: goods issue -> shipping
```

Inside the warehouse everything meets on stock: reservation, issue, print jobs
and documents on `stock_balances` and `stock_movements`; receipts, put-away,
counts and layout edits on `inventory_stocks` and the cells.

### What is hard here

* **Competing consumers.** Four workers of two applications listen on
  `order-queue`; each takes whatever comes next and returns normally from a
  name it does not know.
* **Check, then transaction.** The warehouse looks for duplicates, amounts and
  statuses before it opens the transaction that acts on the answer, and emits
  after the commit. A request may die in between.
* **Snapshots.** A transaction reads one snapshot and conflicts only on what both
  write. Where two edits would break a rule together, only a document that both
  write - a revision, a cell, a shelf locked by `updatedAt` - keeps them apart.
* **Read, await, write.** Every handler of the shop reads a document, decides,
  and writes the whole of it without a condition.
* **Retries.** A job has five attempts with exponential back-off, so an early job
  may be processed after a later one, and again after it was done.
* **Idempotency marks** (ledger rows, movements, processed events) that are
  written before the effect they stand for, or apart from it.

## 2. Modules

| Module | Models | Composes |
|---|---|---|
| `OrderQueue` | `order-queue`, its four workers and their `switch(job.name)` | |
| `Reservation` | `ReservationService`, `GoodsIssueService`, the balance and its ledger | extends `OrderQueue` |
| `StockPromise` | abstract specification: what the warehouse promises about held stock | implemented by `Reservation` |
| `OrderLifecycle` | `CheckoutService`, `OrderService`, `PaymentService`, the shop's consumers | |
| `OrderSaga` | shop and warehouse up to the goods issue | extends `Reservation`, `Shop == INSTANCE OrderLifecycle` |
| `Shipment` | `ShipmentService`, `CarrierService` | |
| `Delivery` | shop and parcel | extends `OrderLifecycle`, `Parcel == INSTANCE Shipment`; refines `Shop == INSTANCE OrderLifecycle` |
| `StockLedger` | `StockRepository` as documents use it, and the requests that read, commit, tell, and may die | |
| `GoodsReturn`, `ScrapNote`, `StockCount`, `Receiving` | one document each | extend `StockLedger` |
| `LotExpiry` | the daily scan | extends `StockLedger` |
| `Documents` | the five together | extends them |
| `PrintJob` | print jobs, and orders after the same blanks | extends `StockLedger` |
| `Transactions` | MongoDB transactions: snapshot, conflict, retry | |
| `WarehouseLayout` | edits of zones, racks, shelves, cells, template | extends `Transactions` |
| `PutAway` | `PutAwayService`, `InventoryReconciliationService` | extends `WarehouseLayout` |
| `CellMigration` | the script `migrate-storage-cells` | extends `PutAway` |
| `Storage` | the floor: migration, then edits, receipts, put-away, assignment | extends `CellMigration` |
| `StockCounter`, `Cart` | the shop's copy of a stock; a customer's cart | |
| `Storefront` | one variant: counted, shown, bought | extends both |
| `WarehouseGeometry` | the floor plan, its validator, its edits | |
| `Navigation` | ways on the aisles (recursive) | extends `WarehouseGeometry` |
| `Suggestions` | `PutAwaySuggestionService` | extends `Navigation` |
| `ItemMaster` | items, barcodes, SKUs | extends `Transactions` |
| `Purchasing` | suppliers, quotes, purchase orders | extends `ItemMaster` |
| `ItemSync` | the shop's draft of a warehouse item | |
| `Procurement` | master data of both applications | extends `Purchasing`, `ItemSync` |
| `MC...` | the instances TLC checks | |
| `Sums` | lemmas on the sums the modules add up with | |
| `OrderLifecycle_proofs`, `Delivery_proofs`, `Storage_proofs`, `Storefront_proofs`, `Procurement_proofs` | theorems about the module each is named after, and in `Storage_proofs` about `WarehouseGeometry` too | extend it; all but the first two use `Sums`; `Delivery_proofs` uses what is proved of the order |
| `OrderSaga_proofs` | theorems about `Reservation` and then `OrderSaga` | extends `OrderSaga`, `Sums`; uses what is proved of the order |
| `Documents_proofs` | lemmas on the ledger, then theorems about `Documents` and about `PrintJob`, which book on it | extends `Documents`, `PrintJob`, `Sums` |

`w ++ d` and `x ::= v` in `Transactions` are TLC's `@@` and `:>` under names of their
own: the prover has no definition of those two.

### State and actions against the code

**`OrderQueue`.** `waiting` is the FIFO of ready jobs, `delayed` a bag of jobs
in back-off or with a delay, `active[w]` the job of worker `w`, `step[w]` the
place in its handler. `Take` hands the head to any free worker, `Entry` is the
`switch`, `Complete` acknowledges, `Retry` is a throw or a crash at any step: a
job goes to `delayed` with one attempt more, or is dropped after the last. A
worker runs one job at a time (no `concurrency` is set anywhere) and one process
of each application runs (the compose files start one container each). BullMQ
itself is external, modelled from how the code calls it. A job whose lock is lost
while its handler still runs is not modelled.

**`Reservation`.** A MongoDB transaction is one action (`ReserveCommit`,
`ReleaseCommit`, `ConfirmLine`); the reads before it (`ReserveCheck`,
`ReleaseCheck`, `IssueCheck`) and the emission after it (`EmitReserved`,
`EmitReserveFailed`, `Announce`) are steps of their own, and the handler may die
between any two. `stock_movements` is kept as quantities per order and item
(`reserveMv`, `releaseMv`), so that a second booking would show as a double
quantity. `replies` is a set because the reply jobs carry a job id per order and
verdict, which the queue keeps (the last thousand completed jobs) and refuses a
second time. The same code relies on the queue accepting ids with a colon
(`reservation:<id>`); whether a given version of BullMQ does is outside this
repository, and the model takes the code at its word. Left out: which cell and
lot a picker scans (he scans one that holds the quantity), `stock.low`,
suggestions. The lines of an order that name one item are one here: `IssueLines` and
`ConfirmLine` merge them, where the code picks and books each. `expired` is constant
here; the daily scan is `LotExpiry`.

**`OrderLifecycle`.** `doc[o]` is the order with its three statuses, `ledger[o]` the
payment rows by transaction id, in per cent of the total (the code compares ratios with
0.29, 0.49, 0.59 and 0.99), `link[o]` the PayOS links by phase, `run[p]` the handler
each caller runs: its step, the document it read (`seen`) and the one it decided on
(`next`). Callers are the consumers (one job at a time each) and the slots for HTTP
requests. Every database or queue call is a step, `Fail` kills a handler anywhere.
`sent` counts the jobs the shop adds. In this module alone the warehouse may say
anything of `Said` it could have been led to say (`WarehouseSays`); in `OrderSaga` and
in `Delivery` it is the real one. Left out: the cart (it is `Cart`), mails, prices
(amounts are percentages), the seven days of a return (time may always still be inside
them). The phases' links are closed in one step, and reading the document and creating a
link at PayOS is one step. A manual payment always carries the same reference here;
`ManualAmount` is what is typed.

**`OrderSaga`.** Each step of the shop that counts up `sent` appends the job to
`order-queue` in the same step (`Posted`); what the warehouse replied or announced
is the shop's inbox, by substitution. `auto.cancel` is a delayed job of the shared
queue and its handler runs on `ReserveConsumer`.

**`Shipment`, `Delivery`.** `shipment[o]` is the document, `courier[k]` what a request
has read and still has to tell. `UpdateStatus` in the code is a read with a check of the
transition, a swap under the status that was read, and an event: three steps here
(`PushStatus` is the swap), with `CourierDies` between them. Creation is the worker of
`goods.issued`, which takes an older shipment as done. That event is added to two queues
at once (`goods-issue.service.ts:301-304`), and either add may fail alone: the
warehouse's own is `issued`, fed by `IssueToInternal` once the order was sent to be
fulfilled, and the shop's is its inbox. So a parcel may be made, and its way told,
before the shop hears of the goods issue or although it never does; the warehouse that
`OrderLifecycle` assumes allows for that (`Sayable`, `Picked`). In `Delivery` the queue
of `Shipment` *is* the shop's inbox (`said <- inbox`), so a step of a parcel is a step
of the warehouse of `OrderLifecycle`. The run of `Delivery` has one attempt per message;
that a message processed a second time does no harm is what the theorems
`CodClosedIsAlwaysCollected` and `DeliveredIsCollected` say. Left out: pictures,
addresses, tracking numbers.

**`StockLedger`.** `inventory` is a quantity per row of item,
place and lot, `balance` the one document per item, `moved[ref]` the movements of
a document (summed per row, so that a second booking shows), `told[ref]` the
`stock.changed` jobs (summed; a job id makes the second of one document a no-op).
`UpsertInventory`, `UpsertBalance`, `InsertMovements` and `Tell` are the calls of
`StockRepository`; a transaction makes several of them in one action. A request is
at a step with what it has read, so that its decision may be stale; `Die` ends it
anywhere, with no one to take it up again (there is no retry of HTTP requests).

**The documents.** Each action is a handler's read, its transaction or its
events. `GoodsReturn` starts from `order.returned` or by hand; a damaged line is
booked in and scrapped by the same transaction (reference `"rma"`).
`StockCount` keeps the code's lookup of a line by item, shelf and lot without
the cell, and its one job id per SKU. `Receiving` has a note's whole life,
numbering by count with three tries, and an approval that books, counts towards
the order and makes the task. `LotExpiry` sums a lot before the transaction that
moves it. Names, notes, prices and pictures (but for their count, which the
guard looks at) are left out. A purchase order may name an item twice: as in the code,
`applyReceivedQty` adds to the first line of an item, and the status of the order
looks, for every line of an item, at the last received quantity found for it.

**`PrintJob`.** A job per order; creation reads what is available, then holds it
in a transaction that does not look again. A line is found by its blank, as
`consumeItem` and `completeItem` do, so of two lines on one blank only the first
is ever used. `OrderReserves` stands for other orders after the same blanks.

**`Transactions`.** `db` maps a document to what is committed; a handler that runs
is `tx[s]`. `OpenTx` computes, on the database as it is then, everything that
will be written; the first to commit makes every other that writes one of its
documents `stale`, and `RetryTx` runs the callback again with what its handler had
read *before* the transaction, as `withTransaction` does. A lock is a write of a
document as it was. A duplicate key ends a MongoDB transaction, so the three
attempts of `BarcodeService` inside one session read nothing any more
(`CreateRefused`). `AbandonTx` is a rule that refuses, or a crash.

**`WarehouseLayout`, `PutAway`, `CellMigration`, `Storage`.** Documents are tuples such as
`<<"cell", shelf, bay>>`; every edit ends by writing the revision (`Revised`).
The edits look for stock inside the transaction; put-away and assignment lock the
cell and, for put-away, the shelf. A cell's `made` distinguishes it from the one
its bay had before. Weight is left out and a box has one dimension: the
code adds volumes and compares three sides in the same way. The row of an item in a
cell has one box size (`Snapshot`), 0 for none: each put-away writes the one of its line
over it, and each assignment the one its caller sends (`inventory-reconciliation.dto.ts:49-53`,
`upsertInventory` at `stock.repository.ts:286-303`). `Volume` multiplies all of a row by it, as
`findOccupiedVolumeForCell` (347-370) does. `CellMigration` is the
one-time script in the order of its writes, none of them in a transaction; it may
die between any two and is then started again, and the handlers run once it has
ended. Left out of it: indexes, barcodes, the status of old notes.

**`StockCounter`, `Cart`.** A document of the warehouse commits a change (`Commit`) and
tells it in a later step (`Tell`): in another order than they were committed, or never,
since nobody tells what a process that died in between left untold. What orders
reserve and take is not told to the shop at all, so the changes that are told may add
up to less than nothing. Jobs of the stock queue come at least once and in any order;
`ApplyStockDeltaOnce` marks and adds in one transaction and clamps at zero. Every user
of a cart finds the oldest ACTIVE one, keeps a copy of its lines and saves them whole;
the checkout and the worker that restores the lines of a failed order are two of them.
A checkout names each line as often as it likes (`named`): `checkout.service.ts:92-115`
goes through the request's items without removing doubles, orders a line each time, and
a failed order is put back each time. `asked` is a history of what was asked for.

**`WarehouseGeometry`, `Navigation`, `Suggestions`.** The validator's rules and
the code's formulas in whole metres with even sizes, so that the centre of a
rectangle is a point; ways in tenths of a metre, rounded down. The tolerances of
the code (0.35 m, 1 mm) then decide nothing. `WarehouseGeometry` has each edit in
one step: `Storage` is where their transactions race. `Suggest` reads a
layout, cells and the ways; `Accepted` is what `confirmLine` will allow. The
configured fill factor of the suggestions is set to the 75 % that put-away has
hard-coded; with another, the two disagree. Every row there has the item's one box
volume; rows whose boxes got another size are in `PutAway` only.

**`ItemMaster`, `Purchasing`, `ItemSync`.** An item, its barcode and the counter
are one transaction, the event follows the commit and its failure is only logged
(`Announce`). EAN-13 codes are computed digit by digit, since `CodesAgree` is about
them. An order reads supplier, item, quote and the day's count in a step each.
The sync finds or makes the product outside the transaction that marks the job and
makes the variant.

## 3. Properties and runs

| Run | Instance | Properties | Shows |
|---|---|---|---|
| `ReservationRace` | 2 orders, 1 sku (2 on the shelf, 1 expired), 2 jobs at a time, 1 attempt | `TypeOK NoOversell AllOrNothing ChecksStillHold ReplyTruthful` | races for the last unit |
| `ReservationLines` | 3 orders, 3 skus (1 unknown), 1 job at a time, 2 attempts | `BalanceMatchesLedger AnnouncedWhenPicked KeepsPromise JobsFinish` | several lines, two orders after one box; refinement and liveness |
| `OrderPayment` | 1 order, plain or printed, COD or ONLINE, 3 HTTP requests, 2 at a time, 60 % paid by hand | `PaidIsBacked ReadyIsEarned FullRunIsEarned` | payments against cancellation, deadline, print jobs and replies |
| `OrderDelivery` | 1 COD order with its parcel, 1 slot for 2 requests, 2 couriers, 5 updates, 110 % paid by hand | `CodClosedIsCollected EventsAreTrue ShopFollowsParcel ParcelIsWarehouse` | delivery, return to sender, return by the customer, with requests about the parcel that race and die |
| `Saga` | a COD and an ONLINE order, 1 cup, 2 requests, 60 % paid by hand | `IssuedIsEarned ConfirmedWasReserved` | both applications, competition for stock, the deadline on the shared queue |
| `Documents` | a cup on two shelves and in a cell, a perishable jar; a return, scrap notes, a count and expiry (5 requests), receipts (6), receipts and expiry (4), on an order with two lines of a cup; 2 requests at a time | `BooksAgree ToldWasBooked OnlyGoodIsTold OrderCountsReceipts BookedOnce` | documents that race on stock, each approved by two |
| `Printing` | 2 jobs on 2 blanks, 2 printers, 5 requests, 1 order | `HoldsAreAccounted CompletedIsPrinted` | holds on blanks |
| `Storage` | 2 handlers, 1 zone, 2 racks, 2 shelves of up to 2 bays, 4 edits of a floor that is bare, 2 of one that is furnished, 1 of one older than cells, after its migration; boxes of three sizes | `NoOrphans CellStockIsHeld CellsAreExplained StockIsMoved MigrationIsWhole NeverOverfilled` | transactions that conflict; a migration that dies |
| `Storefront` | 4 changes of stock or requests of 2 tabs in all, 3 of either, 2 skus, a line named up to twice | `CopySinceFloor NeverMoreThanAsked` | the copy of a stock told in any order or in part, and a cart that is overwritten |
| `Layout` | 2 halls, 2 sizes of racks, 1 zone, 2 racks, 3 aisles that form a ring, a gate on two of them | `RulesAreExact WaysAreShortest SavedAccessIsNearest SuggestionsSuffice` | every floor plan the edits can make, and every way and suggestion on it |
| `Procurement` | items at once and drafted; an item edited and ordered by two; changes of suppliers and quotes | `CodesAgree RefusedWhenOutrun SyncIsOnce` | master data made by several |
| `QueueIgnored` | that of `ReservationLines` | `NoJobIgnored`, violated | a job the wrong worker takes is lost |

Distinct states: `ReservationRace` 860 000, `ReservationLines` 248 000,
`OrderPayment` 1 220 000, `OrderDelivery` 1 253 000, `Saga` 311 000, `Documents`
519 000, `Printing` 102 000, `Storage` 190 000, `Storefront` 2 925 000, `Layout`
10 600 (each with every way and suggestion computed), `Procurement` 615 000.

**Bounds.** Two orders are what a race for stock needs, and two requests, couriers, tabs
or handlers what one needs to run between two steps of another. Three skus give a line
that fails after one that passed. One document is what handlers of the shop meet on;
three requests are the order itself and two that race. Two attempts let a message be
processed again after a crash and after later ones. In `Documents` a request that makes
a document leaves four (five for receipts) for two approvals, or an approval and a
cancellation, and what goes before them; what a receipt and a count do to each other's
rows passes through `StockLedger` alone, so receipts run apart from the other documents
but with expiry, which shares their lots. In `Storage` four edits build a layout up or
down beside another, two of a furnished one race with each other and with what is put
away and assigned, and give a bay its cell anew after one was taken away. The ring of
three aisles is the smallest plan on which two ways lead to one rack. Every bound is a
constant or a guard marked `bound:` in its module: `MaxPending`, `MaxRequests`,
`MaxAttempts` (the code's five), `MaxUpdates`, `Mixes` (how many requests of each sort),
`MaxOrders`, `MaxRevisions`, `MaxOperations`, `MaxDelta`, `MaxChanges`, `MaxAsked`,
`MaxNamed`, `MaxTotal`, `Sizes`, `Span`. Where the environment stops at a bound,
deadlock is not checked; it is in the runs of `Reservation`. Symmetry is used only over
slots, sessions, tabs, couriers, the SKUs of the cart and workers, which nothing tells
apart, and never in the run with liveness.

**Fairness** is assumed in `Reservation`'s `FairSpec` only: workers poll and
timers fire (`QueueFairness`), and a handler that can take a step takes it or
throws, with the duplicate key of a goods issue an error that is thrown
(`HandlerFairness`). Nothing is assumed of users, pickers or crashes. No other
liveness is stated, since outside the queue nothing is tried again: what a
request that dies leaves undone stays undone.

**Refinements.** `KeepsPromise`: `Reservation` implements `StockPromise`.
`ParcelIsWarehouse`: every message `Shipment` puts into the shop's inbox is one
`OrderLifecycle` allows its warehouse to say (of a parcel also before `goods.issued`),
so what is checked there against an arbitrary warehouse holds with the real service.

### Disagreements between the code and its words

`QueueIgnored` is a run: a comment says that several workers on the queue do not
get in each other's way, each switching on the name of the job; but the worker that
took a job of another's completes it, and it is lost.

These are known without a run of their own; each is a definition beside the
properties, and TLC refutes it when it is added to the run of its module:

| Definition | What happens |
|---|---|
| `HandledMeansAnswered` (`Reservation`) | after a crash between commit and reply the retry says nothing |
| `DuplicateWasProcessed`, `GatewayRevivesNothing` (`OrderLifecycle`) | a crash after the ledger row makes the repeated webhook a no-op; a payment in flight overwrites a cancellation |
| `IssueBacked`, `ReleaseSparesIssues` (`OrderSaga`) | an order without reservation is picked from what others reserved; stock under a goods issue is given back |
| `AvailableIsSellable` (`Documents`) | the sum of an expired lot is stale when its transaction moves it |
| `ApprovedIsFinal` (`Documents`) | a counter's late write, or a second approval, reopens an approved count |
| `BookedIsApproved`, `ApprovedIsSealed` (`Receiving`) | the lines booked are those read before the approval; a picture is added after it |
| `CompletedIsWhole` (`Receiving`) | `applyReceivedQty` (`purchase-order.service.ts:366`) completes an order whose second line of an item never came; its test (`purchase-order.service.spec.ts:612`) says COMPLETED when every line reached what was expected |
| `NotOverReceived` (`Receiving`) | two notes of one order are each checked against it as it was |
| `NextNumberIsFree` (`Receiving`, two orders) | after a deletion the count is a number already given, for all three tries |
| `StagingSharesRack` (`Storage`) | staging shelves come to stand in two racks |

Met on the way, and part of the models: the migration, when it dies between
clearing the staging flags and setting them, finds no staging rack the next time
unless a name says which it is; `NO_NAVIGATION_PATH` is also the warning
when every cell that fits is full; a task made from a staging row that
reconciliation then assigns elsewhere cannot be finished; two completions of one
print line book twice, and a line that holds nothing can never be completed; a
product slug taken at the same moment loses the sync job without a variant; the
size of an item is locked by a check before the write, and its unit not at
all once it is ordered; a status change of a supplier that was read before takes
it off the blacklist; a packaging SKU is ambiguous when a size and a colour
share a code; a fall of the stock that the shop processes before the rise it follows,
or whose rise is never told, is clamped away, and the copy stays above what was told
(`CopySinceFloor` says how far); a checkout that names a cart line twice orders it twice,
so that the order as a whole holds more than was put into the cart; a put-away or an
assignment with another box size gives it to all boxes of the item in that cell, after
a check with the old one. In a cell of width 3 that holds one box of 1, one box of 2
passes, and leaves two of 2. `NeverOverfilled` says nothing of such a step (`Resized`),
because of such a step it would be false.

## 4. Proofs

The theorems hold for every value of the constants that the named assumptions allow:
any number of orders, items, places, lots, requests, couriers and attempts, and any
quantities. What a run shows on its small instance the theorem says of all of them.

| Theorem | States |
|---|---|
| **`OrderSaga_proofs`**, on `Reservation`: `TypeCorrect`, `NeverOversold`, `LedgerAllOrNothing`, `ChecksHold`, `RepliesTruthful` | `TypeOK`, `NoOversell`, `AllOrNothing`, `ChecksStillHold`, `ReplyTruthful` |
| `BalanceAlwaysMatches`, `AnnouncedAfterPicking` | `BalanceMatchesLedger`, `AnnouncedWhenPicked` |
| `Refinement` | `KeepsPromise`: `Reservation` implements `StockPromise` |
| **`OrderLifecycle_proofs`**: `TypeCorrect`, `PaidIsAlwaysBacked`, `ReadyIsAlwaysEarned`, `FullRunIsAlwaysEarned`, `CodClosedIsAlwaysCollected` | `TypeOK`, `PaidIsBacked`, `ReadyIsEarned`, `FullRunIsEarned`, `CodClosedIsCollected`, with a warehouse that may say anything of `Said` |
| **`Delivery_proofs`**: `DeliveryTypeCorrect`, `EventsAreAlwaysTrue`, `ShopAlwaysFollows`, `DeliveredIsCollected` | types, `EventsAreTrue`, `ShopFollowsParcel`, `CodClosedIsCollected` with the real parcel |
| `ParcelImplementsWarehouse` | `ParcelIsWarehouse`: shop and parcel implement the shop with its assumed warehouse |
| **`OrderSaga_proofs`**, on `OrderSaga`: `IssuedIsAlwaysEarned`, `ConfirmedIsAlwaysReserved`, `PartsStaySafe` | `IssuedIsEarned`, `ConfirmedWasReserved`, and the invariants of both parts |
| **`Documents_proofs`**, on `Documents`: `DocumentsTypeCorrect`, `BooksAlwaysAgree`, `ToldIsAlwaysBooked`, `OnlyGoodIsEverTold`, `OrdersAlwaysCountReceipts`, `NotesAreBookedOnce` | types, `BooksAgree`, `ToldWasBooked`, `OnlyGoodIsTold`, `OrderCountsReceipts`, `BookedOnce` |
| **`Documents_proofs`**, on `PrintJob`: `PrintTypeCorrect`, `HoldsAreAlwaysAccounted`, `CompletedIsAlwaysPrinted`, `PrintBooksAlwaysAgree` | types, `HoldsAreAccounted`, `CompletedIsPrinted`, and `BooksAgree` of the print jobs too |
| **`Storage_proofs`**: `TypeCorrect`, `OrphansNever`, `StockStaysHeld`, `CellsExplained` | `TypeOK`, `NoOrphans`, `CellStockIsHeld`, `CellsAreExplained` |
| `StockConserved`, `RoomIsKept`, `MigrationEndsWhole` | `StockIsMoved`, `NeverOverfilled`, `MigrationIsWhole` |
| **`Storage_proofs`**, on `WarehouseGeometry`: `LayoutsAreSound`, `AccessPointsAreNearest` | `RulesAreExact`, `SavedAccessIsNearest` |
| **`Storefront_proofs`**: `StorefrontTypeCorrect`, `CopyCountsOnce`, `NeverMoreInCart` | types, `CopySinceFloor`, `NeverMoreThanAsked` |
| **`Procurement_proofs`**: `BarcodesAgree`, `RefusalsAreEarned`, `SyncedOnce` | `CodesAgree`, `RefusedWhenOutrun`, `SyncIsOnce` |

**Assumptions**, each named beside the constants it is about. `QueueAssumption`,
`ReservationAssumption`: at least one attempt, finitely many orders, an order with a
line, no more expired than on the shelf. `LifecycleAssumption`, `SaidAssumption`,
`SagaAssumption`, `DeliveryAssumption`: callers and requests are told apart, a manual
amount is positive, the warehouse says only messages there are, and those of a parcel
only through `Shipment`. `LedgerAssumption`, `StartAssumption`: finitely many items,
places, lots and references, the books agree at first. `ReceivingAssumption`,
`ReturnedAssumption`, `ScrapAssumption`, `CountAssumption`, `DocumentsAssumption`: a lot
belongs to an item, staging is a shelf, quantities are natural, every document has its
reference. `PrintAssumption`: a job has its reference, its lines want at least one cup,
and no item is both a design and a blank; `resolveOutputItem` alone makes a CUP_PRINTED
item, of a blank it found, and no handler edits the type of an item. `LayoutAssumption`,
`StorageAssumption`, `PutAwayAssumption`: finitely many shelves and items, a width
divides into its bays (the abstraction of lengths that the model makes), what the floor
begins with is in order, boxes have a width, also those a caller sends.
`MigrationAssumption` and `BeforeCells`: the script has a level and a width to fall back
on, and a floor from before cells has no stock in one, since it is the script that gives
older rows their `cellId: null` (`migrate-storage-cells.ts`). `CartAssumption`,
`CounterAssumption`: finitely many tabs, none of which is the worker, and bounds that
are numbers. `ItemAssumption`: finitely many items, ids of new items are not those of
old ones, nor the mark of a free code. `GeometryAssumption`: forms are integers, and the
sizes a canvas or the template may be given are positive, which `CanvasPatchDto` and
`UpdateRackTemplateDto` ask for on both ways to edit them (`@Min(0.1)`); those of zones
and aisles may be anything. TLC evaluates each on every run of its module.

**`Sums`.** The models add up with `MapThenSumSet`, which is defined by choosing a
recursive function on the subsets of a set; nothing about it is given. The lemmas
show that the recursion has a solution and only one, that a sum does not depend on
the order in which elements are picked, and what it is after one summand changed or
when two sums are added. The library's induction theorems cannot be used here, so each
goes by the least size of a set on which it would fail.

**`Reservation`** (in `OrderSaga_proofs`). None of the safety properties is inductive by
itself. `IInv` adds `StepOwner`: the steps of reserving and releasing run on one worker
only, and a worker at a step has a job. From it `SoleReserver` follows: while that
worker stands between its check and its transaction, no other step writes the ledger of
its order, so what was checked still holds, a transaction books an order that was empty,
and replies are true. The picker takes the same quantity off `onHand` and `reserved`,
which keeps `NoOversell`. A second process of the warehouse, or a concurrency above one,
would break `StepOwner`, and with it all of this. `BalanceMatchesLedger` needs the sums
as totals over orders of which a step changes one summand.

**`OrderLifecycle_proofs`.** A handler writes what it decided on a document it read
steps ago. `RunOK` says that the copy it read and the one it decided on are *backed*:
a payment status by the ledger, a print or a confirmation by the inbox. The ledger and
the inbox only grow (`Grows`), so what backed a copy when it was
read backs it when it is written, over whatever others wrote meanwhile. This is why
the overwriting of whole documents loses statuses, as section 3 lists, and still never
settles an order nobody paid.

**`Delivery_proofs`.** The parcel goes forward only, and the status is swapped only from
the one that was read; so an event a request has left to tell stays true until it is
told (`CourierOK`), and no message of the parcel is one the warehouse of
`OrderLifecycle` may not say. A parcel is made of an order in `issued`, whose
`order.ready_to_fulfill` was sent, which is all the assumed warehouse asks of one. The
order keeps `IInv` through the refinement, and
`Follows` and `RunFollows` carry DELIVERED from the parcel to the order through a
handler's copies.

**`OrderSaga_proofs`.** Each side keeps the invariant it has alone (the shop's by
INSTANCE with the warehouse's replies as its inbox). `JobsWereSent` and `StepOfJob`
join them: no job is waiting, delayed or being run that the shop did not send, and a
worker runs only the steps of the job it has. So a goods issue has its cause in
`order.ready_to_fulfill`, which `ReadyIsEarned` speaks of, and a confirmation in a
reply that `ReplyTruthful` speaks of.

**`StockLedger`** (in `Documents_proofs`). Every document books by the same few
operators, so what they do is proved once: `CommitLedger` for a transaction that changes
rows, balances and movements by the same, `TellLedger` for a queued job, and the steps
of a slot.

**`Documents`.** `BooksInv` are shelves, balances and movements; one part per
kind of document says what its documents and its requests know, and each kind's steps
keep the books and their own part and leave the movements, jobs and requests of
the others alone. The hardest is `CountsReceipts`: the received quantities of an order
are a total over all notes of what their movements brought, and an approval changes
the summand of one note and the lines of one order. It is what brought out that
an order with two lines of one item counts on the first line only; the model was
changed to follow the code there, and the instance has such an order.

**`PrintJob`** (in `Documents_proofs`). The checks of a scan are made before its
transaction, which takes what was asked for whatever is left by then; so `remaining` may
go below zero, and neither property follows from the checks. What holds is kept by the
movements: of the lines on one blank only the `First` is ever found, and what was taken
of that blank for the job is always what the first line held and does not hold any more
(`LineOK`), however many scans race. A request that completes a line was let through
when nothing of it remained, and `remaining` only falls, held quantities stay (`Grew`),
so it is still used up when its cups are booked. The hold on a blank is a total over all
jobs of which a scan changes one summand (`OneJobHolds`); printed cups are held too,
which disturbs no blank because no design is one.

**`Storage_proofs`.** A transaction is computed on the database it opens on and lands on
another. `StorageInv` says that each open transaction that was told of no conflict
`Stands`: what it would write is still what it would compute from what is committed, as
far as it matters. Whoever commits first keeps that of the others (`StillStands`),
because what a transaction relies on lies in a document it writes itself, or can be
changed only by one that writes such a document too (`Respects`): goods lock the cell
they come into, and every edit of the layout writes the revision. What stands may land
(`CommitKeeps`): the layout is in order, stock is only moved, and no box comes into a
cell beyond its width, unless boxes that lie there get another size by it
(`PutDownVolume` is where the old size is needed). The script runs with no handler at
work and no stock in cells; `ScriptFits` says what it has read and done at each step,
also when it dies and starts again. TLC checked the invariant on the instance of
`Storage` first.

The floor plan (`WarehouseGeometry`) needs no more than that no layout is ever broken
(`GeometryInv`); the work is in what the rules mean. For rectangles that cover ground,
`Encloses` is that all square metres of one are the other's (`EnclosesIsSubset`, by two
corners) and `Overlaps` that they share one (`OverlapsIsShared`); so no issue is found
exactly where the plan is sound (`IssuesAreFlaws`), and the theorem falls to any smaller
or larger rule. The clamped middle of a rack is as far from the rack as the whole aisle
is (`AccessIsClosest`), and the nearest aisle exists because distances are natural
numbers (`NearestIsNearest`).

**`Storefront_proofs`.** A request asks first and saves later, and saves overwrite each
other. `Settled` is what was asked of a SKU without what is still on the way; it never
gets less, so a copy that was within it when it was read is within it when it is saved,
over whatever was saved meanwhile, and a restore that runs twice saves no more than
that. An order has of each line what one such copy had, as often as the line was named.
For the counter, a change that is applied adds the same to the sum since every earlier
moment, and from the newest moment nothing has come yet. So a copy that was the sum since
one moment and no less than that since any other is so again after the change, with the
same moment if it stays above nothing and with the newest one if it is clamped.

**`Procurement_proofs`.** Four parts, each left alone by the steps of the others.
*Barcodes*: as many numbers are used as there are items, so that a transaction that
takes the next number writes the counter, and of two that do one is told of a conflict;
an open one that is not stale still finds number, code and item free (`CreateOK`).
*Digits*: two barcodes of numbers that differ in one digit have check digits that
differ, for the weights 1 and 3 are prime to ten (`OneDigitShows`); so two places differ
at least. *Orders*: each try an order lost was lost to one made since (`InTime`), and a
number that is not taken is the next one. *Drafts*: a worker that is about to tell of
an item is the only one, and nobody told of it before (`SyncInv`). TLC checked the
invariant on the instance of `Procurement` first.

**Only model-checked.** `JobsFinish`, since liveness and ENABLED are out of the prover's
reach. `WaysAreShortest` and `SuggestionsSuffice`: ways are found by a search that is
recursive, and what it computes for every floor plan is induction over data. Every other
property of a passing run is a theorem.

## 5. Plan

Done: the models of section 2, and the proofs of section 4. What could still be added:

1. The disagreements of section 3 that have no run of their own, one run each.
2. Pick suggestions, and the warnings of lots near their date, once something is
   decided on them.

## 6. Not modelled

* Customer accounts, warehouse users, tokens and one-time codes: single documents
  that nothing above depends on; the actor of a request is left out, and its role is
  an input where a handler asks for it.
* Reports, analytics, dashboards, caches, health checks: reads only.
* The notifier, mails, push messages, `stock.low` and the warning of lots near
  their date: output with no state.
* Categories, product texts, images and designs in the catalog, names in the
  warehouse, `updateSupplier`: single writes that meet nothing.
* Pick suggestions: a read for a screen (they offer overdue lots until the nightly
  scan has run); the picker is modelled as one who finds what he needs.
* Seeds and scripts, the shared libraries' guards, filters and settings, PayOS,
  MongoDB, BullMQ and the object store themselves, but for how the code uses them.
* Prices, taxes, addresses and texts are abstracted everywhere.

## Running

```
tlc -config ReservationRace.cfg MCReservation
tlc -config OrderPayment.cfg OrderLifecycle
tlc -config OrderDelivery.cfg MCDelivery
tlc -config Saga.cfg MCOrderSaga
tlc -config Documents.cfg MCDocuments
tlc -config Printing.cfg MCPrintJob
tlc -config Storage.cfg MCStorage
tlc -config Storefront.cfg Storefront
tlc -config Layout.cfg MCLayout
tlc -config Procurement.cfg MCProcurement
tlapm Sums.tla
tlapm OrderLifecycle_proofs.tla
tlapm Delivery_proofs.tla
tlapm OrderSaga_proofs.tla
tlapm Documents_proofs.tla
tlapm Storage_proofs.tla
tlapm Storefront_proofs.tla
tlapm Procurement_proofs.tla
```
