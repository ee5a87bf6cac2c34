---------------------------- MODULE StockCounter ----------------------------
(***************************************************************************)
(* CatalogRepository and StockConsumer: the shop's copy of the stock of one *)
(* SKU.  A document of the warehouse commits a change and tells it after-    *)
(* wards, in a step of its own: in another order, or never, when its process *)
(* dies in between.  The queue gives each word at least once and in any       *)
(* order (retries wait, workers run side by side), and the shop adds it up.   *)
(* BullMQ is modelled as used here: a job that was told stays until it was    *)
(* processed, and may come again after that.                                  *)
(***************************************************************************)
EXTENDS Integers, Sequences, FiniteSetsExt, SequencesExt, TLC

CONSTANTS MaxDelta,         \* bound: how large a change of the stock may be
          MaxChanges        \* bound: how many there are

ASSUME CounterAssumption == MaxDelta \in Nat /\ MaxChanges \in Nat

Deltas == -MaxDelta .. MaxDelta \ {0}

VARIABLES changes,          \* what the documents of the warehouse changed, as committed
          item,             \* whether the item was made
          told,             \* the jobs that were put on the stock queue
          processed,        \* ProcessedEvent, in the order of createdAt
          variant           \* the product variant of the SKU

counterVars == <<changes, item, told, processed, variant>>

Created == 0                \* the job item_created-<sku>; that of the n-th change is n

\* createdAt: how many jobs had been processed when the variant was made.
NoVariant == [status |-> "none", availableQty |-> 0, createdAt |-> 0]
NewVariant(status) == [status |-> status, availableQty |-> 0, createdAt |-> Len(processed)]

CounterInit ==
    /\ changes = <<>>
    /\ item = FALSE
    /\ told = {}
    /\ processed = <<>>
    /\ variant = NoVariant

Jobs == DOMAIN changes \cup (IF item THEN {Created} ELSE {})
IsProcessed(job) == \E n \in DOMAIN processed : processed[n] = job

----------------------------------------------------------------------------
\* The warehouse: createWarehouseItem ...
CreateItem ==
    /\ ~item
    /\ item' = TRUE
    /\ UNCHANGED <<changes, told, processed, variant>>

\* ... a receipt, a return, a count, a print job, scrap or a lot that expires.  What the
\* orders take is not told, so these may well add up to less than nothing ...
Commit(delta) ==
    /\ item /\ Len(changes) < MaxChanges
    /\ changes' = Append(changes, delta)
    /\ UNCHANGED <<item, told, processed, variant>>

\* ... and what each tells of it, when it gets to that.
Tell(job) ==
    /\ job \notin told
    /\ told' = told \cup {job}
    /\ UNCHANGED <<changes, item, processed, variant>>

----------------------------------------------------------------------------
\* createProductVariantFromWms: a draft with nothing in stock, unless a manager was first.
CreateFromWms ==
    /\ Created \in told /\ ~IsProcessed(Created)
    /\ processed' = Append(processed, Created)
    /\ variant' = IF variant = NoVariant THEN NewVariant("draft") ELSE variant
    /\ UNCHANGED <<changes, item, told>>

\* CatalogService.createVariant: a manager makes the variant by hand.
CreateVariant ==
    /\ variant = NoVariant
    /\ variant' = NewVariant("active")
    /\ UNCHANGED <<changes, item, told, processed>>

\* updateVariant: the activation, and its opposite.
UpdateVariant ==
    /\ variant # NoVariant
    /\ variant' = [variant EXCEPT !.status = IF @ = "active" THEN "draft" ELSE "active"]
    /\ UNCHANGED <<changes, item, told, processed>>

\* The quantity after a change: never below nothing.
Clamped(sum) == IF sum < 0 THEN 0 ELSE sum

\* Without a variant there is nothing to add to.
Added(delta) ==
    IF variant = NoVariant THEN variant ELSE [variant EXCEPT !.availableQty = Clamped(@ + delta)]

\* Mutated: the mark of the job is left out of the transaction.
ApplyUnmarked(job) ==
    /\ job \in told /\ job # Created
    /\ variant' = Added(changes[job])
    /\ processed' = IF IsProcessed(job) THEN processed ELSE Append(processed, job)
    /\ UNCHANGED <<changes, item, told>>

\* applyStockDeltaOnce: marked and added in one transaction; without a variant it is
\* marked all the same.
ApplyStockDeltaOnce(job) ==
    /\ job \in told /\ job # Created /\ ~IsProcessed(job)
    /\ processed' = Append(processed, job)
    /\ variant' = Added(changes[job])
    /\ UNCHANGED <<changes, item, told>>

CounterStep ==
    \/ CreateItem \/ (\E delta \in Deltas : Commit(delta)) \/ (\E job \in Jobs : Tell(job))
    \/ CreateFromWms \/ CreateVariant \/ UpdateVariant
    \/ \E job \in told : ApplyStockDeltaOnce(job)

----------------------------------------------------------------------------
CounterTypeOK ==
    /\ changes \in Seq(Deltas) /\ item \in BOOLEAN /\ told \subseteq Jobs
    /\ IsInjective(processed) /\ Range(processed) \subseteq told
    /\ variant \in [status : {"none", "draft", "active"}, availableQty : Nat,
                    createdAt : 0..Len(processed)]

\* The sum of the changes whose jobs were processed after the first m.
SumOf(f) == MapThenSumSet(LAMBDA x : f[x], DOMAIN f)
Change(job) == IF job = Created THEN 0 ELSE changes[job]
SumSince(m) == SumOf([n \in (m + 1)..Len(processed) |-> Change(processed[n])])

\* In whatever order the changes come, however often, and whichever never come: the
\* copy is never less than what came since any moment of its life, each change counted
\* once, and it is what came since one of them (the last at which the clamp left it
\* nothing, or its creation).  So the clamp errs to one side: the shop may show more than
\* it was told in all, and never less, and it shows just that unless some first changes
\* of those it got add up to less than nothing.
CopySinceFloor ==
    variant # NoVariant =>
       LET moments == variant.createdAt .. Len(processed) IN
       /\ \A m \in moments : SumSince(m) <= variant.availableQty
       /\ \E m \in moments : SumSince(m) = variant.availableQty
=============================================================================
