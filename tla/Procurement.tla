---------------------------- MODULE Procurement -----------------------------
(***************************************************************************)
(* The master data of the shop and its warehouse: items are made in the      *)
(* warehouse, drafted in the shop and ordered from suppliers, while all of     *)
(* them are edited.                                                             *)
(***************************************************************************)
EXTENDS Purchasing, ItemSync

vars == <<itemVars, purchaseVars, syncVars>>

Skus == {db[Item(i)].sku : i \in {j \in Items : Made(j)}}

Init == ItemInit /\ PurchaseInit /\ SyncInit

Warehouse == ItemStep(OrderedItems) /\ UNCHANGED <<purchaseVars, syncVars>>
Purchase == PurchaseStep /\ UNCHANGED syncVars
Sync == SyncStep(jobs) /\ UNCHANGED <<itemVars, purchaseVars>>
Catalog ==
    /\ CatalogStep(Skus)
    /\ Spend("catalog")
    /\ UNCHANGED <<db, tx, options, announcing, jobs, purchaseVars>>

Next == Warehouse \/ Purchase \/ Sync \/ Catalog

Spec == Init /\ [][Next]_vars

----------------------------------------------------------------------------
\* A barcode is registered if and only if an item carries it, though items are made at
\* once and some are refused half-way; and no two barcodes differ in one digit alone, so
\* that a digit read wrong is never another item.
CodesAgree ==
    /\ \A i \in Items : Made(i) => db[Registered(db[Item(i)].barcode)] = i
    /\ \A c \in Codes : db[Registered(c)] \in Items => Made(db[Registered(c)]) /\ db[Item(db[Registered(c)])].barcode = c
    /\ \A c, d \in {x \in Codes : db[Registered(x)] # NoOwner} :
          c # d => Cardinality({k \in 1..13 : c[k] # d[k]}) > 1

\* An order is refused for its number only when as many others as it had tries were made
\* while it was: each number it lost went to an order that stands, and there is no gap.
RefusedWhenOutrun ==
    /\ \A n \in DOMAIN orders : orders[n].number = n
    /\ \A s \in Sessions :
          Ordering(s, "conflict") => Len(orders) >= tx[s].job.since + MaxPoNumberRetries
=============================================================================
