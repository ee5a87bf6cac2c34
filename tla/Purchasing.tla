----------------------------- MODULE Purchasing -----------------------------
(***************************************************************************)
(* SupplierService and PurchaseOrderService: suppliers, what they quote for *)
(* an item, and the orders that are sent to them.  An order is made step by  *)
(* step, with no transaction: supplier, item and quote are read in turn, and  *)
(* the number is the count of the day's orders, tried three times.  Prices    *)
(* and dates are left out, and all orders are of one day and of one line.     *)
(***************************************************************************)
EXTENDS ItemMaster

CONSTANTS Suppliers,        \* the codes of the suppliers
          Quantities,       \* bound: what may be ordered, or be the least to order
          Began             \* the suppliers and quotes to begin with

VARIABLES suppliers,        \* code -> the supplier of that code
          quotes,           \* item and supplier -> SupplierItem
          orders            \* purchase_orders, in the order they were made

purchaseVars == <<suppliers, quotes, orders>>

MaxPoNumberRetries == 3

Statuses == {"ACTIVE", "INACTIVE", "BLACKLIST"}
Roles == {"MANAGER", "ADMIN"}

\* SupplierItemDto and PurchaseOrderDto: what may be asked.
Terms == {0} \cup Quantities
Quote == [minOrderQty : Terms, isActive : BOOLEAN]
OrderForm == [supplier : Suppliers, item : Items, qty : Quantities, unit : Units, priced : BOOLEAN]

Listed(c) == c \in DOMAIN suppliers /\ ~suppliers[c].deleted
OrderedItems == {orders[n].item : n \in DOMAIN orders}

ItemsUnchanged == UNCHANGED <<db, options, announcing, jobs>>

----------------------------------------------------------------------------
\* Suppliers

\* createSupplier: the index on the code has those that were deleted as well.
CreateSupplier(c) ==
    /\ Spend("terms")
    /\ c \notin DOMAIN suppliers
    /\ suppliers' = (c ::= [status |-> "ACTIVE", deleted |-> FALSE]) ++ suppliers
    /\ UNCHANGED <<tx, quotes, orders>> /\ ItemsUnchanged

DeleteSupplier(c) ==
    /\ Spend("terms")
    /\ Listed(c)
    /\ suppliers' = [suppliers EXCEPT ![c].deleted = TRUE]
    /\ UNCHANGED <<tx, quotes, orders>> /\ ItemsUnchanged

\* changeStatus: only an ADMIN takes a supplier off the blacklist it was read on.
StatusRead(s, c) ==
    /\ Spend("terms")
    /\ Listed(c)
    /\ \E status \in Statuses, role \in Roles :
          /\ suppliers[c].status = "BLACKLIST" /\ status # "BLACKLIST" => role = "ADMIN"
          /\ ReadOutside(s, [kind |-> "status", supplier |-> c, status |-> status])
    /\ UNCHANGED <<options, announcing, jobs, purchaseVars>>

StatusWrite(s) ==
    /\ IsReady(s) /\ tx[s].job.kind = "status"
    /\ LET c == tx[s].job.supplier IN
       suppliers' = IF Listed(c) THEN [suppliers EXCEPT ![c].status = tx[s].job.status] ELSE suppliers
    /\ tx' = [tx EXCEPT ![s] = NoTx]
    /\ UNCHANGED <<left, quotes, orders>> /\ ItemsUnchanged

\* upsertSupplierItem finds the quote of the pair and creates or updates it, never to
\* switch it off or on; two that create it at once are kept apart by the index.
UpsertQuote(i, c) ==
    /\ Spend("terms")
    /\ \E least \in Terms :
          quotes' = (<<i, c>> ::= [minOrderQty |-> least,
                                   isActive |-> <<i, c>> \in DOMAIN quotes => quotes[<<i, c>>].isActive])
                    ++ quotes
    /\ UNCHANGED <<tx, suppliers, orders>> /\ ItemsUnchanged

\* updateSupplierItem: on or off, another least quantity, or another supplier that quotes
\* none yet.
UpdateQuote(i, c, other) ==
    /\ Spend("terms")
    /\ <<i, c>> \in DOMAIN quotes
    /\ other # c => <<i, other>> \notin DOMAIN quotes
    /\ \E quote \in Quote :
          quotes' = (<<i, other>> ::= quote) ++ [x \in DOMAIN quotes \ {<<i, c>>} |-> quotes[x]]
    /\ UNCHANGED <<tx, suppliers, orders>> /\ ItemsUnchanged

----------------------------------------------------------------------------
\* createPurchaseOrder

Ordering(s, at) == IsReady(s) /\ tx[s].job.kind = "order" /\ tx[s].job.at = at

GoOn(s, job) ==
    /\ tx' = [tx EXCEPT ![s].job = job]
    /\ UNCHANGED <<left, purchaseVars>> /\ ItemsUnchanged

Refuse(s) ==
    /\ tx' = [tx EXCEPT ![s] = NoTx]
    /\ UNCHANGED <<left, purchaseVars>> /\ ItemsUnchanged

\* assertSupplierActive
OrderBegin(s) ==
    /\ Spend("orders")
    /\ \E form \in OrderForm :
          /\ Listed(form.supplier) /\ suppliers[form.supplier].status = "ACTIVE"
          /\ ReadOutside(s, [kind |-> "order", at |-> "item", since |-> Len(orders), tries |-> 0, number |-> 0,
                             supplier |-> form.supplier, item |-> form.item, qty |-> form.qty,
                             unit |-> form.unit, priced |-> form.priced])
    /\ UNCHANGED <<options, announcing, jobs, purchaseVars>>

\* The item is there and counted in the unit of the line.
OrderItem(s) ==
    /\ Ordering(s, "item")
    /\ LET job == tx[s].job IN
       IF Live(job.item) /\ db[Item(job.item)].unit = job.unit
       THEN GoOn(s, [job EXCEPT !.at = "quote"]) ELSE Refuse(s)

\* getActiveSupplierItemOrThrow and assertMoqSatisfied: a line with a price of its own
\* needs no quote, but keeps to the least quantity of one.
Acceptable(job) ==
    LET pair == <<job.item, job.supplier>>
        quoted == pair \in DOMAIN quotes /\ quotes[pair].isActive IN
    /\ quoted \/ job.priced
    /\ quoted => job.qty >= quotes[pair].minOrderQty

OrderQuote(s) ==
    /\ Ordering(s, "quote")
    /\ IF Acceptable(tx[s].job) THEN GoOn(s, [tx[s].job EXCEPT !.at = "count"]) ELSE Refuse(s)

\* Mutated: the number is made once, before the first try.
CountOnce(s) ==
    /\ Ordering(s, "count")
    /\ GoOn(s, [tx[s].job EXCEPT !.at = "insert", !.number = IF @ = 0 THEN Len(orders) + 1 ELSE @])

\* generatePoNumber
OrderCount(s) ==
    /\ Ordering(s, "count")
    /\ GoOn(s, [tx[s].job EXCEPT !.at = "insert", !.number = Len(orders) + 1])

IsTaken(number) == \E n \in DOMAIN orders : orders[n].number = number

\* The insert, which the index on the number may refuse; then it is counted again.
OrderInsert(s) ==
    /\ Ordering(s, "insert")
    /\ LET job == tx[s].job IN
       IF ~IsTaken(job.number)
       THEN /\ orders' = Append(orders, [number |-> job.number, supplier |-> job.supplier,
                                         item |-> job.item, qty |-> job.qty, unit |-> job.unit])
            /\ tx' = [tx EXCEPT ![s] = NoTx]
            /\ UNCHANGED <<left, suppliers, quotes>> /\ ItemsUnchanged
       ELSE GoOn(s, [job EXCEPT !.tries = @ + 1,
                                !.at = IF job.tries + 1 < MaxPoNumberRetries THEN "count" ELSE "conflict"])

\* PO_NUMBER_GENERATION_CONFLICT; or the handler dies anywhere before.
OrderGivenUp(s) ==
    /\ IsReady(s) /\ tx[s].job.kind = "order"
    /\ Refuse(s)

----------------------------------------------------------------------------
PurchaseInit ==
    /\ suppliers \in {b.suppliers : b \in Began}
    /\ \E b \in Began : b.suppliers = suppliers /\ quotes = b.quotes
    /\ orders = <<>>

PurchaseStep ==
    \/ \E c \in Suppliers : CreateSupplier(c) \/ DeleteSupplier(c)
    \/ \E c \in Suppliers, i \in Items :
          UpsertQuote(i, c) \/ \E other \in Suppliers : UpdateQuote(i, c, other)
    \/ \E s \in Sessions :
          \/ (\E c \in Suppliers : StatusRead(s, c)) \/ StatusWrite(s)
          \/ OrderBegin(s) \/ OrderItem(s) \/ OrderQuote(s) \/ OrderCount(s) \/ OrderInsert(s)
          \/ OrderGivenUp(s)
=============================================================================
