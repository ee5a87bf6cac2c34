------------------------------ MODULE Receiving ------------------------------
(***************************************************************************)
(* PurchaseOrderService, GoodsReceiptNoteService and their repositories:    *)
(* what a supplier was asked for, the notes (GRN) of what came, and the     *)
(* approval that books a note in on the staging shelf, counts it towards    *)
(* the order and makes the task to put it away, in one transaction.         *)
(***************************************************************************)
EXTENDS StockLedger, SequencesExt

CONSTANTS Pos,          \* purchase_orders
          Grns,         \* goods_receipt_notes; their ids, never used twice
          Ordered,      \* bound: the lines an order may have
          Receipts,     \* bound: the lines a note may have
          Staging,      \* the shelf that findStagingShelf returns
          MaxTries      \* MAX_GRN_NUMBER_RETRIES

ASSUME ReceivingAssumption ==
    /\ Grns \subseteq Refs
    /\ \A lines \in Ordered : lines \in Seq([item : Items, expected : Nat \ {0}])
    /\ \A lines \in Receipts :
          /\ lines \in Seq([item : Items, lot : Lots \cup {NoLot}, qty : Nat])
          /\ \A n \in DOMAIN lines : lines[n].lot # NoLot => ItemOf[lines[n].lot] = lines[n].item
    /\ Staging \in Places /\ Shelf[Staging] = Staging
    /\ MaxTries \in Nat \ {0}

VARIABLES supplier,     \* Supplier.status of the supplier
          po, grn,      \* the documents
          task          \* the put_away_task made of each note; <<>> for none

receivingVars == <<supplier, po, grn, task>>

NoPo == [status |-> "none", lines |-> <<>>]
NoGrn == [status |-> "none"]

PoDocs == [status : {"none", "CONFIRMED", "PARTIALLY_RECEIVED", "COMPLETED"},
           lines : Seq([item : Items, expected : Nat, received : Nat])]
GrnDocs == {NoGrn} \cup
           [status : {"DRAFT", "PENDING_APPROVAL", "APPROVED", "REJECTED", "deleted"},
            po : Pos, number : Nat, lines : Receipts, pictures : Nat]

ReceivingInit ==
    /\ supplier = "ACTIVE"
    /\ po = [p \in Pos |-> NoPo]
    /\ grn = [g \in Grns |-> NoGrn]
    /\ task = [g \in Grns |-> <<>>]

----------------------------------------------------------------------------
\* Orders

\* SupplierService.changeStatus; only an ADMIN lifts a BLACKLIST, and may.
ChangeStatus(status) ==
    /\ \E p \in Pos : po[p].status = "none"   \* bound: nothing else asks for it
    /\ supplier # status
    /\ supplier' = status
    /\ UNCHANGED <<stockVars, requestVars, po, grn, task>>

\* createPurchaseOrder: from an ACTIVE supplier, CONFIRMED at once.
CreatePurchaseOrder(p) ==
    /\ supplier = "ACTIVE"
    /\ po[p].status = "none"
    /\ \E lines \in Ordered :
          po' = [po EXCEPT ![p] = [status |-> "CONFIRMED",
                                   lines |-> [n \in DOMAIN lines |->
                                       [item |-> lines[n].item, expected |-> lines[n].expected,
                                        received |-> 0]]]]
    /\ UNCHANGED <<stockVars, requestVars, supplier, grn, task>>

\* The first line of an order for an item; 0 for none.
PoLine(lines, i) == SelectInSeq(lines, LAMBDA line : line.item = i)

\* How much of each item the lines of a note name.
Totals(lines) ==
    [i \in Items |-> SumOf([n \in {m \in DOMAIN lines : lines[m].item = i} |-> lines[n].qty])]

\* applyReceivedQtyAndStatus: what came of an item counts for its first line.
Counted(ordered, totals) ==
    [n \in DOMAIN ordered |->
        IF n = PoLine(ordered, ordered[n].item)
        THEN [ordered[n] EXCEPT !.received = @ + totals[ordered[n].item]]
        ELSE ordered[n]]

\* Mutated: only the lines that came now are looked at.
ReceivedOfNamed(doc, came) ==
    LET lines == Counted(doc.lines, Totals(came)) IN
    [status |-> IF \A n \in DOMAIN lines :
                      Totals(came)[lines[n].item] > 0 => lines[n].received >= lines[n].expected
                THEN "COMPLETED" ELSE "PARTIALLY_RECEIVED",
     lines |-> lines]

\* What a transaction that receives these lines makes of the order.  The status is the
\* one of applyReceivedQty for the last of them, when the others are counted in: it
\* takes that line to have come for every line of its item.
Received(doc, came) ==
    LET last == came[Len(came)]
        lines == Counted(doc.lines, Totals(came))
        complete(n) ==
            \/ lines[n].received >= lines[n].expected
            \/ /\ lines[n].item = last.item /\ n # PoLine(lines, last.item)
               /\ lines[n].received + last.qty >= lines[n].expected IN
    [status |-> IF \A n \in DOMAIN lines : complete(n) THEN "COMPLETED" ELSE "PARTIALLY_RECEIVED",
     lines |-> lines]

----------------------------------------------------------------------------
\* Notes

GrnExists(g) == grn[g].status \notin {"none", "deleted"}
NotesOf(p) == {g \in Grns : GrnExists(g) /\ grn[g].po = p}
IsOpen(g) == grn[g].status \in {"DRAFT", "PENDING_APPROVAL", "REJECTED"}

\* resolveAndValidateItems: each line by itself fits what is left of its order's line.
ValidReceipts(p) ==
    {lines \in Receipts :
        \A n \in DOMAIN lines :
            LET at == PoLine(po[p].lines, lines[n].item) IN
            /\ at # 0
            /\ po[p].lines[at].expected > po[p].lines[at].received
            /\ lines[n].qty <= po[p].lines[at].expected - po[p].lines[at].received
            /\ lines[n].item \in Perishable => lines[n].lot # NoLot}

\* createGoodsReceiptNote: an order that is not COMPLETED and has no open note.
GrnCreateRead(s, p) ==
    /\ po[p].status \notin {"none", "COMPLETED"}
    /\ \A g \in NotesOf(p) : ~IsOpen(g)
    /\ \E lines \in ValidReceipts(p) :
          Begin(s, [at |-> "grn.count", po |-> p, lines |-> lines, tries |-> 1])
    /\ UNCHANGED <<stockVars, receivingVars>>

Notes == {g \in Grns : GrnExists(g)}

\* generateGrnNumber: one more than the notes there are ...
GenerateGrnNumber(s) ==
    /\ At(s, "grn.count")
    /\ Goto(s, [at |-> "grn.insert", po |-> request[s].po, lines |-> request[s].lines,
                tries |-> request[s].tries, number |-> Cardinality(Notes) + 1])
    /\ UNCHANGED <<stockVars, receivingVars>>

NewGrn == CHOOSE g \in Grns : grn[g] = NoGrn

\* ... which the unique index may turn away; counted again, or given up.
GrnInsert(s) ==
    LET r == request[s] IN
    /\ At(s, "grn.insert")
    /\ \E g \in Grns : grn[g] = NoGrn      \* bound: the notes ever made
    /\ IF \E g \in Notes : grn[g].number = r.number
       THEN /\ IF r.tries < MaxTries
               THEN Goto(s, [at |-> "grn.count", po |-> r.po, lines |-> r.lines, tries |-> r.tries + 1])
               ELSE Done(s)
            /\ UNCHANGED grn
       ELSE /\ grn' = [grn EXCEPT ![NewGrn] = [status |-> "DRAFT", po |-> r.po, number |-> r.number,
                                               lines |-> r.lines, pictures |-> 1]]
            /\ Done(s)
    /\ UNCHANGED <<stockVars, supplier, po, task>>

MayEdit(g) == grn[g].status \in {"DRAFT", "REJECTED"}

\* updateGoodsReceiptNoteItems ...
GrnUpdateRead(s, g) ==
    /\ MayEdit(g)
    /\ \E lines \in ValidReceipts(grn[g].po) \ {grn[g].lines} :
          Begin(s, [at |-> "grn.replace", grn |-> g, lines |-> lines])
    /\ UNCHANGED <<stockVars, receivingVars>>

\* ... and replaceItems, which looks at the status again.
ReplaceItems(s) ==
    LET g == request[s].grn IN
    /\ At(s, "grn.replace")
    /\ grn' = IF MayEdit(g) THEN [grn EXCEPT ![g].lines = request[s].lines] ELSE grn
    /\ Done(s)
    /\ UNCHANGED <<stockVars, supplier, po, task>>

\* deleteGoodsReceiptNote: only a DRAFT, by the query itself.
DeleteGoodsReceiptNote(g) ==
    /\ Single
    /\ grn[g].status = "DRAFT"
    /\ grn' = [grn EXCEPT ![g].status = "deleted"]
    /\ UNCHANGED <<stockVars, supplier, po, task>>

\* uploadGrnImage: the status is only looked at before the picture is uploaded.
GrnImageRead(s, g) ==
    /\ MayEdit(g)
    /\ grn[g].pictures = 1      \* bound: one more picture
    /\ Begin(s, [at |-> "grn.image", grn |-> g])
    /\ UNCHANGED <<stockVars, receivingVars>>

PushImage(s) ==
    LET g == request[s].grn IN
    /\ At(s, "grn.image")
    /\ grn' = IF GrnExists(g) THEN [grn EXCEPT ![g].pictures = @ + 1] ELSE grn
    /\ Done(s)
    /\ UNCHANGED <<stockVars, supplier, po, task>>

\* assertReadyForApproval
Ready(lines) == lines # <<>> /\ \A n \in DOMAIN lines : lines[n].qty > 0

\* submitGoodsReceiptNote: what is ready is what was read ...
SubmitRead(s, g) ==
    /\ MayEdit(g)
    /\ Ready(grn[g].lines)
    /\ Begin(s, [at |-> "grn.submit", grn |-> g])
    /\ UNCHANGED <<stockVars, receivingVars>>

\* ... and updateStatusSubmitted looks at the status again.
UpdateStatusSubmitted(s) ==
    LET g == request[s].grn IN
    /\ At(s, "grn.submit")
    /\ grn' = IF MayEdit(g) THEN [grn EXCEPT ![g].status = "PENDING_APPROVAL"] ELSE grn
    /\ Done(s)
    /\ UNCHANGED <<stockVars, supplier, po, task>>

\* rejectGoodsReceiptNote
RejectGoodsReceiptNote(g) ==
    /\ Single
    /\ grn[g].status = "PENDING_APPROVAL"
    /\ grn' = [grn EXCEPT ![g].status = "REJECTED"]
    /\ UNCHANGED <<stockVars, supplier, po, task>>

----------------------------------------------------------------------------
\* Approval

\* What a transaction books for each row: all of it on the staging shelf.
Booked(lines) ==
    [row \in Rows |->
        SumOf([n \in {m \in DOMAIN lines : row = <<lines[m].item, Staging, lines[m].lot>>} |->
                lines[n].qty])]

\* approveGoodsReceiptNote: the lines that were read fit the order as it is now, taken
\* together, and are what the transaction will work on.
ApproveGrnRead(s, g) ==
    LET lines == grn[g].lines
        ordered == po[grn[g].po].lines IN
    /\ grn[g].status = "PENDING_APPROVAL"
    /\ Ready(lines)
    /\ \A n \in DOMAIN lines :
          LET line == ordered[PoLine(ordered, lines[n].item)] IN
          line.received + Totals(lines)[lines[n].item] <= line.expected
    /\ Begin(s, [at |-> "grn.approve", grn |-> g, lines |-> lines])
    /\ UNCHANGED <<stockVars, receivingVars>>

\* Mutated: a note is approved whatever its status is by now.
ClaimableBlind(g) == TRUE

\* updateStatusApproved: of several approvals one goes on.
Claimable(g) == grn[g].status = "PENDING_APPROVAL"

\* A lot is found if it is ACTIVE and made if it is new; the number of an expired one
\* cannot be used again, and the transaction fails.
LotsUsable(lines) == \A n \in DOMAIN lines : lines[n].lot # NoLot => lot[lines[n].lot] = "ACTIVE"

\* The transaction: the note, the stock, the order and the task to put it away.
ApproveGrnCommit(s) ==
    LET g == request[s].grn
        lines == request[s].lines
        p == grn[g].po IN
    /\ At(s, "grn.approve")
    /\ IF Claimable(g) /\ LotsUsable(lines)
       THEN /\ grn' = [grn EXCEPT ![g].status = "APPROVED"]
            /\ UpsertInventory(Booked(lines))
            /\ UpsertBalance(Totals(lines), NoItem, NoItem)
            /\ InsertMovements([ref \in {g} |-> Booked(lines)])
            /\ po' = [po EXCEPT ![p] = Received(@, lines)]
            /\ task' = [task EXCEPT ![g] = lines]
            /\ Goto(s, [at |-> "grn.tell", grn |-> g, lines |-> lines])
       ELSE Done(s) /\ UNCHANGED <<inventory, balance, moved, po, grn, task>>
    /\ UNCHANGED <<lot, told, supplier>>

ApproveGrnTell(s) ==
    /\ At(s, "grn.tell")
    /\ Tell(request[s].grn, Totals(request[s].lines))
    /\ Done(s)
    /\ UNCHANGED <<inventory, balance, lot, moved, receivingVars>>

ReceivingStep(s) ==
    \/ \E p \in Pos : GrnCreateRead(s, p)
    \/ \E g \in Grns :
          \/ GrnUpdateRead(s, g) \/ SubmitRead(s, g) \/ ApproveGrnRead(s, g) \/ GrnImageRead(s, g)
          \/ DeleteGoodsReceiptNote(g) \/ RejectGoodsReceiptNote(g)
    \/ GenerateGrnNumber(s) \/ GrnInsert(s) \/ ReplaceItems(s) \/ PushImage(s)
    \/ UpdateStatusSubmitted(s) \/ ApproveGrnCommit(s) \/ ApproveGrnTell(s)

OfficeStep ==
    \/ \E status \in {"ACTIVE", "INACTIVE", "BLACKLIST"} : ChangeStatus(status)
    \/ \E p \in Pos : CreatePurchaseOrder(p)

----------------------------------------------------------------------------
\* Properties

ReceivingTypeOK ==
    /\ supplier \in {"ACTIVE", "INACTIVE", "BLACKLIST"}
    /\ po \in [Pos -> PoDocs]
    /\ grn \in [Grns -> GrnDocs]
    /\ task \in [Grns -> Receipts \cup {<<>>}]

\* An order counts as received, for the first line of each item, what the movements of
\* its approved notes brought, and is COMPLETED only when that is all of it - several
\* notes, approved at the same time, each write its total and its status.
OrderCountsReceipts ==
    \A p \in Pos : \A n \in DOMAIN po[p].lines :
        LET line == po[p].lines[n] IN
        IF n = PoLine(po[p].lines, line.item)
        THEN /\ line.received = SumOf([g \in NotesOf(p) |-> PerItem(moved[g])[line.item]])
             /\ po[p].status = "COMPLETED" => line.received >= line.expected
        ELSE line.received = 0

\* A note is booked in once: what its movements brought is what the one task made of it
\* will put away, and a note that was never approved has neither.
BookedOnce ==
    \A g \in Grns :
        /\ moved[g] = Booked(task[g])
        /\ task[g] # <<>> => grn[g].status = "APPROVED"

\* What is booked for a note is what the note says.
BookedIsApproved ==
    \A g \in Grns : grn[g].status = "APPROVED" => task[g] = grn[g].lines

\* An approved note is not changed any more.
ApprovedIsSealed ==
    [][\A g \in Grns : grn[g].status = "APPROVED" => grn'[g] = grn[g]]_grn

\* An order is COMPLETED when all of it came, the second line of an item included.
CompletedIsWhole ==
    \A p \in Pos : \A n \in DOMAIN po[p].lines :
        po[p].status = "COMPLETED" => po[p].lines[n].received >= po[p].lines[n].expected

\* No order receives more than it asked for.
NotOverReceived ==
    \A p \in Pos : \A n \in DOMAIN po[p].lines : po[p].lines[n].received <= po[p].lines[n].expected

\* The next note can be given a number.
NextNumberIsFree ==
    \A g \in Notes : grn[g].number # Cardinality(Notes) + 1

=============================================================================
