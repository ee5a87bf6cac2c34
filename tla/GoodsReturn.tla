----------------------------- MODULE GoodsReturn -----------------------------
(***************************************************************************)
(* GoodsReturnService and its repository: one return, from the event        *)
(* order.returned (or by hand) to the stock it brings back.  A damaged line *)
(* is booked in and scrapped at once, by ScrapNoteService, in the same      *)
(* transaction.                                                             *)
(***************************************************************************)
EXTENDS StockLedger

CONSTANTS ReturnedQty,  \* how many of each item come back; 0 for none
          ReturnShelves \* bound: where the receiver may put them

ASSUME ReturnedAssumption ==
    /\ ReturnedQty \in [Items -> Nat]
    /\ ReturnShelves \subseteq Places
    /\ {"return", "rma"} \subseteq Refs

VARIABLES return        \* the document of goods_returns

ReturnedItems == {i \in Items : ReturnedQty[i] > 0}
Conditions == {"GOOD", "DAMAGED"}
Unseen == [condition |-> "none", row |-> "none"]
Inspections == [condition : Conditions, row : ShelfRows]

ReturnDocs == [status : {"none", "DRAFT", "INSPECTED", "RESTOCKED", "CANCELLED"},
               line : [ReturnedItems -> Inspections \cup {Unseen}]]

ReturnInit == return = [status |-> "none", line |-> [i \in ReturnedItems |-> Unseen]]

\* createFromOrderReturned, which does nothing for an order that has a return, and
\* createGoodsReturn.
ReturnCreate ==
    /\ Single
    /\ return.status = "none"
    /\ return' = [return EXCEPT !.status = "DRAFT"]
    /\ UNCHANGED stockVars

\* What may be said of the lines: where each goes, and that a good perishable has a lot.
ValidInspections ==
    {line \in [ReturnedItems -> Inspections] :
        \A i \in ReturnedItems :
            /\ line[i].row[1] = i /\ line[i].row[2] \in ReturnShelves
            /\ i \in Perishable /\ line[i].condition = "GOOD" => line[i].row[3] # NoLot
            /\ i \notin Perishable => line[i].row[3] = NoLot}

\* inspectGoodsReturn: the status is only checked here, before the images are uploaded ...
InspectRead(s) ==
    /\ return.status = "DRAFT"
    /\ \E line \in ValidInspections : Begin(s, [at |-> "return.inspect", line |-> line])
    /\ UNCHANGED <<stockVars, return>>

\* ... and setInspected does not look at it again.
SetInspected(s) ==
    /\ At(s, "return.inspect")
    /\ return' = [status |-> "INSPECTED", line |-> request[s].line]
    /\ Done(s)
    /\ UNCHANGED stockVars

\* confirmGoodsReturn works on the lines it has read.
ConfirmRead(s) ==
    /\ return.status = "INSPECTED"
    /\ Begin(s, [at |-> "return.confirm", line |-> return.line])
    /\ UNCHANGED <<stockVars, return>>

ItemsIn(line, condition) == {i \in ReturnedItems : line[i].condition = condition}
Quantities(S) == [i \in Items |-> IF i \in S THEN ReturnedQty[i] ELSE 0]
Returned(line, S) ==
    [row \in Rows |-> IF row[1] \in S /\ row = line[row[1]].row THEN ReturnedQty[row[1]] ELSE 0]

\* createApprovedScrapNoteForReturn books out again, on a scrap note of its own, what
\* a damaged line was booked in with; nothing of it counts as expired.
Scrapped(line) == ItemsIn(line, "DAMAGED")

\* The transaction: all lines in, the damaged ones out, and the status whatever it is by now.
ConfirmCommit(s) ==
    LET line == request[s].line
        in == Returned(line, ReturnedItems)
        out == Returned(line, Scrapped(line)) IN
    /\ At(s, "return.confirm")
    /\ UpsertInventory([row \in Rows |-> in[row] - out[row]])
    /\ UpsertBalance([i \in Items |-> Quantities(ReturnedItems)[i] - Quantities(Scrapped(line))[i]],
                     NoItem, NoItem)
    /\ InsertMovements([ref \in {"return", "rma"} |-> IF ref = "return" THEN in ELSE Negative(out)])
    /\ return' = [return EXCEPT !.status = "RESTOCKED"]
    /\ Goto(s, [at |-> "return.tell", line |-> line])
    /\ UNCHANGED <<lot, told>>

\* Mutated: the shop hears of every line.
ToldLines(line) == ReturnedItems

\* The lines the shop hears of ...
GoodLines(line) == ItemsIn(line, "GOOD")

\* ... after the commit.
ConfirmTell(s) ==
    /\ At(s, "return.tell")
    /\ Tell("return", Quantities(GoodLines(request[s].line)))
    /\ Done(s)
    /\ UNCHANGED <<inventory, balance, lot, moved, return>>

\* cancelGoodsReturn: checked, then written without a condition.
CancelRead(s) ==
    /\ return.status \in {"DRAFT", "INSPECTED"}
    /\ Begin(s, [at |-> "return.cancel"])
    /\ UNCHANGED <<stockVars, return>>

SetCancelled(s) ==
    /\ At(s, "return.cancel")
    /\ return' = [return EXCEPT !.status = "CANCELLED"]
    /\ Done(s)
    /\ UNCHANGED stockVars

ReturnStep(s) ==
    \/ ReturnCreate
    \/ InspectRead(s) \/ SetInspected(s)
    \/ ConfirmRead(s) \/ ConfirmCommit(s) \/ ConfirmTell(s)
    \/ CancelRead(s) \/ SetCancelled(s)

=============================================================================
