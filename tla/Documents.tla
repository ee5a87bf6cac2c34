------------------------------ MODULE Documents ------------------------------
(***************************************************************************)
(* The documents that move stock without a customer's order - a receipt, a  *)
(* return, a scrap note, a stock count - and the expiry of lots, on the     *)
(* same shelves and balances.                                               *)
(***************************************************************************)
EXTENDS Receiving, GoodsReturn, ScrapNote, StockCount, LotExpiry

CONSTANTS Mixes         \* bound: which kinds of documents run together, and for how many requests

ASSUME DocumentsAssumption ==
    /\ \A m \in Mixes : m.requests \in Nat
    /\ Grns \cap {"return", "rma", "scrap", "count"} = {}    \* refType tells documents apart

VARIABLES mix           \* those of this run

expiryVars == <<overdue, scan>>
vars == <<stockVars, requestVars, receivingVars, return, note, count, expiryVars, mix>>

Init ==
    /\ StockInit /\ ReceivingInit /\ ReturnInit /\ NoteInit /\ CountInit /\ ExpiryInit
    /\ \E m \in Mixes : mix = m.kinds /\ RequestInit(m.requests)

Next ==
    /\ \/ \E s \in Requests :
             \/ /\ "receipt" \in mix /\ ReceivingStep(s)
                /\ UNCHANGED <<return, note, count, expiryVars>>
             \/ /\ "return" \in mix /\ ReturnStep(s)
                /\ UNCHANGED <<receivingVars, note, count, expiryVars>>
             \/ /\ "scrap" \in mix /\ NoteStep(s)
                /\ UNCHANGED <<receivingVars, return, count, expiryVars>>
             \/ /\ "count" \in mix /\ CountStep(s)
                /\ UNCHANGED <<receivingVars, return, note, expiryVars>>
             \/ Die(s) /\ UNCHANGED <<receivingVars, return, note, count, expiryVars>>
       \/ "receipt" \in mix /\ OfficeStep /\ UNCHANGED <<return, note, count, expiryVars>>
       \/ /\ "expiry" \in mix /\ ExpiryStep
          /\ UNCHANGED <<requestVars, receivingVars, return, note, count>>
    /\ UNCHANGED mix

Spec == Init /\ [][Next]_vars

----------------------------------------------------------------------------
\* Properties

TypeOK ==
    /\ StockTypeOK
    /\ ReceivingTypeOK
    /\ return \in ReturnDocs
    /\ note \in NoteDocs
    /\ count.status \in CountStatuses
    /\ \A row \in DOMAIN count.lines : row \in Rows /\ count.lines[row] \in LineDocs
    /\ overdue \subseteq Lots
    /\ left \in Nat

\* The shop is only told of a change of stock that a committed transaction made: a job
\* of a document has a movement behind it, a job of a lot its expiry.  (The movements of
\* a count that is approved twice may cancel out: its jobs are about items it counted.)
ToldWasBooked ==
    /\ \A ref \in Refs \ {"count"}, i \in Items :
          told[ref][i] # 0 => \E row \in RowsOf(i) : moved[ref][row] # 0
    /\ \A i \in Items :
          told["count"][i] # 0 => \E row \in DOMAIN count.lines : row[1] = i
    /\ \A l \in Lots, i \in Items : told[l][i] # 0 => lot[l] = "EXPIRED"

\* Goods that come back damaged are booked in and out again and never reach the
\* shop: it is told of no more than a return, together with the scrap notes made for
\* it, left on the shelves - however often it is inspected, confirmed and cancelled.
OnlyGoodIsTold ==
    \A i \in ReturnedItems :
        /\ told["return"][i] >= 0
        /\ told["return"][i] <= PerItem(moved["return"])[i] + PerItem(moved["rma"])[i]

\* What a balance calls available is what lies in the warehouse outside its expired lots.
AvailableIsSellable ==
    \A i \in Items :
        Available(i) = SumOf([row \in {r \in RowsOf(i) : r[3] # NoLot => lot[r[3]] = "ACTIVE"} |->
                               inventory[row]])

\* An approved count is not opened again.
ApprovedIsFinal ==
    [][count.status = "APPROVED" => count'.status = "APPROVED"]_vars

=============================================================================
