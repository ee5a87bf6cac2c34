------------------------------ MODULE ScrapNote ------------------------------
(***************************************************************************)
(* ScrapNoteService and its repository: one note that takes stock off the   *)
(* shelves once a manager approves it.                                      *)
(***************************************************************************)
EXTENDS StockLedger

CONSTANTS MaxScrap      \* bound: the most a line scraps

ASSUME ScrapAssumption == MaxScrap \in Nat /\ "scrap" \in Refs

VARIABLES note          \* the document of scrap_notes

NoteInit == note = [status |-> "none", lines |-> Nothing]

NoteDocs == [status : {"none", "DRAFT", "APPROVED", "REJECTED"}, lines : [Rows -> 0..MaxScrap]]

\* createScrapNote: each line names a shelf, a perishable item its lot as well, and
\* no more than lies there now.
ScrapLines ==
    {lines \in [ShelfRows -> 0..MaxScrap] :
        /\ \E row \in ShelfRows : lines[row] > 0
        /\ \A row \in ShelfRows :
              lines[row] > 0 =>
                  /\ row[1] \in Perishable => row[3] # NoLot
                  /\ inventory[row] >= lines[row]}

NoteCreate ==
    /\ Single
    /\ note.status = "none"
    /\ \E lines \in ScrapLines : note' = [status |-> "DRAFT", lines |-> [row \in Rows |-> IF row \in ShelfRows THEN lines[row] ELSE 0]]
    /\ UNCHANGED stockVars

ApproveNoteRead(s) ==
    /\ note.status = "DRAFT"
    /\ Begin(s, [at |-> "note.approve"])
    /\ UNCHANGED <<stockVars, note>>

\* Mutated: the balance keeps what is scrapped.
ScrappedExpiredOnly(lines) == [onHand |-> NoItem, expired |-> NoItem]

\* What a note does to the balance: all of it leaves onHand, what has a lot is
\* taken to have expired.
ScrappedFrom(lines) ==
    [onHand |-> Negative(PerItem(lines)),
     expired |-> Negative(PerItem([row \in Rows |-> IF row[3] = NoLot THEN 0 ELSE lines[row]]))]

\* approveScrapNote: the rows are not looked at again and may go below zero, and the
\* status is written whatever it is by now.
ApproveNoteCommit(s) ==
    /\ At(s, "note.approve")
    /\ UpsertInventory(Negative(note.lines))
    /\ UpsertBalance(ScrappedFrom(note.lines).onHand, NoItem, ScrappedFrom(note.lines).expired)
    /\ InsertMovements([ref \in {"scrap"} |-> Negative(note.lines)])
    /\ note' = [note EXCEPT !.status = "APPROVED"]
    /\ Goto(s, [at |-> "note.tell"])
    /\ UNCHANGED <<lot, told>>

\* The shop hears of the lines without a lot: the others were not for sale.
ApproveNoteTell(s) ==
    /\ At(s, "note.tell")
    /\ Tell("scrap", Negative(PerItem([row \in Rows |->
                         IF row[3] = NoLot THEN note.lines[row] ELSE 0])))
    /\ Done(s)
    /\ UNCHANGED <<inventory, balance, lot, moved, note>>

\* rejectScrapNote: checked, then written without a condition.
RejectNoteRead(s) ==
    /\ note.status = "DRAFT"
    /\ Begin(s, [at |-> "note.reject"])
    /\ UNCHANGED <<stockVars, note>>

SetRejected(s) ==
    /\ At(s, "note.reject")
    /\ note' = [note EXCEPT !.status = "REJECTED"]
    /\ Done(s)
    /\ UNCHANGED stockVars

NoteStep(s) ==
    \/ NoteCreate
    \/ ApproveNoteRead(s) \/ ApproveNoteCommit(s) \/ ApproveNoteTell(s)
    \/ RejectNoteRead(s) \/ SetRejected(s)

=============================================================================
