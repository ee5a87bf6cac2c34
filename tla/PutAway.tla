------------------------------ MODULE PutAway -------------------------------
(***************************************************************************)
(* PutAwayService and InventoryReconciliationService: the goods of an       *)
(* approved receipt leave the staging shelf for the cells, box by box, and  *)
(* stock that lies on a shelf from before there were cells is given one.     *)
(* Both check the room of the cell inside the transaction that locks it.     *)
(* Weights and heights are left out: a box is as large as it is wide.  The    *)
(* row of an item in a cell has one size for all its boxes, the one that was   *)
(* written last: by the task line when goods are put away, which is the       *)
(* item's, and by the client's word when old stock is assigned.               *)
(***************************************************************************)
EXTENDS WarehouseLayout, FiniteSetsExt

CONSTANTS Width,                    \* PackageSpec: the size of a box of an item, fixed once it is ordered
          Sizes,                    \* bound: the sizes a client may give an old box
          Delivered,                \* item -> the boxes of the receipt to put away
          Counts                    \* bound: the boxes a worker puts down at once

ASSUME PutAwayAssumption ==
    /\ Width \in [Items -> Nat \ {0}]
    /\ Sizes \subseteq Nat \ {0}
    /\ Delivered \in [Items -> Nat]
    /\ Counts \subseteq Nat \ {0}

Task == <<"task">>                  \* put_away_tasks: that of the receipt
Assigned(i) == <<"assigned", i>>    \* inventory_cell_assignments: the boxes they name

NoTask == [status |-> "none", source |-> "none", left |-> [i \in Items |-> 0]]

StockDocs == {Loose(i, s) : i \in Items, s \in Shelves}
             \cup {InCell(i, s, b) : i \in Items, s \in Shelves, b \in Bays}
             \cup {Snapshot(i, s, b) : i \in Items, s \in Shelves, b \in Bays}
WorkDocs == {Task} \cup {Assigned(i) : i \in Items}

SumOf(f) == MapThenSumSet(LAMBDA x : f[x], DOMAIN f)

\* findOccupiedVolumeForCell: every box of a row at the size the row has now.
Volume(d, s, b) == SumOf([i \in Items |-> d[InCell(i, s, b)] * d[Snapshot(i, s, b)]])

HasRoom(d, s, b, qty, size) == Volume(d, s, b) + qty * size <= d[Cell(s, b)].width
Fits(d, s, b, size) == size <= d[Cell(s, b)].width

\* upsertInventory: the quantity is added to the row, the size overwrites the row's.
PutInCell(i, s, b, qty, size) ==
    (InCell(i, s, b) ::= db[InCell(i, s, b)] + qty) ++ (Snapshot(i, s, b) ::= size)

----------------------------------------------------------------------------
\* The receipt

\* approveGoodsReceiptNote looks for the staging shelf before its transaction.
ReceiveRead(t) ==
    /\ db[Task] = NoTask
    /\ \E s \in Shelves :
          /\ db[Shelf(s)].live /\ db[Shelf(s)].staging
          /\ ReadOutside(t, [kind |-> "receive", shelf |-> s])

\* ... and books the goods in there, with the task that takes them from there.
ReceiveOpen(t) ==
    /\ IsReady(t) /\ tx[t].job.kind = "receive"
    /\ db[Task] = NoTask
    /\ LET s == tx[t].job.shelf
           named == {i \in Items : Delivered[i] > 0} IN
       OpenTx(t, tx[t].job,
              [x \in {Loose(i, s) : i \in named} |-> db[x] + Delivered[x[2]]]
              ++ (Task ::= [status |-> "PENDING", source |-> s, left |-> Delivered]))

----------------------------------------------------------------------------
\* PutAwayService.confirmLine

\* The shelf the goods of a task lie on; for one that names none, findStagingShelf.
Sources(d) ==
    IF d[Task].source # "none" THEN {d[Task].source}
    ELSE {s \in Shelves : d[Shelf(s)].live /\ d[Shelf(s)].staging}

\* What the worker has scanned is checked first: the cell and its shelf, the size of a
\* box and what is left of the line.
ConfirmRead(t) ==
    /\ db[Task] # NoTask
    /\ \E i \in Items, s \in Shelves, b \in Bays, qty \in Counts :
          /\ db[Cell(s, b)].live
          /\ db[Shelf(s)].live /\ ~db[Shelf(s)].staging
          /\ Fits(db, s, b, Width[i])
          /\ qty <= db[Task].left[i]
          /\ \E source \in Sources(db) :
                ReadOutside(t, [kind |-> "confirm", item |-> i, shelf |-> s, bay |-> b,
                                made |-> db[Cell(s, b)].made, qty |-> qty, source |-> source])

\* Mutated: the cell and its shelf are only read.
Unlocked(s, b) == <<>>

\* lockActiveCellForInventory and lockActiveShelfForInventory
Locked(s, b) == (Cell(s, b) ::= db[Cell(s, b)]) ++ (Shelf(s) ::= db[Shelf(s)])

\* decrementRemainingQty and markCompletedIfAllDone
TaskAfter(task, i, qty) ==
    LET left == [task.left EXCEPT ![i] = @ - qty] IN
    [task EXCEPT !.left = left, !.status = IF \A j \in Items : left[j] = 0 THEN "COMPLETED" ELSE @]

\* The transaction checks the cell, the shelf, the room and the quantities again.
ConfirmOpen(t) ==
    /\ IsReady(t) /\ tx[t].job.kind = "confirm"
    /\ LET i == tx[t].job.item
           s == tx[t].job.shelf
           b == tx[t].job.bay
           qty == tx[t].job.qty
           source == tx[t].job.source IN
       /\ db[Cell(s, b)].live /\ db[Cell(s, b)].made = tx[t].job.made
       /\ db[Shelf(s)].live /\ ~db[Shelf(s)].staging
       /\ HasRoom(db, s, b, qty, Width[i])
       /\ db[Loose(i, source)] >= qty
       /\ db[Task].status = "PENDING" /\ db[Task].left[i] >= qty
       /\ OpenTx(t, tx[t].job,
                 Locked(s, b)
                 ++ (Loose(i, source) ::= db[Loose(i, source)] - qty)
                 ++ PutInCell(i, s, b, qty, Width[i])
                 ++ (Task ::= TaskAfter(db[Task], i, qty)))

----------------------------------------------------------------------------
\* Mutated: what the assignment took is not counted off where it lay.
AssignedTwice(i, s, b, from, qty, size) ==
    (Cell(s, b) ::= db[Cell(s, b)])
    ++ PutInCell(i, s, b, qty, size)
    ++ (Assigned(i) ::= db[Assigned(i)] + qty)

AssignWrites(i, s, b, from, qty, size) ==
    (Cell(s, b) ::= db[Cell(s, b)])
    ++ (Loose(i, from) ::= db[Loose(i, from)] - qty)
    ++ PutInCell(i, s, b, qty, size)
    ++ (Assigned(i) ::= db[Assigned(i)] + qty)

\* InventoryReconciliationService.assign, in one transaction: the shelf of the cell is
\* neither read nor locked, and any row without a cell will do.  The client says how
\* wide a box is and, on its own, how much room it takes.  (A callback that is run
\* again is here one with any input.)
AssignOpen(t) ==
    \E i \in Items, from \in Shelves, s \in Shelves, b \in Bays, qty \in Counts :
    \E wide \in Sizes, size \in Sizes :
       /\ db[Loose(i, from)] >= qty
       /\ db[Cell(s, b)].live
       /\ Fits(db, s, b, wide)
       /\ HasRoom(db, s, b, qty, size)
       /\ OpenTx(t, [kind |-> "assign"], AssignWrites(i, s, b, from, qty, size))
=============================================================================
