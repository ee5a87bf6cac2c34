------------------------------ MODULE StockCount -----------------------------
(***************************************************************************)
(* StockCountService and its repository: one count, from the snapshot of    *)
(* what should lie in its scope, over the numbers the counters enter, to    *)
(* the adjustment a manager approves.                                       *)
(*                                                                          *)
(* A line knows its item, shelf and lot but no cell: the stock of a cell is *)
(* adjusted on the shelf's own row, and of two lines that differ in the     *)
(* cell only the first is ever found.                                       *)
(***************************************************************************)
EXTENDS StockLedger

CONSTANTS Scopes,       \* bound: the sets of shelves a count may cover (a zone, or all)
          Counts        \* bound: the numbers a counter may enter

ASSUME CountAssumption ==
    /\ Scopes \subseteq SUBSET Places
    /\ Counts \subseteq Nat
    /\ "count" \in Refs

VARIABLES count         \* the document of stock_counts

Uncounted == -1         \* an actualQty of null

\* The row that the line made of this row adjusts.
LineOf(row) == <<row[1], Shelf[row[2]], row[3]>>

CountInit == count = [status |-> "none", lines |-> <<>>]

CountStatuses == {"none", "DRAFT", "IN_PROGRESS", "COMPLETED", "APPROVED"}
LineDocs == [system : Nat, actual : Counts \cup {Uncounted}, delta : Int]

\* createStockCount: a line for each row that exists in the scope.
CountCreate ==
    /\ Single
    /\ count.status = "none"
    /\ \E scope \in Scopes :
          LET rows == {row \in Rows : Shelf[row[2]] \in scope /\ Exists(row)} IN
          /\ rows # {}
          /\ \A row \in rows : inventory[row] >= 0
          /\ count' = [status |-> "DRAFT",
                       lines |-> [row \in rows |-> [system |-> inventory[row],
                                                   actual |-> Uncounted, delta |-> 0]]]
    /\ UNCHANGED stockVars

\* The first line with this item, shelf and lot.
FirstLine(line) == CHOOSE row \in DOMAIN count.lines : LineOf(row) = line

\* countItem: an approved count is turned away here ...
CountRead(s) ==
    /\ count.status \notin {"none", "APPROVED"}
    /\ \E row \in DOMAIN count.lines, n \in Counts :
          Begin(s, [at |-> "count.item", line |-> FirstLine(LineOf(row)), n |-> n,
                    first |-> count.status = "DRAFT"])
    /\ UNCHANGED <<stockVars, count>>

\* ... the first number puts the count in progress, the number is written ...
CountItem(s) ==
    LET r == request[s] IN
    /\ At(s, "count.item")
    /\ count' = [status |-> IF r.first /\ count.status = "DRAFT" THEN "IN_PROGRESS" ELSE count.status,
                 lines |-> [count.lines EXCEPT ![r.line].actual = r.n]]
    /\ Goto(s, [r EXCEPT !.at = "count.delta"])
    /\ UNCHANGED stockVars

\* ... then, in another write, its difference to the snapshot ...
CountDelta(s) ==
    LET r == request[s] IN
    /\ At(s, "count.delta")
    /\ count' = [count EXCEPT !.lines[r.line].delta = r.n - count.lines[r.line].system]
    /\ Goto(s, [at |-> "count.mark"])
    /\ UNCHANGED stockVars

\* ... and a count without a blank line is COMPLETED, whatever it was.
MarkCompletedIfAllCounted(s) ==
    /\ At(s, "count.mark")
    /\ count' = IF \A line \in DOMAIN count.lines : count.lines[line].actual # Uncounted
                THEN [count EXCEPT !.status = "COMPLETED"]
                ELSE count
    /\ Done(s)
    /\ UNCHANGED stockVars

\* approveStockCount works on the differences it has read.
ApproveCountRead(s) ==
    /\ count.status = "COMPLETED"
    /\ Begin(s, [at |-> "count.approve",
                 delta |-> [row \in Rows |->
                     SumOf([l \in {k \in DOMAIN count.lines : LineOf(k) = row} |-> count.lines[l].delta])]])
    /\ UNCHANGED <<stockVars, count>>

ApproveCountCommit(s) ==
    LET delta == request[s].delta IN
    /\ At(s, "count.approve")
    /\ UpsertInventory(delta)
    /\ UpsertBalance(PerItem(delta), NoItem, NoItem)
    /\ InsertMovements([ref \in {"count"} |-> delta])
    /\ count' = [count EXCEPT !.status = "APPROVED"]
    /\ Goto(s, [request[s] EXCEPT !.at = "count.tell"])
    /\ UNCHANGED <<lot, told>>

\* Each line that differs is a job of its own, but two lines of one item have one
\* name: the first that is queued stands.
ApproveCountTell(s) ==
    LET delta == request[s].delta
        differ(i) == {row \in RowsOf(i) : delta[row] # 0} IN
    /\ At(s, "count.tell")
    /\ \E first \in [Items -> Rows] :
          /\ \A i \in Items : IF differ(i) = {} THEN first[i] = CHOOSE row \in RowsOf(i) : TRUE
                              ELSE first[i] \in differ(i)
          /\ Tell("count", [i \in Items |-> delta[first[i]]])
    /\ Done(s)
    /\ UNCHANGED <<inventory, balance, lot, moved, count>>

CountStep(s) ==
    \/ CountCreate
    \/ CountRead(s) \/ CountItem(s) \/ CountDelta(s) \/ MarkCompletedIfAllCounted(s)
    \/ ApproveCountRead(s) \/ ApproveCountCommit(s) \/ ApproveCountTell(s)

=============================================================================
