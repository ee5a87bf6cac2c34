------------------------------ MODULE PrintJob -------------------------------
(***************************************************************************)
(* PrintJobService, its consumer and its repository: blank cups are held    *)
(* for a job, used up as the printer scans them, and come back as printed   *)
(* cups that are held for the order.                                        *)
(*                                                                          *)
(* A line is looked up by its blank, so of two lines on one blank only the  *)
(* first is ever found.                                                     *)
(***************************************************************************)
EXTENDS StockLedger, Sequences

CONSTANTS Jobs,         \* print_jobs: one for each orderId asked for
          Wanted,       \* the lines of each job: its printed sku and how many
          BlankOf,      \* the blank a design is printed on
          NoBlank,      \* what an unknown design is printed on
          MaxOrders,    \* bound: how many blanks orders reserve meanwhile
          MaxRequests   \* bound: the printer's requests

ASSUME PrintAssumption ==
    /\ Jobs \subseteq Refs          \* refType print_job
    /\ \A j \in Jobs : Wanted[j] \in Seq([sku : DOMAIN BlankOf, quantity : Nat \ {0}])
    /\ DOMAIN BlankOf \subseteq Items
    /\ NoBlank \notin Items
    \* A design is a CUP_PRINTED, made here alone, and its blank a CUP_BLANK: no item is both.
    /\ \A sku \in DOMAIN BlankOf : BlankOf[sku] \in (Items \cup {NoBlank}) \ DOMAIN BlankOf
    /\ MaxOrders \in Nat /\ MaxRequests \in Nat

VARIABLES job,          \* the documents of print_jobs
          designs,      \* the CUP_PRINTED items there are
          worker,       \* what PrintJobConsumer is at
          printTold,    \* what is on the queues: holds the shop is told of, print.completed
          ordered       \* blanks reserved for orders

printVars == <<job, designs, worker, printTold, ordered>>

NoJob == [status |-> "none", lines |-> <<>>]
Free == [at |-> "free"]

PrintInit ==
    /\ job = [j \in Jobs |-> NoJob]
    /\ designs = {}
    /\ worker = Free
    /\ printTold = [reserve |-> {}, completed |-> {}]
    /\ ordered = NoItem

JobLines == [sku : Items, quantity : Nat, reserved : Nat, remaining : Int,
             status : {"PENDING", "CONSUMED", "COMPLETED"}]
PrintTypeOK ==
    /\ \A j \in Jobs :
          /\ job[j].status \in {"none", "PENDING", "IN_PROGRESS", "COMPLETED"}
          /\ DOMAIN job[j].lines \subseteq DOMAIN Wanted[j]
          /\ \A n \in DOMAIN job[j].lines : job[j].lines[n] \in JobLines
    /\ designs \subseteq Items
    /\ printTold.completed \subseteq Jobs
    /\ ordered \in [Items -> 0..MaxOrders]

Least(a, b) == IF a <= b THEN a ELSE b
NotBelowZero(n) == IF n < 0 THEN 0 ELSE n

----------------------------------------------------------------------------
\* createFromPrintRequested

\* resolveOutputItem: the lines of the message, by their place in it, whose design has a
\* blank; it is made a CUP_PRINTED item now if need be.
Resolved(j) == {n \in DOMAIN Wanted[j] : BlankOf[Wanted[j][n].sku] # NoBlank}

\* What is available now is held, all of what is wanted or less.
NewLine(line) ==
    LET held == Least(line.quantity, NotBelowZero(Available(BlankOf[line.sku]))) IN
    [sku |-> line.sku, quantity |-> line.quantity, reserved |-> held, remaining |-> held,
     status |-> "PENDING"]

\* The balances are read before the transaction; a job of an order that has one, or
\* without a line, is not made.
PrintRequested(j) ==
    /\ worker = Free
    /\ job[j].status = "none"
    /\ Resolved(j) # {}
    /\ designs' = designs \cup {Wanted[j][n].sku : n \in Resolved(j)}
    /\ worker' = [at |-> "create", job |-> j,
                  lines |-> [n \in Resolved(j) |-> NewLine(Wanted[j][n])]]
    /\ UNCHANGED <<stockVars, requestVars, job, printTold, ordered>>

\* The lines that use an item as their blank.
OnBlank(lines, i) == {n \in DOMAIN lines : BlankOf[lines[n].sku] = i}

\* For each item, the sum of a field over these.
PerBlank(lines, field) == [i \in Items |-> SumOf([n \in OnBlank(lines, i) |-> lines[n][field]])]

\* Mutated: what is wanted is held.
HoldWanted(lines) == PerBlank(lines, "quantity")

\* What the lines of a job hold.
Held(lines) == PerBlank(lines, "reserved")

\* The blanks are held and the job is made, without looking at the balance again.
PrintJobCreate ==
    /\ worker.at = "create"
    /\ UpsertBalance(NoItem, Held(worker.lines), NoItem)
    /\ job' = [job EXCEPT ![worker.job] = [status |-> "PENDING", lines |-> worker.lines]]
    /\ worker' = [worker EXCEPT !.at = "tell"]
    /\ UNCHANGED <<inventory, lot, moved, told, requestVars, designs, printTold, ordered>>

\* The shop is told, once for each job and blank.
PrintJobTell ==
    /\ worker.at = "tell"
    /\ printTold' = [printTold EXCEPT !.reserve = @ \cup
           {<<worker.job, BlankOf[line.sku]>> :
               line \in {worker.lines[n] : n \in {m \in DOMAIN worker.lines : worker.lines[m].reserved > 0}}}]
    /\ worker' = Free
    /\ UNCHANGED <<stockVars, requestVars, job, designs, ordered>>

WorkerDies ==
    /\ worker # Free
    /\ worker' = Free
    /\ UNCHANGED <<stockVars, requestVars, job, designs, printTold, ordered>>

\* Meanwhile orders reserve blanks, with reserveIfAvailable.
OrderReserves(i) ==
    /\ Available(i) >= 1
    /\ SumOf(ordered) < MaxOrders
    /\ \E sku \in DOMAIN BlankOf : BlankOf[sku] = i
    /\ UpsertBalance(NoItem, [k \in Items |-> IF k = i THEN 1 ELSE 0], NoItem)
    /\ ordered' = [ordered EXCEPT ![i] = @ + 1]
    /\ UNCHANGED <<inventory, lot, moved, told, requestVars, job, designs, worker, printTold>>

----------------------------------------------------------------------------
\* The printer's requests

\* The line a scan of this blank finds.
LineAt(j, blank) == Min(OnBlank(job[j].lines, blank))

\* Quantities of one item in one row.
Only(i, n) == [k \in Items |-> IF k = i THEN n ELSE 0]
At1(row, n) == [r \in Rows |-> IF r = row THEN n ELSE 0]

\* consumeItem: the checks are made on what is read before the transaction ...
ConsumeRead(s, j, row, n) ==
    LET at == LineAt(j, row[1]) IN
    /\ job[j].status # "none"
    /\ row \in ShelfRows /\ row[3] = NoLot
    /\ OnBlank(job[j].lines, row[1]) # {}
    /\ n <= job[j].lines[at].remaining
    /\ inventory[row] >= n
    /\ Begin(s, [at |-> "consume", job |-> j, row |-> row, n |-> n])
    /\ UNCHANGED <<stockVars, printVars>>

\* decrementRemainingQty and markLineConsumedIfDone.
ConsumedLine(lines, at, n) ==
    [lines EXCEPT ![at].remaining = @ - n,
                  ![at].status = IF lines[at].remaining = n THEN "CONSUMED" ELSE @]

\* ... which takes the blanks, and their hold, whatever is left.
ConsumeCommit(s) ==
    LET r == request[s]
        at == LineAt(r.job, r.row[1])
        lines == ConsumedLine(job[r.job].lines, at, r.n) IN
    /\ At(s, "consume")
    /\ UpsertInventory(At1(r.row, -r.n))
    /\ UpsertBalance(Only(r.row[1], -r.n), Only(r.row[1], -r.n), NoItem)
    /\ InsertMovements([j \in {r.job} |-> At1(r.row, -r.n)])
    /\ job' = [job EXCEPT ![r.job] =
                  [status |-> IF lines[at].remaining = 0 /\ @.status = "PENDING"
                              THEN "IN_PROGRESS" ELSE @.status,
                   lines |-> lines]]
    /\ Done(s)
    /\ UNCHANGED <<lot, told, designs, worker, printTold, ordered>>

\* Mutated: a line may be completed before its blanks are used up.
CompletableEarly(line) == line.status # "COMPLETED"

\* A line whose blanks are used up and that is not completed yet.
Completable(line) == line.remaining <= 0 /\ line.status # "COMPLETED"

\* completeItem: as many cups as were held, and at least one, come out ...
CompleteRead(s, j, blank, place) ==
    LET at == LineAt(j, blank) IN
    /\ job[j].status # "none"
    /\ OnBlank(job[j].lines, blank) # {}
    /\ Completable(job[j].lines[at])
    /\ job[j].lines[at].reserved >= 1
    /\ Begin(s, [at |-> "complete", job |-> j, line |-> at,
                 row |-> <<job[j].lines[at].sku, place, NoLot>>, n |-> job[j].lines[at].reserved])
    /\ UNCHANGED <<stockVars, printVars>>

\* ... and are held for the order; the job is done when its last line is.
CompleteCommit(s) ==
    LET r == request[s]
        lines == [job[r.job].lines EXCEPT ![r.line].status = "COMPLETED"]
        allDone == \A n \in DOMAIN lines : lines[n].status = "COMPLETED" IN
    /\ At(s, "complete")
    /\ UpsertInventory(At1(r.row, r.n))
    /\ UpsertBalance(Only(r.row[1], r.n), Only(r.row[1], r.n), NoItem)
    /\ InsertMovements([j \in {r.job} |-> At1(r.row, r.n)])
    /\ job' = [job EXCEPT ![r.job] = [status |-> IF allDone THEN "COMPLETED" ELSE @.status,
                                      lines |-> lines]]
    /\ IF allDone THEN Goto(s, [at |-> "completed.tell", job |-> r.job]) ELSE Done(s)
    /\ UNCHANGED <<lot, told, designs, worker, printTold, ordered>>

CompletedTell(s) ==
    /\ At(s, "completed.tell")
    /\ printTold' = [printTold EXCEPT !.completed = @ \cup {request[s].job}]
    /\ Done(s)
    /\ UNCHANGED <<stockVars, job, designs, worker, ordered>>

PrintStep(s) ==
    \/ \E j \in Jobs, row \in Rows, n \in 1..2 : ConsumeRead(s, j, row, n)
    \/ \E j \in Jobs, blank \in Items, place \in Places :
          Shelf[place] = place /\ CompleteRead(s, j, blank, place)
    \/ ConsumeCommit(s) \/ CompleteCommit(s) \/ CompletedTell(s)
    \/ Die(s) /\ UNCHANGED printVars

PrintNext ==
    \/ \E j \in Jobs : PrintRequested(j)
    \/ PrintJobCreate \/ PrintJobTell \/ WorkerDies
    \/ \E i \in Items : OrderReserves(i)
    \/ \E s \in Requests : PrintStep(s)

printingVars == <<stockVars, requestVars, printVars>>

PrintingInit == StockInit /\ RequestInit(MaxRequests) /\ PrintInit

PrintingSpec == PrintingInit /\ [][PrintNext]_printingVars

----------------------------------------------------------------------------
\* Properties

PrintingTypeOK == StockTypeOK /\ PrintTypeOK

Lines(j) == DOMAIN job[j].lines
Printed(j, i) == PerItem(moved[j])[i]

\* Three kinds of handlers move the hold on a blank; at any time a balance reserves
\* what the jobs still have to use up and what orders asked for, and nothing else.
HoldsAreAccounted ==
    \A i \in Items : (\E sku \in DOMAIN BlankOf : BlankOf[sku] = i) =>
        balance[i].reserved =
            ordered[i] + SumOf([j \in Jobs |-> PerBlank(job[j].lines, "remaining")[i]])

\* No blank, no printed cup: once a line is COMPLETED its printed cups are booked and at
\* least as many blanks were used up for the lines found by that blank.  The shop hears
\* print.completed only of a job with every line printed, although the event follows the
\* commit in another step and requests race for the last line.
CompletedIsPrinted ==
    /\ \A j \in Jobs : \A n \in Lines(j) :
          LET line == job[j].lines[n] IN
          line.status = "COMPLETED" =>
              /\ Printed(j, line.sku) >= line.reserved
              /\ -Printed(j, BlankOf[line.sku]) >= line.reserved
    /\ \A j \in printTold.completed :
          /\ job[j].status = "COMPLETED"
          /\ \A n \in Lines(j) : Printed(j, job[j].lines[n].sku) >= 1

=============================================================================
