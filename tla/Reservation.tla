---------------------------- MODULE Reservation ----------------------------
(***************************************************************************)
(* How the warehouse holds stock for an order: ReservationService (reserve *)
(* on stock.reserve_requested, release on order.cancelled) and             *)
(* GoodsIssueService (a goods issue on order.ready_to_fulfill, then the    *)
(* picker's confirmLine), over the collections stock_balances,             *)
(* stock_movements and goods_issues.                                       *)
(*                                                                         *)
(* One MongoDB transaction is one action; what a handler reads before its  *)
(* transaction, and what it emits after, are steps of their own, and the   *)
(* handler may die between any two of them.  Whoever sends the jobs is not *)
(* part of this module: Submit sends any of the three, in any order and    *)
(* any number of times.                                                    *)
(***************************************************************************)
EXTENDS OrderQueue, FiniteSetsExt

CONSTANTS Items,        \* the stock keeping units an order can name
          KnownItems,   \* those with a WarehouseItem
          HasStaging,   \* is a staging shelf configured?
          Need,         \* Need[o][i]: the quantity of i ordered by o
          OnHand0,      \* the balance at the start
          Expired,      \* the part of the balance on expired lots
          MaxPending    \* bound: jobs in the queue at one time

ASSUME ReservationAssumption ==
    /\ IsFiniteSet(Orders)
    /\ KnownItems \subseteq Items
    /\ HasStaging \in BOOLEAN
    /\ Need \in [Orders -> [Items -> Nat]]
    /\ \A o \in Orders : \E i \in Items : Need[o][i] > 0  \* checkout refuses an empty cart
    /\ OnHand0 \in [Items -> Nat]
    /\ Expired \in [Items -> Nat]
    /\ \A i \in Items : Expired[i] <= OnHand0[i]
    /\ MaxPending \in Nat

Verdicts == {"stock.reserved", "stock.reserve_failed"}
IssueQueues == {"SHIPMENT", "SHIPMENT_INTERNAL"}
Nothing == [i \in Items |-> 0]

VARIABLES
    onHand, reserved,   \* stock_balances, per item
    reserveMv,          \* stock_movements of refType 'reservation', per order and item
    releaseMv,          \* stock_movements of refType 'reservation_release', as a positive quantity
    replies,            \* the jobs ever added to order-reply-queue: their ids are one per
                        \* order and verdict, so adding one again changes nothing
    issue,              \* the status of the order's goods issue
    remaining,          \* its remainingQty per line
    announcing,         \* the queues a confirmLine request has still to send goods.issued to
    announced           \* the queues that have it

stockVars == <<onHand, reserved, reserveMv, releaseMv>>
issueVars == <<issue, remaining, announcing, announced>>
reservationVars == <<stockVars, replies, issueVars>>
vars == <<queueVars, reservationVars>>

TypeOK ==
    /\ QueueTypeOK
    /\ onHand \in [Items -> Int]
    /\ reserved \in [Items -> Int]
    /\ reserveMv \in [Orders -> [Items -> Nat]]
    /\ releaseMv \in [Orders -> [Items -> Nat]]
    /\ replies \in [Orders -> SUBSET Verdicts]
    /\ issue \in [Orders -> {"none", "PENDING", "CONFIRMED"}]
    /\ remaining \in [Orders -> [Items -> Nat]]
    /\ announcing \in [Orders -> SUBSET IssueQueues]
    /\ announced \in [Orders -> SUBSET IssueQueues]

ReservationInit ==
    /\ onHand = OnHand0
    /\ reserved = Nothing
    /\ reserveMv = [o \in Orders |-> Nothing]
    /\ releaseMv = [o \in Orders |-> Nothing]
    /\ replies = [o \in Orders |-> {}]
    /\ issue = [o \in Orders |-> "none"]
    /\ remaining = [o \in Orders |-> Nothing]
    /\ announcing = [o \in Orders |-> {}]
    /\ announced = [o \in Orders |-> {}]

Init == QueueInit /\ ReservationInit

----------------------------------------------------------------------------
\* Operators

Available(i) == onHand[i] - reserved[i] - Expired[i]

\* hasMovementForRef: is there a movement of this kind for the order?
HasMovement(mv) == \E i \in Items : mv[i] > 0

\* Every sku of the order exists and there is a staging shelf to book it on.
Resolvable(o) ==
    /\ \A i \in Items : Need[o][i] > 0 => i \in KnownItems
    /\ HasStaging

\* Mutated: the guard looks at onHand alone.
EnoughOnHand(o) == \A i \in Items : Need[o][i] > 0 => onHand[i] - Expired[i] >= Need[o][i]

\* Every line passes reserveIfAvailable; one that does not aborts them all.
Enough(o) == \A i \in Items : Need[o][i] > 0 => Available(i) >= Need[o][i]

\* The lines of the goods issue: skus without a WarehouseItem are left out.
IssueLines(o) == [i \in Items |-> IF i \in KnownItems THEN Need[o][i] ELSE 0]

----------------------------------------------------------------------------
\* reserveForOrder

\* Mutated: no look at the movements already there.
ReserveAnyway(w) ==
    LET o == active[w].order IN
    /\ \/ ~Resolvable(o) /\ Move(w, "reserve.check", "reserve.failed")
       \/ Resolvable(o) /\ Move(w, "reserve.check", "reserve.txn")
    /\ UNCHANGED <<waiting, delayed, reservationVars>>

ReserveCheck(w) ==
    LET o == active[w].order IN
    /\ \/ HasMovement(reserveMv[o]) /\ Move(w, "reserve.check", "done")
       \/ ~HasMovement(reserveMv[o]) /\ ~Resolvable(o) /\ Move(w, "reserve.check", "reserve.failed")
       \/ ~HasMovement(reserveMv[o]) /\ Resolvable(o) /\ Move(w, "reserve.check", "reserve.txn")
    /\ UNCHANGED <<waiting, delayed, reservationVars>>

\* Mutated: reserve what there is, line by line, without the transaction's abort.
ReservePartly(w) ==
    LET o == active[w].order
        got == [i \in Items |-> IF Available(i) >= Need[o][i] THEN Need[o][i] ELSE 0] IN
    /\ Move(w, "reserve.txn", "reserve.ok")
    /\ reserved' = [i \in Items |-> reserved[i] + got[i]]
    /\ reserveMv' = [reserveMv EXCEPT ![o] = [i \in Items |-> @[i] + got[i]]]
    /\ UNCHANGED <<waiting, delayed, onHand, releaseMv, replies, issueVars>>

\* tryReserveAll, committed: every balance and every movement, or none.
ReserveCommit(w) ==
    LET o == active[w].order IN
    /\ Move(w, "reserve.txn", "reserve.ok")
    /\ Enough(o)
    /\ reserved' = [i \in Items |-> reserved[i] + Need[o][i]]
    /\ reserveMv' = [reserveMv EXCEPT ![o] = [i \in Items |-> @[i] + Need[o][i]]]
    /\ UNCHANGED <<waiting, delayed, onHand, releaseMv, replies, issueVars>>

\* Mutated: the error of the aborted transaction is swallowed.
AbortUnnoticed(w) ==
    /\ Move(w, "reserve.txn", "reserve.ok")
    /\ ~Enough(active[w].order)
    /\ UNCHANGED <<waiting, delayed, reservationVars>>

\* Mutated: the aborted transaction is neither answered nor thrown.
AbortHangs(w) ==
    /\ Move(w, "reserve.txn", "reserve.txn")
    /\ ~Enough(active[w].order)
    /\ UNCHANGED <<waiting, delayed, reservationVars>>

ReserveAbort(w) ==
    /\ Move(w, "reserve.txn", "reserve.failed")
    /\ ~Enough(active[w].order)
    /\ UNCHANGED <<waiting, delayed, reservationVars>>

Reply(w, from, verdict) ==
    /\ Move(w, from, "done")
    /\ replies' = [replies EXCEPT ![active[w].order] = @ \cup {verdict}]
    /\ UNCHANGED <<waiting, delayed, stockVars, issueVars>>

EmitReserved(w) == Reply(w, "reserve.ok", "stock.reserved")
EmitReserveFailed(w) == Reply(w, "reserve.failed", "stock.reserve_failed")

----------------------------------------------------------------------------
\* releaseForOrder

\* Mutated: a second order.cancelled releases again.
ReleasableTwice(o) == HasMovement(reserveMv[o]) /\ issue[o] = "none"

\* Released already, never reserved, or picked up by a goods issue: nothing to do.
Releasable(o) ==
    /\ ~HasMovement(releaseMv[o])
    /\ HasMovement(reserveMv[o])
    /\ issue[o] = "none"

ReleaseCheck(w) ==
    /\ \/ Releasable(active[w].order) /\ Move(w, "release.check", "release.txn")
       \/ ~Releasable(active[w].order) /\ Move(w, "release.check", "done")
    /\ UNCHANGED <<waiting, delayed, reservationVars>>

\* Mutated: the balance is released, the movement is forgotten.
ReleaseUnrecorded(w) ==
    LET o == active[w].order IN
    /\ Move(w, "release.txn", "done")
    /\ reserved' = [i \in Items |-> reserved[i] - reserveMv[o][i]]
    /\ UNCHANGED <<waiting, delayed, onHand, reserveMv, releaseMv, replies, issueVars>>

\* Mutated: the movement is recorded with the sign it has in the database.
ReleaseSigned(w) ==
    LET o == active[w].order IN
    /\ Move(w, "release.txn", "done")
    /\ reserved' = [i \in Items |-> reserved[i] - reserveMv[o][i]]
    /\ releaseMv' = [releaseMv EXCEPT ![o] = [i \in Items |-> @[i] - reserveMv[o][i]]]
    /\ UNCHANGED <<waiting, delayed, onHand, reserveMv, replies, issueVars>>

\* The transaction does not look at the goods issue again, and takes the
\* quantity off `reserved` whatever is left there.
ReleaseCommit(w) ==
    LET o == active[w].order IN
    /\ Move(w, "release.txn", "done")
    /\ reserved' = [i \in Items |-> reserved[i] - reserveMv[o][i]]
    /\ releaseMv' = [releaseMv EXCEPT ![o] = [i \in Items |-> @[i] + reserveMv[o][i]]]
    /\ UNCHANGED <<waiting, delayed, onHand, reserveMv, replies, issueVars>>

----------------------------------------------------------------------------
\* createFromOrderReady: one goods issue per order, whether or not it is reserved

IssueCheck(w) ==
    LET o == active[w].order
        skip == issue[o] # "none" \/ ~HasMovement(IssueLines(o)) IN
    /\ \/ skip /\ Move(w, "issue.check", "done")
       \/ ~skip /\ Move(w, "issue.check", "issue.create")
    /\ UNCHANGED <<waiting, delayed, reservationVars>>

\* The unique index on orderId refuses a second one; the handler then throws.
IssueCreate(w) ==
    LET o == active[w].order IN
    /\ issue[o] = "none"
    /\ Move(w, "issue.create", "done")
    /\ issue' = [issue EXCEPT ![o] = "PENDING"]
    /\ remaining' = [remaining EXCEPT ![o] = IssueLines(o)]
    /\ UNCHANGED <<waiting, delayed, stockVars, replies, announcing, announced>>

\* Mutated: announced as soon as one line is done.
ConfirmFirstLine(o, i, q) ==
    /\ issue[o] = "PENDING"
    /\ q <= remaining[o][i]
    /\ onHand[i] >= q
    /\ reserved[i] >= q
    /\ remaining' = [remaining EXCEPT ![o][i] = @ - q]
    /\ onHand' = [onHand EXCEPT ![i] = @ - q]
    /\ reserved' = [reserved EXCEPT ![i] = @ - q]
    /\ announcing' = [announcing EXCEPT ![o] = IssueQueues]
    /\ UNCHANGED <<queueVars, reserveMv, releaseMv, replies, issue, announced>>

\* confirmLine: the transaction repeats every check the request made before it.
\* Which shelf and lot the picker scans is left out: he scans one that holds q.
ConfirmLine(o, i, q) ==
    /\ issue[o] = "PENDING"
    /\ q <= remaining[o][i]
    /\ onHand[i] >= q
    /\ reserved[i] >= q
    /\ remaining' = [remaining EXCEPT ![o][i] = @ - q]
    /\ onHand' = [onHand EXCEPT ![i] = @ - q]
    /\ reserved' = [reserved EXCEPT ![i] = @ - q]
    /\ IF HasMovement(remaining'[o])
       THEN UNCHANGED <<issue, announcing>>
       ELSE /\ issue' = [issue EXCEPT ![o] = "CONFIRMED"]
            /\ announcing' = [announcing EXCEPT ![o] = IssueQueues]
    /\ UNCHANGED <<queueVars, reserveMv, releaseMv, replies, announced>>

\* emitGoodsIssued adds to the two queues in either order ...
Announce(o, q) ==
    /\ q \in announcing[o]
    /\ announcing' = [announcing EXCEPT ![o] = @ \ {q}]
    /\ announced' = [announced EXCEPT ![o] = @ \cup {q}]
    /\ UNCHANGED <<queueVars, stockVars, replies, issue, remaining>>

\* ... or the request dies first: nobody sends them again.
ForgetAnnouncement(o) ==
    /\ announcing[o] # {}
    /\ announcing' = [announcing EXCEPT ![o] = {}]
    /\ UNCHANGED <<queueVars, stockVars, replies, issue, remaining, announced>>

----------------------------------------------------------------------------
\* The warehouse's own steps, shared with the modules that compose it.

Handler(w) ==
    /\ active[w] # NoJob
    /\ \/ ReserveCheck(w) \/ ReserveCommit(w) \/ ReserveAbort(w)
       \/ EmitReserved(w) \/ EmitReserveFailed(w)
       \/ ReleaseCheck(w) \/ ReleaseCommit(w)
       \/ IssueCheck(w) \/ IssueCreate(w)

Floor ==
    \E o \in Orders :
        \/ \E i \in Items : \E q \in 1..remaining[o][i] : ConfirmLine(o, i, q)
        \/ \E q \in IssueQueues : Announce(o, q)
        \/ ForgetAnnouncement(o)

Queue == QueueNext /\ UNCHANGED reservationVars

WarehouseNext == (\E w \in Workers : Handler(w)) \/ Floor

Pending == Len(waiting) + Cardinality({w \in Workers : active[w] # NoJob})
           + Cardinality({c \in Job \X (1..MaxPending) : c[2] <= delayed[c[1]]})

\* Anyone on the other side sends a job.
Submit(name, o) ==
    /\ Pending < MaxPending
    /\ Add(name, o)
    /\ UNCHANGED <<delayed, active, step, reservationVars>>

SubmittedNames == {"stock.reserve_requested", "order.cancelled", "order.ready_to_fulfill"}

Next ==
    \/ \E name \in SubmittedNames, o \in Orders : Submit(name, o)
    \/ Queue
    \/ WarehouseNext

Spec == Init /\ [][Next]_vars

\* The processes are up and the database answers: a handler that can take a step
\* takes it, or throws, and one that runs into the unique index on orderId throws.
HandlerFairness ==
    \A w \in Workers :
        /\ WF_vars(Handler(w))
        /\ WF_vars(step[w] = "issue.create" /\ Retry(w) /\ UNCHANGED reservationVars)

FairSpec == Spec /\ QueueFairness /\ HandlerFairness

----------------------------------------------------------------------------
\* Properties

\* reserveIfAvailable, the unconditional release and the picking together never
\* promise more than is on the shelf and not expired: available stays >= 0.
NoOversell == \A i \in Items : reserved[i] <= onHand[i] - Expired[i]

\* However often a job is redelivered and wherever a handler dies, the movements
\* of an order say that it reserved all its lines once or none, and released all
\* of them once or none (the checks run before the transactions, not in them).
AllOrNothing ==
    \A o \in Orders :
        /\ reserveMv[o] \in {Nothing, Need[o]}
        /\ releaseMv[o] \in {Nothing, reserveMv[o]}

\* The handlers act on what they read before their transaction: the reserving one
\* still finds the order unreserved there, the releasing one still finds its
\* reservation whole, and a reply that is about to be sent is still true.
ChecksStillHold ==
    \A w \in Workers :
        /\ step[w] = "reserve.txn" => reserveMv[active[w].order] = Nothing
        /\ step[w] = "reserve.ok" => reserveMv[active[w].order] = Need[active[w].order]
        /\ step[w] = "release.txn" =>
               /\ reserveMv[active[w].order] = Need[active[w].order]
               /\ releaseMv[active[w].order] = Nothing

\* stock.reserved is only ever sent for an order whose lines are all in the ledger.
ReplyTruthful ==
    \A o \in Orders :
        "stock.reserved" \in replies[o] => reserveMv[o] = Need[o]

\* What the goods issue of o has taken of i so far.
Issued(o, i) == IF issue[o] = "none" THEN 0 ELSE IssueLines(o)[i] - remaining[o][i]

OrderSum(f(_)) == MapThenSumSet(f, Orders)

\* stock_balances is what the movements add up to, although it is kept by $inc
\* in another collection and never recomputed.
BalanceMatchesLedger ==
    \A i \in Items :
        /\ onHand[i] = OnHand0[i] - OrderSum(LAMBDA o : Issued(o, i))
        /\ reserved[i] = OrderSum(LAMBDA o : reserveMv[o][i] - releaseMv[o][i] - Issued(o, i))

\* goods.issued reaches the shop or the shipping side only when every line of
\* the goods issue has been picked.
AnnouncedWhenPicked ==
    \A o \in Orders :
        announced[o] \cup announcing[o] # {} =>
            /\ issue[o] = "CONFIRMED"
            /\ remaining[o] = Nothing

\* No path through a handler hangs, whatever the other jobs did before its
\* transaction: every job that was taken is completed, retried or dropped, and its
\* worker is free again.
JobsFinish == \A w \in Workers : []<>(active[w] = NoJob)

\* A request to reserve that ReservationConsumer has completed was answered.
HandledMeansAnswered ==
    \A w \in Workers :
        (active[w] # NoJob /\ step[w] = "done") =>
            (active[w].name = "stock.reserve_requested" /\ Handles(w, active[w])
             => replies[active[w].order] # {})

\* The service implements StockPromise.
Promise == INSTANCE StockPromise WITH
    Free0 <- [i \in Items |-> OnHand0[i] - Expired[i]],
    free <- [i \in Items |-> Available(i)],
    claim <- [o \in Orders |->
                 IF ~HasMovement(reserveMv[o]) THEN "none"
                 ELSE IF ~HasMovement(releaseMv[o]) THEN "held" ELSE "released"]

KeepsPromise == Promise!Spec

=============================================================================
