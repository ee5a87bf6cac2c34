----------------------------- MODULE OrderSaga -----------------------------
(***************************************************************************)
(* An order across the two applications: the shop (OrderLifecycle) and the *)
(* warehouse's reservation and goods issue (Reservation), joined by the    *)
(* queues between them.  What the shop sends goes into order-queue, where  *)
(* its own ReserveConsumer competes with the three workers of the          *)
(* warehouse; what the warehouse answers is what the shop's consumers      *)
(* receive.  The delivery of the goods is not part of this module.         *)
(***************************************************************************)
EXTENDS Reservation

CONSTANTS Requests, MaxRequests, Kinds, ManualAmount, NoOrder  \* see OrderLifecycle

ASSUME SagaAssumption ==
    /\ MaxRequests \in Nat
    /\ Kinds \in [Orders -> SUBSET ({"COD", "ONLINE"} \X BOOLEAN)]
    /\ ManualAmount \in Nat \ {0}
    /\ NoOrder \notin Orders
    /\ Requests \cap {"reply", "shipment", "auto"} = {}

VARIABLES doc, ledger, link, sent, printAsked, left, run, requests

\* order-reply-queue and shipment-queue, as the shop sees them.
Inbox == [o \in Orders |->
             replies[o] \cup (IF "SHIPMENT" \in announced[o] THEN {"goods.issued"} ELSE {})]

Shop == INSTANCE OrderLifecycle WITH inbox <- Inbox, Said <- {}

shopVars == <<doc, ledger, link, sent, printAsked, left, run, requests>>
sagaVars == <<vars, shopVars>>

SagaInit == Init /\ Shop!Init

\* What a step of the shop sends goes to the end of order-queue, auto.cancel to
\* the delayed jobs.
Posted ==
    IF sent' = sent THEN UNCHANGED <<waiting, delayed>>
    ELSE \E o \in Orders, job \in Shop!ShopJobs :
        /\ sent'[o][job] > sent[o][job]
        /\ IF job = "auto.cancel"
           THEN AddDelayed(job, o) /\ UNCHANGED waiting
           ELSE Add(job, o) /\ UNCHANGED delayed

\* A step of a consumer or a request, or its failure.
ShopStep ==
    /\ UNCHANGED <<active, step, reservationVars>>
    /\ \E p \in Shop!Callers : Shop!HandlerStep(p) \/ (p # "auto" /\ Shop!Fail(p))
    /\ Posted

\* A request, a payment, a message taken from order-reply-queue or shipment-queue.
ShopStart ==
    /\ UNCHANGED <<active, step, reservationVars>>
    /\ \E o \in Orders : Shop!Outside(o)
    /\ Posted

\* ReserveConsumer runs the handler of auto.cancel ...
AutoCancelBegins(w) ==
    /\ active[w] # NoJob
    /\ Move(w, "autoCancel.check", "autoCancel.run")
    /\ Shop!AutoCancelStart(active[w].order)
    /\ UNCHANGED <<waiting, delayed, reservationVars>>

\* ... which returns.
AutoCancelEnds(w) ==
    /\ run["auto"] = Shop!Idle
    /\ Move(w, "autoCancel.run", "done")
    /\ UNCHANGED <<waiting, delayed, reservationVars, shopVars>>

\* When the job of ReserveConsumer is retried, its handler is gone.
QueueStep ==
    /\ Queue
    /\ run' = IF active'["ReserveConsumer"] = NoJob
              THEN [run EXCEPT !["auto"] = Shop!Idle]
              ELSE run
    /\ UNCHANGED <<doc, ledger, link, sent, printAsked, left, requests>>

Warehouse == WarehouseNext /\ UNCHANGED shopVars

SagaNext ==
    \/ ShopStep
    \/ ShopStart
    \/ \E w \in Workers : AutoCancelBegins(w) \/ AutoCancelEnds(w)
    \/ QueueStep
    \/ Warehouse

SagaSpec == SagaInit /\ [][SagaNext]_sagaVars

----------------------------------------------------------------------------
\* Properties

\* What leaves the shelf is earned: a goods issue exists only for an ONLINE order
\* collected in full, or a COD order the warehouse could reserve or that has paid
\* its half; across both applications, every retry and every lost job.
IssuedIsEarned ==
    \A o \in Orders :
        issue[o] # "none" =>
            IF doc[o].method = "ONLINE" THEN Shop!Collected(o) >= 99
            ELSE reserveMv[o] = Need[o] \/ Shop!Collected(o) >= 49

\* A COD order that nobody paid for is only confirmed to its customer after the
\* warehouse has booked every line of it.
ConfirmedWasReserved ==
    \A o \in Orders :
        doc[o].status = "CONFIRMED" /\ Shop!Collected(o) = 0 =>
            doc[o].method = "COD" /\ reserveMv[o] = Need[o]

\* What has been picked for an order was taken off the sellable stock when the
\* order was reserved, and has not been given back since.
IssueBacked ==
    \A o \in Orders, i \in Items :
        Issued(o, i) > 0 => reserveMv[o] = Need[o] /\ releaseMv[o] = Nothing

\* The reservation of an order that has a goods issue is left alone.
ReleaseSparesIssues ==
    [][\A o \in Orders : releaseMv'[o] # releaseMv[o] => issue[o] = "none"]_sagaVars

=============================================================================
