--------------------------- MODULE OrderLifecycle ---------------------------
(***************************************************************************)
(* The shop's side of an order: CheckoutService, OrderService,             *)
(* PaymentService and the consumers that call them, over the collections   *)
(* orders and payment_transactions.                                        *)
(*                                                                         *)
(* Every handler reads the order document, decides on what it read and     *)
(* writes with findByIdAndUpdate, without a condition and without a        *)
(* transaction.  A handler is therefore a sequence of steps, one per       *)
(* database or queue call, that other handlers interleave with, and it may *)
(* die between any two of them.                                            *)
(*                                                                         *)
(* Amounts are per cent of the order's total.  The warehouse and the       *)
(* payment gateway are at the end: WarehouseSays and the actions on links. *)
(***************************************************************************)
EXTENDS Integers, TLC

CONSTANTS Orders,
          Requests,      \* the slots for HTTP requests that run at one time
          MaxAttempts,   \* how often a message is tried before it is dropped
          MaxRequests,   \* bound: HTTP requests ever made
          Kinds,         \* bound: what each order may be, as pairs of method and printed or not
          Said,          \* bound: the messages the warehouse may say
          ManualAmount,  \* what the manager types in a manual payment
          NoOrder        \* the order of an idle caller

ASSUME LifecycleAssumption ==
    /\ MaxAttempts \in Nat \ {0}
    /\ MaxRequests \in Nat
    /\ Kinds \in [Orders -> SUBSET ({"COD", "ONLINE"} \X BOOLEAN)]
    /\ ManualAmount \in Nat \ {0}
    /\ NoOrder \notin Orders
    /\ Requests \cap {"reply", "shipment", "auto"} = {}

\* Who runs a handler: ReservationReplyConsumer, ShipmentConsumer, the auto.cancel
\* handler of ReserveConsumer (one job at a time each), and the HTTP requests.
Consumers == {"reply", "shipment", "auto"}
Callers == Consumers \cup Requests

Methods == {"COD", "ONLINE"}
Payments == {"UNPAID", "DEPOSIT_PAID", "PROGRESS_PAID", "PAID", "REFUND_PENDING"}
Fulfillments == {"NONE", "AWAITING_PRINT", "SAMPLE_PRINTED", "READY_TO_PICK",
                 "ISSUED", "SHIPPED", "DELIVERED", "RETURNED"}
Doc == [method : Methods, prints : BOOLEAN,
        status : {"none", "PLACED", "CONFIRMED", "CANCELLED", "CLOSED"},
        payment : Payments, fulfillment : Fulfillments]

Phases == {"D1", "D2", "D3"}
TxnIds == Phases \cup {"manual", "cod"}  \* a manager always gives the same reference
Verdicts == {"stock.reserved", "stock.reserve_failed"}
Messages == Verdicts \cup {"goods.issued", "print.sample", "print.full",
                           "shipment.shipped", "shipment.delivered", "shipment.returned"}
ShopJobs == {"stock.reserve_requested", "auto.cancel", "order.cancelled",
             "order.ready_to_fulfill", "order.returned"}

ASSUME SaidAssumption == Said \subseteq Messages

Tasks == Messages \cup {"checkout", "cancel", "auto.cancel", "return", "manual"} \cup Phases

VARIABLES
    doc,         \* the order document; status "none" before checkout
    ledger,      \* payment_transactions of the order: the amount under each id, 0 for no row
    link,        \* the PayOS payment link of each phase
    sent,        \* how often the shop added each job to order-queue
    printAsked,  \* the print.requested jobs added: the sample, the full run
    inbox,       \* what the warehouse ever added to order-reply-queue and shipment-queue
    left,        \* how often each message will still be tried; 0 once it is processed
    run,         \* the handler each caller is running
    requests     \* HTTP requests made so far

shopVars == <<doc, ledger, link, sent, printAsked, left, run, requests>>
vars == <<shopVars, inbox>>

NewDoc == [method |-> "COD", prints |-> FALSE, status |-> "none",
           payment |-> "UNPAID", fulfillment |-> "NONE"]
Idle == [at |-> "idle", order |-> NoOrder, task |-> "cancel", seen |-> NewDoc,
         next |-> NewDoc, due |-> 0]

Init ==
    /\ doc = [o \in Orders |-> NewDoc]
    /\ ledger = [o \in Orders |-> [id \in TxnIds |-> 0]]
    /\ link = [o \in Orders |-> [n \in Phases |-> "none"]]
    /\ sent = [o \in Orders |-> [job \in ShopJobs |-> 0]]
    /\ printAsked = [o \in Orders |-> {}]
    /\ inbox = [o \in Orders |-> {}]
    /\ left = [o \in Orders |-> [m \in Messages \cup {"auto.cancel"} |-> MaxAttempts]]
    /\ run = [p \in Callers |-> Idle]
    /\ requests = 0

----------------------------------------------------------------------------
\* Running a handler

At(p, at) == run[p].at = at
Order(p) == run[p].order

\* The caller goes on, with the fields of f (a record) changed.
Goto(p, at) == run' = [run EXCEPT ![p].at = at]

\* The handler returns: a message is processed, a request answered.
Return(p) ==
    /\ run' = [run EXCEPT ![p] = Idle]
    /\ left' = IF p \in Consumers
               THEN [left EXCEPT ![Order(p)][run[p].task] = 0]
               ELSE left

\* The handler throws, or its process dies: a message is tried again while it has
\* attempts left, a request is lost.
Fail(p) ==
    /\ ~At(p, "idle")
    /\ run' = [run EXCEPT ![p] = Idle]
    /\ UNCHANGED <<doc, ledger, link, sent, printAsked, left, requests, inbox>>

Write(o, fields) == doc' = [doc EXCEPT ![o] = fields]

Send(o, job) == sent' = [sent EXCEPT ![o][job] = @ + 1]

\* A handler starts at the step named after its task; all payments, and all
\* cancellations by the warehouse or the customer, run the same code.
Entry(task) ==
    IF task \in Phases \cup {"manual"} THEN "pay"
    ELSE IF task = "stock.reserve_failed" THEN "cancel"
    ELSE task

Start(p, o, task) ==
    /\ At(p, "idle")
    /\ run' = [run EXCEPT ![p] = [Idle EXCEPT !.at = Entry(task), !.order = o, !.task = task]]

Deliver(p, o, m) ==
    /\ left[o][m] > 0
    /\ left' = [left EXCEPT ![o][m] = @ - 1]
    /\ Start(p, o, m)
    /\ UNCHANGED <<doc, ledger, link, sent, printAsked, requests, inbox>>

\* A free consumer takes a message that is not processed yet; one that is tried
\* again may come after later ones.
Receive(p, o, m) ==
    /\ p = IF m \in Verdicts THEN "reply" ELSE "shipment"
    /\ m \in inbox[o]
    /\ Deliver(p, o, m)

\* The delay of auto.cancel is over and ReserveConsumer has the job.
AutoCancelStart(o) ==
    /\ Start("auto", o, "auto.cancel")
    /\ UNCHANGED <<doc, ledger, link, sent, printAsked, left, requests>>

AutoCancel(o) ==
    /\ sent[o]["auto.cancel"] > 0
    /\ Deliver("auto", o, "auto.cancel")

\* An HTTP request about an order: the webhook of a paid link (sent once or more
\* often), a manual payment, a cancellation, a return.
Request(p, o, task) ==
    /\ p \in Requests
    /\ requests < MaxRequests
    /\ doc[o].status # "none"
    /\ task \in Phases => link[o][task] = "paid"
    /\ task \in Phases \cup {"manual", "cancel", "return"}
    /\ Start(p, o, task)
    /\ requests' = requests + 1
    /\ UNCHANGED <<doc, ledger, link, sent, printAsked, left, inbox>>

----------------------------------------------------------------------------
\* checkout: the order is created before the warehouse is asked for its stock

\* A printed order has to be paid in advance.
Checkout(p, o, kind) ==
    /\ p \in Requests
    /\ requests < MaxRequests
    /\ doc[o].status = "none"
    /\ kind # <<"COD", TRUE>>
    /\ Write(o, [NewDoc EXCEPT !.method = kind[1], !.prints = kind[2], !.status = "PLACED"])
    /\ Start(p, o, "checkout")
    /\ requests' = requests + 1
    /\ UNCHANGED <<ledger, link, sent, printAsked, left, inbox>>

CheckoutReserve(p) ==
    /\ At(p, "checkout")
    /\ Send(Order(p), "stock.reserve_requested")
    /\ IF doc[Order(p)].method = "ONLINE"
       THEN Goto(p, "checkout.deadline") /\ UNCHANGED left
       ELSE Return(p)
    /\ UNCHANGED <<doc, ledger, link, printAsked, requests, inbox>>

CheckoutDeadline(p) ==
    /\ At(p, "checkout.deadline")
    /\ Send(Order(p), "auto.cancel")
    /\ Return(p)
    /\ UNCHANGED <<doc, ledger, link, printAsked, requests, inbox>>

----------------------------------------------------------------------------
\* cancelOrder, called by the customer, by auto.cancel and on stock.reserve_failed

AutoCheck(p) ==
    /\ At(p, "auto.cancel")
    /\ IF doc[Order(p)].payment = "UNPAID"
       THEN Goto(p, "cancel") /\ UNCHANGED left
       ELSE Return(p)
    /\ UNCHANGED <<doc, ledger, link, sent, printAsked, requests, inbox>>

Cancellable(d) ==
    /\ d.fulfillment \in {"NONE", "AWAITING_PRINT", "READY_TO_PICK"}
    /\ ~(d.prints /\ d.fulfillment = "AWAITING_PRINT")

\* An order that cannot be cancelled makes the handler throw.
CancelRead(p) ==
    /\ At(p, "cancel")
    /\ Cancellable(doc[Order(p)])
    /\ run' = [run EXCEPT ![p].at = "cancel.write", ![p].seen.payment = doc[Order(p)].payment]
    /\ UNCHANGED <<doc, ledger, link, sent, printAsked, left, requests, inbox>>

CancelWrite(p) ==
    /\ At(p, "cancel.write")
    /\ Write(Order(p), [doc[Order(p)] EXCEPT !.status = "CANCELLED"])
    /\ Goto(p, "cancel.emit")
    /\ UNCHANGED <<ledger, link, sent, printAsked, left, requests, inbox>>

CancelEmit(p) ==
    /\ At(p, "cancel.emit")
    /\ Send(Order(p), "order.cancelled")
    /\ Goto(p, "cancel.refund")
    /\ UNCHANGED <<doc, ledger, link, printAsked, left, requests, inbox>>

\* Mutated: any payment is refunded.
RefundAll(p) ==
    LET o == Order(p) IN
    /\ At(p, "cancel.refund")
    /\ Write(o, [doc[o] EXCEPT !.payment = "REFUND_PENDING"])
    /\ Return(p)
    /\ UNCHANGED <<ledger, link, sent, printAsked, requests, inbox>>

\* A paid order is due a refund, by what was read before the cancellation; an
\* unpaid one loses its open links.  Restoring the cart afterwards is left out.
CancelRefund(p) ==
    LET o == Order(p) IN
    /\ At(p, "cancel.refund")
    /\ \/ /\ run[p].seen.payment = "PAID"
          /\ Write(o, [doc[o] EXCEPT !.payment = "REFUND_PENDING"])
          /\ UNCHANGED link
       \/ /\ run[p].seen.payment # "PAID"
          /\ link' = IF doc[o].method = "ONLINE"
                     THEN [link EXCEPT ![o] = [n \in Phases |->
                              IF @[n] = "open" THEN "cancelled" ELSE @[n]]]
                     ELSE link
          /\ UNCHANGED doc
    /\ Return(p)
    /\ UNCHANGED <<ledger, sent, printAsked, requests, inbox>>

----------------------------------------------------------------------------
\* Payments: onPaymentSuccess

\* The amount PaymentService asks for at each phase.
Amount(d, n) ==
    IF d.prints THEN (IF n = "D3" THEN 40 ELSE 30)
    ELSE IF d.method = "ONLINE" THEN 100 ELSE 50

\* The phase createPayosPaymentLink finds the order in, if there is one to pay.
DuePhase(d) ==
    IF d.payment = "UNPAID" THEN {"D1"}
    ELSE IF ~d.prints THEN {}
    ELSE IF d.payment = "DEPOSIT_PAID" THEN {"D2"}
    ELSE IF d.payment = "PROGRESS_PAID" /\ d.method = "ONLINE" THEN {"D3"}
    ELSE {}

\* The customer asks for a link: the status of the order is not looked at, and
\* PayOS refuses a second link of the same phase ...
CreateLink(o, n) ==
    /\ doc[o].status # "none"
    /\ requests < MaxRequests      \* bound: a link without a webhook to come changes nothing
    /\ n \in DuePhase(doc[o])
    /\ link[o][n] = "none"
    /\ link' = [link EXCEPT ![o][n] = "open"]
    /\ UNCHANGED <<doc, ledger, sent, printAsked, left, run, requests, inbox>>

\* ... and pays it.
PayLink(o, n) ==
    /\ link[o][n] = "open"
    /\ requests < MaxRequests
    /\ link' = [link EXCEPT ![o][n] = "paid"]
    /\ UNCHANGED <<doc, ledger, sent, printAsked, left, run, requests, inbox>>

\* paidTotal: the sum over the rows of the ledger.
Collected(o) == ledger[o]["D1"] + ledger[o]["D2"] + ledger[o]["D3"]
                + ledger[o]["manual"] + ledger[o]["cod"]

PayRead(p) ==
    LET d == doc[Order(p)] IN
    /\ At(p, "pay")
    /\ IF d.payment = "PAID"
       THEN Return(p)
       ELSE /\ run' = [run EXCEPT ![p].at = "pay.append", ![p].seen = d]
            /\ UNCHANGED left
    /\ UNCHANGED <<doc, ledger, link, sent, printAsked, requests, inbox>>

\* The unique index on providerTxnId turns a duplicate away: the handler returns
\* as if the payment had been dealt with.
PayAppend(p) ==
    LET o == Order(p)
        id == run[p].task
        amount == IF id = "manual" THEN ManualAmount ELSE Amount(doc[o], id) IN
    /\ At(p, "pay.append")
    /\ IF ledger[o][id] > 0
       THEN Return(p) /\ UNCHANGED ledger
       ELSE /\ ledger' = [ledger EXCEPT ![o][id] = amount]
            /\ Goto(p, "pay.list")
            /\ UNCHANGED left
    /\ UNCHANGED <<doc, link, sent, printAsked, requests, inbox>>

\* What the document is to become, from the one read (d) and the sum collected.
Decide(d, paid) ==
    LET reopened == [d EXCEPT !.status = IF @ = "CANCELLED" THEN "CONFIRMED" ELSE @]
        f == d.fulfillment IN
    IF d.prints
    THEN IF paid >= 99
         THEN [d EXCEPT !.payment = "PAID", !.status = "CONFIRMED",
                        !.fulfillment = IF f = "READY_TO_PICK" THEN "ISSUED" ELSE f]
         ELSE IF paid >= 59
         THEN [reopened EXCEPT !.payment = "PROGRESS_PAID",
                        !.fulfillment = IF f = "SAMPLE_PRINTED" THEN "AWAITING_PRINT" ELSE f]
         ELSE IF paid >= 29
         THEN [d EXCEPT !.payment = "DEPOSIT_PAID", !.status = "CONFIRMED",
                        !.fulfillment = IF f = "NONE" THEN "AWAITING_PRINT" ELSE f]
         ELSE reopened
    ELSE IF paid >= 99
         THEN [d EXCEPT !.payment = "PAID", !.status = "CONFIRMED", !.fulfillment = "ISSUED"]
         ELSE IF paid >= 49
         THEN [d EXCEPT !.payment = "DEPOSIT_PAID", !.status = "CONFIRMED",
                        !.fulfillment = "READY_TO_PICK"]
         ELSE reopened

\* The sum over the ledger; a gateway payment for an order that was read as
\* cancelled stops here.
PayList(p) ==
    LET seen == run[p].seen IN
    /\ At(p, "pay.list")
    /\ IF seen.status = "CANCELLED" /\ run[p].task # "manual"
       THEN Return(p)
       ELSE /\ run' = [run EXCEPT ![p].at = "pay.write",
                                  ![p].next = Decide(seen, Collected(Order(p)))]
            /\ UNCHANGED left
    /\ UNCHANGED <<doc, ledger, link, sent, printAsked, requests, inbox>>

\* All three statuses are written, the ones that do not change as they were read.
PayWrite(p) ==
    LET n == run[p].next IN
    /\ At(p, "pay.write")
    /\ Write(Order(p), [doc[Order(p)] EXCEPT !.payment = n.payment, !.status = n.status,
                                             !.fulfillment = n.fulfillment])
    /\ Goto(p, "pay.emit")
    /\ UNCHANGED <<ledger, link, sent, printAsked, left, requests, inbox>>

\* Mutated: picking starts as soon as anything is paid.
ReadyByPayment(seen, next) ==
    IF seen.prints THEN next.payment = "PAID" /\ next.fulfillment = "ISSUED"
    ELSE next.payment # seen.payment

\* Is the order sent to be picked because of this payment?
Ready(seen, next) ==
    IF seen.prints THEN next.payment = "PAID" /\ next.fulfillment = "ISSUED"
    ELSE IF seen.method = "COD"
    THEN next.payment = "DEPOSIT_PAID" /\ seen.payment # "DEPOSIT_PAID"
    ELSE next.payment = "PAID" /\ seen.payment # "PAID"

\* Mutated: the full run does not wait for the sample.
PrintAtOnce(seen, next) ==
    IF ~seen.prints \/ next.fulfillment # "AWAITING_PRINT" THEN {}
    ELSE IF seen.fulfillment = "NONE" THEN {"sample", "full"}
    ELSE {}

\* The print jobs asked for: the sample first, the full run once the sample is seen.
PrintNow(seen, next) ==
    IF ~seen.prints \/ next.fulfillment # "AWAITING_PRINT" THEN {}
    ELSE IF seen.fulfillment = "NONE" THEN {"sample"}
    ELSE IF seen.fulfillment = "SAMPLE_PRINTED" THEN {"full"}
    ELSE {}

PayEmit(p) ==
    LET o == Order(p) IN
    /\ At(p, "pay.emit")
    /\ printAsked' = [printAsked EXCEPT ![o] = @ \cup PrintNow(run[p].seen, run[p].next)]
    /\ IF Ready(run[p].seen, run[p].next)
       THEN Send(o, "order.ready_to_fulfill")
       ELSE UNCHANGED sent
    /\ Return(p)
    /\ UNCHANGED <<doc, ledger, link, requests, inbox>>

----------------------------------------------------------------------------
\* What the warehouse says

\* onStockReserved: a COD order is confirmed, whatever became of it meanwhile.
ReservedWrite(p) ==
    LET o == Order(p) IN
    /\ At(p, "stock.reserved")
    /\ IF doc[o].method = "COD"
       THEN /\ Write(o, [doc[o] EXCEPT !.status = "CONFIRMED", !.fulfillment = "READY_TO_PICK"])
            /\ Goto(p, "reserved.emit")
            /\ UNCHANGED left
       ELSE Return(p) /\ UNCHANGED doc
    /\ UNCHANGED <<ledger, link, sent, printAsked, requests, inbox>>

ReservedEmit(p) ==
    /\ At(p, "reserved.emit")
    /\ Send(Order(p), "order.ready_to_fulfill")
    /\ Return(p)
    /\ UNCHANGED <<doc, ledger, link, printAsked, requests, inbox>>

\* onGoodsIssued, onPrintCompleted for the sample, onShipped: one blind write.
ReachedBy == [m \in {"goods.issued", "print.sample", "shipment.shipped"} |->
                 IF m = "goods.issued" THEN "ISSUED"
                 ELSE IF m = "print.sample" THEN "SAMPLE_PRINTED" ELSE "SHIPPED"]

Reached(p) ==
    /\ run[p].at \in DOMAIN ReachedBy
    /\ Write(Order(p), [doc[Order(p)] EXCEPT !.fulfillment = ReachedBy[run[p].at]])
    /\ Return(p)
    /\ UNCHANGED <<ledger, link, sent, printAsked, requests, inbox>>

\* onPrintCompleted for the full run: the payment status is the one read first.
PrintedRead(p) ==
    /\ At(p, "print.full")
    /\ run' = [run EXCEPT ![p].at = "printed.write", ![p].seen.payment = doc[Order(p)].payment]
    /\ UNCHANGED <<doc, ledger, link, sent, printAsked, left, requests, inbox>>

PrintedWrite(p) ==
    /\ At(p, "printed.write")
    /\ Write(Order(p), [doc[Order(p)] EXCEPT !.fulfillment = "READY_TO_PICK"])
    /\ Goto(p, "printed.emit")
    /\ UNCHANGED <<ledger, link, sent, printAsked, left, requests, inbox>>

PrintedEmit(p) ==
    /\ At(p, "printed.emit")
    /\ IF doc[Order(p)].method = "COD" \/ run[p].seen.payment = "PAID"
       THEN Send(Order(p), "order.ready_to_fulfill")
       ELSE UNCHANGED sent
    /\ Return(p)
    /\ UNCHANGED <<doc, ledger, link, printAsked, requests, inbox>>

\* Mutated: nothing is collected at the door.
DeliveredUncollected(p) ==
    /\ At(p, "shipment.delivered")
    /\ Goto(p, "delivered.write")
    /\ UNCHANGED <<doc, ledger, link, sent, printAsked, left, requests, inbox>>

\* onDelivered: the courier has collected what the ledger says is missing.
DeliveredList(p) ==
    LET o == Order(p)
        collects == doc[o].method = "COD" /\ Collected(o) < 100 IN
    /\ At(p, "shipment.delivered")
    /\ IF collects
       THEN run' = [run EXCEPT ![p].at = "delivered.append", ![p].due = 100 - Collected(o)]
       ELSE Goto(p, "delivered.write")
    /\ UNCHANGED <<doc, ledger, link, sent, printAsked, left, requests, inbox>>

\* The row's id is one per order; a second one makes the handler throw.
DeliveredAppend(p) ==
    LET o == Order(p) IN
    /\ At(p, "delivered.append")
    /\ ledger[o]["cod"] = 0
    /\ ledger' = [ledger EXCEPT ![o]["cod"] = run[p].due]
    /\ Goto(p, "delivered.write")
    /\ UNCHANGED <<doc, link, sent, printAsked, left, requests, inbox>>

DeliveredWrite(p) ==
    LET o == Order(p) IN
    /\ At(p, "delivered.write")
    /\ Write(o, [doc[o] EXCEPT !.fulfillment = "DELIVERED", !.status = "CLOSED",
                     !.payment = IF doc[o].method = "COD" THEN "PAID" ELSE @])
    /\ Return(p)
    /\ UNCHANGED <<ledger, link, sent, printAsked, requests, inbox>>

\* onReturned: the parcel came back undelivered.
ReturnedWrite(p) ==
    LET o == Order(p) IN
    /\ At(p, "shipment.returned")
    /\ Write(o, [doc[o] EXCEPT !.fulfillment = "RETURNED", !.status = "CANCELLED",
                     !.payment = IF doc[o].method = "ONLINE" THEN "REFUND_PENDING" ELSE @])
    /\ Return(p)
    /\ UNCHANGED <<ledger, link, sent, printAsked, requests, inbox>>

----------------------------------------------------------------------------
\* returnOrder: the customer sends a delivered order back, within its seven days

ReturnRead(p) ==
    /\ At(p, "return")
    /\ doc[Order(p)].fulfillment = "DELIVERED"
    /\ ~doc[Order(p)].prints
    /\ Goto(p, "return.write")
    /\ UNCHANGED <<doc, ledger, link, sent, printAsked, left, requests, inbox>>

ReturnWrite(p) ==
    /\ At(p, "return.write")
    /\ Write(Order(p), [doc[Order(p)] EXCEPT !.fulfillment = "RETURNED"])
    /\ Goto(p, "return.emit")
    /\ UNCHANGED <<ledger, link, sent, printAsked, left, requests, inbox>>

ReturnEmit(p) ==
    /\ At(p, "return.emit")
    /\ Send(Order(p), "order.returned")
    /\ Return(p)
    /\ UNCHANGED <<doc, ledger, link, printAsked, requests, inbox>>

----------------------------------------------------------------------------

\* One step of a handler that is running.
HandlerStep(p) ==
    /\ ~At(p, "idle")
    /\ \/ CheckoutReserve(p) \/ CheckoutDeadline(p)
       \/ AutoCheck(p) \/ CancelRead(p) \/ CancelWrite(p) \/ CancelEmit(p) \/ CancelRefund(p)
       \/ PayRead(p) \/ PayAppend(p) \/ PayList(p) \/ PayWrite(p) \/ PayEmit(p)
       \/ ReservedWrite(p) \/ ReservedEmit(p) \/ Reached(p)
       \/ PrintedRead(p) \/ PrintedWrite(p) \/ PrintedEmit(p)
       \/ DeliveredList(p) \/ DeliveredAppend(p) \/ DeliveredWrite(p) \/ ReturnedWrite(p)
       \/ ReturnRead(p) \/ ReturnWrite(p) \/ ReturnEmit(p)

\* What starts from outside: a request, a payment, a message taken from a queue.
Outside(o) ==
    \/ \E p \in Requests, kind \in Kinds[o] : Checkout(p, o, kind)
    \/ \E p \in Requests, task \in Phases \cup {"manual", "cancel", "return"} : Request(p, o, task)
    \/ \E n \in Phases : CreateLink(o, n) \/ PayLink(o, n)
    \/ \E p \in Consumers, m \in Messages : Receive(p, o, m)

ShopNext == (\E p \in Callers : HandlerStep(p) \/ Fail(p)) \/ (\E o \in Orders : Outside(o))

\* What follows from a goods issue, directly or through its parcel.
Picked == {"goods.issued", "shipment.shipped", "shipment.delivered", "shipment.returned"}

\* What the warehouse can have been led to say: a verdict on a request, progress
\* on what it was sent, and one end of a delivery or the other - which the shop may
\* hear of before it hears that the parcel was shipped, or even that the goods were
\* issued: the parcel is made of the goods.issued of another queue.
Sayable(o) ==
    {m \in Said \ inbox[o] :
        /\ m \in Verdicts => sent[o]["stock.reserve_requested"] > 0
        /\ m \in Picked => sent[o]["order.ready_to_fulfill"] > 0
        /\ m = "print.sample" => "sample" \in printAsked[o]
        /\ m = "print.full" => "full" \in printAsked[o]
        /\ m \in {"shipment.delivered", "shipment.returned"} =>
               /\ inbox[o] \cap {"shipment.delivered", "shipment.returned"} = {}}

WarehouseSays(o) ==
    /\ \E m \in Sayable(o) : inbox' = [inbox EXCEPT ![o] = @ \cup {m}]
    /\ UNCHANGED shopVars

Next ==
    \/ ShopNext
    \/ \E o \in Orders : WarehouseSays(o) \/ AutoCancel(o)

Spec == Init /\ [][Next]_vars

----------------------------------------------------------------------------
\* Properties

\* The steps of the handlers.
Steps == {"idle", "checkout", "checkout.deadline", "auto.cancel",
          "cancel", "cancel.write", "cancel.emit", "cancel.refund",
          "pay", "pay.append", "pay.list", "pay.write", "pay.emit",
          "stock.reserved", "reserved.emit", "goods.issued", "print.sample", "print.full",
          "printed.write", "printed.emit", "shipment.shipped", "shipment.delivered",
          "delivered.append", "delivered.write", "shipment.returned",
          "return", "return.write", "return.emit"}

Runs == [at : Steps, order : Orders \cup {NoOrder}, task : Tasks,
         seen : Doc, next : Doc, due : 0..100]

TypeOK ==
    /\ doc \in [Orders -> Doc]
    /\ ledger \in [Orders -> [TxnIds -> Nat]]
    /\ link \in [Orders -> [Phases -> {"none", "open", "paid", "cancelled"}]]
    /\ sent \in [Orders -> [ShopJobs -> Nat]]
    /\ printAsked \in [Orders -> SUBSET {"sample", "full"}]
    /\ inbox \in [Orders -> SUBSET Messages]
    /\ left \in [Orders -> [Messages \cup {"auto.cancel"} -> 0..MaxAttempts]]
    /\ run \in [Callers -> Runs]
    /\ requests \in 0..MaxRequests

\* However the handlers interleave and die, an order is PAID, or due a refund,
\* only when its ledger holds all but a per cent of its total: no write from a
\* stale read and no retried delivery settles an order nobody paid.
PaidIsBacked ==
    \A o \in Orders :
        doc[o].payment \in {"PAID", "REFUND_PENDING"} => Collected(o) >= 99

\* What the shop sends to be picked is earned: in full for an ONLINE order and for
\* a printed one; by the warehouse's word or half the price for a COD order.
ReadyIsEarned ==
    \A o \in Orders :
        sent[o]["order.ready_to_fulfill"] > 0 =>
            IF doc[o].method = "ONLINE" \/ doc[o].prints
            THEN Collected(o) >= 99
            ELSE "stock.reserved" \in inbox[o] \/ Collected(o) >= 49

\* The full run is only printed for an order whose sample came back and whose
\* second instalment is in, although three handlers write the statuses it is
\* decided on.
FullRunIsEarned ==
    \A o \in Orders :
        "full" \in printAsked[o] => "print.sample" \in inbox[o] /\ Collected(o) >= 59

\* A COD order is closed with the whole price collected, however often the
\* delivery is processed and wherever the handler dies in between.
CodClosedIsCollected ==
    \A o \in Orders :
        doc[o].status = "CLOSED" /\ doc[o].method = "COD" => Collected(o) >= 100

\* A payment through the gateway does not bring a cancelled order back.
GatewayRevivesNothing ==
    [][\A p \in Requests :
          /\ At(p, "pay.write") /\ run[p].task \in Phases
          /\ doc[Order(p)].status = "CANCELLED"
          => doc'[Order(p)].status = "CANCELLED"]_vars

\* A webhook whose transaction is in the ledger already was dealt with: the order
\* says so, unless the request that wrote the row is still at work.
DuplicateWasProcessed ==
    \A p \in Requests :
        LET o == Order(p) IN
        /\ At(p, "pay.append") /\ ledger[o][run[p].task] > 0
        /\ doc[o].status # "CANCELLED" /\ run[p].seen.status # "CANCELLED"
        => \/ doc[o].payment # "UNPAID"
           \/ \E q \in Requests \ {p} :
                 Order(q) = o /\ run[q].at \in {"pay.list", "pay.write"}

----------------------------------------------------------------------------
\* Instances: orders of any method, with or without printed items; nothing tells the
\* requests apart.
AnyKind == [o \in Orders |-> {"COD", "ONLINE"} \X BOOLEAN]
RequestSymmetry == Permutations(Requests)

=============================================================================
