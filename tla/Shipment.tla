------------------------------ MODULE Shipment -------------------------------
(***************************************************************************)
(* ShipmentService, CarrierService, GoodsIssuedConsumer and their           *)
(* repositories: the parcel of an order from its goods issue to one end of  *)
(* the delivery or the other, and what the shop is told on the way.         *)
(*                                                                         *)
(* A request reads the shipment and writes it only if its status is still   *)
(* the one that was read; the shop is told in a step of its own, before     *)
(* which the process may die.                                               *)
(***************************************************************************)
EXTENDS Integers

CONSTANTS Orders,
          Carriers,
          NoCarrier,
          Couriers,      \* the slots for requests about shipments
          MaxUpdates     \* bound: requests to change a status ever made

VARIABLES
    carrier,    \* Carrier.status of each carrier; "none" before it is created
    shipment,   \* the documents of shipments; statusHistory is what they went through
    courier,    \* what each request is at, and what it has read
    updates,    \* requests to change a status so far
    issued,     \* the orders whose goods.issued is on shipment-internal-queue
    said        \* what is on shipment-queue, by order: the shop's

shipmentVars == <<carrier, shipment, courier, updates, issued>>

Statuses == {"PENDING", "PICKED_UP", "IN_TRANSIT", "DELIVERED", "FAILED", "RETURNING", "RETURNED"}

ValidTransitions ==
    [PENDING |-> {"PICKED_UP"},
     PICKED_UP |-> {"IN_TRANSIT"},
     IN_TRANSIT |-> {"DELIVERED", "FAILED"},
     FAILED |-> {"IN_TRANSIT", "RETURNING"},
     RETURNING |-> {"RETURNED"},
     DELIVERED |-> {},
     RETURNED |-> {}]

Shipments == [status : Statuses \cup {"none"}, carrier : Carriers \cup {NoCarrier},
              attempts : Nat]
NoShipment == [status |-> "none", carrier |-> NoCarrier, attempts |-> 0]
Resting == [at |-> "idle"]

ShipmentInit ==
    /\ carrier = [c \in Carriers |-> "none"]
    /\ shipment = [o \in Orders |-> NoShipment]
    /\ courier = [p \in Couriers |-> Resting]
    /\ updates = 0
    /\ issued = {}

ShipmentTypeOK ==
    /\ carrier \in [Carriers -> {"none", "ACTIVE", "INACTIVE"}]
    /\ shipment \in [Orders -> Shipments]
    /\ updates \in 0..MaxUpdates
    /\ issued \subseteq Orders

Request(p, r) ==
    /\ courier[p] = Resting
    /\ updates < MaxUpdates
    /\ courier' = [courier EXCEPT ![p] = r]
    /\ updates' = updates + 1
    /\ UNCHANGED issued

Carry(p, r) == courier' = [courier EXCEPT ![p] = r] /\ UNCHANGED <<updates, issued>>

----------------------------------------------------------------------------

\* CarrierService.create and update.
CarrierCreate(c) ==
    /\ carrier[c] = "none"
    /\ carrier' = [carrier EXCEPT ![c] = "ACTIVE"]
    /\ UNCHANGED <<shipment, courier, updates, issued, said>>

CarrierUpdate(c) ==
    /\ carrier[c] = "ACTIVE"
    /\ carrier' = [carrier EXCEPT ![c] = "INACTIVE"]
    /\ UNCHANGED <<shipment, courier, updates, issued, said>>

\* Mutated: a shipment may be made before the goods are issued.
CreateUnissued(o) ==
    /\ shipment[o].status = "none"
    /\ shipment' = [shipment EXCEPT ![o].status = "PENDING"]
    /\ UNCHANGED <<carrier, courier, updates, issued, said>>

\* emitGoodsIssued adds to the two queues at once: the warehouse's own may have the
\* job before the shop's, or without it.
IssueToInternal(o) ==
    /\ issued' = issued \cup {o}
    /\ UNCHANGED <<carrier, shipment, courier, updates, said>>

\* GoodsIssuedConsumer, on its own queue: one shipment for each goods issue, kept by a
\* unique index.
CreateFromGoodsIssue(o) ==
    /\ o \in issued
    /\ shipment[o].status = "none"
    /\ shipment' = [shipment EXCEPT ![o].status = "PENDING"]
    /\ UNCHANGED <<carrier, courier, updates, issued, said>>

\* assignCarrier: the carrier is looked at before the write ...
AssignRead(p, o, c) ==
    /\ shipment[o].status # "none"
    /\ shipment[o].carrier = NoCarrier     \* bound: what was assigned is not assigned again
    /\ carrier[c] = "ACTIVE"
    /\ courier[p] = Resting
    /\ Carry(p, [at |-> "assign", order |-> o, carrier |-> c])
    /\ UNCHANGED <<carrier, shipment, said>>

\* ... which only a PENDING shipment takes.
AssignCarrier(p) ==
    LET r == courier[p] IN
    /\ r.at = "assign"
    /\ shipment' = IF shipment[r.order].status = "PENDING"
                   THEN [shipment EXCEPT ![r.order].carrier = r.carrier]
                   ELSE shipment
    /\ Carry(p, Resting)
    /\ UNCHANGED <<carrier, said>>

\* A step of the table; a parcel is picked up by a carrier it was assigned to.
MayMove(d, to) ==
    /\ d.status # "none" /\ to \in ValidTransitions[d.status]
    /\ to = "PICKED_UP" => d.carrier # NoCarrier

\* updateStatus: what is to be written is made of the shipment that was read.
UpdateRead(p, o, to) ==
    LET d == shipment[o] IN
    /\ MayMove(d, to)
    /\ Request(p, [at |-> "push", order |-> o, from |-> d.status, to |-> to,
                   attempts |-> IF to = "FAILED" THEN d.attempts + 1 ELSE d.attempts])
    /\ UNCHANGED <<carrier, shipment, said>>

\* Mutated: a delivery that failed is told like one that went well.
MilestoneOfFailed(from, to) ==
    IF to = "IN_TRANSIT" /\ from = "PICKED_UP" THEN "shipment.shipped"
    ELSE IF to \in {"DELIVERED", "FAILED"} THEN "shipment.delivered"
    ELSE IF to = "RETURNED" THEN "shipment.returned"
    ELSE "none"

\* The event of a milestone; the second time on the road is none.
Milestone(from, to) ==
    IF to = "IN_TRANSIT" /\ from = "PICKED_UP" THEN "shipment.shipped"
    ELSE IF to = "DELIVERED" THEN "shipment.delivered"
    ELSE IF to = "RETURNED" THEN "shipment.returned"
    ELSE "none"

\* What a status writes: attempts only with FAILED.
Moved(d, r) ==
    [d EXCEPT !.status = r.to, !.attempts = IF r.to = "FAILED" THEN r.attempts ELSE @]

\* What is left to do once the status is written.
Telling(r) ==
    IF Milestone(r.from, r.to) = "none" THEN Resting
    ELSE [at |-> "tell", order |-> r.order, event |-> Milestone(r.from, r.to)]

\* Mutated: the status is written whatever it is by now.
PushStatusBlind(p) ==
    LET r == courier[p] IN
    /\ r.at = "push"
    /\ shipment' = [shipment EXCEPT ![r.order] = Moved(@, r)]
    /\ Carry(p, Telling(r))
    /\ UNCHANGED <<carrier, said>>

\* pushStatus: compare and swap; who comes second gets an error.
PushStatus(p) ==
    LET r == courier[p] IN
    /\ r.at = "push"
    /\ IF shipment[r.order].status = r.from
       THEN /\ shipment' = [shipment EXCEPT ![r.order] = Moved(@, r)]
            /\ Carry(p, Telling(r))
       ELSE Carry(p, Resting) /\ UNCHANGED shipment
    /\ UNCHANGED <<carrier, said>>

TellShop(p) ==
    LET r == courier[p] IN
    /\ r.at = "tell"
    /\ said' = [said EXCEPT ![r.order] = @ \cup {r.event}]
    /\ Carry(p, Resting)
    /\ UNCHANGED <<carrier, shipment>>

CourierDies(p) ==
    /\ courier[p] # Resting
    /\ Carry(p, Resting)
    /\ UNCHANGED <<carrier, shipment, said>>

ShipmentNext ==
    \/ \E c \in Carriers : CarrierCreate(c) \/ CarrierUpdate(c)
    \/ \E o \in Orders : CreateFromGoodsIssue(o)
    \/ \E p \in Couriers :
          \/ \E o \in Orders, c \in Carriers : AssignRead(p, o, c)
          \/ \E o \in Orders, to \in Statuses : UpdateRead(p, o, to)
          \/ AssignCarrier(p) \/ PushStatus(p) \/ TellShop(p) \/ CourierDies(p)

----------------------------------------------------------------------------
\* Properties

\* The events of a shipment say what happened to it: two requests that both read
\* IN_TRANSIT cannot have the shop told of a delivery and of a return, and no parcel
\* goes on after an end was announced.
EventsAreTrue ==
    \A o \in Orders :
        /\ "shipment.shipped" \in said[o] => shipment[o].status \notin {"none", "PENDING", "PICKED_UP"}
        /\ "shipment.delivered" \in said[o] => shipment[o].status = "DELIVERED"
        /\ "shipment.returned" \in said[o] => shipment[o].status = "RETURNED"
=============================================================================
