--------------------------- MODULE Delivery_proofs ---------------------------
(***************************************************************************)
(* Theorems about Delivery, for any number of orders, carriers and requests. *)
(*                                                                         *)
(* The parcel only goes forward, and pushStatus swaps its status only if it  *)
(* is still the one that was read: what a request has left to tell stays     *)
(* true until it is told.  So the parcel says nothing the warehouse of       *)
(* OrderLifecycle may not say, the order keeps all that OrderLifecycle       *)
(* proves of it, and a shop that only believes its messages follows the      *)
(* parcel.                                                                  *)
(***************************************************************************)
EXTENDS Delivery, OrderLifecycle_proofs

\* What a request about a shipment may be at.
Events == {"shipment.shipped", "shipment.delivered", "shipment.returned"}
CourierStates ==
    {Parcel!Resting}
    \cup [at : {"assign"}, order : Orders, carrier : Carriers]
    \cup [at : {"push"}, order : Orders, from : Parcel!Statuses, to : Parcel!Statuses, attempts : Nat]
    \cup [at : {"tell"}, order : Orders, event : Events]

\* The event is true of the parcel, and stays so.
TrueOf(event, o) ==
    /\ event = "shipment.shipped" => shipment[o].status \notin {"none", "PENDING", "PICKED_UP"}
    /\ event = "shipment.delivered" => shipment[o].status = "DELIVERED"
    /\ event = "shipment.returned" => shipment[o].status = "RETURNED"

\* What holds of a request between two of its steps.
CourierOK(s) ==
    /\ s.at = "push" => s.to \in Parcel!ValidTransitions[s.from]
    /\ s.at = "tell" => TrueOf(s.event, s.order) /\ s.order \in issued

\* What holds of a parcel: it is made only once issued, and told of truly.
ParcelOK(o) ==
    /\ shipment[o].status # "none" => o \in issued
    /\ \A event \in Events : event \in inbox[o] => TrueOf(event, o)

ParcelInv ==
    /\ Parcel!ShipmentTypeOK
    /\ courier \in [Couriers -> CourierStates]
    /\ \A p \in Couriers : CourierOK(courier[p])
    /\ \A o \in Orders : ParcelOK(o)

Delivered(o) == shipment[o].status = "DELIVERED"

\* What the shop believes of a delivery is so: in the order, and in what a handler
\* has read and is about to write.
Follows(o) ==
    /\ doc[o].fulfillment = "DELIVERED" => Delivered(o)
    /\ sent[o]["order.returned"] > 0 => Delivered(o)

RunFollows(r) ==
    r.at # "idle" =>
        /\ r.seen.fulfillment = "DELIVERED" => Delivered(r.order)
        /\ r.at \in {"pay.write", "pay.emit"} /\ r.next.fulfillment = "DELIVERED"
             => Delivered(r.order)
        /\ r.at \in {"return.write", "return.emit"} => Delivered(r.order)
        /\ r.at \in {"delivered.append", "delivered.write"} => r.task = "shipment.delivered"

\* Only what the shop sent to be picked is issued.
IssuedWasReady == \A o \in issued : sent[o]["order.ready_to_fulfill"] > 0

DInv ==
    /\ IInv
    /\ ParcelInv
    /\ IssuedWasReady
    /\ \A o \in Orders : Follows(o)
    /\ \A p \in Callers : RunFollows(run[p])

----------------------------------------------------------------------------
\* The parcel's own steps

\* The table of transitions: an end has no way on, and only PENDING goes to PICKED_UP.
LEMMA Transitions ==
    ASSUME NEW from \in Parcel!Statuses, NEW to \in Parcel!ValidTransitions[from]
    PROVE  /\ to \in Parcel!Statuses
           /\ from \notin {"DELIVERED", "RETURNED"}
           /\ to # "PENDING"
           /\ to = "PICKED_UP" => from = "PENDING"
<1>1. CASE from = "PENDING"
  BY <1>1 DEF Parcel!ValidTransitions, Parcel!Statuses
<1>2. CASE from = "PICKED_UP"
  BY <1>2 DEF Parcel!ValidTransitions, Parcel!Statuses
<1>3. CASE from = "IN_TRANSIT"
  BY <1>3 DEF Parcel!ValidTransitions, Parcel!Statuses
<1>4. CASE from = "FAILED"
  BY <1>4 DEF Parcel!ValidTransitions, Parcel!Statuses
<1>5. CASE from = "RETURNING"
  BY <1>5 DEF Parcel!ValidTransitions, Parcel!Statuses
<1>6. CASE from \in {"DELIVERED", "RETURNED"}
  BY <1>6 DEF Parcel!ValidTransitions, Parcel!Statuses
<1>. QED BY <1>1, <1>2, <1>3, <1>4, <1>5, <1>6 DEF Parcel!Statuses

\* How a step leaves the parcel of an order: as it was, created, or a transition on.
Onward(o) ==
    \/ shipment'[o].status = shipment[o].status
    \/ shipment[o].status = "none" /\ shipment'[o].status = "PENDING"
    \/ /\ shipment[o].status \in Parcel!Statuses
       /\ shipment'[o].status \in Parcel!ValidTransitions[shipment[o].status]

\* What was true of a parcel stays true.
LEMMA TrueStays ==
    ASSUME NEW o \in Orders, Onward(o), NEW event \in Events, TrueOf(event, o)
    PROVE  TrueOf(event, o)'
<1>1. CASE shipment'[o].status = shipment[o].status
  BY <1>1 DEF TrueOf
<1>2. CASE shipment[o].status = "none" /\ shipment'[o].status = "PENDING"
  BY <1>2 DEF TrueOf, Events
<1>3. CASE /\ shipment[o].status \in Parcel!Statuses
           /\ shipment'[o].status \in Parcel!ValidTransitions[shipment[o].status]
  <2>1. PICK from, to :
            /\ from \in Parcel!Statuses /\ to \in Parcel!ValidTransitions[from]
            /\ from = shipment[o].status /\ to = shipment'[o].status
    BY <1>3
  <2>2. /\ to \in Parcel!Statuses /\ from \notin {"DELIVERED", "RETURNED"}
        /\ to # "PENDING" /\ (to = "PICKED_UP" => from = "PENDING")
    BY <2>1, Transitions
  <2>. QED BY <2>1, <2>2 DEF TrueOf, Parcel!Statuses
<1>. QED BY <1>1, <1>2, <1>3 DEF Onward

\* A delivered parcel stays delivered.
LEMMA DeliveredStays ==
    ASSUME NEW o \in Orders, Onward(o), Delivered(o)
    PROVE  Delivered(o)'
<1>1. TrueOf("shipment.delivered", o) /\ "shipment.delivered" \in Events
  BY DEF Delivered, TrueOf, Events
<1>2. TrueOf("shipment.delivered", o)'
  BY <1>1, TrueStays
<1>. QED BY <1>2 DEF Delivered, TrueOf

\* What holds of the requests and the parcels survives when parcels move on and the
\* shop is told of what is true.
LEMMA ParcelKept ==
    ASSUME ParcelInv, \A o \in Orders : Onward(o),
           Parcel!ShipmentTypeOK', courier' \in [Couriers -> CourierStates],
           \A o \in Orders : inbox[o] \subseteq inbox'[o],
           \A o \in Orders, event \in Events :
               event \in inbox'[o] /\ event \notin inbox[o] => TrueOf(event, o),
           \A o \in Orders : shipment[o].status = "none" /\ shipment'[o].status # "none"
               => o \in issued,
           issued \subseteq issued',
           \A p \in Couriers : courier'[p] = courier[p] \/ CourierOK(courier[p])'
    PROVE  ParcelInv'
<1>1. ASSUME NEW o \in Orders
      PROVE  ParcelOK(o)'
  <2>1. ASSUME NEW event \in Events, event \in inbox'[o]
        PROVE  TrueOf(event, o)'
    <3>1. TrueOf(event, o)
      BY <2>1 DEF ParcelInv, ParcelOK
    <3>. QED BY <3>1, TrueStays
  <2>2. shipment'[o].status # "none" => o \in issued'
    BY DEF ParcelInv, ParcelOK
  <2>. QED BY <2>1, <2>2 DEF ParcelOK
<1>2. ASSUME NEW p \in Couriers
      PROVE  CourierOK(courier[p])'
  <2>1. CASE courier'[p] = courier[p]
    <3>1. PICK s \in CourierStates : s = courier[p] /\ s = courier'[p]
      BY <2>1 DEF ParcelInv
    <3>2. CourierOK(s)
      BY <3>1 DEF ParcelInv
    <3>3. CASE s.at = "tell"
      <4>1. s.order \in Orders /\ s.event \in Events
        BY <3>3 DEF CourierStates, Parcel!Resting
      <4>2. TrueOf(s.event, s.order)'
        BY <3>2, <3>3, <4>1, TrueStays DEF CourierOK
      <4>3. s.order \in issued'
        BY <3>2, <3>3, <4>1 DEF CourierOK
      <4>4. CourierOK(s)'
        BY <3>3, <4>2, <4>3 DEF CourierOK
      <4>. QED BY <3>1, <4>4 DEF CourierOK
    <3>4. CASE s.at # "tell"
      <4>1. CourierOK(s)'
        BY <3>2, <3>4 DEF CourierOK
      <4>. QED BY <3>1, <4>1 DEF CourierOK
    <3>. QED BY <3>3, <3>4
  <2>. QED BY <2>1
<1>. QED BY <1>1, <1>2 DEF ParcelInv

\* A step of the parcel's service, in the terms of ParcelKept; if it tells the shop
\* something new, that is one event of an order that was issued.
ParcelStep ==
    /\ Parcel!ShipmentTypeOK'
    /\ courier' \in [Couriers -> CourierStates]
    /\ \A o \in Orders : Onward(o)
    /\ \A o \in Orders : shipment[o].status = "none" /\ shipment'[o].status # "none"
           => o \in issued
    /\ issued' = issued
    /\ \A p \in Couriers : courier'[p] = courier[p] \/ CourierOK(courier[p])'
    /\ \/ inbox' = inbox
       \/ \E o \in Orders, event \in Events :
              /\ inbox' = [inbox EXCEPT ![o] = @ \cup {event}]
              /\ TrueOf(event, o)
              /\ o \in issued

\* Nothing but the request of p changes, to s.
LEMMA RequestOnly ==
    ASSUME ParcelInv, UNCHANGED <<carrier, shipment, inbox, issued>>, updates' \in 0..MaxUpdates,
           NEW p \in Couriers, NEW s \in CourierStates, CourierOK(s),
           courier' = [courier EXCEPT ![p] = s]
    PROVE  ParcelStep
<1>1. /\ courier' \in [Couriers -> CourierStates] /\ courier'[p] = s
      /\ \A q \in Couriers \ {p} : courier'[q] = courier[q]
  BY DEF ParcelInv
<1>2. CourierOK(s)'
  BY DEF CourierOK, TrueOf
<1>3. CourierOK(courier[p])'
  BY <1>1, <1>2 DEF CourierOK, TrueOf
<1>4. Parcel!ShipmentTypeOK'
  BY DEF ParcelInv, Parcel!ShipmentTypeOK
<1>. QED BY <1>1, <1>3, <1>4 DEF ParcelStep, Onward

LEMMA RestingOK == Parcel!Resting \in CourierStates /\ CourierOK(Parcel!Resting)
BY DEF CourierStates, CourierOK, Parcel!Resting

LEMMA CarrierSteps ==
    ASSUME ParcelInv, NEW c \in Carriers, Parcel!CarrierCreate(c) \/ Parcel!CarrierUpdate(c)
    PROVE  ParcelStep
<1>1. UNCHANGED <<shipment, courier, updates, inbox, issued>>
  BY DEF Parcel!CarrierCreate, Parcel!CarrierUpdate
<1>2. carrier' \in [Carriers -> {"none", "ACTIVE", "INACTIVE"}]
  BY DEF Parcel!CarrierCreate, Parcel!CarrierUpdate, ParcelInv, Parcel!ShipmentTypeOK
<1>. QED BY <1>1, <1>2 DEF ParcelStep, ParcelInv, Parcel!ShipmentTypeOK, Onward

LEMMA IssueSteps ==
    ASSUME ParcelInv, NEW o \in Orders, Parcel!CreateFromGoodsIssue(o)
    PROVE  ParcelStep
<1>1. UNCHANGED <<carrier, courier, updates, inbox, issued>> /\ o \in issued
      /\ shipment[o].status = "none"
  BY DEF Parcel!CreateFromGoodsIssue
<1>2. PICK d : d = [shipment[o] EXCEPT !.status = "PENDING"]
  OBVIOUS
<1>3. d \in Parcel!Shipments /\ d.status = "PENDING"
  BY <1>2 DEF ParcelInv, Parcel!ShipmentTypeOK, Parcel!Shipments, Parcel!Statuses
<1>4. shipment' = [shipment EXCEPT ![o] = d]
  BY <1>2 DEF Parcel!CreateFromGoodsIssue
<1>5. /\ shipment' \in [Orders -> Parcel!Shipments] /\ shipment'[o] = d
      /\ \A x \in Orders \ {o} : shipment'[x] = shipment[x]
  BY <1>3, <1>4 DEF ParcelInv, Parcel!ShipmentTypeOK
<1>. QED BY <1>1, <1>3, <1>5 DEF ParcelStep, ParcelInv, Parcel!ShipmentTypeOK, Onward

LEMMA AssignSteps ==
    ASSUME ParcelInv, NEW p \in Couriers,
           \/ \E o \in Orders, c \in Carriers : Parcel!AssignRead(p, o, c)
           \/ Parcel!AssignCarrier(p)
           \/ Parcel!CourierDies(p)
    PROVE  ParcelStep
<1>1. ASSUME NEW o \in Orders, NEW c \in Carriers, Parcel!AssignRead(p, o, c)
      PROVE  ParcelStep
  <2>1. PICK s : s = [at |-> "assign", order |-> o, carrier |-> c]
    OBVIOUS
  <2>2. s \in CourierStates /\ CourierOK(s)
    BY <2>1 DEF CourierStates, CourierOK
  <2>3. courier' = [courier EXCEPT ![p] = s] /\ UNCHANGED <<carrier, shipment, inbox, updates, issued>>
    BY <1>1, <2>1 DEF Parcel!AssignRead, Parcel!Carry
  <2>4. updates' \in 0..MaxUpdates
    BY <2>3 DEF ParcelInv, Parcel!ShipmentTypeOK
  <2>. QED BY <2>2, <2>3, <2>4, RequestOnly
<1>2. CASE Parcel!AssignCarrier(p)
  <2>1. PICK s \in CourierStates : s = courier[p]
    BY DEF ParcelInv
  <2>2. s.at = "assign" /\ s.order \in Orders /\ s.carrier \in Carriers
    BY <1>2, <2>1 DEF Parcel!AssignCarrier, CourierStates, Parcel!Resting
  <2>3. courier' = [courier EXCEPT ![p] = Parcel!Resting] /\ UNCHANGED <<carrier, inbox, updates, issued>>
    BY <1>2 DEF Parcel!AssignCarrier, Parcel!Carry
  <2>4. CASE shipment' = shipment
    BY <2>3, <2>4, RestingOK, RequestOnly DEF ParcelInv, Parcel!ShipmentTypeOK
  <2>5. CASE shipment' # shipment
    <3>1. PICK d : d = [shipment[s.order] EXCEPT !.carrier = s.carrier]
      OBVIOUS
    <3>2. d \in Parcel!Shipments /\ d.status = shipment[s.order].status
      BY <2>2, <3>1 DEF ParcelInv, Parcel!ShipmentTypeOK, Parcel!Shipments
    <3>3. shipment' = [shipment EXCEPT ![s.order] = d]
      BY <1>2, <2>1, <2>5, <3>1 DEF Parcel!AssignCarrier
    <3>4. /\ shipment' \in [Orders -> Parcel!Shipments]
          /\ \A x \in Orders : shipment'[x].status = shipment[x].status
      BY <2>2, <3>2, <3>3 DEF ParcelInv, Parcel!ShipmentTypeOK
    <3>5. Parcel!ShipmentTypeOK'
      BY <2>3, <3>4 DEF ParcelInv, Parcel!ShipmentTypeOK
    <3>6. /\ courier' \in [Couriers -> CourierStates] /\ courier'[p] = Parcel!Resting
          /\ \A q \in Couriers \ {p} : courier'[q] = courier[q]
      BY <2>3, RestingOK DEF ParcelInv
    <3>7. CourierOK(courier[p])'
      BY <3>6 DEF CourierOK, Parcel!Resting
    <3>. QED BY <2>3, <3>4, <3>5, <3>6, <3>7 DEF ParcelStep, Onward
  <2>. QED BY <2>4, <2>5
<1>3. CASE Parcel!CourierDies(p)
  <2>1. /\ courier' = [courier EXCEPT ![p] = Parcel!Resting]
        /\ UNCHANGED <<carrier, shipment, inbox, updates, issued>>
    BY <1>3 DEF Parcel!CourierDies, Parcel!Carry
  <2>2. updates' \in 0..MaxUpdates
    BY <2>1 DEF ParcelInv, Parcel!ShipmentTypeOK
  <2>. QED BY <2>1, <2>2, RestingOK, RequestOnly
<1>. QED BY <1>1, <1>2, <1>3

LEMMA UpdateSteps ==
    ASSUME ParcelInv, inbox \in [Orders -> SUBSET Messages], NEW p \in Couriers,
           \/ \E o \in Orders, to \in Parcel!Statuses : Parcel!UpdateRead(p, o, to)
           \/ Parcel!PushStatus(p)
           \/ Parcel!TellShop(p)
    PROVE  ParcelStep
<1>1. ASSUME NEW o \in Orders, NEW to \in Parcel!Statuses, Parcel!UpdateRead(p, o, to)
      PROVE  ParcelStep
  <2>1. PICK d \in Parcel!Shipments : d = shipment[o]
    BY DEF ParcelInv, Parcel!ShipmentTypeOK
  <2>2. PICK n : n = IF to = "FAILED" THEN d.attempts + 1 ELSE d.attempts
    OBVIOUS
  <2>3. n \in Nat
    BY <2>2 DEF Parcel!Shipments
  <2>4. PICK s : s = [at |-> "push", order |-> o, from |-> d.status, to |-> to, attempts |-> n]
    OBVIOUS
  <2>5. d.status # "none" /\ to \in Parcel!ValidTransitions[d.status]
    BY <1>1, <2>1 DEF Parcel!UpdateRead, Parcel!MayMove
  <2>6. s \in CourierStates /\ CourierOK(s)
    BY <2>3, <2>4, <2>5 DEF CourierStates, CourierOK, Parcel!Shipments
  <2>7. courier' = [courier EXCEPT ![p] = s] /\ UNCHANGED <<carrier, shipment, inbox, issued>>
    BY <1>1, <2>1, <2>2, <2>4 DEF Parcel!UpdateRead, Parcel!Request
  <2>8. updates' \in 0..MaxUpdates
    <3>1. MaxUpdates \in Nat
      BY DeliveryAssumption
    <3>2. updates \in 0..MaxUpdates /\ updates < MaxUpdates /\ updates' = updates + 1
      BY <1>1 DEF Parcel!UpdateRead, Parcel!Request, ParcelInv, Parcel!ShipmentTypeOK
    <3>. QED BY <3>1, <3>2
  <2>. QED BY <2>6, <2>7, <2>8, RequestOnly
<1>2. CASE Parcel!PushStatus(p)
  <2>1. PICK s \in CourierStates : s = courier[p]
    BY DEF ParcelInv
  <2>2. /\ s.at = "push" /\ s.order \in Orders /\ s.from \in Parcel!Statuses
        /\ s.to \in Parcel!Statuses /\ s.attempts \in Nat
    BY <1>2, <2>1 DEF Parcel!PushStatus, CourierStates, Parcel!Resting
  <2>3. s.to \in Parcel!ValidTransitions[s.from]
    BY <2>1, <2>2 DEF ParcelInv, CourierOK
  <2>4. PICK o \in Orders : o = s.order
    BY <2>2
  <2>5. CASE shipment[o].status # s.from
    <3>1. /\ courier' = [courier EXCEPT ![p] = Parcel!Resting]
          /\ UNCHANGED <<carrier, shipment, inbox, updates, issued>>
      BY <1>2, <2>1, <2>4, <2>5 DEF Parcel!PushStatus, Parcel!Carry
    <3>2. updates' \in 0..MaxUpdates
      BY <3>1 DEF ParcelInv, Parcel!ShipmentTypeOK
    <3>. QED BY <3>1, <3>2, RestingOK, RequestOnly
  <2>6. CASE shipment[o].status = s.from
    <3>1. PICK t : t = Parcel!Telling(s)
      OBVIOUS
    <3>2. PICK d : d = Parcel!Moved(shipment[o], s)
      OBVIOUS
    <3>3. PICK n : n = IF s.to = "FAILED" THEN s.attempts ELSE shipment[o].attempts
      OBVIOUS
    <3>4. shipment[o] \in Parcel!Shipments
      BY DEF ParcelInv, Parcel!ShipmentTypeOK
    <3>5. n \in Nat
      BY <2>2, <3>3, <3>4 DEF Parcel!Shipments
    <3>6. d = [shipment[o] EXCEPT !.status = s.to, !.attempts = n]
      BY <3>2, <3>3 DEF Parcel!Moved
    <3>7. d \in Parcel!Shipments /\ d.status = s.to
      BY <2>2, <3>4, <3>5, <3>6 DEF Parcel!Shipments
    <3>8. /\ courier' = [courier EXCEPT ![p] = t]
          /\ shipment' = [shipment EXCEPT ![o] = d]
          /\ UNCHANGED <<carrier, inbox, updates, issued>>
      BY <1>2, <2>1, <2>4, <2>6, <3>1, <3>2 DEF Parcel!PushStatus, Parcel!Carry
    <3>9. /\ shipment' \in [Orders -> Parcel!Shipments] /\ shipment'[o].status = s.to
          /\ \A x \in Orders \ {o} : shipment'[x] = shipment[x]
      BY <3>7, <3>8 DEF ParcelInv, Parcel!ShipmentTypeOK
    <3>10. \A x \in Orders : Onward(x)
      BY <2>2, <2>3, <2>6, <3>9 DEF Onward
    <3>11. Parcel!ShipmentTypeOK'
      BY <3>8, <3>9 DEF ParcelInv, Parcel!ShipmentTypeOK
    <3>12. t \in CourierStates /\ CourierOK(t)'
      <4>1. CASE Parcel!Milestone(s.from, s.to) = "none"
        BY <3>1, <4>1, RestingOK DEF Parcel!Telling, CourierOK, Parcel!Resting
      <4>2. CASE Parcel!Milestone(s.from, s.to) # "none"
        <5>1. PICK e : e = Parcel!Milestone(s.from, s.to)
          OBVIOUS
        <5>2. /\ e \in Events
              /\ e = "shipment.shipped" => s.to = "IN_TRANSIT"
              /\ e = "shipment.delivered" => s.to = "DELIVERED"
              /\ e = "shipment.returned" => s.to = "RETURNED"
          BY <4>2, <5>1 DEF Parcel!Milestone, Events
        <5>3. t = [at |-> "tell", order |-> o, event |-> e]
          BY <2>4, <3>1, <4>2, <5>1 DEF Parcel!Telling
        <5>4. t \in CourierStates
          BY <5>2, <5>3 DEF CourierStates
        <5>5. TrueOf(e, o)'
          BY <3>9, <5>2 DEF TrueOf, Events
        <5>6. o \in issued'
          BY <2>2, <2>6, <3>8 DEF ParcelInv, ParcelOK, Parcel!Statuses
        <5>. QED BY <5>3, <5>4, <5>5, <5>6 DEF CourierOK
      <4>. QED BY <4>1, <4>2
    <3>13. /\ courier' \in [Couriers -> CourierStates] /\ courier'[p] = t
           /\ \A q \in Couriers \ {p} : courier'[q] = courier[q]
      BY <3>8, <3>12 DEF ParcelInv
    <3>14. CourierOK(courier[p])'
      BY <3>12, <3>13 DEF CourierOK
    <3>15. \A x \in Orders : shipment[x].status = "none" => shipment'[x].status = "none"
      BY <2>2, <2>6, <3>9 DEF Parcel!Statuses
    <3>. QED BY <3>8, <3>10, <3>11, <3>13, <3>14, <3>15 DEF ParcelStep
  <2>. QED BY <2>5, <2>6
<1>3. CASE Parcel!TellShop(p)
  <2>1. PICK s \in CourierStates : s = courier[p]
    BY DEF ParcelInv
  <2>2. s.at = "tell" /\ s.order \in Orders /\ s.event \in Events
    BY <1>3, <2>1 DEF Parcel!TellShop, CourierStates, Parcel!Resting
  <2>3. TrueOf(s.event, s.order) /\ s.order \in issued
    BY <2>1, <2>2 DEF ParcelInv, CourierOK
  <2>4. /\ inbox' = [inbox EXCEPT ![s.order] = @ \cup {s.event}]
        /\ courier' = [courier EXCEPT ![p] = Parcel!Resting]
        /\ UNCHANGED <<carrier, shipment, updates, issued>>
    BY <1>3, <2>1 DEF Parcel!TellShop, Parcel!Carry
  <2>5. Parcel!ShipmentTypeOK'
    BY <2>4 DEF ParcelInv, Parcel!ShipmentTypeOK
  <2>6. /\ courier' \in [Couriers -> CourierStates] /\ courier'[p] = Parcel!Resting
        /\ \A q \in Couriers \ {p} : courier'[q] = courier[q]
    BY <2>4, RestingOK DEF ParcelInv
  <2>7. CourierOK(courier[p])'
    BY <2>6 DEF CourierOK, Parcel!Resting
  <2>. QED BY <2>2, <2>3, <2>4, <2>5, <2>6, <2>7 DEF ParcelStep, Onward
<1>. QED BY <1>1, <1>2, <1>3

LEMMA ShipmentSteps ==
    ASSUME ParcelInv, inbox \in [Orders -> SUBSET Messages], Parcel!ShipmentNext
    PROVE  ParcelStep
BY CarrierSteps, IssueSteps, AssignSteps, UpdateSteps DEF Parcel!ShipmentNext

\* Every step of the parcel's service keeps its invariant.
LEMMA ParcelStepKeeps ==
    ASSUME ParcelInv, inbox \in [Orders -> SUBSET Messages], ParcelStep
    PROVE  ParcelInv'
<1>1. /\ \A o \in Orders : inbox[o] \subseteq inbox'[o]
      /\ \A o \in Orders, event \in Events :
             event \in inbox'[o] /\ event \notin inbox[o] => TrueOf(event, o)
  <2>1. CASE inbox' = inbox
    BY <2>1
  <2>2. ASSUME NEW o \in Orders, NEW event \in Events,
               inbox' = [inbox EXCEPT ![o] = @ \cup {event}], TrueOf(event, o)
        PROVE  /\ \A x \in Orders : inbox[x] \subseteq inbox'[x]
               /\ \A x \in Orders, e \in Events :
                      e \in inbox'[x] /\ e \notin inbox[x] => TrueOf(e, x)
    BY <2>2
  <2>. QED BY <2>1, <2>2 DEF ParcelStep
<1>. QED BY <1>1, ParcelKept DEF ParcelStep

----------------------------------------------------------------------------
\* The parcel as the warehouse of OrderLifecycle

\* The shop's own steps leave what it was told alone.
LEMMA ShopHears ==
    ASSUME ShopNext \/ (\E o \in Orders : AutoCancel(o))
    PROVE  inbox' = inbox
<1>1. ASSUME NEW p \in Callers, HandlerStep(p)
      PROVE  inbox' = inbox
  BY <1>1 DEF HandlerStep, CheckoutReserve, CheckoutDeadline, AutoCheck, CancelRead,
     CancelWrite, CancelEmit, CancelRefund, PayRead, PayAppend, PayList, PayWrite, PayEmit,
     ReservedWrite, ReservedEmit, Reached, PrintedRead, PrintedWrite, PrintedEmit,
     DeliveredList, DeliveredAppend, DeliveredWrite, ReturnedWrite, ReturnRead,
     ReturnWrite, ReturnEmit
<1>2. ASSUME NEW x \in Orders, Outside(x)
      PROVE  inbox' = inbox
  BY <1>2 DEF Outside, Checkout, Request, CreateLink, PayLink, Receive, Deliver
<1>. QED BY <1>1, <1>2 DEF ShopNext, Fail, AutoCancel, Deliver

\* What the warehouse says at once, or the parcel of what is true, the warehouse of
\* OrderLifecycle may say.
LEMMA SayingIsSayable ==
    ASSUME DInv, [DeliveryNext]_deliveryVars
    PROVE  [\E o \in Orders : Shop!WarehouseSays(o)]_inbox
<1>1. ASSUME NEW o \in Orders, WarehouseSays(o)
      PROVE  Shop!WarehouseSays(o)
  BY <1>1 DEF WarehouseSays, Sayable, shopVars, Verdicts, Picked,
     Shop!WarehouseSays, Shop!Sayable, Shop!shopVars, Shop!Verdicts, Shop!Picked
<1>2. CASE Next
  BY <1>1, <1>2, ShopHears DEF Next
<1>3. CASE Parcel!ShipmentNext /\ UNCHANGED shopVars
  <2>1. ParcelStep
    BY <1>3, ShipmentSteps DEF DInv, IInv, TypeOK
  <2>2. CASE inbox' = inbox
    BY <2>2
  <2>3. ASSUME NEW o \in Orders, NEW event \in Events,
               inbox' = [inbox EXCEPT ![o] = @ \cup {event}],
               TrueOf(event, o), o \in issued
        PROVE  inbox' = inbox \/ Shop!WarehouseSays(o)
    <3>1. CASE event \in inbox[o]
      BY <2>3, <3>1 DEF DInv, IInv, TypeOK
    <3>2. CASE event \notin inbox[o]
      <4>1. event \in {"shipment.delivered", "shipment.returned"} =>
                inbox[o] \cap {"shipment.delivered", "shipment.returned"} = {}
        <5>1. \A e \in {"shipment.delivered", "shipment.returned"} :
                  e \in inbox[o] => TrueOf(e, o)
          BY DEF DInv, ParcelInv, ParcelOK, Events
        <5>. QED BY <2>3, <3>2, <5>1 DEF TrueOf
      <4>2. event \in Shop!Sayable(o)
        <5>1. sent[o]["order.ready_to_fulfill"] > 0
          BY <2>3 DEF DInv, IssuedWasReady
        <5>. QED BY <2>3, <3>2, <4>1, <5>1 DEF Shop!Sayable, Shop!Verdicts, Shop!Picked, Events
      <4>3. UNCHANGED Shop!shopVars
        BY <1>3 DEF shopVars, Shop!shopVars
      <4>. QED BY <2>3, <4>2, <4>3 DEF Shop!WarehouseSays
    <3>. QED BY <3>1, <3>2
  <2>. QED BY <2>1, <2>2, <2>3 DEF ParcelStep
<1>4. CASE UNCHANGED deliveryVars
  BY <1>4 DEF deliveryVars, vars
<1>5. CASE \E o \in Orders : GoodsIssued(o)
  BY <1>5 DEF GoodsIssued, Parcel!IssueToInternal
<1>. QED BY <1>2, <1>3, <1>4, <1>5 DEF DeliveryNext

\* OrderLifecycle's invariant is kept by all of Delivery's steps.
LEMMA LifecycleKept ==
    ASSUME DInv, [DeliveryNext]_deliveryVars
    PROVE  IInv'
<1>1. CASE Next
  BY <1>1, NextInv DEF DInv
<1>2. CASE Parcel!ShipmentNext /\ UNCHANGED shopVars
  <2>1. ParcelStep
    BY <1>2, ShipmentSteps DEF DInv, IInv, TypeOK
  <2>2. CASE inbox' = inbox
    BY <1>2, <2>2, StutterKeeps DEF DInv, vars
  <2>3. ASSUME NEW o \in Orders, NEW event \in Events,
               inbox' = [inbox EXCEPT ![o] = @ \cup {event}], o \in issued
        PROVE  IInv'
    <3>1. event \in Messages /\ event \notin Verdicts
          /\ event \notin {"print.sample", "print.full"}
          /\ sent[o]["order.ready_to_fulfill"] > 0
      BY <2>3 DEF Events, Messages, Verdicts, DInv, IssuedWasReady
    <3>. QED BY <1>2, <2>3, <3>1, SayingKeeps DEF DInv
  <2>. QED BY <2>1, <2>2, <2>3 DEF ParcelStep
<1>3. CASE UNCHANGED deliveryVars
  BY <1>3, StutterKeeps DEF DInv, deliveryVars
<1>4. CASE \E o \in Orders : GoodsIssued(o)
  BY <1>4, StutterKeeps DEF DInv, GoodsIssued, Parcel!IssueToInternal, vars
<1>. QED BY <1>1, <1>2, <1>3, <1>4 DEF DeliveryNext

\* A job that was sent stays sent.
LEMMA IssuedKept ==
    ASSUME DInv, [DeliveryNext]_deliveryVars
    PROVE  IssuedWasReady'
<1>1. \A o \in Orders : sent[o]["order.ready_to_fulfill"] > 0 => sent'[o]["order.ready_to_fulfill"] > 0
  <2>1. "order.ready_to_fulfill" \in ShopJobs
    BY DEF ShopJobs
  <2>2. CASE \E p \in Callers : HandlerStep(p) \/ Fail(p)
    <3>1. ASSUME NEW o \in Orders
          PROVE  /\ sent[o]["order.ready_to_fulfill"] \in Nat
                 /\ sent'[o]["order.ready_to_fulfill"] \in Nat
                 /\ sent'[o]["order.ready_to_fulfill"] >= sent[o]["order.ready_to_fulfill"]
      BY <2>1, <2>2, OnlySends DEF DInv
    <3>. QED BY <3>1
  <2>3. CASE UNCHANGED sent
    BY <2>3
  <2>4. CASE \E o \in Orders : Outside(o) \/ WarehouseSays(o) \/ AutoCancel(o)
    BY <2>3, <2>4 DEF Outside, Checkout, Request, CreateLink, PayLink, Receive, Deliver,
                      AutoCancel, WarehouseSays, shopVars
  <2>. QED BY <2>2, <2>3, <2>4 DEF DeliveryNext, Next, ShopNext, GoodsIssued, deliveryVars,
                                   vars, shopVars
<1>2. issued \subseteq Orders
  BY DEF DInv, ParcelInv, Parcel!ShipmentTypeOK
<1>3. CASE UNCHANGED issued
  BY <1>1, <1>2, <1>3 DEF DInv, IssuedWasReady
<1>4. CASE Parcel!ShipmentNext
  <2>1. ParcelStep
    BY <1>4, ShipmentSteps DEF DInv, IInv, TypeOK
  <2>. QED BY <1>3, <2>1 DEF ParcelStep
<1>5. ASSUME NEW o \in Orders, GoodsIssued(o)
      PROVE  IssuedWasReady'
  <2>1. sent' = sent /\ issued' = issued \cup {o} /\ sent[o]["order.ready_to_fulfill"] > 0
    BY <1>5 DEF GoodsIssued, Parcel!IssueToInternal, shopVars
  <2>. QED BY <2>1 DEF DInv, IssuedWasReady
<1>. QED BY <1>3, <1>4, <1>5 DEF DeliveryNext, deliveryVars, parcelVars

\* So is the parcel's.
LEMMA ParcelInvKept ==
    ASSUME DInv, [DeliveryNext]_deliveryVars
    PROVE  ParcelInv' /\ \A o \in Orders : Onward(o)
<1>1. CASE UNCHANGED <<parcelVars, inbox>>
  BY <1>1 DEF DInv, ParcelInv, ParcelOK, CourierOK, TrueOf, Parcel!ShipmentTypeOK,
     parcelVars, Onward
<1>2. ASSUME NEW o \in Orders, WarehouseSays(o), UNCHANGED parcelVars
      PROVE  ParcelInv' /\ \A x \in Orders : Onward(x)
  <2>1. PICK m \in Sayable(o) : inbox' = [inbox EXCEPT ![o] = @ \cup {m}]
    BY <1>2 DEF WarehouseSays
  <2>2. m \notin Events
    BY <2>1, DeliveryAssumption DEF Sayable, Events
  <2>3. /\ \A x \in Orders : inbox[x] \subseteq inbox'[x]
        /\ \A x \in Orders, event \in Events : event \in inbox'[x] => event \in inbox[x]
    BY <2>1, <2>2 DEF DInv, IInv, TypeOK
  <2>4. UNCHANGED <<carrier, shipment, courier, updates, issued>>
    BY <1>2 DEF parcelVars
  <2>5. Parcel!ShipmentTypeOK'
    BY <2>4 DEF DInv, ParcelInv, Parcel!ShipmentTypeOK
  <2>6. \A x \in Orders : Onward(x)
    BY <2>4 DEF Onward
  <2>7. courier' \in [Couriers -> CourierStates] /\ \A p \in Couriers : courier'[p] = courier[p]
    BY <2>4 DEF DInv, ParcelInv
  <2>. QED BY <2>3, <2>4, <2>5, <2>6, <2>7, ParcelKept DEF DInv
<1>3. CASE Next /\ UNCHANGED parcelVars
  BY <1>1, <1>2, <1>3, ShopHears DEF Next
<1>4. CASE Parcel!ShipmentNext
  BY <1>4, ShipmentSteps, ParcelStepKeeps DEF DInv, IInv, TypeOK, ParcelStep
<1>5. CASE UNCHANGED deliveryVars
  BY <1>1, <1>5 DEF deliveryVars, vars
<1>6. ASSUME NEW o \in Orders, GoodsIssued(o)
      PROVE  ParcelInv' /\ \A x \in Orders : Onward(x)
  <2>1. UNCHANGED <<carrier, shipment, courier, updates, inbox>> /\ issued' = issued \cup {o}
    BY <1>6 DEF GoodsIssued, Parcel!IssueToInternal
  <2>2. Parcel!ShipmentTypeOK'
    BY <2>1 DEF DInv, ParcelInv, Parcel!ShipmentTypeOK
  <2>3. courier' \in [Couriers -> CourierStates] /\ \A p \in Couriers : courier'[p] = courier[p]
    BY <2>1 DEF DInv, ParcelInv
  <2>4. \A x \in Orders : Onward(x)
    BY <2>1 DEF Onward
  <2>. QED BY <2>1, <2>2, <2>3, <2>4, ParcelKept DEF DInv
<1>. QED BY <1>3, <1>4, <1>5, <1>6 DEF DeliveryNext

----------------------------------------------------------------------------
\* The shop follows the parcel

\* A write or a job that claims a delivery only if there was one.
WriteFollows == \A o \in Orders :
    doc'[o].fulfillment = "DELIVERED" => doc[o].fulfillment = "DELIVERED" \/ Delivered(o)
SendFollows == \A o \in Orders :
    sent'[o]["order.returned"] > 0 => sent[o]["order.returned"] > 0 \/ Delivered(o)
MoveFollows(p) == \E r \in Runs : RunFollows(r) /\ run' = [run EXCEPT ![p] = r]

LEMMA WriteIsFollowed ==
    ASSUME doc \in [Orders -> Doc], NEW o \in Orders, NEW d, Write(o, d),
           d.fulfillment = "DELIVERED" => doc[o].fulfillment = "DELIVERED" \/ Delivered(o)
    PROVE  WriteFollows
BY DEF Write, WriteFollows

LEMMA SendIsFollowed ==
    ASSUME sent \in [Orders -> [ShopJobs -> Nat]], NEW o \in Orders,
           NEW job \in ShopJobs, Send(o, job), job = "order.returned" => Delivered(o)
    PROVE  SendFollows
<1>1. ASSUME NEW x \in Orders
      PROVE  \/ sent'[x]["order.returned"] = sent[x]["order.returned"]
             \/ x = o /\ job = "order.returned"
  BY DEF Send
<1>. QED BY <1>1 DEF SendFollows

LEMMA ReturnIsFollowed ==
    ASSUME TypeOK, NEW p \in Callers, Return(p)
    PROVE  MoveFollows(p)
BY Returned, IdleOK DEF MoveFollows, RunFollows, Idle

\* Going on to a step that claims nothing of its own.
LEMMA GoingIsFollowed ==
    ASSUME TypeOK, NEW p \in Callers, RunFollows(run[p]), ~At(p, "idle"), NEW at \in Steps,
           Goto(p, at),
           at \in {"pay.write", "pay.emit"} => At(p, "pay.write"),
           at \in {"return.write", "return.emit"} => Delivered(Order(p)),
           at \in {"delivered.append", "delivered.write"} => run[p].task = "shipment.delivered"
    PROVE  MoveFollows(p)
<1>1. PICK r \in Runs : OnTo(p, at, r)
  BY Went
<1>2. RunFollows(r)
  BY <1>1 DEF RunFollows, OnTo, At, Order
<1>. QED BY <1>1, <1>2 DEF MoveFollows, OnTo

\* Reading the payment leaves the fulfilment that was read before.
LEMMA ReadingIsFollowed ==
    ASSUME TypeOK, NEW p \in Callers, RunFollows(run[p]), ~At(p, "idle"),
           Order(p) \in Orders, NEW at \in {"cancel.write", "printed.write"},
           run' = [run EXCEPT ![p].at = at, ![p].seen.payment = doc[Order(p)].payment]
    PROVE  MoveFollows(p)
<1>1. PICK s \in Runs, y \in Payments : s = run[p] /\ y = doc[Order(p)].payment
  BY DEF TypeOK, Doc
<1>2. s.seen \in Doc
  BY DEF Runs
<1>3. PICK d : d = [s.seen EXCEPT !.payment = y]
  OBVIOUS
<1>4. d \in Doc /\ d.fulfillment = s.seen.fulfillment
  BY <1>2, <1>3 DEF Doc
<1>5. PICK r : r = [s EXCEPT !.at = at, !.seen = d]
  OBVIOUS
<1>6. r \in Runs /\ r.at = at /\ r.order = s.order /\ r.seen = d
  BY <1>4, <1>5 DEF Runs, Steps
<1>7. run' = [run EXCEPT ![p] = r]
  BY <1>1, <1>3, <1>5
<1>8. RunFollows(r)
  BY <1>1, <1>4, <1>6 DEF RunFollows, At
<1>. QED BY <1>6, <1>7, <1>8 DEF MoveFollows

LEMMA HandlersFollow ==
    ASSUME DInv, NEW p \in Callers, HandlerStep(p)
    PROVE  WriteFollows /\ SendFollows /\ MoveFollows(p)
<1>. DEFINE o == Order(p)
<1>1. /\ TypeOK /\ o \in Orders /\ RunOK(run[p]) /\ run[p] \in Runs /\ doc[o] \in Doc
      /\ RunFollows(run[p]) /\ Follows(o) /\ ~At(p, "idle")
      /\ doc \in [Orders -> Doc] /\ sent \in [Orders -> [ShopJobs -> Nat]]
  BY BusyFacts DEF DInv, IInv, HandlerStep, Order, TypeOK
<1>2. /\ UNCHANGED doc => WriteFollows
      /\ UNCHANGED sent => SendFollows
  BY DEF WriteFollows, SendFollows
<1>3. \A job \in ShopJobs \ {"order.returned"} : Send(o, job) => SendFollows
  BY <1>1, SendIsFollowed
<1>4. /\ "stock.reserve_requested" \in ShopJobs \ {"order.returned"}
      /\ "auto.cancel" \in ShopJobs \ {"order.returned"}
      /\ "order.cancelled" \in ShopJobs \ {"order.returned"}
      /\ "order.ready_to_fulfill" \in ShopJobs \ {"order.returned"}
      /\ "order.returned" \in ShopJobs
  BY DEF ShopJobs
<1>5. CASE CheckoutReserve(p)
  BY <1>1, <1>2, <1>3, <1>4, <1>5, ReturnIsFollowed, GoingIsFollowed DEF CheckoutReserve, Steps
<1>6. CASE CheckoutDeadline(p)
  BY <1>1, <1>2, <1>3, <1>4, <1>6, ReturnIsFollowed DEF CheckoutDeadline
<1>7. CASE AutoCheck(p)
  BY <1>1, <1>2, <1>7, ReturnIsFollowed, GoingIsFollowed DEF AutoCheck, Steps
<1>8. CASE CancelRead(p)
  BY <1>1, <1>2, <1>8, ReadingIsFollowed DEF CancelRead
<1>9. CASE CancelWrite(p)
  <2>1. PICK d : d = [doc[o] EXCEPT !.status = "CANCELLED"] /\ Write(o, d)
    BY <1>9 DEF CancelWrite
  <2>2. d.fulfillment = doc[o].fulfillment
    BY <1>1, <2>1 DEF Doc
  <2>3. WriteFollows
    BY <1>1, <2>1, <2>2, WriteIsFollowed
  <2>. QED BY <1>1, <1>2, <1>9, <2>3, GoingIsFollowed DEF CancelWrite, Steps
<1>10. CASE CancelEmit(p)
  BY <1>1, <1>2, <1>3, <1>4, <1>10, GoingIsFollowed DEF CancelEmit, Steps
<1>11. CASE CancelRefund(p)
  <2>1. CASE Write(o, [doc[o] EXCEPT !.payment = "REFUND_PENDING"])
    <3>1. PICK d : d = [doc[o] EXCEPT !.payment = "REFUND_PENDING"] /\ Write(o, d)
      BY <2>1
    <3>2. d.fulfillment = doc[o].fulfillment
      BY <1>1, <3>1 DEF Doc
    <3>3. WriteFollows
      BY <1>1, <3>1, <3>2, WriteIsFollowed
    <3>. QED BY <1>1, <1>2, <1>11, <3>3, ReturnIsFollowed DEF CancelRefund
  <2>. QED BY <1>1, <1>2, <1>11, <2>1, ReturnIsFollowed DEF CancelRefund
<1>12. CASE PayRead(p)
  <2>1. CASE Return(p)
    BY <1>1, <1>2, <1>12, <2>1, ReturnIsFollowed DEF PayRead
  <2>2. CASE run' = [run EXCEPT ![p].at = "pay.append", ![p].seen = doc[o]]
    <3>1. PICK r : r = [run[p] EXCEPT !.at = "pay.append", !.seen = doc[o]]
      OBVIOUS
    <3>2. /\ r \in Runs /\ r.at = "pay.append" /\ r.seen = doc[o] /\ r.order = o
          /\ run' = [run EXCEPT ![p] = r]
      BY <1>1, <2>2, <3>1 DEF Runs, Steps, Order
    <3>3. MoveFollows(p)
      BY <1>1, <3>2 DEF MoveFollows, RunFollows, Follows
    <3>. QED BY <1>2, <1>12, <3>3 DEF PayRead
  <2>. QED BY <1>12, <2>1, <2>2 DEF PayRead
<1>13. CASE PayAppend(p)
  BY <1>1, <1>2, <1>13, ReturnIsFollowed, GoingIsFollowed DEF PayAppend, Steps
<1>14. CASE PayList(p)
  <2>1. CASE Return(p)
    BY <1>1, <1>2, <1>14, <2>1, ReturnIsFollowed DEF PayList
  <2>2. CASE run' = [run EXCEPT ![p].at = "pay.write",
                                ![p].next = Decide(run[p].seen, Collected(o))]
    <3>1. PICK seen \in Doc, paid \in Nat : seen = run[p].seen /\ paid = Collected(o)
      BY <1>1, CollectedNat DEF Runs, TypeOK
    <3>2. PICK n : n = Decide(seen, paid)
      OBVIOUS
    <3>3. n \in Doc /\ (n.fulfillment = "DELIVERED" => seen.fulfillment = "DELIVERED")
      BY <3>2, DecideFacts
    <3>4. PICK r : r = [run[p] EXCEPT !.at = "pay.write", !.next = n]
      OBVIOUS
    <3>5. /\ r \in Runs /\ r.at = "pay.write" /\ r.seen = seen /\ r.next = n
          /\ r.order = run[p].order /\ run' = [run EXCEPT ![p] = r]
      BY <1>1, <2>2, <3>1, <3>2, <3>3, <3>4 DEF Runs, Steps
    <3>6. RunFollows(r)
      BY <1>1, <3>1, <3>3, <3>5 DEF RunFollows, At
    <3>. QED BY <1>2, <1>14, <3>5, <3>6 DEF PayList, MoveFollows
  <2>. QED BY <1>14, <2>1, <2>2 DEF PayList
<1>15. CASE PayWrite(p)
  <2>1. PICK n \in Doc : n = run[p].next
    BY <1>1 DEF Runs
  <2>2. PICK d : /\ d = [doc[o] EXCEPT !.payment = n.payment, !.status = n.status,
                                      !.fulfillment = n.fulfillment]
                 /\ Write(o, d)
    BY <1>15, <2>1 DEF PayWrite
  <2>3. d.fulfillment = n.fulfillment
    BY <1>1, <2>2 DEF Doc
  <2>4. n.fulfillment = "DELIVERED" => Delivered(o)
    BY <1>1, <1>15, <2>1 DEF PayWrite, RunFollows, At, Order
  <2>5. WriteFollows
    BY <1>1, <2>2, <2>3, <2>4, WriteIsFollowed
  <2>. QED BY <1>1, <1>2, <1>15, <2>5, GoingIsFollowed DEF PayWrite, Steps
<1>16. CASE PayEmit(p)
  BY <1>1, <1>2, <1>3, <1>4, <1>16, ReturnIsFollowed DEF PayEmit
<1>17. CASE ReservedWrite(p)
  <2>1. CASE doc[o].method = "COD"
    <3>1. PICK d : /\ d = [doc[o] EXCEPT !.status = "CONFIRMED", !.fulfillment = "READY_TO_PICK"]
                   /\ Write(o, d)
      BY <1>17, <2>1 DEF ReservedWrite
    <3>2. d.fulfillment = "READY_TO_PICK"
      BY <1>1, <3>1 DEF Doc
    <3>3. WriteFollows
      BY <1>1, <3>1, <3>2, WriteIsFollowed
    <3>. QED BY <1>1, <1>2, <1>17, <2>1, <3>3, GoingIsFollowed DEF ReservedWrite, Steps
  <2>. QED BY <1>1, <1>2, <1>17, <2>1, ReturnIsFollowed DEF ReservedWrite
<1>18. CASE ReservedEmit(p)
  BY <1>1, <1>2, <1>3, <1>4, <1>18, ReturnIsFollowed DEF ReservedEmit
<1>19. CASE Reached(p)
  <2>1. PICK f : f = ReachedBy[run[p].at]
    OBVIOUS
  <2>2. PICK d : d = [doc[o] EXCEPT !.fulfillment = f] /\ Write(o, d)
    BY <1>19, <2>1 DEF Reached
  <2>3. d.fulfillment = f /\ f # "DELIVERED"
    BY <1>1, <1>19, <2>1, <2>2 DEF Doc, Reached, ReachedBy
  <2>4. WriteFollows
    BY <1>1, <2>2, <2>3, WriteIsFollowed
  <2>. QED BY <1>1, <1>2, <1>19, <2>4, ReturnIsFollowed DEF Reached
<1>20. CASE PrintedRead(p)
  BY <1>1, <1>2, <1>20, ReadingIsFollowed DEF PrintedRead
<1>21. CASE PrintedWrite(p)
  <2>1. PICK d : d = [doc[o] EXCEPT !.fulfillment = "READY_TO_PICK"] /\ Write(o, d)
    BY <1>21 DEF PrintedWrite
  <2>2. d.fulfillment = "READY_TO_PICK"
    BY <1>1, <2>1 DEF Doc
  <2>3. WriteFollows
    BY <1>1, <2>1, <2>2, WriteIsFollowed
  <2>. QED BY <1>1, <1>2, <1>21, <2>3, GoingIsFollowed DEF PrintedWrite, Steps
<1>22. CASE PrintedEmit(p)
  BY <1>1, <1>2, <1>3, <1>4, <1>22, ReturnIsFollowed DEF PrintedEmit
<1>23. CASE DeliveredList(p)
  <2>1. run[p].task = "shipment.delivered"
    BY <1>1, <1>23 DEF RunOK, DeliveredList, At, Messages
  <2>2. CASE Goto(p, "delivered.write")
    BY <1>1, <1>2, <1>23, <2>1, <2>2, GoingIsFollowed DEF DeliveredList, Steps
  <2>3. CASE /\ doc[o].method = "COD" /\ Collected(o) < 100
             /\ run' = [run EXCEPT ![p].at = "delivered.append", ![p].due = 100 - Collected(o)]
    <3>0. PICK paid \in Nat : paid = Collected(o)
      BY <1>1, CollectedNat DEF TypeOK
    <3>1. PICK due \in 0..100 : due = 100 - Collected(o)
      BY <2>3, <3>0
    <3>2. PICK r : r = [run[p] EXCEPT !.at = "delivered.append", !.due = due]
      OBVIOUS
    <3>3. /\ r \in Runs /\ r.at = "delivered.append" /\ r.seen = run[p].seen
          /\ r.order = run[p].order /\ r.task = run[p].task
      BY <1>1, <3>2 DEF Runs, Steps
    <3>4. run' = [run EXCEPT ![p] = r]
      BY <2>3, <3>1, <3>2
    <3>5. RunFollows(r)
      BY <1>1, <2>1, <3>3 DEF RunFollows, At
    <3>. QED BY <1>2, <1>23, <3>3, <3>4, <3>5 DEF DeliveredList, MoveFollows
  <2>. QED BY <1>23, <2>2, <2>3 DEF DeliveredList
<1>24. CASE DeliveredAppend(p)
  <2>1. run[p].task = "shipment.delivered"
    BY <1>1, <1>24 DEF RunFollows, DeliveredAppend, At
  <2>. QED BY <1>1, <1>2, <1>24, <2>1, GoingIsFollowed DEF DeliveredAppend, Steps
<1>25. CASE DeliveredWrite(p)
  <2>1. "shipment.delivered" \in inbox[o]
    BY <1>1, <1>25 DEF RunFollows, RunOK, DeliveredWrite, At, Order, Messages
  <2>2. Delivered(o)
    BY <1>1, <2>1 DEF DInv, ParcelInv, ParcelOK, Events, TrueOf, Delivered
  <2>3. PICK d : Write(o, d)
    BY <1>25 DEF DeliveredWrite
  <2>4. WriteFollows
    BY <1>1, <2>2, <2>3, WriteIsFollowed
  <2>. QED BY <1>1, <1>2, <1>25, <2>4, ReturnIsFollowed DEF DeliveredWrite
<1>26. CASE ReturnedWrite(p)
  <2>1. PICK y : y = IF doc[o].method = "ONLINE" THEN "REFUND_PENDING" ELSE doc[o].payment
    OBVIOUS
  <2>2. PICK d : /\ d = [doc[o] EXCEPT !.fulfillment = "RETURNED", !.status = "CANCELLED",
                                      !.payment = y]
                 /\ Write(o, d)
    BY <1>26, <2>1 DEF ReturnedWrite
  <2>3. d.fulfillment = "RETURNED"
    BY <1>1, <2>2 DEF Doc
  <2>4. WriteFollows
    BY <1>1, <2>2, <2>3, WriteIsFollowed
  <2>. QED BY <1>1, <1>2, <1>26, <2>4, ReturnIsFollowed DEF ReturnedWrite
<1>27. CASE ReturnRead(p)
  <2>1. Delivered(o)
    BY <1>1, <1>27 DEF ReturnRead, Follows
  <2>. QED BY <1>1, <1>2, <1>27, <2>1, GoingIsFollowed DEF ReturnRead, Steps
<1>28. CASE ReturnWrite(p)
  <2>1. Delivered(o)
    BY <1>1, <1>28 DEF ReturnWrite, RunFollows, At, Order
  <2>2. PICK d : Write(o, d)
    BY <1>28 DEF ReturnWrite
  <2>3. WriteFollows
    BY <1>1, <2>1, <2>2, WriteIsFollowed
  <2>. QED BY <1>1, <1>2, <1>28, <2>1, <2>3, GoingIsFollowed DEF ReturnWrite, Steps
<1>29. CASE ReturnEmit(p)
  <2>1. Delivered(o)
    BY <1>1, <1>29 DEF ReturnEmit, RunFollows, At, Order
  <2>. QED BY <1>1, <1>2, <1>4, <1>29, <2>1, SendIsFollowed, ReturnIsFollowed DEF ReturnEmit
<1>. QED BY <1>5, <1>6, <1>7, <1>8, <1>9, <1>10, <1>11, <1>12, <1>13, <1>14, <1>15, <1>16,
            <1>17, <1>18, <1>19, <1>20, <1>21, <1>22, <1>23, <1>24, <1>25, <1>26, <1>27,
            <1>28, <1>29 DEF HandlerStep

\* The shop's step outside of a handler claims no delivery.
LEMMA OutsideFollows ==
    ASSUME DInv, NEW o \in Orders, Outside(o) \/ AutoCancel(o)
    PROVE  /\ WriteFollows /\ SendFollows
           /\ UNCHANGED run \/ \E p \in Callers : MoveFollows(p)
<1>1. /\ TypeOK /\ doc \in [Orders -> Doc]
      /\ UNCHANGED doc => WriteFollows
      /\ UNCHANGED sent => SendFollows
  BY DEF DInv, IInv, TypeOK, WriteFollows, SendFollows
<1>2. ASSUME NEW p \in Callers, NEW task \in Tasks, Start(p, o, task)
      PROVE  MoveFollows(p)
  <2>1. PICK r \in Runs :
            /\ run' = [run EXCEPT ![p] = r]
            /\ r.at = Entry(task) /\ r.order = o /\ r.task = task /\ r.seen = NewDoc
    BY <1>1, <1>2, Started
  <2>2. r.at \notin {"pay.write", "pay.emit", "return.write", "return.emit",
                     "delivered.append", "delivered.write"}
    BY <2>1 DEF Entry, Tasks, Messages, Verdicts, Phases
  <2>3. RunFollows(r)
    BY <2>1, <2>2 DEF RunFollows, NewDoc
  <2>. QED BY <2>1, <2>3 DEF MoveFollows
<1>3. ASSUME NEW p \in Requests, NEW kind \in Kinds[o], Checkout(p, o, kind)
      PROVE  WriteFollows /\ SendFollows /\ MoveFollows(p)
  <2>1. PICK d : /\ d = [NewDoc EXCEPT !.method = kind[1], !.prints = kind[2], !.status = "PLACED"]
                 /\ Write(o, d)
    BY <1>3 DEF Checkout
  <2>2. d.fulfillment = "NONE"
    BY <2>1 DEF NewDoc
  <2>3. WriteFollows
    BY <1>1, <2>1, <2>2, WriteIsFollowed
  <2>4. p \in Callers /\ "checkout" \in Tasks
    BY DEF Callers, Tasks
  <2>. QED BY <1>1, <1>2, <1>3, <2>3, <2>4 DEF Checkout
<1>4. ASSUME NEW p \in Requests, NEW task \in Phases \cup {"manual", "cancel", "return"},
             Request(p, o, task)
      PROVE  WriteFollows /\ SendFollows /\ MoveFollows(p)
  <2>1. p \in Callers /\ task \in Tasks
    BY DEF Callers, Tasks
  <2>. QED BY <1>1, <1>2, <1>4, <2>1 DEF Request
<1>5. ASSUME NEW n \in Phases, CreateLink(o, n) \/ PayLink(o, n)
      PROVE  WriteFollows /\ SendFollows /\ UNCHANGED run
  BY <1>1, <1>5 DEF CreateLink, PayLink
<1>6. ASSUME NEW p \in Callers, NEW m \in Messages \cup {"auto.cancel"}, Deliver(p, o, m)
      PROVE  WriteFollows /\ SendFollows /\ MoveFollows(p)
  <2>1. m \in Tasks
    BY DEF Tasks
  <2>. QED BY <1>1, <1>2, <1>6, <2>1 DEF Deliver
<1>7. "auto" \in Callers /\ Consumers \subseteq Callers /\ Requests \subseteq Callers
  BY DEF Callers, Consumers
<1>. QED BY <1>3, <1>4, <1>5, <1>6, <1>7 DEF Outside, Receive, AutoCancel

LEMMA FollowKept ==
    ASSUME DInv, [DeliveryNext]_deliveryVars
    PROVE  /\ \A o \in Orders : Follows(o)'
           /\ \A p \in Callers : RunFollows(run[p])'
<1>1. /\ \A o \in Orders : Onward(o)
      /\ \A o \in Orders : Delivered(o) => Delivered(o)'
  BY ParcelInvKept, DeliveredStays
<1>2. ASSUME NEW r \in Runs, RunFollows(r), r.at # "idle" => r.order \in Orders
      PROVE  RunFollows(r)'
  BY <1>1, <1>2 DEF RunFollows
<1>3. ASSUME WriteFollows, SendFollows
      PROVE  \A o \in Orders : Follows(o)'
  BY <1>1, <1>3 DEF WriteFollows, SendFollows, DInv, Follows
<1>4. IInv' /\ run' \in [Callers -> Runs] /\ run \in [Callers -> Runs]
  BY LifecycleKept DEF IInv, TypeOK, DInv
<1>5. ASSUME NEW q \in Callers, run'[q] = run[q] \/ RunFollows(run'[q])
      PROVE  RunFollows(run[q])'
  <2>1. PICK s \in Runs : s = run'[q]
    BY <1>4
  <2>2. RunFollows(s)
    BY <1>5, <2>1 DEF DInv
  <2>3. s.at # "idle" => s.order \in Orders
    BY <1>4, <2>1 DEF IInv, RunOK
  <2>4. RunFollows(s)'
    BY <1>2, <2>2, <2>3
  <2>. QED BY <2>1, <2>4 DEF RunFollows
<1>6. ASSUME NEW p \in Callers, MoveFollows(p)
      PROVE  \A q \in Callers : RunFollows(run[q])'
  <2>1. PICK r \in Runs : RunFollows(r) /\ run' = [run EXCEPT ![p] = r]
    BY <1>6 DEF MoveFollows
  <2>2. \A q \in Callers : run'[q] = IF q = p THEN r ELSE run[q]
    BY <1>4, <2>1
  <2>. QED BY <1>5, <2>1, <2>2
<1>7. ASSUME UNCHANGED <<doc, sent, run>>
      PROVE  /\ \A o \in Orders : Follows(o)'
             /\ \A p \in Callers : RunFollows(run[p])'
  <2>1. WriteFollows /\ SendFollows
    BY <1>7 DEF WriteFollows, SendFollows
  <2>. QED BY <1>3, <1>5, <1>7, <2>1
<1>8. ASSUME NEW p \in Callers, HandlerStep(p)
      PROVE  /\ \A o \in Orders : Follows(o)'
             /\ \A q \in Callers : RunFollows(run[q])'
  BY <1>3, <1>6, <1>8, HandlersFollow
<1>9. ASSUME NEW p \in Callers, Fail(p)
      PROVE  /\ \A o \in Orders : Follows(o)'
             /\ \A q \in Callers : RunFollows(run[q])'
  <2>1. MoveFollows(p)
    BY <1>9, IdleOK DEF Fail, MoveFollows, RunFollows, Idle
  <2>2. WriteFollows /\ SendFollows
    BY <1>9 DEF Fail, WriteFollows, SendFollows
  <2>. QED BY <1>3, <1>6, <2>1, <2>2
<1>10. ASSUME NEW o \in Orders, Outside(o) \/ AutoCancel(o)
       PROVE  /\ \A x \in Orders : Follows(x)'
              /\ \A q \in Callers : RunFollows(run[q])'
  <2>1. CASE UNCHANGED run
    BY <1>3, <1>5, <1>10, <2>1, OutsideFollows
  <2>. QED BY <1>3, <1>6, <1>10, <2>1, OutsideFollows
<1>11. CASE Next
  BY <1>7, <1>8, <1>9, <1>10, <1>11 DEF Next, ShopNext, WarehouseSays, shopVars
<1>12. CASE UNCHANGED shopVars
  BY <1>7, <1>12 DEF shopVars
<1>. QED BY <1>11, <1>12 DEF DeliveryNext, deliveryVars, vars, GoodsIssued

----------------------------------------------------------------------------
\* The theorems

LEMMA DeliveryInitInv == DeliveryInit => DInv
<1>. SUFFICES ASSUME DeliveryInit
     PROVE  DInv
  OBVIOUS
<1>1. IInv
  BY InitInv DEF DeliveryInit
<1>2. /\ carrier = [c \in Carriers |-> "none"]
      /\ shipment = [o \in Orders |-> Parcel!NoShipment]
      /\ courier = [p \in Couriers |-> Parcel!Resting]
      /\ updates = 0 /\ issued = {}
      /\ inbox = [o \in Orders |-> {}]
  BY DEF DeliveryInit, Init, Parcel!ShipmentInit
<1>3. Parcel!ShipmentTypeOK
  <2>1. Parcel!NoShipment \in Parcel!Shipments
    BY DEF Parcel!NoShipment, Parcel!Shipments
  <2>2. 0 \in 0..MaxUpdates
    <3>1. MaxUpdates \in Nat
      BY DeliveryAssumption
    <3>. QED BY <3>1
  <2>. QED BY <1>2, <2>1, <2>2 DEF Parcel!ShipmentTypeOK
<1>4. courier \in [Couriers -> CourierStates] /\ \A p \in Couriers : CourierOK(courier[p])
  BY <1>2, RestingOK DEF CourierOK, Parcel!Resting
<1>5. \A o \in Orders : ParcelOK(o)
  BY <1>2 DEF ParcelOK, Parcel!NoShipment
<1>6. ASSUME NEW o \in Orders
      PROVE  Follows(o)
  <2>1. "order.returned" \in ShopJobs
    BY DEF ShopJobs
  <2>2. doc[o] = NewDoc /\ sent[o]["order.returned"] = 0
    BY <2>1 DEF DeliveryInit, Init
  <2>. QED BY <2>2 DEF Follows, NewDoc
<1>7. \A p \in Callers : RunFollows(run[p])
  BY DEF DeliveryInit, Init, RunFollows, Idle
<1>. QED BY <1>1, <1>2, <1>3, <1>4, <1>5, <1>6, <1>7 DEF DInv, ParcelInv, IssuedWasReady

LEMMA DeliveryNextInv == DInv /\ [DeliveryNext]_deliveryVars => DInv'
BY LifecycleKept, ParcelInvKept, IssuedKept, FollowKept DEF DInv

LEMMA DeliveryInvariance == DeliverySpec => []DInv
BY DeliveryInitInv, DeliveryNextInv, PTL DEF DeliverySpec

\* The order, its handlers, the parcel and the requests about it keep their shape.
THEOREM DeliveryTypeCorrect == DeliverySpec => []DeliveryTypeOK
<1>1. DInv => DeliveryTypeOK
  BY DEF DInv, IInv, ParcelInv, DeliveryTypeOK
<1>. QED BY <1>1, DeliveryInvariance, PTL

\* What the shop is told of a parcel is true and stays true: pushStatus swaps the
\* status it read, so of two requests that race one event at most goes out.
THEOREM EventsAreAlwaysTrue == DeliverySpec => []EventsAreTrue
<1>1. DInv => EventsAreTrue
  BY DEF DInv, ParcelInv, ParcelOK, TrueOf, Events, EventsAreTrue, Parcel!EventsAreTrue
<1>. QED BY <1>1, DeliveryInvariance, PTL

\* ShipmentService implements the warehouse that OrderLifecycle assumes: whatever it
\* adds to the shop's inbox is what that warehouse may say.
THEOREM ParcelImplementsWarehouse == DeliverySpec => ParcelIsWarehouse
<1>1. DInv /\ [DeliveryNext]_deliveryVars => [\E o \in Orders : Shop!WarehouseSays(o)]_inbox
  BY SayingIsSayable
<1>. QED BY <1>1, DeliveryInvariance, PTL DEF DeliverySpec, ParcelIsWarehouse

\* With the parcel in the place of the warehouse too, onDelivered closes no COD order
\* whose price is not collected.
THEOREM DeliveredIsCollected == DeliverySpec => []CodClosedIsCollected
<1>1. DInv => CodClosedIsCollected
  BY DEF DInv, IInv, OrderOK, Backed, CodClosedIsCollected
<1>. QED BY <1>1, DeliveryInvariance, PTL

\* The shop takes an order for delivered, and lets it be returned, only if its parcel
\* was delivered, although onPaymentSuccess may write the fulfilment it read before.
THEOREM ShopAlwaysFollows == DeliverySpec => []ShopFollowsParcel
<1>1. DInv => ShopFollowsParcel
  BY DEF DInv, Follows, Delivered, ShopFollowsParcel
<1>. QED BY <1>1, DeliveryInvariance, PTL

=============================================================================
