------------------------------ MODULE Delivery -------------------------------
(***************************************************************************)
(* The shop's order and its parcel: Shipment takes the place of what        *)
(* OrderLifecycle lets the warehouse say about shipments.  Its queue is the *)
(* shop's inbox, from which ShipmentConsumer takes its messages, tries them *)
(* again and may take them in another order.                                *)
(***************************************************************************)
EXTENDS OrderLifecycle

CONSTANTS Carriers, NoCarrier, Couriers, MaxUpdates

ASSUME DeliveryAssumption ==
    /\ NoCarrier \notin Carriers
    /\ MaxUpdates \in Nat
    /\ Said \cap {"shipment.shipped", "shipment.delivered", "shipment.returned"} = {}

VARIABLES carrier, shipment, courier, updates, issued

Parcel == INSTANCE Shipment WITH said <- inbox

parcelVars == <<carrier, shipment, courier, updates, issued>>
deliveryVars == <<vars, parcelVars>>

DeliveryInit == Init /\ Parcel!ShipmentInit

\* A goods issue is made of order.ready_to_fulfill; once it is picked the warehouse's
\* own queue is told of it, as the shop's is by WarehouseSays.
GoodsIssued(o) ==
    /\ sent[o]["order.ready_to_fulfill"] > 0
    /\ Parcel!IssueToInternal(o)
    /\ UNCHANGED shopVars

DeliveryNext ==
    \/ Next /\ UNCHANGED parcelVars
    \/ \E o \in Orders : GoodsIssued(o)
    \/ Parcel!ShipmentNext /\ UNCHANGED shopVars

DeliverySpec == DeliveryInit /\ [][DeliveryNext]_deliveryVars

----------------------------------------------------------------------------
\* Properties

DeliveryTypeOK == TypeOK /\ Parcel!ShipmentTypeOK

EventsAreTrue == Parcel!EventsAreTrue

\* The shop closes an order, and lets the customer return it, only if its parcel was
\* delivered, whatever the order its messages are tried again in.
ShopFollowsParcel ==
    \A o \in Orders :
        /\ doc[o].fulfillment = "DELIVERED" => shipment[o].status = "DELIVERED"
        /\ sent[o]["order.returned"] > 0 => shipment[o].status = "DELIVERED"

\* The order lifecycle with a warehouse that may say anything of shipments that it
\* can have been led to say.
Shop == INSTANCE OrderLifecycle
        WITH Said <- Said \cup {"shipment.shipped", "shipment.delivered", "shipment.returned"}

\* The parcel implements that warehouse: every step that adds to the shop's inbox is
\* one OrderLifecycle allows for, so what holds there of the order holds with
\* ShipmentService, whose requests race and die.
ParcelIsWarehouse == [][\E o \in Orders : Shop!WarehouseSays(o)]_inbox

=============================================================================
