\* A plain COD order and its parcel up to the delivery or the return.
CONSTANTS
    k1 = k1  k2 = k2
    NoOrder = NoOrder
    NoCarrier = NoCarrier
    Orders = {"o1"}
    Requests = {"r1"}
    MaxAttempts = 1
    MaxRequests = 2
    Kinds <- Cod
    Said = {"stock.reserved", "goods.issued"}
    ManualAmount = 110
    Carriers = {"ghn"}
    Couriers = {k1, k2}
    MaxUpdates = 5
SYMMETRY SlotSymmetry
SPECIFICATION DeliverySpec
INVARIANTS CodClosedIsCollected EventsAreTrue ShopFollowsParcel
PROPERTY ParcelIsWarehouse
CHECK_DEADLOCK FALSE
