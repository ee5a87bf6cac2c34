\* The orders and stock of ReservationLines, with retries; the switch of a worker drops a job meant for another.
CONSTANTS
    o1 = o1  o2 = o2  o3 = o3
    cup = cup  box = box  ghost = ghost
    NoJob = NoJob
    Orders = {o1, o2, o3}
    Items = {cup, box, ghost}
    KnownItems <- LinesKnown
    HasStaging = TRUE
    Need <- LinesNeed
    OnHand0 <- LinesOnHand
    Expired <- LinesExpired
    MaxAttempts = 2
    MaxPending = 1
SPECIFICATION Spec
PROPERTY NoJobIgnored
