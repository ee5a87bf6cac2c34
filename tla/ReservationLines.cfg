\* Three orders, two of them after the same box and one of a sku the warehouse does
\* not know; one job at a time, tried twice.
CONSTANTS
    o1 = o1  o2 = o2  o3 = o3
    cup = cup  box = box  ghost = ghost
    NoJob = NoJob
    Orders = {o1, o2, o3}
    Items = {cup, box, ghost}
    KnownItems <- LinesKnown
    HasStaging = TRUE
    Need <- LinesNeed
    OnHand0 <- LinesOnHand
    Expired <- LinesExpired
    MaxAttempts = 2
    MaxPending = 1
SPECIFICATION FairSpec
INVARIANTS BalanceMatchesLedger AnnouncedWhenPicked
PROPERTIES KeepsPromise JobsFinish
