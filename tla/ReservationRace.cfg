\* Two orders, one sku, one attempt per job, two jobs at a time.
CONSTANTS
    o1 = o1  o2 = o2  o3 = o3
    cup = cup  box = box  ghost = ghost
    NoJob = NoJob
    Orders = {o1, o2}
    Items = {cup}
    KnownItems = {cup}
    HasStaging = TRUE
    Need <- RaceNeed
    OnHand0 <- RaceOnHand
    Expired <- RaceExpired
    MaxAttempts = 1
    MaxPending = 2
SPECIFICATION Spec
INVARIANTS TypeOK NoOversell AllOrNothing ChecksStillHold ReplyTruthful
