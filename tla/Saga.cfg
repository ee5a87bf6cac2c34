\* A COD and an ONLINE order want the same cup; two HTTP requests in all.
CONSTANTS
    r1 = r1
    cup = cup
    NoJob = NoJob
    NoOrder = NoOrder
    Orders = {"o1", "o2"}
    Items = {cup}
    KnownItems = {cup}
    HasStaging = TRUE
    Need <- TwoNeed
    OnHand0 <- OneOnHand
    Expired <- NoneExpired
    MaxAttempts = 1
    MaxPending = 4
    Requests = {r1}
    MaxRequests = 2
    Kinds <- Both
    ManualAmount = 60
SPECIFICATION SagaSpec
INVARIANTS IssuedIsEarned ConfirmedWasReserved
CHECK_DEADLOCK FALSE
