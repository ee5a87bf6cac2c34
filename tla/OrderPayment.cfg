\* An order of any kind paid, printed, cancelled and sent to be picked: three HTTP requests in all.
CONSTANTS
    NoOrder = NoOrder
    Orders = {"o1"}
    Requests = {r1, r2}
    MaxAttempts = 1
    MaxRequests = 3
    Kinds <- AnyKind
    Said = {"stock.reserved", "stock.reserve_failed", "print.sample", "print.full", "goods.issued"}
    ManualAmount = 60
SYMMETRY RequestSymmetry
SPECIFICATION Spec
INVARIANTS PaidIsBacked ReadyIsEarned FullRunIsEarned
CHECK_DEADLOCK FALSE
