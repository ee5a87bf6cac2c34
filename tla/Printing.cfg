\* Two print jobs, and an order that reserves a blank meanwhile; two requests at a time.
CONSTANTS
    s1 = s1  s2 = s2
    white = white  black = black  fox = fox  owl = owl  elk = elk  odd = odd
    NoLot = NoLot
    NoBlank = NoBlank
    Items = {white, black, fox, owl, elk, odd}
    Places = {"A"}
    Shelf <- OneShelf
    Lots = {}
    ItemOf <- NoLots
    Perishable = {}
    Inventory0 <- Start
    Refs = {"p1", "p2"}
    Requests = {s1, s2}
    MaxRequests = 5
    Jobs = {"p1", "p2"}
    Wanted <- TwoJobs
    BlankOf <- Blanks
    MaxOrders = 1
SYMMETRY RequestSymmetry
SPECIFICATION PrintingSpec
INVARIANTS HoldsAreAccounted CompletedIsPrinted
CHECK_DEADLOCK FALSE
