\* A receipt; or a return, a scrap note and a count; two requests at a time.
CONSTANTS
    s1 = s1  s2 = s2
    cup = cup  jar = jar
    NoLot = NoLot
    Items = {cup, jar}
    Places = {"A", "B", "B1"}
    Shelf <- OneShelf
    Lots = {"l"}
    ItemOf <- JarLot
    Perishable = {jar}
    Inventory0 <- Start
    Refs = {"return", "rma", "scrap", "count", "g1", "g2"}
    Requests = {s1, s2}
    Mixes <- ThreeMixes
    Pos = {"p1"}
    Grns = {"g1", "g2"}
    Ordered <- TwoLines
    Receipts <- Came
    Staging = "A"
    MaxTries = 3
    ReturnedQty <- Back
    ReturnShelves = {"A"}
    MaxScrap = 1
    Scopes <- ZoneOrAll
    Counts = {0}
SYMMETRY RequestSymmetry
SPECIFICATION Spec
INVARIANTS BooksAgree ToldWasBooked OnlyGoodIsTold OrderCountsReceipts BookedOnce
CHECK_DEADLOCK FALSE
