\* Two handlers at once on a warehouse that is bare (up to four edits), furnished (two),
\* or older than cells (one, after the script).
SPECIFICATION Spec
CONSTANTS
    Sessions = {s1, s2}
    Zones = {"z"}
    Racks = {"r", "q"}
    Shelves = {"A", "B"}
    Items = {"wide", "slim"}
    MaxBays = 2
    Widths = {4}
    MaxRevisions = 5
    MaxOperations = 1
    Width <- BoxWidth
    Sizes = {3}
    Delivered <- OneWide
    Counts = {1}
    Begun <- Standing
    Older <- NotYetDivided
    DefaultWidth = 4
    LevelCount = 1
INVARIANTS NoOrphans CellStockIsHeld CellsAreExplained StockIsMoved MigrationIsWhole
PROPERTY NeverOverfilled
SYMMETRY SessionSymmetry
CHECK_DEADLOCK FALSE
