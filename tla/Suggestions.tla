----------------------------- MODULE Suggestions -----------------------------
(***************************************************************************)
(* PutAwaySuggestionService.suggest: the cells a delivery of boxes may be    *)
(* taken to.  It reads the layout, the stock of the cells and the way to    *)
(* each rack; put-away checks the room again when a box is put down.        *)
(*                                                                         *)
(* A cell and a box have one size, which stands for their three, and a      *)
(* volume.                                                                 *)
(***************************************************************************)
EXTENDS Navigation

CONSTANTS DefaultFill,      \* PUTAWAY_DEFAULT_FILL_FACTOR, or 75, in percent
          Shelvings,        \* bound: the cells there are, by their codes, with their stock
          Boxes,            \* bound: [size, volume] of a box
          BoxCounts         \* bound: packageCount

FirstGate == 1              \* GATE-01

\* fill is 0 where the cell has no factor of its own; sku and lot tell whether boxes of the
\* same item, and of its lot, lie in the cell.
CellForms == [rack : RackIds, size : Nat, volume : Nat, fill : 0..100, occupied : Nat,
              sku : BOOLEAN, lot : BOOLEAN]

ASSUME SuggestionsAssumption ==
    /\ DefaultFill \in 0..100
    /\ \A cells \in Shelvings : DOMAIN cells \subseteq Nat /\ Range(cells) \subseteq CellForms
    /\ Boxes \subseteq [size : Nat \ {0}, volume : Nat \ {0}]
    /\ BoxCounts \subseteq Nat \ {0}

----------------------------------------------------------------------------
\* Hundredths of the volume that may be filled
Usable(cell) == cell.volume * (IF cell.fill = 0 THEN DefaultFill ELSE cell.fill)

Fits(cell, box) == box.size <= cell.size

\* Mutated: the whole cell may be filled.
CapacityUnfactored(cell, box) == Most(0, cell.volume - cell.occupied) \div box.volume

\* How many boxes go into what is left of it
Capacity(cell, box) == Most(0, Usable(cell) - 100 * cell.occupied) \div (100 * box.volume)

\* WarehouseNavigationService.getPath, for every rack
Ways(l) == [r \in DOMAIN l.rack |-> NavigationPath(l, FirstGate, r)]

Candidates(ways, cells, box) ==
    {c \in DOMAIN cells : /\ Fits(cells[c], box)
                          /\ Capacity(cells[c], box) >= 1
                          /\ ways[cells[c].rack].error = ""}

\* The lot's own cells first, then the item's, then the fullest, then the nearest; cells
\* that are alike in all of this stay in the order of their codes.
Before(ways, cells, c, d) ==
    LET rank(x) == IF cells[x].lot THEN 0 ELSE IF cells[x].sku THEN 1 ELSE 2
        remaining(x) == Usable(cells[x]) - 100 * cells[x].occupied
        way(x) == ways[cells[x].rack].distance IN
    \/ rank(c) < rank(d)
    \/ rank(c) = rank(d) /\ remaining(c) < remaining(d)
    \/ rank(c) = rank(d) /\ remaining(c) = remaining(d) /\ way(c) < way(d)
    \/ rank(c) = rank(d) /\ remaining(c) = remaining(d) /\ way(c) = way(d) /\ c < d

CapacityOf(cells, box, chosen) ==
    FoldLeft(LAMBDA sum, c : sum + Capacity(cells[c], box), 0, chosen)

\* suggest: as many candidates as the boxes need, and a warning if they are too few.
Suggest(ways, cells, box, count) ==
    LET candidates == Candidates(ways, cells, box)
        sorted == SetToSortSeq(candidates, LAMBDA c, d : Before(ways, cells, c, d))
        enough == {n \in 0..Len(sorted) : CapacityOf(cells, box, SubSeq(sorted, 1, n)) >= count}
        warning == IF \A c \in DOMAIN cells : ~Fits(cells[c], box) THEN "NO_SHELF_FITS"
                   ELSE IF candidates = {} THEN "NO_NAVIGATION_PATH"
                   ELSE IF enough = {} THEN "INSUFFICIENT_CAPACITY"
                   ELSE "none" IN
    [cells |-> IF enough = {} THEN sorted ELSE SubSeq(sorted, 1, Min(enough)), warning |-> warning]

----------------------------------------------------------------------------
\* Properties

\* PutAwayService.confirmLine lets so many boxes be put into a cell, one after the other.
ConfirmFill == 75
Accepted(cell, box) ==
    Max({n \in 0..cell.volume : \/ n = 0
                                \/ /\ Fits(cell, box)
                                   /\ 100 * (cell.occupied + n * box.volume)
                                        <= cell.volume * (IF cell.fill = 0 THEN ConfirmFill
                                                          ELSE cell.fill)})

\* A worker who follows the suggestions in their order, putting into each cell what it is
\* said to hold, is never turned away and has no box left at the end; a warning is given
\* only if no such tour of the cells that can be reached exists; no cell is walked to in vain.
SuggestionsSuffice ==
    LET ways == Ways(layout)
        atHand == {r \in DOMAIN layout.rack :
                      FirstGate \in DOMAIN layout.gate /\ Reachable(layout, FirstGate, r)} IN
    \A cells \in {s \in Shelvings : \A c \in DOMAIN s : s[c].rack \in DOMAIN layout.rack},
       box \in Boxes, count \in BoxCounts :
        LET answer == Suggest(ways, cells, box, count)
            told == answer.cells
            room == MapThenSumSet(LAMBDA c : Accepted(cells[c], box),
                                  {c \in DOMAIN cells : cells[c].rack \in atHand}) IN
        /\ answer.warning = "none" <=> room >= count
        /\ \A i \in DOMAIN told :
              /\ cells[told[i]].rack \in atHand
              /\ Capacity(cells[told[i]], box) \in 1..Accepted(cells[told[i]], box)
              /\ CapacityOf(cells, box, SubSeq(told, 1, i - 1)) < count
        /\ answer.warning = "none" => CapacityOf(cells, box, told) >= count
=============================================================================
