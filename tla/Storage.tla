------------------------------ MODULE Storage -------------------------------
(***************************************************************************)
(* The warehouse floor: managers edit the layout while receivers put goods  *)
(* away and old stock is given its cells, each in a transaction of its own.  *)
(* Before that, an older database may have to be divided into cells.         *)
(***************************************************************************)
EXTENDS CellMigration

CONSTANTS Begun,                    \* the databases to begin with
          Older                     \* those the script is run on first, and what it finds there

vars == <<transactionVars, script>>

Docs == LayoutDocs \cup StockDocs \cup WorkDocs

\* What the schema of a document lets it hold.
RackSchema == {NoRack} \cup [live : BOOLEAN, zone : Zones]
ShelfSchema ==
    {NoShelf} \cup [live : BOOLEAN, rack : Racks, staging : BOOLEAN, width : Widths \cup {0}]
CellSchema == [live : BOOLEAN, made : Nat, width : Nat]
TaskSchema == [status : {"none", "PENDING", "COMPLETED"}, source : Shelves \cup {"none"},
               left : [Items -> Nat]]

Schema(x) ==
    CASE x = Config -> 1..MaxRevisions
      [] x = Template -> Bays
      [] x \in {Zone(z) : z \in Zones} -> BOOLEAN
      [] x \in {Rack(r) : r \in Racks} -> RackSchema
      [] x \in {Shelf(s) : s \in Shelves} -> ShelfSchema
      [] x \in {Cell(s, b) : s \in Shelves, b \in Bays} -> CellSchema
      [] x = Task -> TaskSchema
      [] OTHER -> Nat

FitsSchema(d) == DOMAIN d = Docs /\ \A x \in Docs : d[x] \in Schema(x)

\* The boxes of the receipt, once it is booked, and those still to be put away.
Received(d, i) == IF d[Task] = NoTask THEN 0 ELSE Delivered[i]
Left(d, i) == IF d[Task] = NoTask THEN 0 ELSE d[Task].left[i]

\* The stock of an item that lies in cells, and all of it.
Stored(d, i) == SumOf([c \in Shelves \X Bays |-> d[InCell(i, c[1], c[2])]])
Found(d, i) == SumOf([s \in Shelves |-> d[Loose(i, s)]]) + Stored(d, i)

----------------------------------------------------------------------------
\* What the handlers rely on in a database, and keep.

OrphanFree(d) ==
    /\ \A r \in Racks : d[Rack(r)].live => d[Zone(d[Rack(r)].zone)]
    /\ \A s \in Shelves : d[Shelf(s)].live => d[Rack(d[Shelf(s)].rack)].live
    /\ \A s \in Shelves : CellsOf(d, s) # {} => d[Shelf(s)].live

StockHeld(d) ==
    \A i \in Items, s \in Shelves, b \in Bays :
       d[InCell(i, s, b)] > 0 => d[Cell(s, b)].live

Explained(d) == \A i \in Items : Stored(d, i) = d[Assigned(i)] + Received(d, i) - Left(d, i)

InOrder(d) == FitsSchema(d) /\ OrphanFree(d) /\ StockHeld(d) /\ Explained(d)

\* Before there were cells no stock lay in one, and those a script that died has made are
\* cells of the template.
BeforeCells(d) ==
    /\ \A i \in Items, s \in Shelves, b \in Bays : d[InCell(i, s, b)] = 0
    /\ \A s \in Shelves : CellsOf(d, s) \subseteq 1..d[Template]

ASSUME StorageAssumption ==
    /\ IsFiniteSet(Shelves) /\ IsFiniteSet(Items)
    /\ \A d \in Begun : InOrder(d)
    /\ \A old \in Older : /\ InOrder(old.docs) /\ BeforeCells(old.docs)
                          /\ old.named \subseteq Racks
                          /\ old.received \in Shelves \cup {"none"}

----------------------------------------------------------------------------

Init ==
    /\ \/ db \in Begun /\ script = NoScript
       \/ \E old \in Older : db = old.docs /\ script = Script(old.named, old.received)
    /\ tx = [s \in Sessions |-> NoTx]

Handle(s) ==
    \/ EditLayout(s)
    \/ ReceiveRead(s) \/ ReceiveOpen(s)
    \/ ConfirmRead(s) \/ ConfirmOpen(s)
    \/ AssignOpen(s)
    \/ CommitTx(s) \/ RetryTx(s) \/ AbandonTx(s)

Next ==
    \/ script = NoScript /\ (\E s \in Sessions : Handle(s)) /\ UNCHANGED script
    \/ MigrationStep

Spec == Init /\ [][Next]_vars

----------------------------------------------------------------------------
\* Each document holds what its schema allows.
TypeOK == FitsSchema(db)

\* Whatever two managers do at once, every rack stands in a zone, every shelf in a rack
\* and every cell on a shelf: "has racks", "has shelves" and "not found" are each read
\* on a snapshot, and only the revision both write keeps the other's edit out.
NoOrphans == OrphanFree(db)

\* No stock is left in a cell that is gone, though a layout that is edited looks for
\* stock before it writes and goods come down while it does.
CellStockIsHeld == StockHeld(db)

\* What lies in the cells is what the task has seen put away and the assignments name;
\* nothing is put away twice by two workers who scan the same line.
CellsAreExplained == Explained(db)

\* Putting away moves stock and makes none: what stands is what was received on top of
\* what was there.
StockIsMoved ==
    \E d \in Begun \cup {old.docs : old \in Older} : \A i \in Items :
       Found(db, i) + Received(d, i) = Found(d, i) + Received(db, i)

\* Goods never come into a cell that has no room for them as it then is: not beside
\* what another worker puts down, nor while its bays are narrowed.  A put-away or an
\* assignment that gives the boxes of its item that lie there another size, which
\* upsertInventory writes over the row's, is checked with their old one and may leave
\* the cell overfilled: nothing is said of such a step.
BroughtIn(d, e, s, b) == \E i \in Items : e[InCell(i, s, b)] > d[InCell(i, s, b)]
Resized(d, e, s, b) ==
    \E i \in Items : d[InCell(i, s, b)] > 0 /\ e[Snapshot(i, s, b)] # d[Snapshot(i, s, b)]

NeverOverfilled ==
    [][\A s \in Shelves, b \in Bays :
          BroughtIn(db, db', s, b) /\ ~Resized(db, db', s, b)
             => Volume(db', s, b) <= db'[Cell(s, b)].width]_vars

\* What shelf.schema.ts says of the staging shelves.
StagingSharesRack == Cardinality(StagingRacks(db)) <= 1
=============================================================================
