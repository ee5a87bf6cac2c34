-------------------------- MODULE WarehouseLayout ---------------------------
(***************************************************************************)
(* LocationService, WarehouseLayoutEditorService and LocationRepository:    *)
(* zones hold racks, racks hold shelves and a storage shelf is divided into  *)
(* cells, one per bay of the rack template.  Every change is one            *)
(* transaction that ends by writing the revision of the layout, so that two  *)
(* changes never commit on the same layout; what it forbids about stock is   *)
(* read inside of it.  Coordinates are left to WarehouseGeometry.            *)
(***************************************************************************)
EXTENDS Transactions, FiniteSets

CONSTANTS Zones, Racks, Shelves,    \* ids, never used twice
          Items,
          MaxBays,                  \* bound: RackTemplate.bayCount
          Widths,                   \* bound: Shelf.innerWidth, divided by any bayCount
          MaxRevisions,             \* bound: WarehouseLayoutConfig.revision
          MaxOperations             \* bound: the operations of one save

ASSUME LayoutAssumption ==
    /\ MaxBays \in Nat \ {0} /\ MaxRevisions \in Nat /\ MaxOperations \in {1, 2}
    /\ Widths \subseteq Nat
    /\ \A w \in Widths, n \in 1..MaxBays : (w \div n) * n = w

Config == <<"config">>              \* holds the revision
Template == <<"template">>          \* holds bayCount
Zone(z) == <<"zone", z>>            \* whether it is live
Rack(r) == <<"rack", r>>
Shelf(s) == <<"shelf", s>>
Cell(s, b) == <<"cell", s, b>>
Bays == 1..MaxBays

\* inventory_stock: of an item on a shelf, in no cell or in the cell of a bay.
Loose(i, s) == <<"stock", i, s>>
InCell(i, s, b) == <<"stock", i, s, b>>
Snapshot(i, s, b) == <<"snapshot", i, s, b>>   \* how large its boxes are, a field of that row

LayoutDocs == {Config, Template} \cup {Zone(z) : z \in Zones} \cup {Rack(r) : r \in Racks}
              \cup {Shelf(s) : s \in Shelves} \cup {Cell(s, b) : s \in Shelves, b \in Bays}

NoRack == [live |-> FALSE, zone |-> "none"]
NoShelf == [live |-> FALSE, rack |-> "none", staging |-> FALSE, width |-> 0]
NoCell == [live |-> FALSE, made |-> 0, width |-> 0]

Live(d, docs) == {x \in docs : d[x].live}
CellsOf(d, s) == {b \in Bays : d[Cell(s, b)].live}
HasStockInCells(d, s, bays) == \E i \in Items, b \in bays : d[InCell(i, s, b)] > 0
HasStockOnShelf(d, s) == HasStockInCells(d, s, Bays) \/ \E i \in Items : d[Loose(i, s)] > 0

----------------------------------------------------------------------------
\* Cells.  Each operator is a set of written documents, given the database d it reads.

CellWrites(s, bays, doc(_)) == [c \in {Cell(s, b) : b \in bays} |-> doc(c[3])]

\* createStorageCellsForShelf, and what reconcileStorageCellBayCount adds
NewCells(d, s, shelf, bays, bayCount) ==
    CellWrites(s, bays, LAMBDA b : [live |-> TRUE, made |-> d[Cell(s, b)].made + 1,
                                    width |-> shelf.width \div bayCount])

\* syncStorageCellsForShelf
SyncCells(d, s, shelf) ==
    IF shelf.staging THEN <<>>
    ELSE CellWrites(s, CellsOf(d, s),
                    LAMBDA b : [d[Cell(s, b)] EXCEPT !.width = shelf.width \div d[Template]])

\* softDeleteStorageCellsForShelf
DropCells(d, s, bays) ==
    CellWrites(s, CellsOf(d, s) \cap bays, LAMBDA b : [d[Cell(s, b)] EXCEPT !.live = FALSE])

\* reconcileStorageCellBayCount of one shelf
ReconcileShelf(d, s, bayCount) ==
    LET shelf == d[Shelf(s)]
        kept == CellsOf(d, s) \cap 1..bayCount IN
    CellWrites(s, kept, LAMBDA b : [d[Cell(s, b)] EXCEPT !.width = shelf.width \div bayCount])
    ++ NewCells(d, s, shelf, (1..bayCount) \ kept, bayCount)
    ++ DropCells(d, s, Bays \ (1..bayCount))

Joined(f, S) == [x \in UNION {DOMAIN f[s] : s \in S} |->
                    f[CHOOSE s \in S : x \in DOMAIN f[s]][x]]

Reconcile(d, bayCount) ==
    LET storage == {s \in Shelves : d[Shelf(s)].live /\ ~d[Shelf(s)].staging} IN
    Joined([s \in storage |-> ReconcileShelf(d, s, bayCount)], storage)

----------------------------------------------------------------------------
\* What one operation may write; {} when its rules refuse it.

ZoneEdits(d) ==
    {Zone(z) ::= TRUE : z \in {x \in Zones : ~d[Zone(x)]}}
    \cup {Zone(z) ::= FALSE :
             z \in {x \in Zones : /\ d[Zone(x)]
                                  /\ \A r \in Racks : d[Rack(r)].live => d[Rack(r)].zone # x}}

RackEdits(d) ==
    LET zones == {z \in Zones : d[Zone(z)]} IN
    {Rack(r) ::= [live |-> TRUE, zone |-> z] :
        r \in {x \in Racks : d[Rack(x)] = NoRack \/ d[Rack(x)].live}, z \in zones}
    \cup {Rack(r) ::= [d[Rack(r)] EXCEPT !.live = FALSE] :
             r \in {x \in Racks : /\ d[Rack(x)].live
                                  /\ \A s \in Shelves : d[Shelf(s)].live => d[Shelf(s)].rack # x}}

\* What a shelf may be made to be.
ShelfForms(d) ==
    [live : {TRUE}, rack : {r \in Racks : d[Rack(r)].live}, staging : BOOLEAN, width : Widths]

CreateShelf(d) ==
    {(Shelf(s) ::= form) ++ (IF form.staging THEN <<>> ELSE NewCells(d, s, form, 1..d[Template], d[Template])) :
        s \in {x \in Shelves : d[Shelf(x)] = NoShelf}, form \in ShelfForms(d)}

DeleteShelf(d) ==
    {(Shelf(s) ::= [d[Shelf(s)] EXCEPT !.live = FALSE]) ++ DropCells(d, s, Bays) :
        s \in {x \in Shelves : /\ d[Shelf(x)].live /\ ~d[Shelf(x)].staging
                               /\ ~HasStockOnShelf(d, x)}}

\* LocationService.updateShelf: the cells follow, none is made or dropped.
UpdateShelf(d) ==
    {(Shelf(s) ::= form) ++ SyncCells(d, s, form) :
        s \in {x \in Shelves : d[Shelf(x)].live}, form \in ShelfForms(d)}

\* The SHELF branch of applyUpdate: a shelf that becomes a staging one gives up its
\* cells, if they are empty; one that no longer is gets new ones.
EditShelf(d) ==
    UNION {LET was == d[Shelf(s)] IN
           {(Shelf(s) ::= form) ++
              (IF ~was.staging /\ form.staging THEN DropCells(d, s, Bays)
               ELSE IF was.staging /\ ~form.staging THEN NewCells(d, s, form, 1..d[Template], d[Template])
               ELSE SyncCells(d, s, form)) :
             form \in {f \in ShelfForms(d) :
                 \* STORAGE_CELL_HAS_STOCK, RACK_TEMPLATE_STOCK_CONFLICT
                 /\ (~was.staging /\ (f.staging \/ f.width < was.width))
                       => ~HasStockInCells(d, s, CellsOf(d, s))
                 \* the unique index of the cells of a shelf
                 /\ (was.staging /\ ~f.staging) => CellsOf(d, s) \cap 1..d[Template] = {}}} :
           s \in {x \in Shelves : d[Shelf(x)].live}}

\* updateRackTemplate
TemplateEdits(d) ==
    {(Template ::= n) ++ Reconcile(d, n) :
        n \in {m \in Bays : /\ m # d[Template]
                            /\ \A s \in Shelves :
                                  ~HasStockInCells(d, s, {b \in CellsOf(d, s) : b > m})}}

\* resetLayout
Emptied(d) ==
    Joined([s \in Shelves |-> DropCells(d, s, Bays)], Shelves)
    ++ [x \in Live(d, {Shelf(s) : s \in Shelves} \cup {Rack(r) : r \in Racks}) |->
           [d[x] EXCEPT !.live = FALSE]]
    ++ [x \in {Zone(z) : z \in {y \in Zones : d[Zone(y)]}} |-> FALSE]

----------------------------------------------------------------------------
\* Mutated: the revision is not written.
UnrevisedEdit(d, writes) == writes

\* incrementLayoutRevision, the end of every edit
Revised(d, writes) == (Config ::= d[Config] + 1) ++ writes

\* LocationService: mutateWithRevision
Mutations(d) ==
    {Revised(d, w) : w \in ZoneEdits(d) \cup RackEdits(d) \cup CreateShelf(d) \cup DeleteShelf(d)
                           \cup UpdateShelf(d) \cup TemplateEdits(d)}

Resets(d) ==
    IF \E s \in Shelves : d[Shelf(s)].live /\ HasStockOnShelf(d, s) THEN {}
    ELSE {Revised(d, Emptied(d))}

\* WarehouseLayoutEditorService.applyOperation
Operations(d) ==
    ZoneEdits(d) \cup RackEdits(d) \cup CreateShelf(d) \cup DeleteShelf(d)
    \cup EditShelf(d) \cup TemplateEdits(d)

\* All operations of one save, each on what those before it made.  Bound: a second
\* one has to do with what the first wrote.
Batches(d) ==
    Operations(d) \cup
    IF MaxOperations = 1 THEN {}
    ELSE UNION {{second ++ first :
                    second \in {w \in Operations(first ++ d) : DOMAIN w \cap DOMAIN first # {}}} :
                first \in Operations(d)}

StagingRacks(d) == {d[Shelf(s)].rack : s \in {x \in Shelves : d[Shelf(x)].live /\ d[Shelf(x)].staging}}

\* saveLayout, by a client that has read the revision there is: with another it is
\* refused.  A shelf that is a staging one at first is not deleted by any operation.
Saves(d) ==
    {Revised(d, w) : w \in {b \in Batches(d) :
        /\ Cardinality(StagingRacks(b ++ d)) <= 1
        /\ \A s \in Shelves : d[Shelf(s)].live /\ d[Shelf(s)].staging => (b ++ d)[Shelf(s)].live}}

EditJob == [kind |-> "edit"]

EditLayout(s) ==
    /\ db[Config] < MaxRevisions                             \* bound
    /\ \E writes \in Mutations(db) \cup Saves(db) \cup Resets(db) : OpenTx(s, EditJob, writes)
=============================================================================
