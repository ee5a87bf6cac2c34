--------------------------- MODULE Storage_proofs ---------------------------
(***************************************************************************)
(* What the warehouse floor keeps, for any number of handlers at once.       *)
(*                                                                           *)
(* A transaction is computed on the database it opens on and lands on        *)
(* another.  The invariant says of each open transaction that has not been   *)
(* told of a conflict that it stands: what it would write is still what it   *)
(* would compute from what is committed now, as far as it matters (Stands).   *)
(* Whoever commits first keeps that of all the others, because whatever a     *)
(* transaction relies on is in a document it writes itself, or can only be    *)
(* changed by one that writes such a document too (Respects): goods lock the  *)
(* cell they come into, and every edit writes the revision.  What stands may   *)
(* land (CommitKeeps): the layout stays whole, the stock is only moved, and    *)
(* no cell is filled beyond its width.                                        *)
(*                                                                           *)
(* While the script runs there is no stock in cells and no handler at work;   *)
(* what it has done already is what its invariant says of the floor.          *)
(*                                                                           *)
(* The floor plan is a part of its own.  Its rules are inequalities between    *)
(* edges; that they say what they are meant to say is a matter of square      *)
(* metres, and holds because what passes them covers ground.                  *)
(***************************************************************************)
EXTENDS Storage, WarehouseGeometry, Sums

----------------------------------------------------------------------------
\* Databases and their documents

LEMMA Over ==
    ASSUME NEW w, NEW d
    PROVE  /\ DOMAIN (w ++ d) = DOMAIN w \cup DOMAIN d
           /\ \A x \in DOMAIN w : (w ++ d)[x] = w[x]
           /\ \A x \in DOMAIN d \ DOMAIN w : (w ++ d)[x] = d[x]
BY DEF ++

LEMMA OverFunction ==
    ASSUME NEW w, NEW d
    PROVE  w ++ d = [x \in DOMAIN w \cup DOMAIN d |-> (w ++ d)[x]]
BY DEF ++

LEMMA One ==
    ASSUME NEW x, NEW v
    PROVE  DOMAIN (x ::= v) = {x} /\ (x ::= v)[x] = v
BY DEF ::=

LEMMA OverTwice ==
    ASSUME NEW v, NEW w, NEW d
    PROVE  (v ++ w) ++ d = v ++ (w ++ d)
BY DEF ++

LEMMA SchemaOf ==
    /\ Schema(Config) = 1..MaxRevisions
    /\ Schema(Template) = Bays
    /\ \A z \in Zones : Schema(Zone(z)) = BOOLEAN
    /\ \A r \in Racks : Schema(Rack(r)) = RackSchema
    /\ \A s \in Shelves : Schema(Shelf(s)) = ShelfSchema
    /\ \A s \in Shelves, b \in Bays : Schema(Cell(s, b)) = CellSchema
    /\ Schema(Task) = TaskSchema
    /\ \A i \in Items, s \in Shelves : Schema(Loose(i, s)) = Nat
    /\ \A i \in Items, s \in Shelves, b \in Bays :
          Schema(InCell(i, s, b)) = Nat /\ Schema(Snapshot(i, s, b)) = Nat
    /\ \A i \in Items : Schema(Assigned(i)) = Nat
BY DEF Schema, Config, Template, Zone, Rack, Shelf, Cell, Task, Loose, InCell, Snapshot, Assigned

LEMMA Placed ==
    /\ Config \in Docs /\ Template \in Docs /\ Task \in Docs
    /\ \A z \in Zones : Zone(z) \in Docs
    /\ \A r \in Racks : Rack(r) \in Docs
    /\ \A s \in Shelves : Shelf(s) \in Docs
    /\ \A s \in Shelves, b \in Bays : Cell(s, b) \in Docs
    /\ \A i \in Items, s \in Shelves : Loose(i, s) \in Docs
    /\ \A i \in Items, s \in Shelves, b \in Bays : InCell(i, s, b) \in Docs /\ Snapshot(i, s, b) \in Docs
    /\ \A i \in Items : Assigned(i) \in Docs
BY DEF Docs, LayoutDocs, StockDocs, WorkDocs

\* What the schema says of each document.
LEMMA DocForms ==
    ASSUME NEW d, FitsSchema(d)
    PROVE  /\ d[Config] \in 1..MaxRevisions /\ d[Template] \in Bays /\ d[Task] \in TaskSchema
           /\ \A z \in Zones : d[Zone(z)] \in BOOLEAN
           /\ \A r \in Racks : d[Rack(r)] \in RackSchema
           /\ \A s \in Shelves : d[Shelf(s)] \in ShelfSchema
           /\ \A s \in Shelves, b \in Bays : d[Cell(s, b)] \in CellSchema
           /\ \A i \in Items, s \in Shelves : d[Loose(i, s)] \in Nat
           /\ \A i \in Items, s \in Shelves, b \in Bays : d[InCell(i, s, b)] \in Nat /\ d[Snapshot(i, s, b)] \in Nat
           /\ \A i \in Items : d[Assigned(i)] \in Nat
<1>1. \A x \in Docs : d[x] \in Schema(x)
  BY DEF FitsSchema
<1>2. d[Config] \in 1..MaxRevisions /\ d[Template] \in Bays /\ d[Task] \in TaskSchema
  BY <1>1, SchemaOf, Placed
<1>3. \A z \in Zones : d[Zone(z)] \in BOOLEAN
  BY <1>1, SchemaOf, Placed
<1>4. \A r \in Racks : d[Rack(r)] \in RackSchema
  BY <1>1, SchemaOf, Placed
<1>5. \A s \in Shelves : d[Shelf(s)] \in ShelfSchema
  BY <1>1, SchemaOf, Placed
<1>6. \A s \in Shelves, b \in Bays : d[Cell(s, b)] \in CellSchema
  BY <1>1, SchemaOf, Placed
<1>7. \A i \in Items, s \in Shelves : d[Loose(i, s)] \in Nat
  BY <1>1, SchemaOf, Placed
<1>8. \A i \in Items, s \in Shelves, b \in Bays : d[InCell(i, s, b)] \in Nat /\ d[Snapshot(i, s, b)] \in Nat
  BY <1>1, SchemaOf, Placed
<1>9. \A i \in Items : d[Assigned(i)] \in Nat
  BY <1>1, SchemaOf, Placed
<1>. QED BY <1>2, <1>3, <1>4, <1>5, <1>6, <1>7, <1>8, <1>9

LEMMA RackForm ==
    ASSUME NEW v \in RackSchema
    PROVE  /\ v.live \in BOOLEAN
           /\ v.live => v.zone \in Zones
           /\ [v EXCEPT !.live = FALSE] \in RackSchema /\ ~[v EXCEPT !.live = FALSE].live
<1>1. CASE v = NoRack
  <2>1. ~v.live /\ v \in [live : BOOLEAN, zone : {"none"}]
    BY <1>1 DEF NoRack
  <2>2. [v EXCEPT !.live = FALSE] = v
    BY <2>1
  <2>. QED BY <1>1, <2>1, <2>2 DEF RackSchema
<1>2. CASE v \in [live : BOOLEAN, zone : Zones]
  BY <1>2 DEF RackSchema
<1>. QED BY <1>1, <1>2 DEF RackSchema

LEMMA ShelfForm ==
    ASSUME NEW v \in ShelfSchema
    PROVE  /\ v.live \in BOOLEAN /\ v.staging \in BOOLEAN /\ v.width \in Widths \cup {0} /\ v.width \in Nat
           /\ v.live => v \in [live : BOOLEAN, rack : Racks, staging : BOOLEAN, width : Widths \cup {0}]
           /\ [v EXCEPT !.live = FALSE] \in ShelfSchema /\ ~[v EXCEPT !.live = FALSE].live
<1>. Widths \subseteq Nat
  BY LayoutAssumption
<1>1. CASE v = NoShelf
  <2>1. /\ ~v.live /\ ~v.staging /\ v.width = 0
        /\ v \in [live : BOOLEAN, rack : {"none"}, staging : BOOLEAN, width : {0}]
    BY <1>1 DEF NoShelf
  <2>2. [v EXCEPT !.live = FALSE] = v
    BY <2>1
  <2>. QED BY <1>1, <2>1, <2>2 DEF ShelfSchema
<1>2. CASE v \in [live : BOOLEAN, rack : Racks, staging : BOOLEAN, width : Widths \cup {0}]
  <2>0. v.live \in BOOLEAN /\ v.staging \in BOOLEAN /\ v.width \in Widths \cup {0}
    BY <1>2
  <2>1. v.live \in BOOLEAN /\ v.staging \in BOOLEAN /\ v.width \in Widths \cup {0} /\ v.width \in Nat
    <3>1. Widths \cup {0} \subseteq Nat
      OBVIOUS
    <3>. QED BY <2>0, <3>1
  <2>2. /\ [v EXCEPT !.live = FALSE]
              \in [live : BOOLEAN, rack : Racks, staging : BOOLEAN, width : Widths \cup {0}]
        /\ ~[v EXCEPT !.live = FALSE].live
    BY <1>2
  <2>. QED BY <1>2, <2>1, <2>2 DEF ShelfSchema
<1>. QED BY <1>1, <1>2 DEF ShelfSchema

LEMMA CellForm ==
    ASSUME NEW v \in CellSchema
    PROVE  /\ v.live \in BOOLEAN /\ v.made \in Nat /\ v.width \in Nat
           /\ \A n \in Nat : /\ [v EXCEPT !.width = n] \in CellSchema
                             /\ [v EXCEPT !.width = n].live = v.live
           /\ [v EXCEPT !.live = FALSE] \in CellSchema /\ ~[v EXCEPT !.live = FALSE].live
BY DEF CellSchema

\* Writing documents that fit leaves a database that does.
LEMMA FitsOver ==
    ASSUME NEW d, FitsSchema(d), NEW w, DOMAIN w \subseteq Docs, \A x \in DOMAIN w : w[x] \in Schema(x)
    PROVE  FitsSchema(w ++ d)
<1>1. DOMAIN d = Docs /\ \A x \in Docs : d[x] \in Schema(x)
  BY DEF FitsSchema
<1>2. /\ DOMAIN (w ++ d) = DOMAIN w \cup DOMAIN d
      /\ \A x \in DOMAIN w : (w ++ d)[x] = w[x]
      /\ \A x \in DOMAIN d \ DOMAIN w : (w ++ d)[x] = d[x]
  BY Over
<1>3. \A x \in Docs : (w ++ d)[x] \in Schema(x)
  BY <1>1, <1>2
<1>. QED BY <1>1, <1>2, <1>3 DEF FitsSchema

----------------------------------------------------------------------------
\* Edits of the layout

LEMMA OrphansAre ==
    ASSUME NEW d, FitsSchema(d)
    PROVE  OrphanFree(d) <=>
              /\ \A r \in Racks : d[Rack(r)].live => d[Zone(d[Rack(r)].zone)]
              /\ \A s \in Shelves : d[Shelf(s)].live => d[Rack(d[Shelf(s)].rack)].live
              /\ \A s \in Shelves, b \in Bays : d[Cell(s, b)].live => d[Shelf(s)].live
BY DEF OrphanFree, CellsOf

\* Databases that agree on zones, racks, shelves and cells have the same orphans.
SameFloor(d, e) ==
    /\ \A z \in Zones : e[Zone(z)] = d[Zone(z)]
    /\ \A r \in Racks : e[Rack(r)] = d[Rack(r)]
    /\ \A s \in Shelves : e[Shelf(s)] = d[Shelf(s)]
    /\ \A s \in Shelves, b \in Bays : e[Cell(s, b)] = d[Cell(s, b)]

LEMMA OrphansOfSameFloor ==
    ASSUME NEW d, FitsSchema(d), NEW e, FitsSchema(e), SameFloor(d, e), OrphanFree(d)
    PROVE  OrphanFree(e)
<1>1. \A r \in Racks : d[Rack(r)].live => d[Rack(r)].zone \in Zones
  BY DocForms, RackForm
<1>2. \A s \in Shelves : d[Shelf(s)].live => d[Shelf(s)].rack \in Racks
  BY DocForms, ShelfForm
<1>. QED BY <1>1, <1>2, OrphansAre DEF SameFloor

\* An edit that may be committed on d: it writes no stock, leaves no orphans and gives
\* up no cell that holds stock.
SoundEdit(d, w) ==
    /\ DOMAIN w \subseteq LayoutDocs \ {Config}
    /\ \A x \in DOMAIN w : w[x] \in Schema(x)
    /\ OrphanFree(w ++ d)
    /\ \A s \in Shelves, b \in Bays :
          d[Cell(s, b)].live /\ ~(w ++ d)[Cell(s, b)].live => \A i \in Items : d[InCell(i, s, b)] = 0

ShelfDocs == {Shelf(s) : s \in Shelves}
CellDocs == {Cell(s, b) : s \in Shelves, b \in Bays}

LEMMA FloorDocs ==
    /\ ShelfDocs \cup CellDocs \cup {Template} \subseteq LayoutDocs \ {Config}
    /\ \A z : Zone(z) \notin ShelfDocs \cup CellDocs \cup {Template}
    /\ \A r : Rack(r) \notin ShelfDocs \cup CellDocs \cup {Template}
    /\ LayoutDocs \subseteq Docs
BY DEF ShelfDocs, CellDocs, LayoutDocs, Docs, Config, Template, Zone, Rack, Shelf, Cell

\* What an edit of shelves and cells has to keep to.
LEMMA FloorEdit ==
    ASSUME NEW d, FitsSchema(d), OrphanFree(d), NEW w,
           DOMAIN w \subseteq ShelfDocs \cup CellDocs \cup {Template},
           \A x \in DOMAIN w : w[x] \in Schema(x),
           \A s \in Shelves : Shelf(s) \in DOMAIN w /\ w[Shelf(s)].live => d[Rack(w[Shelf(s)].rack)].live,
           \A s \in Shelves, b \in Bays : (w ++ d)[Cell(s, b)].live => (w ++ d)[Shelf(s)].live,
           \A s \in Shelves, b \in Bays :
              Cell(s, b) \in DOMAIN w /\ d[Cell(s, b)].live /\ ~w[Cell(s, b)].live
                 => \A i \in Items : d[InCell(i, s, b)] = 0
    PROVE  SoundEdit(d, w)
<1>. DEFINE e == w ++ d
<1>0. /\ \A x \in DOMAIN w : e[x] = w[x]
      /\ \A x \in DOMAIN d \ DOMAIN w : e[x] = d[x]
  BY Over
<1>1. DOMAIN d = Docs
  BY DEF FitsSchema
<1>2. FitsSchema(e)
  BY FloorDocs, FitsOver
<1>. HIDE DEF e
<1>3. /\ \A z \in Zones : e[Zone(z)] = d[Zone(z)]
      /\ \A r \in Racks : e[Rack(r)] = d[Rack(r)]
  BY <1>0, <1>1, FloorDocs, Placed
<1>4. /\ \A s \in Shelves : e[Shelf(s)] = IF Shelf(s) \in DOMAIN w THEN w[Shelf(s)] ELSE d[Shelf(s)]
      /\ \A s \in Shelves, b \in Bays :
            e[Cell(s, b)] = IF Cell(s, b) \in DOMAIN w THEN w[Cell(s, b)] ELSE d[Cell(s, b)]
  BY <1>0, <1>1, Placed
<1>5. OrphanFree(e)
  <2>1. \A r \in Racks : e[Rack(r)].live => e[Zone(e[Rack(r)].zone)]
    BY <1>3, OrphansAre, DocForms, RackForm
  <2>2. \A s \in Shelves : e[Shelf(s)].live => e[Rack(e[Shelf(s)].rack)].live
    <3>1. \A s \in Shelves : e[Shelf(s)].live => e[Shelf(s)].rack \in Racks
      BY <1>2, DocForms, ShelfForm
    <3>2. \A s \in Shelves : d[Shelf(s)].live => d[Rack(d[Shelf(s)].rack)].live
      BY OrphansAre
    <3>. QED BY <1>3, <1>4, <3>1, <3>2
  <2>3. \A s \in Shelves, b \in Bays : e[Cell(s, b)].live => e[Shelf(s)].live
    BY DEF e
  <2>. QED BY <1>2, <2>1, <2>2, <2>3, OrphansAre
<1>6. \A s \in Shelves, b \in Bays :
         d[Cell(s, b)].live /\ ~e[Cell(s, b)].live => \A i \in Items : d[InCell(i, s, b)] = 0
  BY <1>4
<1>. QED BY <1>5, <1>6, FloorDocs DEF SoundEdit, e

\* The cells the operators write, and how.
LEMMA SyncCellsAre ==
    ASSUME NEW d, NEW s, NEW shelf
    PROVE  /\ DOMAIN SyncCells(d, s, shelf)
                 = IF shelf.staging THEN {} ELSE {Cell(s, b) : b \in CellsOf(d, s)}
           /\ ~shelf.staging => \A b \in CellsOf(d, s) : SyncCells(d, s, shelf)[Cell(s, b)]
                 = [d[Cell(s, b)] EXCEPT !.width = shelf.width \div d[Template]]
<1>1. CASE shelf.staging
  <2>1. SyncCells(d, s, shelf) = <<>>
    BY <1>1 DEF SyncCells
  <2>2. DOMAIN <<>> = {}
    OBVIOUS
  <2>. QED BY <1>1, <2>1, <2>2
<1>2. CASE ~shelf.staging
  BY <1>2 DEF SyncCells, CellWrites, Cell
<1>. QED BY <1>1, <1>2

LEMMA CellsApart ==
    /\ \A s, t, b, c : Cell(s, b) = Cell(t, c) => s = t /\ b = c
    /\ \A s, t, b : Shelf(s) # Cell(t, b)
    /\ \A s, t : Shelf(s) = Shelf(t) => s = t
    /\ \A s, b : Template # Cell(s, b) /\ Template # Shelf(s)
BY DEF Cell, Shelf, Template

\* A shelf and its cells are edited: none is left without the shelf, and none with stock is given up.
LEMMA ShelfEdit ==
    ASSUME NEW d, FitsSchema(d), OrphanFree(d), NEW s \in Shelves, NEW form \in ShelfSchema,
           form.live => d[Rack(form.rack)].live,
           NEW c, DOMAIN c \subseteq {Cell(s, b) : b \in Bays},
           \A b \in Bays : Cell(s, b) \in DOMAIN c => c[Cell(s, b)] \in CellSchema,
           ~form.live => \A b \in Bays : d[Cell(s, b)].live => Cell(s, b) \in DOMAIN c,
           ~form.live => \A b \in Bays : Cell(s, b) \in DOMAIN c => ~c[Cell(s, b)].live,
           \A b \in Bays : Cell(s, b) \in DOMAIN c /\ d[Cell(s, b)].live /\ ~c[Cell(s, b)].live
              => \A i \in Items : d[InCell(i, s, b)] = 0
    PROVE  SoundEdit(d, (Shelf(s) ::= form) ++ c)
<1>. DEFINE w == (Shelf(s) ::= form) ++ c
            e == w ++ d
<1>1. DOMAIN (Shelf(s) ::= form) = {Shelf(s)} /\ (Shelf(s) ::= form)[Shelf(s)] = form
  BY One
<1>2. /\ DOMAIN w = {Shelf(s)} \cup DOMAIN c
      /\ w[Shelf(s)] = form
      /\ \A x \in DOMAIN c : w[x] = c[x]
  <2>1. /\ DOMAIN w = DOMAIN (Shelf(s) ::= form) \cup DOMAIN c
        /\ \A x \in DOMAIN (Shelf(s) ::= form) : w[x] = (Shelf(s) ::= form)[x]
        /\ \A x \in DOMAIN c \ DOMAIN (Shelf(s) ::= form) : w[x] = c[x]
    BY Over
  <2>. QED BY <1>1, <2>1, CellsApart
<1>3. /\ \A x \in DOMAIN w : e[x] = w[x]
      /\ \A x \in DOMAIN d \ DOMAIN w : e[x] = d[x]
      /\ DOMAIN d = Docs
  BY Over DEF FitsSchema
<1>. HIDE DEF w, e
<1>4. DOMAIN w \subseteq ShelfDocs \cup CellDocs \cup {Template}
  BY <1>2 DEF ShelfDocs, CellDocs
<1>5. \A x \in DOMAIN w : w[x] \in Schema(x)
  <2>1. w[Shelf(s)] \in Schema(Shelf(s))
    BY <1>2, SchemaOf
  <2>2. \A b \in Bays : Cell(s, b) \in DOMAIN c => w[Cell(s, b)] \in Schema(Cell(s, b))
    BY <1>2, SchemaOf
  <2>. QED BY <1>2, <2>1, <2>2
<1>6. \A t \in Shelves : Shelf(t) \in DOMAIN w => t = s
  BY <1>2, CellsApart
<1>7. \A t \in Shelves, b \in Bays : Cell(t, b) \in DOMAIN w => t = s /\ Cell(t, b) \in DOMAIN c
  BY <1>2, CellsApart
<1>8. \A t \in Shelves, b \in Bays : e[Cell(t, b)].live => e[Shelf(t)].live
  <2>. SUFFICES ASSUME NEW t \in Shelves, NEW b \in Bays, e[Cell(t, b)].live
                PROVE  e[Shelf(t)].live
    OBVIOUS
  <2>1. CASE t # s
    <3>1. e[Cell(t, b)] = d[Cell(t, b)] /\ e[Shelf(t)] = d[Shelf(t)]
      BY <1>3, <1>6, <1>7, <2>1, Placed
    <3>. QED BY <3>1, OrphansAre
  <2>2. CASE t = s
    <3>1. e[Shelf(s)] = form
      BY <1>2, <1>3
    <3>2. Cell(s, b) \in DOMAIN c => e[Cell(s, b)] = c[Cell(s, b)]
      BY <1>2, <1>3
    <3>3. Cell(s, b) \notin DOMAIN c => e[Cell(s, b)] = d[Cell(s, b)]
      BY <1>3, <1>7, Placed
    <3>4. form.live \in BOOLEAN
      BY ShelfForm
    <3>. QED BY <2>2, <3>1, <3>2, <3>3, <3>4
  <2>. QED BY <2>1, <2>2
<1>9. \A t \in Shelves : Shelf(t) \in DOMAIN w /\ w[Shelf(t)].live => d[Rack(w[Shelf(t)].rack)].live
  BY <1>2, <1>6
<1>10. \A t \in Shelves, b \in Bays :
          Cell(t, b) \in DOMAIN w /\ d[Cell(t, b)].live /\ ~w[Cell(t, b)].live
             => \A i \in Items : d[InCell(i, t, b)] = 0
  BY <1>2, <1>7
<1>11. SoundEdit(d, w)
  BY <1>4, <1>5, <1>8, <1>9, <1>10, FloorEdit DEF e
<1>. QED BY <1>11 DEF w

LEMMA ShelfFormsAre ==
    ASSUME NEW d, NEW form \in ShelfForms(d)
    PROVE  /\ form \in ShelfSchema /\ form.live /\ form.staging \in BOOLEAN
           /\ form.rack \in Racks /\ d[Rack(form.rack)].live /\ form.width \in Widths
<1>1. form \in [live : {TRUE}, rack : {r \in Racks : d[Rack(r)].live}, staging : BOOLEAN, width : Widths]
  BY DEF ShelfForms
<1>2. form \in [live : BOOLEAN, rack : Racks, staging : BOOLEAN, width : Widths \cup {0}]
  BY <1>1
<1>3. /\ form.live /\ form.staging \in BOOLEAN
      /\ form.rack \in {r \in Racks : d[Rack(r)].live} /\ form.width \in Widths
  BY <1>1
<1>. QED BY <1>2, <1>3 DEF ShelfSchema

LEMMA BaysAreNumbers ==
    /\ \A n \in Bays : n \in Nat /\ n # 0 /\ 1..n \subseteq Bays
    /\ \A w \in Nat, n \in Bays : w \div n \in Nat
<1>1. MaxBays \in Nat \ {0}
  BY LayoutAssumption
<1>2. \A n \in Bays : n \in Nat /\ n # 0 /\ 1..n \subseteq Bays
  BY <1>1 DEF Bays
<1>3. \A w \in Nat, n \in Nat \ {0} : w \div n \in Nat
  OBVIOUS
<1>. QED BY <1>2, <1>3

LEMMA NewCellsFit ==
    ASSUME NEW d, FitsSchema(d), NEW s \in Shelves, NEW shelf \in ShelfSchema, NEW bays \in SUBSET Bays,
           NEW n \in Bays
    PROVE  /\ DOMAIN NewCells(d, s, shelf, bays, n) = {Cell(s, b) : b \in bays}
           /\ \A b \in bays : /\ NewCells(d, s, shelf, bays, n)[Cell(s, b)] \in CellSchema
                              /\ NewCells(d, s, shelf, bays, n)[Cell(s, b)].live
<1>1. \A b \in bays : /\ d[Cell(s, b)].made + 1 \in Nat
                      /\ shelf.width \div n \in Nat
  <2>1. \A b \in bays : d[Cell(s, b)].made \in Nat
    BY DocForms, CellForm
  <2>2. shelf.width \in Nat
    BY ShelfForm
  <2>. QED BY <2>1, <2>2, BaysAreNumbers
<1>2. \A b \in bays :
         /\ [live |-> TRUE, made |-> d[Cell(s, b)].made + 1, width |-> shelf.width \div n] \in CellSchema
         /\ [live |-> TRUE, made |-> d[Cell(s, b)].made + 1, width |-> shelf.width \div n].live
  BY <1>1 DEF CellSchema
<1>3. /\ DOMAIN NewCells(d, s, shelf, bays, n) = {Cell(s, b) : b \in bays}
      /\ \A b \in bays : NewCells(d, s, shelf, bays, n)[Cell(s, b)]
            = [live |-> TRUE, made |-> d[Cell(s, b)].made + 1, width |-> shelf.width \div n]
  BY DEF NewCells, CellWrites, Cell
<1>4. \A b \in bays : /\ NewCells(d, s, shelf, bays, n)[Cell(s, b)] \in CellSchema
                      /\ NewCells(d, s, shelf, bays, n)[Cell(s, b)].live
  BY <1>2, <1>3
<1>. QED BY <1>3, <1>4

LEMMA DropCellsFit ==
    ASSUME NEW d, FitsSchema(d), NEW s \in Shelves, NEW bays \in SUBSET Bays
    PROVE  /\ DOMAIN DropCells(d, s, bays) = {Cell(s, b) : b \in CellsOf(d, s) \cap bays}
           /\ \A b \in CellsOf(d, s) \cap bays : /\ DropCells(d, s, bays)[Cell(s, b)] \in CellSchema
                                                /\ ~DropCells(d, s, bays)[Cell(s, b)].live
<1>1. \A b \in bays : /\ [d[Cell(s, b)] EXCEPT !.live = FALSE] \in CellSchema
                      /\ ~[d[Cell(s, b)] EXCEPT !.live = FALSE].live
  BY DocForms, CellForm
<1>2. /\ DOMAIN DropCells(d, s, bays) = {Cell(s, b) : b \in CellsOf(d, s) \cap bays}
      /\ \A b \in CellsOf(d, s) \cap bays :
            DropCells(d, s, bays)[Cell(s, b)] = [d[Cell(s, b)] EXCEPT !.live = FALSE]
  BY DEF DropCells, CellWrites, Cell
<1>. QED BY <1>1, <1>2

LEMMA SyncCellsFit ==
    ASSUME NEW d, FitsSchema(d), NEW s \in Shelves, NEW shelf \in ShelfSchema
    PROVE  /\ DOMAIN SyncCells(d, s, shelf) \subseteq {Cell(s, b) : b \in CellsOf(d, s)}
           /\ \A b \in Bays : Cell(s, b) \in DOMAIN SyncCells(d, s, shelf)
                 => /\ SyncCells(d, s, shelf)[Cell(s, b)] \in CellSchema
                    /\ SyncCells(d, s, shelf)[Cell(s, b)].live
<1>1. d[Template] \in Bays /\ shelf.width \in Nat /\ shelf.width \div d[Template] \in Nat
  BY DocForms, ShelfForm, BaysAreNumbers
<1>2. \A b \in CellsOf(d, s) : /\ [d[Cell(s, b)] EXCEPT !.width = shelf.width \div d[Template]] \in CellSchema
                               /\ [d[Cell(s, b)] EXCEPT !.width = shelf.width \div d[Template]].live
  <2>1. \A b \in CellsOf(d, s) : d[Cell(s, b)] \in CellSchema /\ d[Cell(s, b)].live
    BY DocForms DEF CellsOf
  <2>. QED BY <1>1, <2>1, CellForm
<1>3. /\ DOMAIN SyncCells(d, s, shelf)
            = IF shelf.staging THEN {} ELSE {Cell(s, b) : b \in CellsOf(d, s)}
      /\ ~shelf.staging => \A b \in CellsOf(d, s) : SyncCells(d, s, shelf)[Cell(s, b)]
            = [d[Cell(s, b)] EXCEPT !.width = shelf.width \div d[Template]]
  BY SyncCellsAre
<1>4. \A b \in Bays : Cell(s, b) \in DOMAIN SyncCells(d, s, shelf) => ~shelf.staging /\ b \in CellsOf(d, s)
  BY <1>3, CellsApart
<1>. QED BY <1>2, <1>3, <1>4

LEMMA NoStockIsZero ==
    ASSUME NEW d, FitsSchema(d), NEW s \in Shelves, NEW bays \in SUBSET Bays, ~HasStockInCells(d, s, bays)
    PROVE  \A b \in bays : \A i \in Items : d[InCell(i, s, b)] = 0
<1>1. \A i \in Items, b \in bays : d[InCell(i, s, b)] \in Nat
  BY DocForms
<1>2. \A i \in Items, b \in bays : ~(d[InCell(i, s, b)] > 0)
  BY DEF HasStockInCells
<1>. QED BY <1>1, <1>2

\* createShelf
LEMMA CreateShelfSound ==
    ASSUME NEW d, FitsSchema(d), OrphanFree(d), NEW w \in CreateShelf(d)
    PROVE  SoundEdit(d, w)
<1>1. PICK s \in Shelves, form \in ShelfForms(d) :
         w = (Shelf(s) ::= form) ++ (IF form.staging THEN <<>>
                                     ELSE NewCells(d, s, form, 1..d[Template], d[Template]))
  BY DEF CreateShelf
<1>. DEFINE c == IF form.staging THEN <<>> ELSE NewCells(d, s, form, 1..d[Template], d[Template])
<1>2. d[Template] \in Bays /\ 1..d[Template] \subseteq Bays
  BY DocForms, BaysAreNumbers
<1>3. /\ DOMAIN NewCells(d, s, form, 1..d[Template], d[Template]) = {Cell(s, b) : b \in 1..d[Template]}
      /\ \A b \in 1..d[Template] :
            /\ NewCells(d, s, form, 1..d[Template], d[Template])[Cell(s, b)] \in CellSchema
            /\ NewCells(d, s, form, 1..d[Template], d[Template])[Cell(s, b)].live
  BY <1>2, ShelfFormsAre, NewCellsFit
<1>4. /\ DOMAIN c \subseteq {Cell(s, b) : b \in Bays}
      /\ \A b \in Bays : Cell(s, b) \in DOMAIN c => c[Cell(s, b)] \in CellSchema /\ c[Cell(s, b)].live
  <2>1. CASE form.staging
    <3>1. c = <<>> /\ DOMAIN <<>> = {}
      BY <2>1
    <3>. QED BY <3>1
  <2>2. CASE ~form.staging
    <3>1. c = NewCells(d, s, form, 1..d[Template], d[Template])
      BY <2>2
    <3>2. \A b \in Bays : Cell(s, b) \in DOMAIN c => b \in 1..d[Template]
      BY <1>3, <3>1, CellsApart
    <3>. QED BY <1>2, <1>3, <3>1, <3>2
  <2>. QED BY <2>1, <2>2
<1>5. form \in ShelfSchema /\ form.live /\ d[Rack(form.rack)].live
  BY ShelfFormsAre
<1>. HIDE DEF c
<1>6. SoundEdit(d, (Shelf(s) ::= form) ++ c)
  BY <1>4, <1>5, ShelfEdit
<1>. QED BY <1>1, <1>6 DEF c

\* deleteShelf
LEMMA DeleteShelfSound ==
    ASSUME NEW d, FitsSchema(d), OrphanFree(d), NEW w \in DeleteShelf(d)
    PROVE  SoundEdit(d, w)
<1>1. PICK s \in Shelves :
         /\ d[Shelf(s)].live /\ ~HasStockOnShelf(d, s)
         /\ w = (Shelf(s) ::= [d[Shelf(s)] EXCEPT !.live = FALSE]) ++ DropCells(d, s, Bays)
  BY DEF DeleteShelf
<1>. DEFINE form == [d[Shelf(s)] EXCEPT !.live = FALSE]
            c == DropCells(d, s, Bays)
<1>2. form \in ShelfSchema /\ ~form.live
  BY DocForms, ShelfForm
<1>3. /\ DOMAIN c = {Cell(s, b) : b \in CellsOf(d, s) \cap Bays}
      /\ \A b \in CellsOf(d, s) \cap Bays : c[Cell(s, b)] \in CellSchema /\ ~c[Cell(s, b)].live
  BY DropCellsFit
<1>4. \A b \in Bays : d[Cell(s, b)].live <=> b \in CellsOf(d, s)
  BY DEF CellsOf
<1>5. \A b \in Bays : Cell(s, b) \in DOMAIN c => b \in CellsOf(d, s)
  BY <1>3, CellsApart
<1>6. \A b \in Bays : \A i \in Items : d[InCell(i, s, b)] = 0
  BY <1>1, NoStockIsZero DEF HasStockOnShelf
<1>. HIDE DEF form, c
<1>7. SoundEdit(d, (Shelf(s) ::= form) ++ c)
  <2>1. DOMAIN c \subseteq {Cell(s, b) : b \in Bays}
    BY <1>3
  <2>2. \A b \in Bays : Cell(s, b) \in DOMAIN c => c[Cell(s, b)] \in CellSchema /\ ~c[Cell(s, b)].live
    BY <1>3, <1>5
  <2>3. \A b \in Bays : d[Cell(s, b)].live => Cell(s, b) \in DOMAIN c
    BY <1>3, <1>4
  <2>. QED BY <1>2, <1>6, <2>1, <2>2, <2>3, ShelfEdit
<1>. QED BY <1>1, <1>7 DEF form, c

\* updateShelf
LEMMA UpdateShelfSound ==
    ASSUME NEW d, FitsSchema(d), OrphanFree(d), NEW w \in UpdateShelf(d)
    PROVE  SoundEdit(d, w)
<1>1. PICK s \in Shelves, form \in ShelfForms(d) : w = (Shelf(s) ::= form) ++ SyncCells(d, s, form)
  BY DEF UpdateShelf
<1>. DEFINE c == SyncCells(d, s, form)
<1>2. form \in ShelfSchema /\ form.live /\ d[Rack(form.rack)].live
  BY ShelfFormsAre
<1>3. /\ DOMAIN c \subseteq {Cell(s, b) : b \in CellsOf(d, s)}
      /\ \A b \in Bays : Cell(s, b) \in DOMAIN c => c[Cell(s, b)] \in CellSchema /\ c[Cell(s, b)].live
  BY <1>2, SyncCellsFit
<1>4. CellsOf(d, s) \subseteq Bays
  BY DEF CellsOf
<1>. HIDE DEF c
<1>5. SoundEdit(d, (Shelf(s) ::= form) ++ c)
  BY <1>2, <1>3, <1>4, ShelfEdit
<1>. QED BY <1>1, <1>5 DEF c

\* The SHELF branch of applyUpdate
LEMMA EditShelfSound ==
    ASSUME NEW d, FitsSchema(d), OrphanFree(d), NEW w \in EditShelf(d)
    PROVE  SoundEdit(d, w)
<1>. DEFINE Cells(s, form) ==
                IF ~d[Shelf(s)].staging /\ form.staging THEN DropCells(d, s, Bays)
                ELSE IF d[Shelf(s)].staging /\ ~form.staging
                     THEN NewCells(d, s, form, 1..d[Template], d[Template])
                ELSE SyncCells(d, s, form)
<1>1. PICK s \in Shelves, form \in ShelfForms(d) :
         /\ w = (Shelf(s) ::= form) ++ Cells(s, form)
         /\ (~d[Shelf(s)].staging /\ form.staging) => ~HasStockInCells(d, s, CellsOf(d, s))
  BY DEF EditShelf
<1>. DEFINE c == Cells(s, form)
<1>2. form \in ShelfSchema /\ form.live /\ d[Rack(form.rack)].live
  BY ShelfFormsAre
<1>3. d[Template] \in Bays /\ 1..d[Template] \subseteq Bays /\ CellsOf(d, s) \subseteq Bays
  BY DocForms, BaysAreNumbers DEF CellsOf
<1>4. CASE ~d[Shelf(s)].staging /\ form.staging
  <2>1. c = DropCells(d, s, Bays)
    BY <1>4
  <2>. HIDE DEF c
  <2>2. /\ DOMAIN c = {Cell(s, b) : b \in CellsOf(d, s) \cap Bays}
        /\ \A b \in CellsOf(d, s) \cap Bays : c[Cell(s, b)] \in CellSchema
    BY <2>1, DropCellsFit
  <2>3. \A b \in Bays : Cell(s, b) \in DOMAIN c => b \in CellsOf(d, s)
    BY <2>2, CellsApart
  <2>4. \A b \in CellsOf(d, s) : \A i \in Items : d[InCell(i, s, b)] = 0
    BY <1>1, <1>3, <1>4, NoStockIsZero
  <2>5. SoundEdit(d, (Shelf(s) ::= form) ++ c)
    BY <1>2, <1>3, <2>2, <2>3, <2>4, ShelfEdit
  <2>. QED BY <1>1, <2>5 DEF c
<1>5. CASE d[Shelf(s)].staging /\ ~form.staging
  <2>1. c = NewCells(d, s, form, 1..d[Template], d[Template])
    BY <1>5
  <2>. HIDE DEF c
  <2>2. /\ DOMAIN c = {Cell(s, b) : b \in 1..d[Template]}
        /\ \A b \in 1..d[Template] : c[Cell(s, b)] \in CellSchema /\ c[Cell(s, b)].live
    <3>1. /\ DOMAIN NewCells(d, s, form, 1..d[Template], d[Template]) = {Cell(s, b) : b \in 1..d[Template]}
          /\ \A b \in 1..d[Template] :
                /\ NewCells(d, s, form, 1..d[Template], d[Template])[Cell(s, b)] \in CellSchema
                /\ NewCells(d, s, form, 1..d[Template], d[Template])[Cell(s, b)].live
      BY <1>2, <1>3, NewCellsFit
    <3>. QED BY <2>1, <3>1
  <2>3. \A b \in Bays : Cell(s, b) \in DOMAIN c => b \in 1..d[Template]
    BY <2>2, CellsApart
  <2>4. SoundEdit(d, (Shelf(s) ::= form) ++ c)
    BY <1>2, <1>3, <2>2, <2>3, ShelfEdit
  <2>. QED BY <1>1, <2>4 DEF c
<1>6. CASE ~(~d[Shelf(s)].staging /\ form.staging) /\ ~(d[Shelf(s)].staging /\ ~form.staging)
  <2>1. c = SyncCells(d, s, form)
    BY <1>6
  <2>2. /\ DOMAIN c \subseteq {Cell(s, b) : b \in CellsOf(d, s)}
        /\ \A b \in Bays : Cell(s, b) \in DOMAIN c => c[Cell(s, b)] \in CellSchema /\ c[Cell(s, b)].live
    BY <1>2, <2>1, SyncCellsFit
  <2>. HIDE DEF c
  <2>3. SoundEdit(d, (Shelf(s) ::= form) ++ c)
    BY <1>2, <1>3, <2>2, ShelfEdit
  <2>. QED BY <1>1, <2>3 DEF c
<1>. QED BY <1>4, <1>5, <1>6

LEMMA FloorApart ==
    /\ \A y, z : Zone(y) = Zone(z) => y = z
    /\ \A q, r : Rack(q) = Rack(r) => q = r
    /\ \A z, r : Zone(z) # Rack(r)
    /\ \A z, s : Zone(z) # Shelf(s)
    /\ \A z, s, b : Zone(z) # Cell(s, b)
    /\ \A r, s : Rack(r) # Shelf(s)
    /\ \A r, s, b : Rack(r) # Cell(s, b)
    /\ \A z, r : Zone(z) # Config /\ Rack(r) # Config /\ Zone(z) # Template /\ Rack(r) # Template
    /\ \A z \in Zones : Zone(z) \in LayoutDocs \ {Config}
    /\ \A r \in Racks : Rack(r) \in LayoutDocs \ {Config}
BY DEF Zone, Rack, Shelf, Cell, Config, Template, LayoutDocs

\* An edit of one document that is no cell.
LEMMA OneDocEdit ==
    ASSUME NEW d, FitsSchema(d), NEW x \in LayoutDocs \ {Config}, NEW v \in Schema(x),
           OrphanFree((x ::= v) ++ d), \A s \in Shelves, b \in Bays : x # Cell(s, b)
    PROVE  SoundEdit(d, x ::= v)
<1>. DEFINE w == x ::= v
            e == w ++ d
<1>1. DOMAIN w = {x} /\ w[x] = v
  BY One
<1>2. /\ \A y \in DOMAIN w : e[y] = w[y]
      /\ \A y \in DOMAIN d \ DOMAIN w : e[y] = d[y]
      /\ DOMAIN d = Docs
  BY Over DEF FitsSchema
<1>3. OrphanFree(e)
  OBVIOUS
<1>. HIDE DEF w, e
<1>4. \A s \in Shelves, b \in Bays : e[Cell(s, b)] = d[Cell(s, b)]
  BY <1>1, <1>2, Placed
<1>5. SoundEdit(d, w)
  BY <1>1, <1>3, <1>4 DEF SoundEdit, e
<1>. QED BY <1>5 DEF w

\* createZone and deleteZone
LEMMA ZoneEditsSound ==
    ASSUME NEW d, FitsSchema(d), OrphanFree(d), NEW w \in ZoneEdits(d)
    PROVE  SoundEdit(d, w)
<1>1. PICK z \in Zones, v \in BOOLEAN :
         /\ w = (Zone(z) ::= v)
         /\ ~v => \A r \in Racks : d[Rack(r)].live => d[Rack(r)].zone # z
  <2>1. CASE \E z \in Zones : w = (Zone(z) ::= TRUE)
    BY <2>1
  <2>2. CASE \E z \in Zones : /\ w = (Zone(z) ::= FALSE)
                              /\ \A r \in Racks : d[Rack(r)].live => d[Rack(r)].zone # z
    BY <2>2
  <2>. QED BY <2>1, <2>2 DEF ZoneEdits
<1>. DEFINE e == (Zone(z) ::= v) ++ d
<1>2. DOMAIN (Zone(z) ::= v) = {Zone(z)} /\ (Zone(z) ::= v)[Zone(z)] = v
  BY One
<1>3. /\ \A x \in DOMAIN (Zone(z) ::= v) : e[x] = (Zone(z) ::= v)[x]
      /\ \A x \in DOMAIN d \ DOMAIN (Zone(z) ::= v) : e[x] = d[x]
      /\ DOMAIN d = Docs
  BY Over DEF FitsSchema
<1>. HIDE DEF e
<1>4. /\ \A y \in Zones : e[Zone(y)] = IF y = z THEN v ELSE d[Zone(y)]
      /\ \A r \in Racks : e[Rack(r)] = d[Rack(r)]
      /\ \A s \in Shelves : e[Shelf(s)] = d[Shelf(s)]
      /\ \A s \in Shelves, b \in Bays : e[Cell(s, b)] = d[Cell(s, b)]
  BY <1>2, <1>3, Placed, FloorApart
<1>5. Zone(z) \in LayoutDocs \ {Config} /\ v \in Schema(Zone(z))
  BY FloorApart, SchemaOf
<1>6. FitsSchema(e)
  BY <1>2, <1>5, FloorDocs, FitsOver DEF e
<1>7. OrphanFree(e)
  <2>1. \A r \in Racks : d[Rack(r)].live => d[Rack(r)].zone \in Zones
    BY DocForms, RackForm
  <2>2. \A s \in Shelves : d[Shelf(s)].live => d[Shelf(s)].rack \in Racks
    BY DocForms, ShelfForm
  <2>3. /\ \A r \in Racks : d[Rack(r)].live => d[Zone(d[Rack(r)].zone)]
        /\ \A s \in Shelves : d[Shelf(s)].live => d[Rack(d[Shelf(s)].rack)].live
        /\ \A s \in Shelves, b \in Bays : d[Cell(s, b)].live => d[Shelf(s)].live
    BY OrphansAre
  <2>4. \A r \in Racks : e[Rack(r)].live => e[Zone(e[Rack(r)].zone)]
    BY <1>1, <1>4, <2>1, <2>3
  <2>5. \A s \in Shelves : e[Shelf(s)].live => e[Rack(e[Shelf(s)].rack)].live
    BY <1>4, <2>2, <2>3
  <2>6. \A s \in Shelves, b \in Bays : e[Cell(s, b)].live => e[Shelf(s)].live
    BY <1>4, <2>3
  <2>. QED BY <1>6, <2>4, <2>5, <2>6, OrphansAre
<1>8. SoundEdit(d, Zone(z) ::= v)
  BY <1>5, <1>7, FloorApart, OneDocEdit DEF e
<1>. QED BY <1>1, <1>8

\* createRack, updateRack and deleteRack
LEMMA RackEditsSound ==
    ASSUME NEW d, FitsSchema(d), OrphanFree(d), NEW w \in RackEdits(d)
    PROVE  SoundEdit(d, w)
<1>1. PICK r \in Racks, v \in RackSchema :
         /\ w = (Rack(r) ::= v)
         /\ v.live => d[Zone(v.zone)] /\ v.zone \in Zones
         /\ ~v.live => \A s \in Shelves : d[Shelf(s)].live => d[Shelf(s)].rack # r
  <2>1. ASSUME NEW r \in Racks, NEW z \in Zones, d[Zone(z)], w = (Rack(r) ::= [live |-> TRUE, zone |-> z])
        PROVE  \E v \in RackSchema :
                  /\ w = (Rack(r) ::= v) /\ v.live /\ d[Zone(v.zone)] /\ v.zone \in Zones
    <3>. DEFINE v == [live |-> TRUE, zone |-> z]
    <3>1. v \in RackSchema /\ v.live /\ v.zone = z
      BY DEF RackSchema
    <3>. QED BY <2>1, <3>1
  <2>2. ASSUME NEW r \in Racks, w = (Rack(r) ::= [d[Rack(r)] EXCEPT !.live = FALSE]),
               \A s \in Shelves : d[Shelf(s)].live => d[Shelf(s)].rack # r
        PROVE  \E v \in RackSchema :
                  /\ w = (Rack(r) ::= v) /\ ~v.live
                  /\ \A s \in Shelves : d[Shelf(s)].live => d[Shelf(s)].rack # r
    <3>. DEFINE v == [d[Rack(r)] EXCEPT !.live = FALSE]
    <3>1. v \in RackSchema /\ ~v.live
      BY DocForms, RackForm
    <3>. QED BY <2>2, <3>1
  <2>3. \/ \E r \in Racks, z \in Zones : d[Zone(z)] /\ w = (Rack(r) ::= [live |-> TRUE, zone |-> z])
        \/ \E r \in Racks : /\ w = (Rack(r) ::= [d[Rack(r)] EXCEPT !.live = FALSE])
                            /\ \A s \in Shelves : d[Shelf(s)].live => d[Shelf(s)].rack # r
    BY DEF RackEdits
  <2>. QED BY <2>1, <2>2, <2>3
<1>. DEFINE e == (Rack(r) ::= v) ++ d
<1>2. DOMAIN (Rack(r) ::= v) = {Rack(r)} /\ (Rack(r) ::= v)[Rack(r)] = v
  BY One
<1>3. /\ \A x \in DOMAIN (Rack(r) ::= v) : e[x] = (Rack(r) ::= v)[x]
      /\ \A x \in DOMAIN d \ DOMAIN (Rack(r) ::= v) : e[x] = d[x]
      /\ DOMAIN d = Docs
  BY Over DEF FitsSchema
<1>. HIDE DEF e
<1>4. /\ \A z \in Zones : e[Zone(z)] = d[Zone(z)]
      /\ \A q \in Racks : e[Rack(q)] = IF q = r THEN v ELSE d[Rack(q)]
      /\ \A s \in Shelves : e[Shelf(s)] = d[Shelf(s)]
      /\ \A s \in Shelves, b \in Bays : e[Cell(s, b)] = d[Cell(s, b)]
  BY <1>2, <1>3, Placed, FloorApart
<1>5. Rack(r) \in LayoutDocs \ {Config} /\ v \in Schema(Rack(r))
  BY FloorApart, SchemaOf
<1>6. FitsSchema(e)
  BY <1>2, <1>5, FloorDocs, FitsOver DEF e
<1>7. OrphanFree(e)
  <2>1. \A q \in Racks : d[Rack(q)].live => d[Rack(q)].zone \in Zones
    BY DocForms, RackForm
  <2>2. \A s \in Shelves : d[Shelf(s)].live => d[Shelf(s)].rack \in Racks
    BY DocForms, ShelfForm
  <2>3. /\ \A q \in Racks : d[Rack(q)].live => d[Zone(d[Rack(q)].zone)]
        /\ \A s \in Shelves : d[Shelf(s)].live => d[Rack(d[Shelf(s)].rack)].live
        /\ \A s \in Shelves, b \in Bays : d[Cell(s, b)].live => d[Shelf(s)].live
    BY OrphansAre
  <2>4. \A q \in Racks : e[Rack(q)].live => e[Zone(e[Rack(q)].zone)]
    BY <1>1, <1>4, <2>1, <2>3
  <2>5. \A s \in Shelves : e[Shelf(s)].live => e[Rack(e[Shelf(s)].rack)].live
    <3>1. v.live \in BOOLEAN
      BY RackForm
    <3>. QED BY <1>1, <1>4, <2>2, <2>3, <3>1
  <2>6. \A s \in Shelves, b \in Bays : e[Cell(s, b)].live => e[Shelf(s)].live
    BY <1>4, <2>3
  <2>. QED BY <1>6, <2>4, <2>5, <2>6, OrphansAre
<1>8. SoundEdit(d, Rack(r) ::= v)
  BY <1>5, <1>7, FloorApart, OneDocEdit DEF e
<1>. QED BY <1>1, <1>8

\* What Joined makes of the writes to the cells of several shelves.
LEMMA JoinedCells ==
    ASSUME NEW f, NEW S \in SUBSET Shelves,
           \A s \in S : DOMAIN f[s] \subseteq {Cell(s, b) : b \in Bays}
    PROVE  /\ DOMAIN Joined(f, S) \subseteq CellDocs
           /\ \A s \in Shelves, b \in Bays : Cell(s, b) \in DOMAIN Joined(f, S)
                 <=> s \in S /\ Cell(s, b) \in DOMAIN f[s]
           /\ \A s \in Shelves, b \in Bays : Cell(s, b) \in DOMAIN Joined(f, S)
                 => Joined(f, S)[Cell(s, b)] = f[s][Cell(s, b)]
<1>. DEFINE J == Joined(f, S)
            Of(x) == CHOOSE s \in S : x \in DOMAIN f[s]
<1>1. DOMAIN J = UNION {DOMAIN f[s] : s \in S} /\ \A x \in DOMAIN J : J[x] = f[Of(x)][x]
  BY DEF Joined
<1>2. \A x \in DOMAIN J : Of(x) \in S /\ x \in DOMAIN f[Of(x)]
  BY <1>1
<1>3. \A s \in S : \A x \in DOMAIN f[s] : \E b \in Bays : x = Cell(s, b)
  OBVIOUS
<1>. HIDE DEF J, Of
<1>4. \A s \in Shelves, b \in Bays : Cell(s, b) \in DOMAIN J => Of(Cell(s, b)) = s
  BY <1>2, <1>3, CellsApart
<1>5. DOMAIN J \subseteq CellDocs
  BY <1>2, <1>3 DEF CellDocs
<1>6. \A s \in Shelves, b \in Bays : Cell(s, b) \in DOMAIN J <=> s \in S /\ Cell(s, b) \in DOMAIN f[s]
  BY <1>1, <1>2, <1>4
<1>7. \A s \in Shelves, b \in Bays : Cell(s, b) \in DOMAIN J => J[Cell(s, b)] = f[s][Cell(s, b)]
  BY <1>1, <1>4
<1>. QED BY <1>5, <1>6, <1>7 DEF J

\* reconcileStorageCellBayCount leaves a shelf the cells of n bays.
LEMMA ReconcileShelfFits ==
    ASSUME NEW d, FitsSchema(d), NEW s \in Shelves, NEW n \in Bays
    PROVE  /\ DOMAIN ReconcileShelf(d, s, n) \subseteq {Cell(s, b) : b \in Bays}
           /\ \A b \in Bays : Cell(s, b) \in DOMAIN ReconcileShelf(d, s, n)
                 => /\ ReconcileShelf(d, s, n)[Cell(s, b)] \in CellSchema
                    /\ b \in 1..n => ReconcileShelf(d, s, n)[Cell(s, b)].live
<1>. DEFINE shelf == d[Shelf(s)]
            kept == CellsOf(d, s) \cap 1..n
            K == CellWrites(s, kept, LAMBDA b : [d[Cell(s, b)] EXCEPT !.width = shelf.width \div n])
            N == NewCells(d, s, shelf, (1..n) \ kept, n)
            D == DropCells(d, s, Bays \ (1..n))
<1>1. ReconcileShelf(d, s, n) = (K ++ N) ++ D
  BY DEF ReconcileShelf
<1>2. shelf \in ShelfSchema /\ shelf.width \div n \in Nat /\ 1..n \subseteq Bays
  BY DocForms, ShelfForm, BaysAreNumbers
<1>3. \A b \in kept : d[Cell(s, b)] \in CellSchema /\ d[Cell(s, b)].live
  BY <1>2, DocForms DEF CellsOf
<1>4. /\ DOMAIN K = {Cell(s, b) : b \in kept}
      /\ \A b \in kept : K[Cell(s, b)] \in CellSchema /\ K[Cell(s, b)].live
  <2>1. /\ DOMAIN K = {Cell(s, b) : b \in kept}
        /\ \A b \in kept : K[Cell(s, b)] = [d[Cell(s, b)] EXCEPT !.width = shelf.width \div n]
    BY DEF CellWrites, Cell
  <2>2. \A b \in kept : /\ [d[Cell(s, b)] EXCEPT !.width = shelf.width \div n] \in CellSchema
                        /\ [d[Cell(s, b)] EXCEPT !.width = shelf.width \div n].live
    BY <1>2, <1>3, CellForm
  <2>. HIDE DEF K
  <2>. QED BY <2>1, <2>2
<1>5. /\ DOMAIN N = {Cell(s, b) : b \in (1..n) \ kept}
      /\ \A b \in (1..n) \ kept : N[Cell(s, b)] \in CellSchema /\ N[Cell(s, b)].live
  <2>. HIDE DEF kept, shelf
  <2>1. (1..n) \ kept \in SUBSET Bays
    BY <1>2
  <2>. QED BY <1>2, <2>1, NewCellsFit
<1>6. /\ DOMAIN D = {Cell(s, b) : b \in CellsOf(d, s) \cap (Bays \ (1..n))}
      /\ \A b \in CellsOf(d, s) \cap (Bays \ (1..n)) : D[Cell(s, b)] \in CellSchema
  BY DropCellsFit
<1>. DEFINE R == (K ++ N) ++ D
<1>7. /\ DOMAIN (K ++ N) = DOMAIN K \cup DOMAIN N
      /\ \A x \in DOMAIN K : (K ++ N)[x] = K[x]
      /\ \A x \in DOMAIN N \ DOMAIN K : (K ++ N)[x] = N[x]
  BY Over
<1>8. /\ DOMAIN R = DOMAIN (K ++ N) \cup DOMAIN D
      /\ \A x \in DOMAIN (K ++ N) : R[x] = (K ++ N)[x]
      /\ \A x \in DOMAIN D \ DOMAIN (K ++ N) : R[x] = D[x]
  BY Over
<1>9. kept \subseteq 1..n
  OBVIOUS
<1>. HIDE DEF K, N, D, R, kept, shelf
<1>10. DOMAIN R \subseteq {Cell(s, b) : b \in Bays}
  BY <1>2, <1>4, <1>5, <1>6, <1>7, <1>8, <1>9
<1>11. ASSUME NEW b \in Bays, Cell(s, b) \in DOMAIN R
       PROVE  R[Cell(s, b)] \in CellSchema /\ (b \in 1..n => R[Cell(s, b)].live)
  <2>1. CASE Cell(s, b) \in DOMAIN K
    <3>1. b \in kept
      BY <1>4, <2>1, CellsApart
    <3>. QED BY <1>4, <1>7, <1>8, <2>1, <3>1
  <2>2. CASE Cell(s, b) \in DOMAIN N \ DOMAIN K
    <3>1. b \in (1..n) \ kept
      BY <1>5, <2>2, CellsApart
    <3>. QED BY <1>5, <1>7, <1>8, <2>2, <3>1
  <2>3. CASE Cell(s, b) \in DOMAIN D \ (DOMAIN K \cup DOMAIN N)
    <3>1. b \in CellsOf(d, s) \cap (Bays \ (1..n))
      BY <1>6, <2>3, CellsApart
    <3>. QED BY <1>6, <1>7, <1>8, <2>3, <3>1
  <2>. QED BY <1>7, <1>8, <1>11, <2>1, <2>2, <2>3
<1>. QED BY <1>1, <1>10, <1>11 DEF R

\* updateRackTemplate
LEMMA TemplateEditsSound ==
    ASSUME NEW d, FitsSchema(d), OrphanFree(d), NEW w \in TemplateEdits(d)
    PROVE  SoundEdit(d, w)
<1>1. PICK n \in Bays :
         /\ w = (Template ::= n) ++ Reconcile(d, n)
         /\ \A s \in Shelves : ~HasStockInCells(d, s, {b \in CellsOf(d, s) : b > n})
  BY DEF TemplateEdits
<1>. DEFINE storage == {s \in Shelves : d[Shelf(s)].live /\ ~d[Shelf(s)].staging}
            f == [s \in storage |-> ReconcileShelf(d, s, n)]
            c == Joined(f, storage)
            v == (Template ::= n) ++ c
            e == v ++ d
<1>2. Reconcile(d, n) = c
  BY DEF Reconcile
<1>3. /\ \A s \in storage : f[s] = ReconcileShelf(d, s, n)
      /\ storage \in SUBSET Shelves
      /\ \A s \in storage : d[Shelf(s)].live
  OBVIOUS
<1>. HIDE DEF f, storage
<1>4. \A s \in storage :
         /\ DOMAIN f[s] \subseteq {Cell(s, b) : b \in Bays}
         /\ \A b \in Bays : Cell(s, b) \in DOMAIN f[s]
               => f[s][Cell(s, b)] \in CellSchema /\ (b \in 1..n => f[s][Cell(s, b)].live)
  BY <1>3, ReconcileShelfFits
<1>5. /\ DOMAIN c \subseteq CellDocs
      /\ \A s \in Shelves, b \in Bays : Cell(s, b) \in DOMAIN c => s \in storage /\ Cell(s, b) \in DOMAIN f[s]
      /\ \A s \in Shelves, b \in Bays : Cell(s, b) \in DOMAIN c => c[Cell(s, b)] = f[s][Cell(s, b)]
  BY <1>3, <1>4, JoinedCells
<1>. HIDE DEF c
<1>6. DOMAIN (Template ::= n) = {Template} /\ (Template ::= n)[Template] = n
  BY One
<1>7. /\ DOMAIN v = {Template} \cup DOMAIN c
      /\ v[Template] = n
      /\ \A s \in Shelves, b \in Bays : Cell(s, b) \in DOMAIN c => v[Cell(s, b)] = c[Cell(s, b)]
  <2>1. /\ DOMAIN v = DOMAIN (Template ::= n) \cup DOMAIN c
        /\ \A x \in DOMAIN (Template ::= n) : v[x] = (Template ::= n)[x]
        /\ \A x \in DOMAIN c \ DOMAIN (Template ::= n) : v[x] = c[x]
    BY Over
  <2>. HIDE DEF v
  <2>. QED BY <1>6, <2>1, CellsApart
<1>8. /\ \A x \in DOMAIN v : e[x] = v[x]
      /\ \A x \in DOMAIN d \ DOMAIN v : e[x] = d[x]
      /\ DOMAIN d = Docs
  BY Over DEF FitsSchema
<1>. HIDE DEF v, e
<1>9. DOMAIN v \subseteq ShelfDocs \cup CellDocs \cup {Template}
  BY <1>5, <1>7
<1>10. \A s \in Shelves, b \in Bays : Cell(s, b) \in DOMAIN v
          => /\ s \in storage /\ v[Cell(s, b)] \in CellSchema
             /\ b \in 1..n => v[Cell(s, b)].live
  BY <1>4, <1>5, <1>7, CellsApart
<1>11. \A x \in DOMAIN v : v[x] \in Schema(x)
  <2>1. \A x \in DOMAIN v : x = Template \/ \E s \in Shelves, b \in Bays : x = Cell(s, b)
    BY <1>5, <1>7 DEF CellDocs
  <2>2. v[Template] \in Schema(Template)
    BY <1>7, SchemaOf
  <2>3. \A s \in Shelves, b \in Bays : Cell(s, b) \in DOMAIN v => v[Cell(s, b)] \in Schema(Cell(s, b))
    BY <1>10, SchemaOf
  <2>. QED BY <2>1, <2>2, <2>3
<1>12. \A s \in Shelves : Shelf(s) \notin DOMAIN v
  BY <1>5, <1>7, CellsApart DEF CellDocs
<1>13. \A s \in Shelves, b \in Bays : e[Cell(s, b)].live => e[Shelf(s)].live
  <2>. SUFFICES ASSUME NEW s \in Shelves, NEW b \in Bays, e[Cell(s, b)].live
                PROVE  e[Shelf(s)].live
    OBVIOUS
  <2>1. e[Shelf(s)] = d[Shelf(s)]
    BY <1>8, <1>12, Placed
  <2>2. CASE Cell(s, b) \in DOMAIN v
    BY <1>3, <1>10, <2>1, <2>2
  <2>3. CASE Cell(s, b) \notin DOMAIN v
    <3>1. d[Cell(s, b)].live
      BY <1>8, <2>3, Placed
    <3>. QED BY <2>1, <3>1, OrphansAre
  <2>. QED BY <2>2, <2>3
<1>14. ASSUME NEW s \in Shelves, NEW b \in Bays,
              Cell(s, b) \in DOMAIN v /\ d[Cell(s, b)].live /\ ~v[Cell(s, b)].live
       PROVE  \A i \in Items : d[InCell(i, s, b)] = 0
  <2>1. b \notin 1..n
    BY <1>10, <1>14
  <2>2. b \in Nat /\ b >= 1 /\ n \in Nat
    BY LayoutAssumption DEF Bays
  <2>3. b \in {x \in CellsOf(d, s) : x > n}
    BY <1>14, <2>1, <2>2 DEF CellsOf
  <2>4. {x \in CellsOf(d, s) : x > n} \in SUBSET Bays
    BY DEF CellsOf
  <2>. QED BY <1>1, <2>3, <2>4, NoStockIsZero
<1>15. SoundEdit(d, v)
  BY <1>9, <1>11, <1>12, <1>13, <1>14, FloorEdit DEF e
<1>. QED BY <1>1, <1>2, <1>15 DEF v

\* resetLayout, where no shelf has stock
LEMMA EmptiedSound ==
    ASSUME NEW d, FitsSchema(d), OrphanFree(d), \A s \in Shelves : ~(d[Shelf(s)].live /\ HasStockOnShelf(d, s))
    PROVE  SoundEdit(d, Emptied(d))
<1>. DEFINE f == [s \in Shelves |-> DropCells(d, s, Bays)]
            c == Joined(f, Shelves)
            gone == Live(d, {Shelf(s) : s \in Shelves} \cup {Rack(r) : r \in Racks})
            g == [x \in gone |-> [d[x] EXCEPT !.live = FALSE]]
            shut == {Zone(z) : z \in {y \in Zones : d[Zone(y)]}}
            h == [x \in shut |-> FALSE]
            w == (c ++ g) ++ h
            e == w ++ d
<1>1. Emptied(d) = w
  BY DEF Emptied
<1>2. \A s \in Shelves : f[s] = DropCells(d, s, Bays)
  OBVIOUS
<1>. HIDE DEF f
<1>3. \A s \in Shelves :
         /\ DOMAIN f[s] = {Cell(s, b) : b \in CellsOf(d, s) \cap Bays}
         /\ \A b \in CellsOf(d, s) \cap Bays : f[s][Cell(s, b)] \in CellSchema /\ ~f[s][Cell(s, b)].live
  <2>. SUFFICES ASSUME NEW s \in Shelves
                PROVE  /\ DOMAIN f[s] = {Cell(s, b) : b \in CellsOf(d, s) \cap Bays}
                       /\ \A b \in CellsOf(d, s) \cap Bays :
                             f[s][Cell(s, b)] \in CellSchema /\ ~f[s][Cell(s, b)].live
    OBVIOUS
  <2>1. Bays \in SUBSET Bays
    OBVIOUS
  <2>2. /\ DOMAIN DropCells(d, s, Bays) = {Cell(s, b) : b \in CellsOf(d, s) \cap Bays}
        /\ \A b \in CellsOf(d, s) \cap Bays :
              DropCells(d, s, Bays)[Cell(s, b)] \in CellSchema /\ ~DropCells(d, s, Bays)[Cell(s, b)].live
    BY <2>1, DropCellsFit
  <2>3. f[s] = DropCells(d, s, Bays)
    BY <1>2
  <2>. QED BY <2>2, <2>3
<1>4. /\ DOMAIN c \subseteq CellDocs
      /\ \A s \in Shelves, b \in Bays : Cell(s, b) \in DOMAIN c <=> Cell(s, b) \in DOMAIN f[s]
      /\ \A s \in Shelves, b \in Bays : Cell(s, b) \in DOMAIN c => c[Cell(s, b)] = f[s][Cell(s, b)]
  <2>1. \A s \in Shelves : DOMAIN f[s] \subseteq {Cell(s, b) : b \in Bays}
    BY <1>3
  <2>. QED BY <2>1, JoinedCells
<1>. HIDE DEF c
<1>5. \A s \in Shelves, b \in Bays :
         /\ Cell(s, b) \in DOMAIN c <=> d[Cell(s, b)].live
         /\ Cell(s, b) \in DOMAIN c => c[Cell(s, b)] \in CellSchema /\ ~c[Cell(s, b)].live
  <2>. SUFFICES ASSUME NEW s \in Shelves, NEW b \in Bays
                PROVE  /\ Cell(s, b) \in DOMAIN c <=> d[Cell(s, b)].live
                       /\ Cell(s, b) \in DOMAIN c => c[Cell(s, b)] \in CellSchema /\ ~c[Cell(s, b)].live
    OBVIOUS
  <2>1. b \in CellsOf(d, s) <=> d[Cell(s, b)].live
    BY DEF CellsOf
  <2>2. Cell(s, b) \in DOMAIN f[s] <=> b \in CellsOf(d, s)
    BY <1>3, CellsApart
  <2>. QED BY <1>3, <1>4, <2>1, <2>2
<1>6. /\ DOMAIN g = gone /\ gone \subseteq ShelfDocs \cup {Rack(r) : r \in Racks}
      /\ \A s \in Shelves : /\ Shelf(s) \in gone <=> d[Shelf(s)].live
                            /\ Shelf(s) \in gone => g[Shelf(s)] \in ShelfSchema /\ ~g[Shelf(s)].live
      /\ \A r \in Racks : /\ Rack(r) \in gone <=> d[Rack(r)].live
                          /\ Rack(r) \in gone => g[Rack(r)] \in RackSchema /\ ~g[Rack(r)].live
  <2>1. DOMAIN g = gone /\ gone \subseteq ShelfDocs \cup {Rack(r) : r \in Racks}
    BY DEF Live, ShelfDocs
  <2>2. /\ \A s \in Shelves : Shelf(s) \in gone <=> d[Shelf(s)].live
        /\ \A r \in Racks : Rack(r) \in gone <=> d[Rack(r)].live
    BY DEF Live
  <2>3. \A x \in gone : g[x] = [d[x] EXCEPT !.live = FALSE]
    OBVIOUS
  <2>. HIDE DEF g, gone
  <2>4. \A s \in Shelves : Shelf(s) \in gone => g[Shelf(s)] \in ShelfSchema /\ ~g[Shelf(s)].live
    <3>1. \A s \in Shelves : /\ [d[Shelf(s)] EXCEPT !.live = FALSE] \in ShelfSchema
                              /\ ~[d[Shelf(s)] EXCEPT !.live = FALSE].live
      BY DocForms, ShelfForm
    <3>. QED BY <2>3, <3>1
  <2>5. \A r \in Racks : Rack(r) \in gone => g[Rack(r)] \in RackSchema /\ ~g[Rack(r)].live
    BY <2>3, DocForms, RackForm
  <2>. QED BY <2>1, <2>2, <2>4, <2>5
<1>. HIDE DEF g, gone
<1>7. /\ DOMAIN h = shut /\ \A x \in shut : h[x] = FALSE
      /\ shut \subseteq {Zone(z) : z \in Zones}
      /\ \A z \in Zones : Zone(z) \in shut <=> d[Zone(z)]
  BY FloorApart
<1>. HIDE DEF h, shut
<1>8. /\ DOMAIN w = DOMAIN c \cup DOMAIN g \cup DOMAIN h
      /\ \A s \in Shelves, b \in Bays : Cell(s, b) \in DOMAIN c => w[Cell(s, b)] = c[Cell(s, b)]
      /\ \A s \in Shelves : Shelf(s) \in gone => w[Shelf(s)] = g[Shelf(s)]
      /\ \A r \in Racks : Rack(r) \in gone => w[Rack(r)] = g[Rack(r)]
      /\ \A z \in Zones : Zone(z) \in shut => w[Zone(z)] = FALSE
  <2>1. /\ DOMAIN (c ++ g) = DOMAIN c \cup DOMAIN g
        /\ \A x \in DOMAIN c : (c ++ g)[x] = c[x]
        /\ \A x \in DOMAIN g \ DOMAIN c : (c ++ g)[x] = g[x]
    BY Over
  <2>2. /\ DOMAIN w = DOMAIN (c ++ g) \cup DOMAIN h
        /\ \A x \in DOMAIN (c ++ g) : w[x] = (c ++ g)[x]
        /\ \A x \in DOMAIN h \ DOMAIN (c ++ g) : w[x] = h[x]
    BY Over
  <2>. HIDE DEF w
  <2>3. /\ \A s \in Shelves : Shelf(s) \notin DOMAIN c
        /\ \A r \in Racks : Rack(r) \notin DOMAIN c
        /\ \A z \in Zones : Zone(z) \notin DOMAIN c /\ Zone(z) \notin DOMAIN g
    <3>1. /\ \A s \in Shelves : Shelf(s) \notin CellDocs
          /\ \A r \in Racks : Rack(r) \notin CellDocs
          /\ \A z \in Zones : Zone(z) \notin CellDocs /\ Zone(z) \notin ShelfDocs \cup {Rack(r) : r \in Racks}
      BY FloorApart, CellsApart DEF CellDocs, ShelfDocs
    <3>. QED BY <1>4, <1>6, <3>1
  <2>. QED BY <1>6, <1>7, <2>1, <2>2, <2>3
<1>9. /\ \A x \in DOMAIN w : e[x] = w[x]
      /\ \A x \in DOMAIN d \ DOMAIN w : e[x] = d[x]
      /\ DOMAIN d = Docs
  BY Over DEF FitsSchema
<1>. HIDE DEF w, e
<1>10. DOMAIN w \subseteq LayoutDocs \ {Config}
  BY <1>4, <1>6, <1>7, <1>8, FloorDocs, FloorApart
<1>11. \A x \in DOMAIN w : w[x] \in Schema(x)
  <2>1. ASSUME NEW x \in DOMAIN w
        PROVE  w[x] \in Schema(x)
    <3>1. CASE x \in DOMAIN c
      <4>1. PICK s \in Shelves, b \in Bays : x = Cell(s, b)
        BY <1>4, <3>1 DEF CellDocs
      <4>. QED BY <1>5, <1>8, <3>1, <4>1, SchemaOf
    <3>2. CASE x \in DOMAIN g
      <4>1. CASE \E s \in Shelves : x = Shelf(s)
        BY <1>6, <1>8, <3>2, <4>1, SchemaOf
      <4>2. CASE \E r \in Racks : x = Rack(r)
        BY <1>6, <1>8, <3>2, <4>2, SchemaOf
      <4>. QED BY <1>6, <3>2, <4>1, <4>2 DEF ShelfDocs
    <3>3. CASE x \in DOMAIN h
      <4>1. PICK z \in Zones : x = Zone(z)
        BY <1>7, <3>3
      <4>. QED BY <1>7, <1>8, <3>3, <4>1, SchemaOf
    <3>. QED BY <1>8, <3>1, <3>2, <3>3
  <2>. QED BY <2>1
<1>12. FitsSchema(e)
  BY <1>10, <1>11, FloorDocs, FitsOver DEF e
<1>13. /\ \A r \in Racks : ~e[Rack(r)].live
       /\ \A s \in Shelves : ~e[Shelf(s)].live
       /\ \A s \in Shelves, b \in Bays : ~e[Cell(s, b)].live
  <2>1. ASSUME NEW r \in Racks
        PROVE  ~e[Rack(r)].live
    <3>1. CASE Rack(r) \in gone
      BY <1>6, <1>8, <1>9, <3>1
    <3>2. CASE Rack(r) \notin gone
      <4>1. Rack(r) \notin DOMAIN w
        BY <1>4, <1>6, <1>7, <1>8, <3>2, FloorApart, CellsApart DEF CellDocs
      <4>. QED BY <1>6, <1>9, <3>2, <4>1, Placed
    <3>. QED BY <3>1, <3>2
  <2>2. ASSUME NEW s \in Shelves
        PROVE  ~e[Shelf(s)].live
    <3>1. CASE Shelf(s) \in gone
      BY <1>6, <1>8, <1>9, <3>1
    <3>2. CASE Shelf(s) \notin gone
      <4>1. Shelf(s) \notin DOMAIN w
        BY <1>4, <1>6, <1>7, <1>8, <3>2, FloorApart, CellsApart DEF CellDocs
      <4>. QED BY <1>6, <1>9, <3>2, <4>1, Placed
    <3>. QED BY <3>1, <3>2
  <2>3. ASSUME NEW s \in Shelves, NEW b \in Bays
        PROVE  ~e[Cell(s, b)].live
    <3>1. CASE Cell(s, b) \in DOMAIN c
      BY <1>5, <1>8, <1>9, <3>1
    <3>2. CASE Cell(s, b) \notin DOMAIN c
      <4>1. Cell(s, b) \notin DOMAIN w
        BY <1>6, <1>7, <1>8, <3>2, FloorApart, CellsApart DEF ShelfDocs
      <4>. QED BY <1>5, <1>9, <3>2, <4>1, Placed
    <3>. QED BY <3>1, <3>2
  <2>. QED BY <2>1, <2>2, <2>3
<1>14. OrphanFree(e)
  BY <1>12, <1>13, OrphansAre
<1>15. ASSUME NEW s \in Shelves, NEW b \in Bays, d[Cell(s, b)].live
       PROVE  \A i \in Items : d[InCell(i, s, b)] = 0
  <2>1. d[Shelf(s)].live
    BY <1>15, OrphansAre
  <2>2. ~HasStockInCells(d, s, Bays)
    BY <2>1 DEF HasStockOnShelf
  <2>. QED BY <2>2, NoStockIsZero
<1>. QED BY <1>1, <1>10, <1>11, <1>14, <1>15 DEF SoundEdit, e

LEMMA OperationsSound ==
    ASSUME NEW d, FitsSchema(d), OrphanFree(d), NEW w \in Operations(d) \cup UpdateShelf(d)
    PROVE  SoundEdit(d, w)
BY ZoneEditsSound, RackEditsSound, CreateShelfSound, DeleteShelfSound, UpdateShelfSound,
   EditShelfSound, TemplateEditsSound DEF Operations

LEMMA LayoutIsNoStock ==
    /\ \A i \in Items, s \in Shelves, b \in Bays :
          InCell(i, s, b) \notin LayoutDocs /\ Snapshot(i, s, b) \notin LayoutDocs
    /\ \A i \in Items, s \in Shelves : Loose(i, s) \notin LayoutDocs
BY DEF LayoutDocs, InCell, Snapshot, Loose, Config, Template, Zone, Rack, Shelf, Cell

LEMMA LayoutIsNoWork ==
    /\ \A i \in Items : Assigned(i) \notin LayoutDocs
    /\ Task \notin LayoutDocs
BY DEF LayoutDocs, Assigned, Task, Config, Template, Zone, Rack, Shelf, Cell

\* One operation on what another made is an edit too.
LEMMA TwoEdits ==
    ASSUME NEW d, FitsSchema(d), NEW v, SoundEdit(d, v), NEW w, SoundEdit(v ++ d, w)
    PROVE  SoundEdit(d, w ++ v)
<1>. DEFINE u == w ++ v
            e == v ++ d
<1>1. u ++ d = w ++ e
  BY OverTwice
<1>2. /\ DOMAIN u = DOMAIN w \cup DOMAIN v
      /\ \A x \in DOMAIN w : u[x] = w[x]
      /\ \A x \in DOMAIN v \ DOMAIN w : u[x] = v[x]
  BY Over
<1>3. /\ DOMAIN v \subseteq LayoutDocs \ {Config} /\ DOMAIN w \subseteq LayoutDocs \ {Config}
      /\ \A x \in DOMAIN v : v[x] \in Schema(x)
      /\ \A x \in DOMAIN w : w[x] \in Schema(x)
      /\ OrphanFree(w ++ e)
  BY DEF SoundEdit
<1>4. /\ \A s \in Shelves, b \in Bays :
            d[Cell(s, b)].live /\ ~e[Cell(s, b)].live => \A i \in Items : d[InCell(i, s, b)] = 0
      /\ \A s \in Shelves, b \in Bays :
            e[Cell(s, b)].live /\ ~(w ++ e)[Cell(s, b)].live => \A i \in Items : e[InCell(i, s, b)] = 0
  BY DEF SoundEdit
<1>5. /\ \A x \in DOMAIN d \ DOMAIN v : e[x] = d[x]
      /\ DOMAIN d = Docs
  BY Over DEF FitsSchema
<1>6. FitsSchema(e)
  BY <1>3, FloorDocs, FitsOver
<1>. HIDE DEF u, e
<1>7. \A i \in Items, s \in Shelves, b \in Bays : e[InCell(i, s, b)] = d[InCell(i, s, b)]
  BY <1>3, <1>5, Placed, LayoutIsNoStock
<1>8. \A s \in Shelves, b \in Bays : e[Cell(s, b)].live \in BOOLEAN
  BY <1>6, DocForms, CellForm
<1>9. \A x \in DOMAIN u : u[x] \in Schema(x)
  BY <1>2, <1>3
<1>10. \A s \in Shelves, b \in Bays :
          d[Cell(s, b)].live /\ ~(u ++ d)[Cell(s, b)].live => \A i \in Items : d[InCell(i, s, b)] = 0
  BY <1>1, <1>4, <1>7, <1>8
<1>11. SoundEdit(d, u)
  BY <1>1, <1>2, <1>3, <1>9, <1>10 DEF SoundEdit
<1>. QED BY <1>11 DEF u

LEMMA SoundEditFits ==
    ASSUME NEW d, FitsSchema(d), NEW w, SoundEdit(d, w)
    PROVE  FitsSchema(w ++ d) /\ OrphanFree(w ++ d)
BY FloorDocs, FitsOver DEF SoundEdit

LEMMA BatchesSound ==
    ASSUME NEW d, FitsSchema(d), OrphanFree(d), NEW w \in Batches(d)
    PROVE  SoundEdit(d, w)
<1>1. CASE w \in Operations(d)
  BY <1>1, OperationsSound
<1>2. ASSUME NEW v \in Operations(d), NEW u \in Operations(v ++ d), w = u ++ v
      PROVE  SoundEdit(d, w)
  <2>1. SoundEdit(d, v)
    BY OperationsSound
  <2>2. FitsSchema(v ++ d) /\ OrphanFree(v ++ d)
    BY <2>1, SoundEditFits
  <2>3. SoundEdit(v ++ d, u)
    BY <2>2, OperationsSound
  <2>. QED BY <1>2, <2>1, <2>3, TwoEdits
<1>3. w \in Operations(d) \/ \E v \in Operations(d) : \E u \in Operations(v ++ d) : w = u ++ v
  BY DEF Batches
<1>. QED BY <1>1, <1>2, <1>3

----------------------------------------------------------------------------
\* Sums over the stock

LEMMA SumOfIsTotal ==
    ASSUME NEW f
    PROVE  SumOf(f) = Total(f, DOMAIN f)
BY DEF SumOf, MapThenSumSet, MapThenFoldSet, Total, Fold, Solves, Pick1

CellStock(d, i) == [c \in Shelves \X Bays |-> d[InCell(i, c[1], c[2])]]
LooseStock(d, i) == [s \in Shelves |-> d[Loose(i, s)]]
Boxes(d, s, b) == [i \in Items |-> d[InCell(i, s, b)] * d[Snapshot(i, s, b)]]

LEMMA FinitePlaces ==
    IsFiniteSet(Shelves) /\ IsFiniteSet(Items) /\ IsFiniteSet(Shelves \X Bays)
<1>1. IsFiniteSet(Shelves) /\ IsFiniteSet(Items)
  BY StorageAssumption
<1>2. MaxBays \in Int
  BY LayoutAssumption
<1>3. IsFiniteSet(Bays)
  BY <1>2, FiniteInterval DEF Bays
<1>. QED BY <1>1, <1>3, FiniteProduct

LEMMA StockTotals ==
    ASSUME NEW d, FitsSchema(d), NEW i \in Items
    PROVE  /\ Summable(CellStock(d, i), Shelves \X Bays)
           /\ Summable(LooseStock(d, i), Shelves)
           /\ Stored(d, i) = Total(CellStock(d, i), Shelves \X Bays)
           /\ Found(d, i) = Total(LooseStock(d, i), Shelves) + Stored(d, i)
           /\ Stored(d, i) \in Int /\ Total(LooseStock(d, i), Shelves) \in Int
<1>1. \A c \in Shelves \X Bays : CellStock(d, i)[c] \in Int
  <2>1. ASSUME NEW c \in Shelves \X Bays
        PROVE  CellStock(d, i)[c] \in Int
    <3>1. c[1] \in Shelves /\ c[2] \in Bays
      OBVIOUS
    <3>2. d[InCell(i, c[1], c[2])] \in Nat
      BY <3>1, DocForms
    <3>3. CellStock(d, i)[c] = d[InCell(i, c[1], c[2])]
      BY DEF CellStock
    <3>. QED BY <3>2, <3>3
  <2>. QED BY <2>1
<1>2. \A s \in Shelves : LooseStock(d, i)[s] \in Int
  <2>1. \A s \in Shelves : d[Loose(i, s)] \in Nat
    BY DocForms
  <2>. QED BY <2>1 DEF LooseStock
<1>3. Summable(CellStock(d, i), Shelves \X Bays) /\ Summable(LooseStock(d, i), Shelves)
  BY <1>1, <1>2, FinitePlaces DEF Summable
<1>4. DOMAIN CellStock(d, i) = Shelves \X Bays /\ DOMAIN LooseStock(d, i) = Shelves
  BY DEF CellStock, LooseStock
<1>5. Stored(d, i) = SumOf(CellStock(d, i))
  BY DEF Stored, CellStock
<1>6. Found(d, i) = SumOf(LooseStock(d, i)) + Stored(d, i)
  BY DEF Found, LooseStock
<1>. QED BY <1>3, <1>4, <1>5, <1>6, SumOfIsTotal, TotalRemove

LEMMA WidthsOfBoxes ==
    /\ \A i \in Items : Width[i] \in Nat /\ Width[i] > 0 /\ Delivered[i] \in Nat
    /\ Delivered \in [Items -> Nat]
    /\ \A n \in Counts : n \in Nat /\ n > 0
    /\ \A z \in Sizes : z \in Nat
BY PutAwayAssumption

LEMMA VolumeTotal ==
    ASSUME NEW d, FitsSchema(d), NEW s \in Shelves, NEW b \in Bays
    PROVE  /\ Summable(Boxes(d, s, b), Items)
           /\ Volume(d, s, b) = Total(Boxes(d, s, b), Items)
           /\ Volume(d, s, b) \in Int
<1>1. \A i \in Items : Boxes(d, s, b)[i] \in Int
  <2>1. \A i \in Items : d[InCell(i, s, b)] \in Nat
    BY DocForms
  <2>2. \A i \in Items : d[Snapshot(i, s, b)] \in Nat
    BY DocForms
  <2>. QED BY <2>1, <2>2 DEF Boxes
<1>2. Summable(Boxes(d, s, b), Items)
  BY <1>1, FinitePlaces DEF Summable
<1>3. DOMAIN Boxes(d, s, b) = Items
  BY DEF Boxes
<1>4. Volume(d, s, b) = SumOf(Boxes(d, s, b))
  BY DEF Volume, Boxes
<1>. QED BY <1>2, <1>3, <1>4, SumOfIsTotal, TotalRemove

\* Databases with the same stock in the cells, and with the same stock.
SameCells(d, e) == \A i \in Items, s \in Shelves, b \in Bays : e[InCell(i, s, b)] = d[InCell(i, s, b)]
SameLoose(d, e) == \A i \in Items, s \in Shelves : e[Loose(i, s)] = d[Loose(i, s)]

LEMMA SameCellsSums ==
    ASSUME NEW d, NEW e, SameCells(d, e)
    PROVE  \A i \in Items : Stored(e, i) = Stored(d, i)
<1>1. ASSUME NEW i \in Items
      PROVE  Stored(e, i) = Stored(d, i)
  <2>1. \A c \in Shelves \X Bays : e[InCell(i, c[1], c[2])] = d[InCell(i, c[1], c[2])]
    BY DEF SameCells
  <2>2. [c \in Shelves \X Bays |-> e[InCell(i, c[1], c[2])]] = [c \in Shelves \X Bays |-> d[InCell(i, c[1], c[2])]]
    BY <2>1
  <2>. QED BY <2>2 DEF Stored
<1>. QED BY <1>1

LEMMA SameLooseSums ==
    ASSUME NEW d, NEW e, SameCells(d, e), SameLoose(d, e)
    PROVE  \A i \in Items : Found(e, i) = Found(d, i)
<1>1. ASSUME NEW i \in Items
      PROVE  Found(e, i) = Found(d, i)
  <2>1. [s \in Shelves |-> e[Loose(i, s)]] = [s \in Shelves |-> d[Loose(i, s)]]
    BY DEF SameLoose
  <2>. QED BY <2>1, SameCellsSums DEF Found
<1>. QED BY <1>1

\* qty boxes of i more lie in a cell.
PutDown(d, e, i, s, b, qty) ==
    \A j \in Items, t \in Shelves, c \in Bays :
       e[InCell(j, t, c)] = IF j = i /\ t = s /\ c = b THEN d[InCell(j, t, c)] + qty ELSE d[InCell(j, t, c)]

\* ... and as many fewer on a shelf.
TakenFrom(d, e, i, s, qty) ==
    \A j \in Items, t \in Shelves :
       e[Loose(j, t)] = IF j = i /\ t = s THEN d[Loose(j, t)] - qty ELSE d[Loose(j, t)]

LEMMA PutDownSums ==
    ASSUME NEW d, FitsSchema(d), NEW e, FitsSchema(e), NEW i \in Items, NEW s \in Shelves, NEW b \in Bays,
           NEW qty \in Nat, PutDown(d, e, i, s, b, qty)
    PROVE  \A j \in Items : Stored(e, j) = Stored(d, j) + (IF j = i THEN qty ELSE 0)
<1>1. Stored(e, i) = Stored(d, i) + qty
  <2>. DEFINE x == <<s, b>>
  <2>1. x \in Shelves \X Bays /\ x[1] = s /\ x[2] = b
    OBVIOUS
  <2>2. \A c \in (Shelves \X Bays) \ {x} : c[1] \in Shelves /\ c[2] \in Bays /\ ~(c[1] = s /\ c[2] = b)
    OBVIOUS
  <2>3. \A c \in (Shelves \X Bays) \ {x} : CellStock(d, i)[c] = CellStock(e, i)[c]
    BY <2>2 DEF PutDown, CellStock
  <2>4. CellStock(e, i)[x] = CellStock(d, i)[x] + qty
    BY <2>1 DEF PutDown, CellStock
  <2>5. CellStock(d, i)[x] \in Int /\ Summable(CellStock(d, i), Shelves \X Bays)
        /\ Summable(CellStock(e, i), Shelves \X Bays)
    BY <2>1, StockTotals DEF Summable
  <2>. HIDE DEF x
  <2>6. Total(CellStock(e, i), Shelves \X Bays)
           = Total(CellStock(d, i), Shelves \X Bays) + (CellStock(e, i)[x] - CellStock(d, i)[x])
    BY <2>1, <2>3, <2>5, TotalChanges
  <2>7. /\ Stored(d, i) = Total(CellStock(d, i), Shelves \X Bays) /\ Stored(d, i) \in Int
        /\ Stored(e, i) = Total(CellStock(e, i), Shelves \X Bays)
    BY StockTotals
  <2>. QED BY <2>4, <2>5, <2>6, <2>7
<1>2. ASSUME NEW j \in Items, j # i
      PROVE  Stored(e, j) = Stored(d, j)
  <2>1. \A c \in Shelves \X Bays : e[InCell(j, c[1], c[2])] = d[InCell(j, c[1], c[2])]
    BY <1>2 DEF PutDown
  <2>2. [c \in Shelves \X Bays |-> e[InCell(j, c[1], c[2])]] = [c \in Shelves \X Bays |-> d[InCell(j, c[1], c[2])]]
    BY <2>1
  <2>. QED BY <2>2 DEF Stored
<1>3. \A j \in Items : Stored(d, j) \in Int
  BY StockTotals
<1>. QED BY <1>1, <1>2, <1>3

\* They take the room of qty boxes more, where those of the item that lie there have their size.
LEMMA PutDownVolume ==
    ASSUME NEW d, FitsSchema(d), NEW e, FitsSchema(e), NEW i \in Items, NEW s \in Shelves, NEW b \in Bays,
           NEW qty \in Nat, NEW size \in Nat, PutDown(d, e, i, s, b, qty),
           e[Snapshot(i, s, b)] = size,
           \A j \in Items \ {i} : e[Snapshot(j, s, b)] = d[Snapshot(j, s, b)],
           d[InCell(i, s, b)] = 0 \/ d[Snapshot(i, s, b)] = size
    PROVE  Volume(e, s, b) = Volume(d, s, b) + qty * size
<1>1. \A j \in Items \ {i} : Boxes(d, s, b)[j] = Boxes(e, s, b)[j]
  BY DEF PutDown, Boxes
<1>2. /\ Boxes(e, s, b)[i] = (d[InCell(i, s, b)] + qty) * size
      /\ Boxes(d, s, b)[i] = d[InCell(i, s, b)] * d[Snapshot(i, s, b)]
  BY DEF PutDown, Boxes
<1>3. d[InCell(i, s, b)] \in Nat /\ d[Snapshot(i, s, b)] \in Nat
  BY DocForms
<1>4. d[InCell(i, s, b)] * d[Snapshot(i, s, b)] = d[InCell(i, s, b)] * size
  BY <1>3
<1>5. /\ (d[InCell(i, s, b)] + qty) * size = d[InCell(i, s, b)] * size + qty * size
      /\ d[InCell(i, s, b)] * size \in Nat /\ qty * size \in Nat
  BY <1>3
<1>6. Summable(Boxes(d, s, b), Items) /\ Summable(Boxes(e, s, b), Items)
  BY VolumeTotal
<1>7. Total(Boxes(e, s, b), Items) = Total(Boxes(d, s, b), Items) + (Boxes(e, s, b)[i] - Boxes(d, s, b)[i])
  BY <1>1, <1>6, TotalChanges
<1>8. /\ Volume(d, s, b) = Total(Boxes(d, s, b), Items) /\ Volume(d, s, b) \in Int
      /\ Volume(e, s, b) = Total(Boxes(e, s, b), Items)
  BY VolumeTotal
<1>. QED BY <1>2, <1>4, <1>5, <1>7, <1>8

LEMMA TakenFromSums ==
    ASSUME NEW d, FitsSchema(d), NEW e, FitsSchema(e), NEW i \in Items, NEW s \in Shelves,
           NEW qty \in Int, TakenFrom(d, e, i, s, qty)
    PROVE  \A j \in Items : Total(LooseStock(e, j), Shelves)
                               = Total(LooseStock(d, j), Shelves) - (IF j = i THEN qty ELSE 0)
<1>1. Total(LooseStock(e, i), Shelves) = Total(LooseStock(d, i), Shelves) - qty
  <2>1. \A t \in Shelves \ {s} : LooseStock(d, i)[t] = LooseStock(e, i)[t]
    BY DEF TakenFrom, LooseStock
  <2>2. LooseStock(e, i)[s] = LooseStock(d, i)[s] - qty
    BY DEF TakenFrom, LooseStock
  <2>3. /\ LooseStock(d, i)[s] \in Int /\ Summable(LooseStock(d, i), Shelves)
        /\ Summable(LooseStock(e, i), Shelves) /\ Total(LooseStock(d, i), Shelves) \in Int
    BY StockTotals DEF Summable
  <2>4. Total(LooseStock(e, i), Shelves)
           = Total(LooseStock(d, i), Shelves) + (LooseStock(e, i)[s] - LooseStock(d, i)[s])
    BY <2>1, <2>3, TotalChanges
  <2>. QED BY <2>2, <2>3, <2>4
<1>2. ASSUME NEW j \in Items, j # i
      PROVE  Total(LooseStock(e, j), Shelves) = Total(LooseStock(d, j), Shelves)
  <2>1. LooseStock(e, j) = LooseStock(d, j)
    BY <1>2 DEF TakenFrom, LooseStock
  <2>. QED BY <2>1
<1>3. \A j \in Items : Total(LooseStock(d, j), Shelves) \in Int
  BY StockTotals
<1>. QED BY <1>1, <1>2, <1>3

----------------------------------------------------------------------------
\* What a transaction that may still commit has computed, said of what is committed now.

\* Boxes come down in a cell with room for them, from where they lie in none.
Lands(d, w, i, s, b, from, qty, size) ==
    /\ d[Cell(s, b)].live /\ HasRoom(d, s, b, qty, size) /\ d[Loose(i, from)] >= qty
    /\ w[Cell(s, b)] = d[Cell(s, b)]
    /\ w[Loose(i, from)] = d[Loose(i, from)] - qty
    /\ w[InCell(i, s, b)] = d[InCell(i, s, b)] + qty
    /\ w[Snapshot(i, s, b)] = size

\* PutAwayService.confirmLine
Confirms(d, w, i, s, b, from, qty, size) ==
    /\ Lands(d, w, i, s, b, from, qty, size)
    /\ DOMAIN w = {Cell(s, b), Shelf(s), Loose(i, from), InCell(i, s, b), Snapshot(i, s, b), Task}
    /\ w[Shelf(s)] = d[Shelf(s)]
    /\ d[Task].status = "PENDING" /\ d[Task].left[i] >= qty
    /\ w[Task] = TaskAfter(d[Task], i, qty)

\* InventoryReconciliationService.assign
Assigns(d, w, i, s, b, from, qty, size) ==
    /\ Lands(d, w, i, s, b, from, qty, size)
    /\ DOMAIN w = {Cell(s, b), Loose(i, from), InCell(i, s, b), Snapshot(i, s, b), Assigned(i)}
    /\ w[Assigned(i)] = d[Assigned(i)] + qty

\* approveGoodsReceiptNote
Receives(d, w, s) ==
    /\ d[Task] = NoTask
    /\ DOMAIN w = {Loose(i, s) : i \in {j \in Items : Delivered[j] > 0}} \cup {Task}
    /\ \A i \in Items : Delivered[i] > 0 => w[Loose(i, s)] = d[Loose(i, s)] + Delivered[i]
    /\ w[Task] = [status |-> "PENDING", source |-> s, left |-> Delivered]

\* An edit of the layout, with its revision
Revises(d, w) ==
    /\ Config \in DOMAIN w /\ DOMAIN w \subseteq LayoutDocs
    /\ \A x \in DOMAIN w : w[x] \in Schema(x)
    /\ OrphanFree(w ++ d)
    /\ \A s \in Shelves, b \in Bays :
          d[Cell(s, b)].live /\ ~(w ++ d)[Cell(s, b)].live => \A i \in Items : d[InCell(i, s, b)] = 0

Stands(d, w) ==
    \/ Revises(d, w)
    \/ \E s \in Shelves : Receives(d, w, s)
    \/ \E i \in Items, s \in Shelves, b \in Bays, from \in Shelves, qty \in Nat, size \in Nat :
          Confirms(d, w, i, s, b, from, qty, size)
    \/ \E i \in Items, s \in Shelves, b \in Bays, from \in Shelves, qty \in Nat, size \in Nat :
          Assigns(d, w, i, s, b, from, qty, size)

\* What every change of the database keeps of the stock.
Balanced(d, e) == \A i \in Items : Found(e, i) + Received(d, i) = Found(d, i) + Received(e, i)
NoneOverfilled(d, e) ==
    \A s \in Shelves, b \in Bays :
       BroughtIn(d, e, s, b) /\ ~Resized(d, e, s, b) => Volume(e, s, b) <= e[Cell(s, b)].width

\* Nothing is brought in where the cells hold what they held.
LEMMA NothingBrought ==
    ASSUME NEW d, FitsSchema(d), NEW e, SameCells(d, e)
    PROVE  NoneOverfilled(d, e)
<1>1. \A i \in Items, s \in Shelves, b \in Bays : e[InCell(i, s, b)] = d[InCell(i, s, b)] /\ d[InCell(i, s, b)] \in Nat
  BY DocForms DEF SameCells
<1>2. \A s \in Shelves, b \in Bays : ~BroughtIn(d, e, s, b)
  BY <1>1 DEF BroughtIn
<1>. QED BY <1>2 DEF NoneOverfilled

Keeps(d, e) == InOrder(e) /\ Balanced(d, e) /\ NoneOverfilled(d, e)

LEMMA ReceivedNumbers ==
    ASSUME NEW d, FitsSchema(d), NEW i \in Items
    PROVE  Received(d, i) \in Nat /\ Left(d, i) \in Nat /\ d[Assigned(i)] \in Nat
<1>1. d[Task] \in TaskSchema /\ d[Assigned(i)] \in Nat
  BY DocForms
<1>2. d[Task].left[i] \in Nat
  BY <1>1 DEF TaskSchema
<1>. QED BY <1>1, <1>2, WidthsOfBoxes DEF Received, Left

\* A change that leaves the stock and the work as they are.
LEMMA StockUntouched ==
    ASSUME NEW d, FitsSchema(d), Explained(d), NEW e, FitsSchema(e), SameCells(d, e), SameLoose(d, e),
           \A i \in Items : e[Assigned(i)] = d[Assigned(i)],
           \A i \in Items : Received(e, i) = Received(d, i) /\ Left(e, i) = Left(d, i)
    PROVE  Explained(e) /\ Balanced(d, e) /\ NoneOverfilled(d, e)
<1>1. Explained(e)
  BY SameCellsSums DEF Explained
<1>2. \A i \in Items : Found(e, i) = Found(d, i)
  BY SameLooseSums
<1>3. Balanced(d, e)
  BY <1>2 DEF Balanced
<1>. QED BY <1>1, <1>3, NothingBrought

\* An edit changes no stock, and gives up no cell that holds any.
LEMMA EditKeeps ==
    ASSUME NEW d, InOrder(d), NEW w, DOMAIN w \subseteq LayoutDocs,
           \A x \in DOMAIN w : w[x] \in Schema(x), OrphanFree(w ++ d),
           \A s \in Shelves, b \in Bays :
              d[Cell(s, b)].live /\ ~(w ++ d)[Cell(s, b)].live => \A i \in Items : d[InCell(i, s, b)] = 0
    PROVE  Keeps(d, w ++ d)
<1>. DEFINE e == w ++ d
<1>1. FitsSchema(d) /\ StockHeld(d) /\ Explained(d)
  BY DEF InOrder
<1>2. FitsSchema(e)
  BY <1>1, FloorDocs, FitsOver
<1>3. /\ \A x \in DOMAIN d \ DOMAIN w : e[x] = d[x]
      /\ DOMAIN d = Docs
  BY <1>1, Over DEF FitsSchema
<1>4. OrphanFree(e)
  OBVIOUS
<1>5. \A s \in Shelves, b \in Bays :
         d[Cell(s, b)].live /\ ~e[Cell(s, b)].live => \A i \in Items : d[InCell(i, s, b)] = 0
  OBVIOUS
<1>. HIDE DEF e
<1>6. SameCells(d, e)
  BY <1>3, Placed, LayoutIsNoStock DEF SameCells
<1>7. SameLoose(d, e)
  BY <1>3, Placed, LayoutIsNoStock DEF SameLoose
<1>8. /\ \A i \in Items : e[Assigned(i)] = d[Assigned(i)]
      /\ e[Task] = d[Task]
  BY <1>3, Placed, LayoutIsNoWork
<1>9. Explained(e) /\ Balanced(d, e) /\ NoneOverfilled(d, e)
  <2>1. \A i \in Items : Received(e, i) = Received(d, i) /\ Left(e, i) = Left(d, i)
    BY <1>8 DEF Received, Left
  <2>. QED BY <1>1, <1>2, <1>6, <1>7, <1>8, <2>1, StockUntouched
<1>10. StockHeld(e)
  <2>. SUFFICES ASSUME NEW i \in Items, NEW s \in Shelves, NEW b \in Bays, e[InCell(i, s, b)] > 0
                PROVE  e[Cell(s, b)].live
    BY DEF StockHeld
  <2>1. d[InCell(i, s, b)] > 0
    BY <1>6 DEF SameCells
  <2>2. d[Cell(s, b)].live
    BY <1>1, <2>1 DEF StockHeld
  <2>3. d[InCell(i, s, b)] # 0
    BY <2>1
  <2>. QED BY <1>5, <2>2, <2>3
<1>11. Keeps(d, e)
  BY <1>2, <1>4, <1>9, <1>10 DEF Keeps, InOrder
<1>. QED BY <1>11 DEF e

LEMMA StockApart ==
    /\ \A i, s, b, j, t, c : InCell(i, s, b) = InCell(j, t, c) => i = j /\ s = t /\ b = c
    /\ \A i, s, j, t : Loose(i, s) = Loose(j, t) => i = j /\ s = t
    /\ \A i, j : Assigned(i) = Assigned(j) => i = j
    /\ \A i, s, j, t, c : Loose(i, s) # InCell(j, t, c)
    /\ \A i, s, j : Loose(i, s) # Assigned(j)
    /\ \A i, s, b, j : InCell(i, s, b) # Assigned(j)
    /\ \A i, s : Loose(i, s) # Task
    /\ \A i, s, b : InCell(i, s, b) # Task
    /\ \A i : Assigned(i) # Task
BY DEF InCell, Loose, Assigned, Task

LEMMA SnapshotsApart ==
    /\ \A i, s, b, j, t, c : Snapshot(i, s, b) = Snapshot(j, t, c) => i = j /\ s = t /\ b = c
    /\ \A i, s, b, j, t, c : Snapshot(i, s, b) # InCell(j, t, c)
    /\ \A i, s, b, j, t : Snapshot(i, s, b) # Loose(j, t)
    /\ \A i, s, b, j : Snapshot(i, s, b) # Assigned(j)
    /\ \A i, s, b : Snapshot(i, s, b) # Task
    /\ \A i, s, b, t, c : Snapshot(i, s, b) # Cell(t, c)
    /\ \A i, s, b, t : Snapshot(i, s, b) # Shelf(t)
BY DEF InCell, Snapshot, Loose, Assigned, Task, Cell, Shelf

LEMMA FloorPlaced ==
    /\ Config \in LayoutDocs /\ Template \in LayoutDocs
    /\ \A z \in Zones : Zone(z) \in LayoutDocs
    /\ \A r \in Racks : Rack(r) \in LayoutDocs
    /\ \A s \in Shelves : Shelf(s) \in LayoutDocs
    /\ \A s \in Shelves, b \in Bays : Cell(s, b) \in LayoutDocs
BY DEF LayoutDocs

\* What goods that come down in a cell change, and what they leave alone.
LEMMA LandingKeeps ==
    ASSUME NEW d, InOrder(d), NEW w, NEW i \in Items, NEW s \in Shelves, NEW b \in Bays, NEW from \in Shelves,
           NEW qty \in Nat, NEW size \in Nat, Lands(d, w, i, s, b, from, qty, size),
           {Cell(s, b), Loose(i, from), InCell(i, s, b), Snapshot(i, s, b)} \subseteq DOMAIN w,
           DOMAIN w \subseteq {Cell(s, b), Shelf(s), Loose(i, from), InCell(i, s, b), Snapshot(i, s, b), Task, Assigned(i)},
           Shelf(s) \in DOMAIN w => w[Shelf(s)] = d[Shelf(s)],
           Task \in DOMAIN w => w[Task] \in TaskSchema,
           Assigned(i) \in DOMAIN w => w[Assigned(i)] \in Nat
    PROVE  /\ FitsSchema(w ++ d) /\ OrphanFree(w ++ d) /\ StockHeld(w ++ d) /\ NoneOverfilled(d, w ++ d)
           /\ PutDown(d, w ++ d, i, s, b, qty) /\ TakenFrom(d, w ++ d, i, from, qty)
           /\ (w ++ d)[Task] = IF Task \in DOMAIN w THEN w[Task] ELSE d[Task]
           /\ \A j \in Items : (w ++ d)[Assigned(j)] = IF j = i /\ Assigned(i) \in DOMAIN w THEN w[Assigned(i)]
                                                      ELSE d[Assigned(j)]
<1>. DEFINE e == w ++ d
<1>1. FitsSchema(d) /\ OrphanFree(d) /\ StockHeld(d)
  BY DEF InOrder
<1>2. /\ \A x \in DOMAIN w : e[x] = w[x]
      /\ \A x \in DOMAIN d \ DOMAIN w : e[x] = d[x]
      /\ DOMAIN d = Docs
  BY <1>1, Over DEF FitsSchema
<1>3. /\ d[Cell(s, b)].live /\ HasRoom(d, s, b, qty, size) /\ d[Loose(i, from)] >= qty
      /\ w[Cell(s, b)] = d[Cell(s, b)]
      /\ w[Loose(i, from)] = d[Loose(i, from)] - qty
      /\ w[InCell(i, s, b)] = d[InCell(i, s, b)] + qty
      /\ w[Snapshot(i, s, b)] = size
  BY DEF Lands
<1>4. \A x \in DOMAIN w : x \in Docs /\ w[x] \in Schema(x)
  <2>1. d[Cell(s, b)] \in CellSchema /\ d[Shelf(s)] \in ShelfSchema
    BY <1>1, DocForms
  <2>2. d[Loose(i, from)] \in Nat /\ d[InCell(i, s, b)] \in Nat
    BY <1>1, DocForms
  <2>3. w[Loose(i, from)] \in Nat /\ w[InCell(i, s, b)] \in Nat
    BY <1>3, <2>2
  <2>4. Cell(s, b) \in Docs /\ w[Cell(s, b)] \in Schema(Cell(s, b))
    BY <1>3, <2>1, SchemaOf, Placed
  <2>5. Shelf(s) \in Docs /\ (Shelf(s) \in DOMAIN w => w[Shelf(s)] \in Schema(Shelf(s)))
    BY <2>1, SchemaOf, Placed
  <2>6. Loose(i, from) \in Docs /\ w[Loose(i, from)] \in Schema(Loose(i, from))
    BY <2>3, SchemaOf, Placed
  <2>7. InCell(i, s, b) \in Docs /\ w[InCell(i, s, b)] \in Schema(InCell(i, s, b))
    BY <2>3, SchemaOf, Placed
  <2>8. Task \in Docs /\ (Task \in DOMAIN w => w[Task] \in Schema(Task))
    BY SchemaOf, Placed
  <2>9. Assigned(i) \in Docs /\ (Assigned(i) \in DOMAIN w => w[Assigned(i)] \in Schema(Assigned(i)))
    BY SchemaOf, Placed
  <2>10. Snapshot(i, s, b) \in Docs /\ w[Snapshot(i, s, b)] \in Schema(Snapshot(i, s, b))
    BY <1>3, SchemaOf, Placed
  <2>. QED BY <2>4, <2>5, <2>6, <2>7, <2>8, <2>9, <2>10
<1>5. FitsSchema(e)
  <2>1. DOMAIN w \subseteq Docs /\ \A x \in DOMAIN w : w[x] \in Schema(x)
    BY <1>4
  <2>. QED BY <1>1, <2>1, FitsOver
<1>. HIDE DEF e
<1>6. \A x \in LayoutDocs : e[x] = d[x]
  <2>1. \A x \in DOMAIN w \cap LayoutDocs : x = Cell(s, b) \/ x = Shelf(s)
    BY LayoutIsNoStock, LayoutIsNoWork
  <2>. QED BY <1>2, <1>3, <2>1, FloorDocs
<1>7. SameFloor(d, e)
  BY <1>6, FloorPlaced DEF SameFloor
<1>8. OrphanFree(e)
  BY <1>1, <1>5, <1>7, OrphansOfSameFloor
<1>9. PutDown(d, e, i, s, b, qty)
  <2>. SUFFICES ASSUME NEW j \in Items, NEW t \in Shelves, NEW c \in Bays
                PROVE  e[InCell(j, t, c)] = IF j = i /\ t = s /\ c = b THEN d[InCell(j, t, c)] + qty
                                            ELSE d[InCell(j, t, c)]
    BY DEF PutDown
  <2>1. InCell(j, t, c) # Cell(s, b) /\ InCell(j, t, c) # Shelf(s)
    BY LayoutIsNoStock, FloorPlaced
  <2>2. InCell(j, t, c) \in DOMAIN w => j = i /\ t = s /\ c = b
    BY <2>1, StockApart, SnapshotsApart
  <2>. QED BY <1>2, <1>3, <2>2, Placed
<1>10. TakenFrom(d, e, i, from, qty)
  <2>. SUFFICES ASSUME NEW j \in Items, NEW t \in Shelves
                PROVE  e[Loose(j, t)] = IF j = i /\ t = from THEN d[Loose(j, t)] - qty ELSE d[Loose(j, t)]
    BY DEF TakenFrom
  <2>1. Loose(j, t) # Cell(s, b) /\ Loose(j, t) # Shelf(s)
    BY LayoutIsNoStock, FloorPlaced
  <2>2. Loose(j, t) \in DOMAIN w => j = i /\ t = from
    BY <2>1, StockApart, SnapshotsApart
  <2>. QED BY <1>2, <1>3, <2>2, Placed
<1>11. StockHeld(e)
  <2>. SUFFICES ASSUME NEW j \in Items, NEW t \in Shelves, NEW c \in Bays, e[InCell(j, t, c)] > 0
                PROVE  e[Cell(t, c)].live
    BY DEF StockHeld
  <2>1. e[Cell(t, c)] = d[Cell(t, c)]
    BY <1>7 DEF SameFloor
  <2>2. CASE j = i /\ t = s /\ c = b
    BY <1>3, <2>1, <2>2
  <2>3. CASE ~(j = i /\ t = s /\ c = b)
    <3>1. e[InCell(j, t, c)] = d[InCell(j, t, c)]
      BY <1>9, <2>3 DEF PutDown
    <3>. QED BY <1>1, <2>1, <3>1 DEF StockHeld
  <2>. QED BY <2>2, <2>3
<1>12. NoneOverfilled(d, e)
  <2>. SUFFICES ASSUME NEW t \in Shelves, NEW c \in Bays, BroughtIn(d, e, t, c), ~Resized(d, e, t, c)
                PROVE  Volume(e, t, c) <= e[Cell(t, c)].width
    BY DEF NoneOverfilled
  <2>1. t = s /\ c = b
    <3>1. PICK j \in Items : e[InCell(j, t, c)] > d[InCell(j, t, c)]
      BY DEF BroughtIn
    <3>2. d[InCell(j, t, c)] \in Nat
      BY <1>1, DocForms
    <3>. QED BY <1>9, <3>1, <3>2 DEF PutDown
  <2>2. e[Snapshot(i, s, b)] = size
    BY <1>2, <1>3
  <2>3. \A j \in Items \ {i} : e[Snapshot(j, s, b)] = d[Snapshot(j, s, b)]
    <3>. SUFFICES ASSUME NEW j \in Items \ {i}
                  PROVE  e[Snapshot(j, s, b)] = d[Snapshot(j, s, b)]
      OBVIOUS
    <3>1. Snapshot(j, s, b) \notin DOMAIN w
      BY SnapshotsApart
    <3>. QED BY <1>2, <3>1, Placed
  <2>4. d[InCell(i, s, b)] = 0 \/ d[Snapshot(i, s, b)] = size
    <3>1. d[InCell(i, s, b)] \in Nat
      BY <1>1, DocForms
    <3>2. d[InCell(i, s, b)] > 0 => e[Snapshot(i, s, b)] = d[Snapshot(i, s, b)]
      BY <2>1 DEF Resized
    <3>. QED BY <2>2, <3>1, <3>2
  <2>5. Volume(e, s, b) = Volume(d, s, b) + qty * size
    BY <1>1, <1>5, <1>9, <2>2, <2>3, <2>4, PutDownVolume
  <2>6. e[Cell(s, b)] = d[Cell(s, b)]
    BY <1>7 DEF SameFloor
  <2>. QED BY <1>3, <2>1, <2>5, <2>6 DEF HasRoom
<1>13. e[Task] = IF Task \in DOMAIN w THEN w[Task] ELSE d[Task]
  BY <1>2, Placed
<1>14. ASSUME NEW j \in Items
       PROVE  e[Assigned(j)] = IF j = i /\ Assigned(i) \in DOMAIN w THEN w[Assigned(i)] ELSE d[Assigned(j)]
  <2>1. Assigned(j) # Cell(s, b) /\ Assigned(j) # Shelf(s)
    BY LayoutIsNoWork, FloorPlaced
  <2>2. Assigned(j) \in DOMAIN w => j = i
    BY <2>1, StockApart, SnapshotsApart
  <2>. QED BY <1>2, <2>2, Placed
<1>. QED BY <1>5, <1>8, <1>9, <1>10, <1>11, <1>12, <1>13, <1>14 DEF e

LEMMA TaskAfterIs ==
    ASSUME NEW task \in TaskSchema, task.status = "PENDING", NEW i \in Items, NEW qty \in Nat, task.left[i] >= qty
    PROVE  /\ TaskAfter(task, i, qty) \in TaskSchema /\ TaskAfter(task, i, qty) # NoTask
           /\ \A j \in Items : TaskAfter(task, i, qty).left[j] = task.left[j] - (IF j = i THEN qty ELSE 0)
<1>. DEFINE left == [task.left EXCEPT ![i] = @ - qty]
            done == \A j \in Items : left[j] = 0
            mid == [task EXCEPT !.left = left]
            after == [mid EXCEPT !.status = IF done THEN "COMPLETED" ELSE @]
<1>1. task.left \in [Items -> Nat]
  BY DEF TaskSchema
<1>2. left \in [Items -> Nat]
  BY <1>1
<1>3. \A j \in Items : left[j] = task.left[j] - (IF j = i THEN qty ELSE 0)
  <2>1. \A j \in Items : task.left[j] \in Nat
    BY <1>1
  <2>. QED BY <1>1, <2>1
<1>4. after = TaskAfter(task, i, qty)
  BY DEF TaskAfter
<1>. HIDE DEF left, done
<1>5. mid \in TaskSchema /\ mid.left = left /\ mid.status = "PENDING"
  BY <1>2 DEF TaskSchema
<1>. HIDE DEF mid
<1>6. after \in TaskSchema /\ after.left = left /\ after.status \in {"PENDING", "COMPLETED"}
  <2>1. CASE done
    BY <1>5, <2>1 DEF TaskSchema
  <2>2. CASE ~done
    BY <1>5, <2>2 DEF TaskSchema
  <2>. QED BY <2>1, <2>2
<1>. HIDE DEF after
<1>7. NoTask.status = "none"
  BY DEF NoTask
<1>8. after # NoTask
  BY <1>6, <1>7
<1>. QED BY <1>3, <1>4, <1>6, <1>8

LEMMA ConfirmKeeps ==
    ASSUME NEW d, InOrder(d), NEW w, NEW i \in Items, NEW s \in Shelves, NEW b \in Bays, NEW from \in Shelves,
           NEW qty \in Nat, NEW size \in Nat, Confirms(d, w, i, s, b, from, qty, size)
    PROVE  Keeps(d, w ++ d)
<1>. DEFINE e == w ++ d
<1>1. FitsSchema(d) /\ Explained(d) /\ d[Task] \in TaskSchema
  BY DocForms DEF InOrder
<1>2. /\ Lands(d, w, i, s, b, from, qty, size)
      /\ DOMAIN w = {Cell(s, b), Shelf(s), Loose(i, from), InCell(i, s, b), Snapshot(i, s, b), Task}
      /\ w[Shelf(s)] = d[Shelf(s)]
      /\ d[Task].status = "PENDING" /\ d[Task].left[i] >= qty
      /\ w[Task] = TaskAfter(d[Task], i, qty)
  BY DEF Confirms
<1>3. /\ w[Task] \in TaskSchema /\ w[Task] # NoTask
      /\ \A j \in Items : w[Task].left[j] = d[Task].left[j] - (IF j = i THEN qty ELSE 0)
  BY <1>1, <1>2, TaskAfterIs
<1>4. Assigned(i) \notin DOMAIN w
  BY <1>2, StockApart, SnapshotsApart, LayoutIsNoWork, FloorPlaced
<1>5. /\ FitsSchema(e) /\ OrphanFree(e) /\ StockHeld(e) /\ NoneOverfilled(d, e)
      /\ PutDown(d, e, i, s, b, qty) /\ TakenFrom(d, e, i, from, qty)
      /\ e[Task] = w[Task]
      /\ \A j \in Items : e[Assigned(j)] = d[Assigned(j)]
  BY <1>2, <1>3, <1>4, LandingKeeps
<1>6. d[Task] # NoTask
  BY <1>2 DEF NoTask
<1>. HIDE DEF e
<1>7. \A j \in Items : /\ Received(e, j) = Received(d, j) /\ Received(d, j) \in Nat
                       /\ Left(e, j) = Left(d, j) - (IF j = i THEN qty ELSE 0) /\ Left(d, j) \in Nat
                       /\ d[Assigned(j)] \in Nat
  BY <1>1, <1>3, <1>5, <1>6, ReceivedNumbers DEF Received, Left
<1>8. \A j \in Items : /\ Stored(e, j) = Stored(d, j) + (IF j = i THEN qty ELSE 0)
                       /\ Total(LooseStock(e, j), Shelves)
                             = Total(LooseStock(d, j), Shelves) - (IF j = i THEN qty ELSE 0)
  BY <1>1, <1>5, PutDownSums, TakenFromSums
<1>9. \A j \in Items : /\ Stored(d, j) \in Int /\ Total(LooseStock(d, j), Shelves) \in Int
                       /\ Found(d, j) = Total(LooseStock(d, j), Shelves) + Stored(d, j)
                       /\ Found(e, j) = Total(LooseStock(e, j), Shelves) + Stored(e, j)
  BY <1>1, <1>5, StockTotals
<1>10. Explained(e)
  BY <1>1, <1>5, <1>7, <1>8, <1>9 DEF Explained
<1>11. Balanced(d, e)
  BY <1>7, <1>8, <1>9 DEF Balanced
<1>12. Keeps(d, e)
  BY <1>5, <1>10, <1>11 DEF Keeps, InOrder
<1>. QED BY <1>12 DEF e

LEMMA AssignKeeps ==
    ASSUME NEW d, InOrder(d), NEW w, NEW i \in Items, NEW s \in Shelves, NEW b \in Bays, NEW from \in Shelves,
           NEW qty \in Nat, NEW size \in Nat, Assigns(d, w, i, s, b, from, qty, size)
    PROVE  Keeps(d, w ++ d)
<1>. DEFINE e == w ++ d
<1>1. FitsSchema(d) /\ Explained(d) /\ \A j \in Items : d[Assigned(j)] \in Nat
  BY DocForms DEF InOrder
<1>2. /\ Lands(d, w, i, s, b, from, qty, size)
      /\ DOMAIN w = {Cell(s, b), Loose(i, from), InCell(i, s, b), Snapshot(i, s, b), Assigned(i)}
      /\ w[Assigned(i)] = d[Assigned(i)] + qty
  BY DEF Assigns
<1>3. Task \notin DOMAIN w /\ Shelf(s) \notin DOMAIN w
  BY <1>2, StockApart, SnapshotsApart, LayoutIsNoWork, LayoutIsNoStock, FloorPlaced, CellsApart
<1>4. /\ FitsSchema(e) /\ OrphanFree(e) /\ StockHeld(e) /\ NoneOverfilled(d, e)
      /\ PutDown(d, e, i, s, b, qty) /\ TakenFrom(d, e, i, from, qty)
      /\ e[Task] = d[Task]
      /\ \A j \in Items : e[Assigned(j)] = d[Assigned(j)] + (IF j = i THEN qty ELSE 0)
  <2>1. w[Assigned(i)] \in Nat
    BY <1>1, <1>2
  <2>2. {Cell(s, b), Loose(i, from), InCell(i, s, b), Snapshot(i, s, b)} \subseteq DOMAIN w
        /\ DOMAIN w \subseteq {Cell(s, b), Shelf(s), Loose(i, from), InCell(i, s, b), Snapshot(i, s, b), Task, Assigned(i)}
        /\ Assigned(i) \in DOMAIN w
    BY <1>2
  <2>3. /\ FitsSchema(e) /\ OrphanFree(e) /\ StockHeld(e) /\ NoneOverfilled(d, e)
        /\ PutDown(d, e, i, s, b, qty) /\ TakenFrom(d, e, i, from, qty)
        /\ e[Task] = IF Task \in DOMAIN w THEN w[Task] ELSE d[Task]
        /\ \A j \in Items : e[Assigned(j)] = IF j = i /\ Assigned(i) \in DOMAIN w THEN w[Assigned(i)]
                                            ELSE d[Assigned(j)]
    BY <1>2, <1>3, <2>1, <2>2, LandingKeeps
  <2>. HIDE DEF e
  <2>. QED BY <1>1, <1>2, <1>3, <2>2, <2>3
<1>. HIDE DEF e
<1>5. \A j \in Items : /\ Received(e, j) = Received(d, j) /\ Received(d, j) \in Nat
                       /\ Left(e, j) = Left(d, j) /\ Left(d, j) \in Nat
  BY <1>1, <1>4, ReceivedNumbers DEF Received, Left
<1>6. \A j \in Items : /\ Stored(e, j) = Stored(d, j) + (IF j = i THEN qty ELSE 0)
                       /\ Total(LooseStock(e, j), Shelves)
                             = Total(LooseStock(d, j), Shelves) - (IF j = i THEN qty ELSE 0)
  BY <1>1, <1>4, PutDownSums, TakenFromSums
<1>7. \A j \in Items : /\ Stored(d, j) \in Int /\ Total(LooseStock(d, j), Shelves) \in Int
                       /\ Found(d, j) = Total(LooseStock(d, j), Shelves) + Stored(d, j)
                       /\ Found(e, j) = Total(LooseStock(e, j), Shelves) + Stored(e, j)
  BY <1>1, <1>4, StockTotals
<1>8. Explained(e)
  BY <1>1, <1>4, <1>5, <1>6, <1>7 DEF Explained
<1>9. Balanced(d, e)
  BY <1>5, <1>6, <1>7 DEF Balanced
<1>10. Keeps(d, e)
  BY <1>4, <1>8, <1>9 DEF Keeps, InOrder
<1>. QED BY <1>10 DEF e

LEMMA ReceiptKeeps ==
    ASSUME NEW d, InOrder(d), NEW w, NEW s \in Shelves, Receives(d, w, s)
    PROVE  Keeps(d, w ++ d)
<1>. DEFINE e == w ++ d
<1>1. FitsSchema(d) /\ OrphanFree(d) /\ StockHeld(d) /\ Explained(d)
  BY DEF InOrder
<1>2. /\ d[Task] = NoTask
      /\ DOMAIN w = {Loose(i, s) : i \in {j \in Items : Delivered[j] > 0}} \cup {Task}
      /\ \A i \in Items : Delivered[i] > 0 => w[Loose(i, s)] = d[Loose(i, s)] + Delivered[i]
      /\ w[Task] = [status |-> "PENDING", source |-> s, left |-> Delivered]
  BY DEF Receives
<1>3. /\ \A x \in DOMAIN w : e[x] = w[x]
      /\ \A x \in DOMAIN d \ DOMAIN w : e[x] = d[x]
      /\ DOMAIN d = Docs
  BY <1>1, Over DEF FitsSchema
<1>4. /\ w[Task] \in TaskSchema /\ w[Task] # NoTask
      /\ \A i \in Items : w[Task].left[i] = Delivered[i]
  <2>1. w[Task] \in TaskSchema /\ w[Task].left = Delivered /\ w[Task].status = "PENDING"
    BY <1>2, WidthsOfBoxes DEF TaskSchema
  <2>2. NoTask.status = "none"
    BY DEF NoTask
  <2>. QED BY <2>1, <2>2
<1>5. FitsSchema(e)
  <2>1. \A i \in Items : Delivered[i] > 0 => w[Loose(i, s)] \in Nat
    BY <1>1, <1>2, DocForms, WidthsOfBoxes
  <2>2. \A x \in DOMAIN w : x \in Docs /\ w[x] \in Schema(x)
    BY <1>2, <1>4, <2>1, SchemaOf, Placed
  <2>3. DOMAIN w \subseteq Docs /\ \A x \in DOMAIN w : w[x] \in Schema(x)
    BY <2>2
  <2>. QED BY <1>1, <2>3, FitsOver
<1>. HIDE DEF e
<1>6. \A x \in LayoutDocs : e[x] = d[x]
  <2>1. \A x \in LayoutDocs : x \notin DOMAIN w
    BY <1>2, LayoutIsNoStock, LayoutIsNoWork
  <2>. QED BY <1>3, <2>1, FloorDocs
<1>7. SameFloor(d, e)
  BY <1>6, FloorPlaced DEF SameFloor
<1>8. SameCells(d, e)
  BY <1>2, <1>3, StockApart, Placed DEF SameCells
<1>9. \A i \in Items : e[Assigned(i)] = d[Assigned(i)]
  BY <1>2, <1>3, StockApart, Placed
<1>10. OrphanFree(e) /\ StockHeld(e)
  <2>1. StockHeld(e)
    BY <1>1, <1>7, <1>8 DEF StockHeld, SameFloor, SameCells
  <2>. QED BY <1>1, <1>5, <1>7, <2>1, OrphansOfSameFloor
<1>11. e[Task] = w[Task]
  BY <1>2, <1>3
<1>12. \A i \in Items : /\ Received(d, i) = 0 /\ Left(d, i) = 0
                        /\ Received(e, i) = Delivered[i] /\ Left(e, i) = Delivered[i]
                        /\ Delivered[i] \in Nat /\ d[Assigned(i)] \in Nat
  BY <1>1, <1>2, <1>4, <1>11, WidthsOfBoxes, ReceivedNumbers DEF Received, Left
<1>13. \A i \in Items : Stored(e, i) = Stored(d, i) /\ Stored(d, i) \in Int
  BY <1>1, <1>8, SameCellsSums, StockTotals
<1>14. ASSUME NEW i \in Items
       PROVE  Total(LooseStock(e, i), Shelves) = Total(LooseStock(d, i), Shelves) + Delivered[i]
  <2>1. \A t \in Shelves \ {s} : LooseStock(d, i)[t] = LooseStock(e, i)[t]
    <3>1. \A t \in Shelves \ {s} : Loose(i, t) \notin DOMAIN w
      BY <1>2, StockApart
    <3>. QED BY <1>3, <3>1, Placed DEF LooseStock
  <2>2. LooseStock(e, i)[s] = LooseStock(d, i)[s] + Delivered[i]
    <3>1. LooseStock(e, i)[s] = e[Loose(i, s)] /\ LooseStock(d, i)[s] = d[Loose(i, s)]
      BY DEF LooseStock
    <3>2. d[Loose(i, s)] \in Nat /\ Delivered[i] \in Nat
      BY <1>1, DocForms, WidthsOfBoxes
    <3>3. CASE Delivered[i] > 0
      BY <1>2, <1>3, <3>1, <3>3
    <3>4. CASE ~(Delivered[i] > 0)
      <4>1. Loose(i, s) \notin DOMAIN w
        BY <1>2, <3>4, StockApart
      <4>2. e[Loose(i, s)] = d[Loose(i, s)]
        BY <1>3, <4>1, Placed
      <4>3. Delivered[i] = 0
        BY <3>2, <3>4
      <4>. QED BY <3>1, <3>2, <4>2, <4>3
    <3>. QED BY <3>3, <3>4
  <2>3. /\ LooseStock(d, i)[s] \in Int /\ Summable(LooseStock(d, i), Shelves)
        /\ Summable(LooseStock(e, i), Shelves) /\ Total(LooseStock(d, i), Shelves) \in Int
    BY <1>1, <1>5, StockTotals DEF Summable
  <2>4. Total(LooseStock(e, i), Shelves)
           = Total(LooseStock(d, i), Shelves) + (LooseStock(e, i)[s] - LooseStock(d, i)[s])
    BY <2>1, <2>3, TotalChanges
  <2>5. Delivered[i] \in Nat
    BY WidthsOfBoxes
  <2>. QED BY <2>2, <2>3, <2>4, <2>5
<1>15. \A i \in Items : /\ Total(LooseStock(d, i), Shelves) \in Int
                        /\ Found(d, i) = Total(LooseStock(d, i), Shelves) + Stored(d, i)
                        /\ Found(e, i) = Total(LooseStock(e, i), Shelves) + Stored(e, i)
  BY <1>1, <1>5, StockTotals
<1>16. Explained(e)
  BY <1>1, <1>9, <1>12, <1>13 DEF Explained
<1>17. Balanced(d, e)
  BY <1>12, <1>13, <1>14, <1>15 DEF Balanced
<1>18. NoneOverfilled(d, e)
  BY <1>1, <1>8, NothingBrought
<1>19. Keeps(d, e)
  BY <1>5, <1>10, <1>16, <1>17, <1>18 DEF Keeps, InOrder
<1>. QED BY <1>19 DEF e

\* Whatever commits keeps the database in order, and balanced.
LEMMA CommitKeeps ==
    ASSUME NEW d, InOrder(d), NEW w, Stands(d, w)
    PROVE  Keeps(d, w ++ d)
<1>1. CASE Revises(d, w)
  BY <1>1, EditKeeps DEF Revises
<1>2. CASE \E s \in Shelves : Receives(d, w, s)
  BY <1>2, ReceiptKeeps
<1>3. CASE \E i \in Items, s \in Shelves, b \in Bays, from \in Shelves, qty \in Nat, size \in Nat :
              Confirms(d, w, i, s, b, from, qty, size)
  BY <1>3, ConfirmKeeps
<1>4. CASE \E i \in Items, s \in Shelves, b \in Bays, from \in Shelves, qty \in Nat, size \in Nat :
              Assigns(d, w, i, s, b, from, qty, size)
  BY <1>4, AssignKeeps
<1>. QED BY <1>1, <1>2, <1>3, <1>4 DEF Stands

----------------------------------------------------------------------------
\* What a transaction computes stands when it is computed.

\* The revision is no part of the floor.
LEMMA RevisedEdit ==
    ASSUME NEW d, InOrder(d), d[Config] < MaxRevisions, NEW v, SoundEdit(d, v)
    PROVE  Revises(d, Revised(d, v))
<1>. DEFINE w == Revised(d, v)
            e == v ++ d
            u == w ++ d
<1>1. FitsSchema(d) /\ DOMAIN d = Docs /\ OrphanFree(d)
  BY DEF InOrder, FitsSchema
<1>2. DOMAIN (Config ::= d[Config] + 1) = {Config} /\ (Config ::= d[Config] + 1)[Config] = d[Config] + 1
  BY One
<1>3. /\ DOMAIN v \subseteq LayoutDocs \ {Config}
      /\ \A x \in DOMAIN v : v[x] \in Schema(x)
      /\ OrphanFree(e)
      /\ \A s \in Shelves, b \in Bays :
            d[Cell(s, b)].live /\ ~e[Cell(s, b)].live => \A i \in Items : d[InCell(i, s, b)] = 0
  BY DEF SoundEdit
<1>4. /\ DOMAIN w = {Config} \cup DOMAIN v
      /\ w[Config] = d[Config] + 1
      /\ \A x \in DOMAIN v : w[x] = v[x]
  <2>1. /\ DOMAIN w = DOMAIN (Config ::= d[Config] + 1) \cup DOMAIN v
        /\ \A x \in DOMAIN (Config ::= d[Config] + 1) : w[x] = (Config ::= d[Config] + 1)[x]
        /\ \A x \in DOMAIN v \ DOMAIN (Config ::= d[Config] + 1) : w[x] = v[x]
    BY Over DEF Revised
  <2>. QED BY <1>2, <1>3, <2>1
<1>5. FitsSchema(e)
  BY <1>1, SoundEditFits
<1>6. /\ \A x \in DOMAIN v : e[x] = v[x]
      /\ \A x \in DOMAIN d \ DOMAIN v : e[x] = d[x]
  BY Over
<1>7. /\ \A x \in DOMAIN w : u[x] = w[x]
      /\ \A x \in DOMAIN d \ DOMAIN w : u[x] = d[x]
  BY Over
<1>8. w[Config] \in Schema(Config)
  <2>1. d[Config] \in 1..MaxRevisions
    BY <1>1, DocForms
  <2>. QED BY <1>4, <2>1, SchemaOf, LayoutAssumption
<1>9. /\ Config \in DOMAIN w /\ DOMAIN w \subseteq LayoutDocs
      /\ \A x \in DOMAIN w : w[x] \in Schema(x)
  BY <1>3, <1>4, <1>8, FloorPlaced
<1>10. FitsSchema(u)
  BY <1>1, <1>9, FloorDocs, FitsOver
<1>. HIDE DEF w, e, u
<1>11. \A x \in LayoutDocs \ {Config} : u[x] = e[x]
  BY <1>1, <1>4, <1>6, <1>7, FloorDocs
<1>12. SameFloor(e, u)
  <2>1. /\ \A s \in Shelves : Shelf(s) \in LayoutDocs \ {Config}
        /\ \A s \in Shelves, b \in Bays : Cell(s, b) \in LayoutDocs \ {Config}
    BY FloorDocs DEF ShelfDocs, CellDocs
  <2>. QED BY <1>11, <2>1, FloorApart DEF SameFloor
<1>13. OrphanFree(u)
  BY <1>3, <1>5, <1>10, <1>12, OrphansOfSameFloor
<1>14. \A s \in Shelves, b \in Bays :
          d[Cell(s, b)].live /\ ~u[Cell(s, b)].live => \A i \in Items : d[InCell(i, s, b)] = 0
  BY <1>3, <1>12 DEF SameFloor
<1>15. Revises(d, w)
  BY <1>9, <1>13, <1>14 DEF Revises, u
<1>. QED BY <1>15 DEF w

LEMMA EditsStand ==
    ASSUME NEW d, InOrder(d), d[Config] < MaxRevisions, NEW w \in Mutations(d) \cup Saves(d) \cup Resets(d)
    PROVE  Stands(d, w)
<1>1. FitsSchema(d) /\ OrphanFree(d)
  BY DEF InOrder
<1>2. \E v : SoundEdit(d, v) /\ w = Revised(d, v)
  <2>1. CASE w \in Mutations(d)
    <3>1. PICK v \in ZoneEdits(d) \cup RackEdits(d) \cup CreateShelf(d) \cup DeleteShelf(d)
                     \cup UpdateShelf(d) \cup TemplateEdits(d) : w = Revised(d, v)
      BY <2>1 DEF Mutations
    <3>2. v \in Operations(d) \cup UpdateShelf(d)
      BY DEF Operations
    <3>. QED BY <1>1, <3>1, <3>2, OperationsSound
  <2>2. CASE w \in Saves(d)
    <3>1. PICK v \in Batches(d) : w = Revised(d, v)
      BY <2>2 DEF Saves
    <3>. QED BY <1>1, <3>1, BatchesSound
  <2>3. CASE w \in Resets(d)
    <3>1. /\ ~ \E s \in Shelves : d[Shelf(s)].live /\ HasStockOnShelf(d, s)
          /\ w = Revised(d, Emptied(d))
      BY <2>3 DEF Resets
    <3>2. SoundEdit(d, Emptied(d))
      BY <1>1, <3>1, EmptiedSound
    <3>. QED BY <3>1, <3>2
  <2>. QED BY <2>1, <2>2, <2>3
<1>. QED BY <1>2, RevisedEdit DEF Stands

LEMMA LoosePairs == \A i, s : Loose(i, s)[2] = i
BY DEF Loose

\* What the worker puts down, and the chain of documents that says it.
LEMMA ReceiptOpens ==
    ASSUME NEW d, InOrder(d), d[Task] = NoTask, NEW s \in Shelves,
           NEW w, w = [x \in {Loose(i, s) : i \in {j \in Items : Delivered[j] > 0}} |-> d[x] + Delivered[x[2]]]
                      ++ (Task ::= [status |-> "PENDING", source |-> s, left |-> Delivered])
    PROVE  Stands(d, w)
<1>. DEFINE goods == {Loose(i, s) : i \in {j \in Items : Delivered[j] > 0}}
            g == [x \in goods |-> d[x] + Delivered[x[2]]]
            task == [status |-> "PENDING", source |-> s, left |-> Delivered]
            t == Task ::= task
<1>0. w = g ++ t
  OBVIOUS
<1>1. DOMAIN t = {Task} /\ t[Task] = task
  BY One
<1>3. DOMAIN g = goods /\ Task \notin goods
  BY StockApart
<1>4. \A i \in Items : Delivered[i] > 0 => Loose(i, s) \in goods /\ g[Loose(i, s)] = d[Loose(i, s)] + Delivered[i]
  BY LoosePairs
<1>. HIDE DEF g, t, task
<1>2. /\ DOMAIN w = DOMAIN g \cup DOMAIN t
      /\ \A x \in DOMAIN g : w[x] = g[x]
      /\ \A x \in DOMAIN t \ DOMAIN g : w[x] = t[x]
  <2>1. /\ DOMAIN (g ++ t) = DOMAIN g \cup DOMAIN t
        /\ \A x \in DOMAIN g : (g ++ t)[x] = g[x]
        /\ \A x \in DOMAIN t \ DOMAIN g : (g ++ t)[x] = t[x]
    BY Over
  <2>. QED BY <1>0, <2>1
<1>5. /\ DOMAIN w = goods \cup {Task}
      /\ \A i \in Items : Delivered[i] > 0 => w[Loose(i, s)] = d[Loose(i, s)] + Delivered[i]
      /\ w[Task] = task
  BY <1>1, <1>2, <1>3, <1>4
<1>6. Receives(d, w, s)
  BY <1>5 DEF Receives, task
<1>. QED BY <1>6 DEF Stands

LEMMA ConfirmOpens ==
    ASSUME NEW d, NEW i \in Items, NEW s \in Shelves, NEW b \in Bays, NEW from \in Shelves,
           NEW qty \in Nat, NEW size \in Nat,
           d[Cell(s, b)].live, HasRoom(d, s, b, qty, size), d[Loose(i, from)] >= qty,
           d[Task].status = "PENDING", d[Task].left[i] >= qty,
           NEW w, w = ((Cell(s, b) ::= d[Cell(s, b)]) ++ (Shelf(s) ::= d[Shelf(s)]))
                      ++ (Loose(i, from) ::= d[Loose(i, from)] - qty)
                      ++ ((InCell(i, s, b) ::= d[InCell(i, s, b)] + qty) ++ (Snapshot(i, s, b) ::= size))
                      ++ (Task ::= TaskAfter(d[Task], i, qty))
    PROVE  Stands(d, w)
<1>1. /\ Cell(s, b) # Shelf(s) /\ Cell(s, b) # Loose(i, from) /\ Cell(s, b) # InCell(i, s, b) /\ Cell(s, b) # Task
      /\ Shelf(s) # Loose(i, from) /\ Shelf(s) # InCell(i, s, b) /\ Shelf(s) # Task
      /\ Loose(i, from) # InCell(i, s, b) /\ Loose(i, from) # Task /\ InCell(i, s, b) # Task
      /\ Snapshot(i, s, b) \notin {Cell(s, b), Shelf(s), Loose(i, from), InCell(i, s, b), Task}
  BY DEF Cell, Shelf, Loose, InCell, Snapshot, Task
<1>2. /\ DOMAIN w = {Cell(s, b), Shelf(s), Loose(i, from), InCell(i, s, b), Snapshot(i, s, b), Task}
      /\ w[Cell(s, b)] = d[Cell(s, b)] /\ w[Shelf(s)] = d[Shelf(s)]
      /\ w[Loose(i, from)] = d[Loose(i, from)] - qty
      /\ w[InCell(i, s, b)] = d[InCell(i, s, b)] + qty
      /\ w[Snapshot(i, s, b)] = size
      /\ w[Task] = TaskAfter(d[Task], i, qty)
  BY <1>1 DEF ++, ::=
<1>3. Confirms(d, w, i, s, b, from, qty, size)
  BY <1>2 DEF Confirms, Lands
<1>. QED BY <1>3 DEF Stands

LEMMA AssignOpens ==
    ASSUME NEW d, NEW i \in Items, NEW s \in Shelves, NEW b \in Bays, NEW from \in Shelves,
           NEW qty \in Nat, NEW size \in Nat,
           d[Cell(s, b)].live, HasRoom(d, s, b, qty, size), d[Loose(i, from)] >= qty,
           NEW w, w = (Cell(s, b) ::= d[Cell(s, b)])
                      ++ (Loose(i, from) ::= d[Loose(i, from)] - qty)
                      ++ ((InCell(i, s, b) ::= d[InCell(i, s, b)] + qty) ++ (Snapshot(i, s, b) ::= size))
                      ++ (Assigned(i) ::= d[Assigned(i)] + qty)
    PROVE  Stands(d, w)
<1>1. /\ Cell(s, b) # Loose(i, from) /\ Cell(s, b) # InCell(i, s, b) /\ Cell(s, b) # Assigned(i)
      /\ Loose(i, from) # InCell(i, s, b) /\ Loose(i, from) # Assigned(i) /\ InCell(i, s, b) # Assigned(i)
      /\ Snapshot(i, s, b) \notin {Cell(s, b), Loose(i, from), InCell(i, s, b), Assigned(i)}
  BY DEF Cell, Loose, InCell, Snapshot, Assigned
<1>2. /\ DOMAIN w = {Cell(s, b), Loose(i, from), InCell(i, s, b), Snapshot(i, s, b), Assigned(i)}
      /\ w[Cell(s, b)] = d[Cell(s, b)]
      /\ w[Loose(i, from)] = d[Loose(i, from)] - qty
      /\ w[InCell(i, s, b)] = d[InCell(i, s, b)] + qty
      /\ w[Snapshot(i, s, b)] = size
      /\ w[Assigned(i)] = d[Assigned(i)] + qty
  BY <1>1 DEF ++, ::=
<1>3. Assigns(d, w, i, s, b, from, qty, size)
  BY <1>2 DEF Assigns, Lands
<1>. QED BY <1>3 DEF Stands

----------------------------------------------------------------------------
\* It stands until a transaction commits that writes one of its documents.

\* Who writes stock in a cell writes the cell, and who changes the layout its revision.
Respects(d, v) ==
    /\ DOMAIN v \subseteq Docs
    /\ \A i \in Items, s \in Shelves, b \in Bays :
          InCell(i, s, b) \in DOMAIN v \/ Snapshot(i, s, b) \in DOMAIN v => Cell(s, b) \in DOMAIN v
    /\ Config \notin DOMAIN v => \A x \in LayoutDocs : (v ++ d)[x] = d[x]

LEMMA StandingRespects ==
    ASSUME NEW d, InOrder(d), NEW v, Stands(d, v)
    PROVE  Respects(d, v)
<1>1. /\ \A x \in DOMAIN v : (v ++ d)[x] = v[x]
      /\ \A x \in DOMAIN d \ DOMAIN v : (v ++ d)[x] = d[x]
      /\ DOMAIN d = Docs
  BY Over DEF InOrder, FitsSchema
<1>2. CASE Revises(d, v)
  BY <1>2, FloorDocs, LayoutIsNoStock DEF Respects, Revises
<1>3. ASSUME NEW s \in Shelves, Receives(d, v, s)
      PROVE  Respects(d, v)
  <2>1. DOMAIN v = {Loose(i, s) : i \in {j \in Items : Delivered[j] > 0}} \cup {Task}
    BY <1>3 DEF Receives
  <2>2. DOMAIN v \subseteq Docs
    BY <2>1, Placed
  <2>3. \A i \in Items, t \in Shelves, b \in Bays : InCell(i, t, b) \notin DOMAIN v /\ Snapshot(i, t, b) \notin DOMAIN v
    BY <2>1, StockApart, SnapshotsApart
  <2>4. \A x \in LayoutDocs : x \notin DOMAIN v
    BY <2>1, LayoutIsNoStock, LayoutIsNoWork
  <2>5. \A x \in LayoutDocs : (v ++ d)[x] = d[x]
    BY <1>1, <2>4, FloorDocs
  <2>. QED BY <2>2, <2>3, <2>5 DEF Respects
<1>4. ASSUME NEW i \in Items, NEW s \in Shelves, NEW b \in Bays, NEW from \in Shelves, NEW qty \in Nat,
             NEW size \in Nat,
             Confirms(d, v, i, s, b, from, qty, size) \/ Assigns(d, v, i, s, b, from, qty, size)
      PROVE  Respects(d, v)
  <2>1. /\ Cell(s, b) \in DOMAIN v /\ v[Cell(s, b)] = d[Cell(s, b)]
        /\ DOMAIN v \subseteq {Cell(s, b), Shelf(s), Loose(i, from), InCell(i, s, b), Snapshot(i, s, b), Task, Assigned(i)}
        /\ Shelf(s) \in DOMAIN v => v[Shelf(s)] = d[Shelf(s)]
    <3>1. Shelf(s) \notin {Cell(s, b), Loose(i, from), InCell(i, s, b), Snapshot(i, s, b), Assigned(i)}
      BY CellsApart, LayoutIsNoStock, LayoutIsNoWork, FloorPlaced, SnapshotsApart
    <3>. QED BY <1>4, <3>1 DEF Confirms, Assigns, Lands
  <2>2. DOMAIN v \subseteq Docs
    BY <2>1, Placed
  <2>3. \A j \in Items, t \in Shelves, c \in Bays :
           InCell(j, t, c) \in DOMAIN v \/ Snapshot(j, t, c) \in DOMAIN v => Cell(t, c) \in DOMAIN v
    <3>. SUFFICES ASSUME NEW j \in Items, NEW t \in Shelves, NEW c \in Bays,
                         InCell(j, t, c) \in DOMAIN v \/ Snapshot(j, t, c) \in DOMAIN v
                  PROVE  Cell(t, c) \in DOMAIN v
      OBVIOUS
    <3>1. InCell(j, t, c) # Cell(s, b) /\ InCell(j, t, c) # Shelf(s)
      BY LayoutIsNoStock, FloorPlaced
    <3>2. CASE InCell(j, t, c) \in DOMAIN v
      <4>1. t = s /\ c = b
        BY <2>1, <3>1, <3>2, StockApart, SnapshotsApart
      <4>. QED BY <2>1, <4>1
    <3>3. CASE Snapshot(j, t, c) \in DOMAIN v
      <4>1. t = s /\ c = b
        BY <2>1, <3>3, SnapshotsApart
      <4>. QED BY <2>1, <4>1
    <3>. QED BY <3>2, <3>3
  <2>4. \A x \in LayoutDocs : (v ++ d)[x] = d[x]
    <3>1. \A x \in LayoutDocs : x \in DOMAIN v => x = Cell(s, b) \/ x = Shelf(s)
      BY <2>1, LayoutIsNoStock, LayoutIsNoWork
    <3>. QED BY <1>1, <2>1, <3>1, FloorDocs
  <2>. QED BY <2>2, <2>3, <2>4 DEF Respects
<1>. QED BY <1>2, <1>3, <1>4 DEF Stands

LEMMA SameVolume ==
    ASSUME NEW d, NEW e, NEW s, NEW b,
           \A i \in Items : e[InCell(i, s, b)] = d[InCell(i, s, b)] /\ e[Snapshot(i, s, b)] = d[Snapshot(i, s, b)]
    PROVE  Volume(e, s, b) = Volume(d, s, b)
<1>1. [i \in Items |-> e[InCell(i, s, b)] * e[Snapshot(i, s, b)]]
         = [i \in Items |-> d[InCell(i, s, b)] * d[Snapshot(i, s, b)]]
  OBVIOUS
<1>. QED BY <1>1 DEF Volume

LEMMA StillLands ==
    ASSUME NEW d, InOrder(d), NEW v, Respects(d, v), NEW w, DOMAIN v \cap DOMAIN w = {},
           NEW i \in Items, NEW s \in Shelves, NEW b \in Bays, NEW from \in Shelves, NEW qty \in Nat, NEW size \in Nat,
           Lands(d, w, i, s, b, from, qty, size),
           {Cell(s, b), Loose(i, from), InCell(i, s, b), Snapshot(i, s, b)} \subseteq DOMAIN w
    PROVE  Lands(v ++ d, w, i, s, b, from, qty, size)
<1>. DEFINE e == v ++ d
<1>1. /\ \A x \in DOMAIN d \ DOMAIN v : e[x] = d[x]
      /\ DOMAIN d = Docs
  <2>1. DOMAIN d = Docs
    BY DEF InOrder, FitsSchema
  <2>2. \A x \in DOMAIN d \ DOMAIN v : (v ++ d)[x] = d[x]
    BY Over, Zenon
  <2>. QED BY <2>1, <2>2
<1>. HIDE DEF e
<1>2. /\ e[Cell(s, b)] = d[Cell(s, b)] /\ e[Loose(i, from)] = d[Loose(i, from)]
      /\ e[InCell(i, s, b)] = d[InCell(i, s, b)]
  BY <1>1, Placed
<1>3. \A j \in Items : e[InCell(j, s, b)] = d[InCell(j, s, b)] /\ e[Snapshot(j, s, b)] = d[Snapshot(j, s, b)]
  <2>1. \A j \in Items : InCell(j, s, b) \notin DOMAIN v /\ Snapshot(j, s, b) \notin DOMAIN v
    BY DEF Respects
  <2>. QED BY <1>1, <2>1, Placed
<1>4. Volume(e, s, b) = Volume(d, s, b)
  BY <1>3, SameVolume
<1>5. HasRoom(e, s, b, qty, size)
  BY <1>2, <1>4 DEF Lands, HasRoom
<1>6. Lands(e, w, i, s, b, from, qty, size)
  BY <1>2, <1>5 DEF Lands
<1>. QED BY <1>6 DEF e

LEMMA StillStands ==
    ASSUME NEW d, InOrder(d), NEW v, Respects(d, v), InOrder(v ++ d), NEW w, Stands(d, w),
           DOMAIN v \cap DOMAIN w = {}
    PROVE  Stands(v ++ d, w)
<1>. DEFINE e == v ++ d
<1>0. Respects(d, w)
  BY StandingRespects
<1>1. /\ \A x \in DOMAIN d \ DOMAIN v : e[x] = d[x]
      /\ DOMAIN d = Docs /\ FitsSchema(d) /\ OrphanFree(d)
  BY Over DEF InOrder, FitsSchema
<1>2. FitsSchema(e) /\ DOMAIN e = Docs
  BY DEF InOrder, FitsSchema
<1>3. Config \notin DOMAIN v => \A x \in LayoutDocs : e[x] = d[x]
  BY DEF Respects
<1>4. ASSUME NEW s \in Shelves, Receives(d, w, s)
      PROVE  Stands(e, w)
  <2>. HIDE DEF e
  <2>1. /\ d[Task] = NoTask
        /\ DOMAIN w = {Loose(i, s) : i \in {j \in Items : Delivered[j] > 0}} \cup {Task}
        /\ \A i \in Items : Delivered[i] > 0 => w[Loose(i, s)] = d[Loose(i, s)] + Delivered[i]
        /\ w[Task] = [status |-> "PENDING", source |-> s, left |-> Delivered]
    BY <1>4 DEF Receives
  <2>2. e[Task] = d[Task]
    BY <1>1, <2>1, Placed
  <2>3. \A i \in Items : Delivered[i] > 0 => e[Loose(i, s)] = d[Loose(i, s)]
    BY <1>1, <2>1, Placed
  <2>4. Receives(e, w, s)
    BY <2>1, <2>2, <2>3 DEF Receives
  <2>. QED BY <2>4 DEF Stands
<1>5. ASSUME NEW i \in Items, NEW s \in Shelves, NEW b \in Bays, NEW from \in Shelves, NEW qty \in Nat,
             NEW size \in Nat, Confirms(d, w, i, s, b, from, qty, size)
      PROVE  Stands(e, w)
  <2>1. /\ Lands(d, w, i, s, b, from, qty, size)
        /\ DOMAIN w = {Cell(s, b), Shelf(s), Loose(i, from), InCell(i, s, b), Snapshot(i, s, b), Task}
        /\ w[Shelf(s)] = d[Shelf(s)]
        /\ d[Task].status = "PENDING" /\ d[Task].left[i] >= qty
        /\ w[Task] = TaskAfter(d[Task], i, qty)
    BY <1>5 DEF Confirms
  <2>2. Lands(e, w, i, s, b, from, qty, size)
    BY <2>1, StillLands
  <2>. HIDE DEF e
  <2>3. e[Task] = d[Task] /\ e[Shelf(s)] = d[Shelf(s)]
    BY <1>1, <2>1, Placed
  <2>4. Confirms(e, w, i, s, b, from, qty, size)
    BY <2>1, <2>2, <2>3 DEF Confirms
  <2>. QED BY <2>4 DEF Stands
<1>6. ASSUME NEW i \in Items, NEW s \in Shelves, NEW b \in Bays, NEW from \in Shelves, NEW qty \in Nat,
             NEW size \in Nat, Assigns(d, w, i, s, b, from, qty, size)
      PROVE  Stands(e, w)
  <2>1. /\ Lands(d, w, i, s, b, from, qty, size)
        /\ DOMAIN w = {Cell(s, b), Loose(i, from), InCell(i, s, b), Snapshot(i, s, b), Assigned(i)}
        /\ w[Assigned(i)] = d[Assigned(i)] + qty
    BY <1>6 DEF Assigns
  <2>2. Lands(e, w, i, s, b, from, qty, size)
    BY <2>1, StillLands
  <2>. HIDE DEF e
  <2>3. e[Assigned(i)] = d[Assigned(i)]
    BY <1>1, <2>1, Placed
  <2>4. Assigns(e, w, i, s, b, from, qty, size)
    BY <2>1, <2>2, <2>3 DEF Assigns
  <2>. QED BY <2>4 DEF Stands
<1>7. ASSUME Revises(d, w)
      PROVE  Stands(e, w)
  <2>1. /\ Config \in DOMAIN w /\ DOMAIN w \subseteq LayoutDocs
        /\ \A x \in DOMAIN w : w[x] \in Schema(x)
        /\ OrphanFree(w ++ d)
        /\ \A s \in Shelves, b \in Bays :
              d[Cell(s, b)].live /\ ~(w ++ d)[Cell(s, b)].live => \A i \in Items : d[InCell(i, s, b)] = 0
    BY <1>7 DEF Revises
  <2>2. \A x \in LayoutDocs : e[x] = d[x]
    BY <1>3, <2>1
  <2>3. FitsSchema(w ++ d)
    BY <1>1, <2>1, FloorDocs, FitsOver
  <2>. HIDE DEF e
  <2>4. FitsSchema(w ++ e)
    BY <1>2, <2>1, FloorDocs, FitsOver
  <2>5. /\ \A x \in DOMAIN w : (w ++ d)[x] = w[x]
        /\ \A x \in DOMAIN d \ DOMAIN w : (w ++ d)[x] = d[x]
    BY Over
  <2>6. /\ \A x \in DOMAIN w : (w ++ e)[x] = w[x]
        /\ \A x \in DOMAIN e \ DOMAIN w : (w ++ e)[x] = e[x]
    BY Over
  <2>7. \A x \in LayoutDocs : (w ++ e)[x] = (w ++ d)[x]
    BY <1>1, <1>2, <2>2, <2>5, <2>6, FloorDocs
  <2>8. SameFloor(w ++ d, w ++ e)
    BY <2>7, FloorPlaced DEF SameFloor
  <2>9. OrphanFree(w ++ e)
    BY <2>1, <2>3, <2>4, <2>8, OrphansOfSameFloor
  <2>10. ASSUME NEW s \in Shelves, NEW b \in Bays, e[Cell(s, b)].live, ~(w ++ e)[Cell(s, b)].live,
                NEW i \in Items
         PROVE  e[InCell(i, s, b)] = 0
    <3>1. d[Cell(s, b)].live /\ ~(w ++ d)[Cell(s, b)].live
      BY <2>2, <2>7, <2>10, FloorPlaced
    <3>2. Cell(s, b) \in DOMAIN w
      BY <1>1, <2>5, <3>1, Placed
    <3>3. InCell(i, s, b) \notin DOMAIN v
      BY <3>2 DEF Respects
    <3>4. e[InCell(i, s, b)] = d[InCell(i, s, b)]
      BY <1>1, <3>3, Placed
    <3>. QED BY <2>1, <3>1, <3>4
  <2>11. Revises(e, w)
    BY <2>1, <2>9, <2>10 DEF Revises
  <2>. QED BY <2>11 DEF Stands
<1>. QED BY <1>4, <1>5, <1>6, <1>7 DEF Stands

----------------------------------------------------------------------------
\* The inductive invariant

\* What a handler has read fits, and what it would write still stands unless it has been
\* told of a conflict.
JobFits(job) ==
    /\ job.kind = "receive" => job.shelf \in Shelves
    /\ job.kind = "confirm" => /\ job.item \in Items /\ job.shelf \in Shelves /\ job.bay \in Bays
                               /\ job.qty \in Counts /\ job.source \in Shelves

HandlerFits(d, t) ==
    /\ t \in [job : {t.job}, open : BOOLEAN, stale : BOOLEAN, writes : {t.writes}]
    /\ JobFits(t.job)
    /\ t.open /\ ~t.stale => Stands(d, t.writes)

HandlersFit == DOMAIN tx = Sessions /\ \A s \in Sessions : HandlerFits(db, tx[s])

\* A script finds no stock in a cell wherever it is, and nobody at work beside it.
Scripts ==
    [at : {"start", "clear", "set", "levels", "cells", "end"}, named : SUBSET Racks,
     received : Shelves \cup {"none"}, preferred : Racks \cup {"none"}, todo : SUBSET Shelves]

\* Once the shelves are done: what of the floor is as it shall be, and what is left to do.
Levelled ==
    /\ \A s \in LiveShelves : db[Shelf(s)] = Fitted(db[Shelf(s)])
    /\ \A r \in Racks : db[Rack(r)].live => IsFull(r)

Divided(s) ==
    /\ CellsOf(db, s) = 1..db[Template]
    /\ \A b \in Bays : db[Cell(s, b)].live => db[Cell(s, b)].width = db[Shelf(s)].width \div db[Template]

CellsDone ==
    /\ script.todo \subseteq Storing
    /\ \A s \in LiveShelves \ Storing : CellsOf(db, s) = {}
    /\ \A s \in Storing \ script.todo : Divided(s)

TaskDone == db[Task].status # "none" /\ script.received # "none" => db[Task].source # "none"

ScriptFits ==
    script # NoScript =>
       /\ script \in Scripts
       /\ tx = [s \in Sessions |-> NoTx]
       /\ BeforeCells(db)
       /\ script.at \in {"cells", "end"} => Levelled /\ CellsDone
       /\ script.at = "end" => script.todo = {} /\ TaskDone

StorageInv == InOrder(db) /\ StockIsMoved /\ HandlersFit /\ ScriptFits


LEMMA NoTxFits ==
    /\ NoTx.job = NoJob /\ NoTx.job.kind = "none" /\ NoTx.open = FALSE
    /\ \A d : HandlerFits(d, NoTx)
<1>1. /\ NoTx.job = NoJob /\ NoTx.job.kind = "none" /\ NoTx.open = FALSE
      /\ NoTx \in [job : {NoTx.job}, open : BOOLEAN, stale : BOOLEAN, writes : {NoTx.writes}]
  BY DEF NoTx, NoJob
<1>2. JobFits(NoTx.job)
  BY <1>1 DEF JobFits
<1>. QED BY <1>1, <1>2 DEF HandlerFits

\* A handler reads.
LEMMA ReadingFits ==
    ASSUME NEW t \in Sessions, NEW job, JobFits(job), ReadOutside(t, job), HandlersFit
    PROVE  HandlersFit' /\ UNCHANGED db
<1>. DEFINE v == [NoTx EXCEPT !.job = job]
<1>1. /\ v \in [job : {v.job}, open : BOOLEAN, stale : BOOLEAN, writes : {v.writes}]
      /\ v.job = job /\ v.open = FALSE
  BY DEF NoTx
<1>2. tx' = [tx EXCEPT ![t] = v] /\ db' = db
  BY DEF ReadOutside
<1>. HIDE DEF v
<1>3. HandlerFits(db, v)
  BY <1>1 DEF HandlerFits
<1>4. DOMAIN tx' = Sessions /\ tx'[t] = v /\ \A s \in Sessions \ {t} : tx'[s] = tx[s]
  BY <1>2 DEF HandlersFit
<1>5. \A s \in Sessions : HandlerFits(db, tx'[s])
  BY <1>3, <1>4 DEF HandlersFit
<1>6. \A s \in Sessions : HandlerFits(db', tx'[s])
  BY <1>2, <1>5
<1>. QED BY <1>2, <1>4, <1>6 DEF HandlersFit

\* A transaction begins.
LEMMA OpeningFits ==
    ASSUME NEW t \in Sessions, NEW job, NEW w, JobFits(job), Stands(db, w), OpenTx(t, job, w), HandlersFit
    PROVE  HandlersFit' /\ UNCHANGED db
<1>. DEFINE v == [job |-> job, open |-> TRUE, stale |-> FALSE, writes |-> w]
<1>1. /\ v \in [job : {v.job}, open : BOOLEAN, stale : BOOLEAN, writes : {v.writes}]
      /\ v.job = job /\ v.writes = w
  OBVIOUS
<1>2. tx' = [tx EXCEPT ![t] = v] /\ db' = db
  BY DEF OpenTx
<1>. HIDE DEF v
<1>3. HandlerFits(db, v)
  BY <1>1 DEF HandlerFits
<1>4. DOMAIN tx' = Sessions /\ tx'[t] = v /\ \A s \in Sessions \ {t} : tx'[s] = tx[s]
  BY <1>2 DEF HandlersFit
<1>5. \A s \in Sessions : HandlerFits(db, tx'[s])
  BY <1>3, <1>4 DEF HandlersFit
<1>6. \A s \in Sessions : HandlerFits(db', tx'[s])
  BY <1>2, <1>5
<1>. QED BY <1>2, <1>4, <1>6 DEF HandlersFit

\* A handler is given up, or begins anew.
LEMMA EndingFits ==
    ASSUME NEW t \in Sessions, HandlersFit, AbandonTx(t) \/ RetryTx(t)
    PROVE  HandlersFit' /\ UNCHANGED db
<1>. DEFINE again == [NoTx EXCEPT !.job = tx[t].job]
<1>1. PICK v \in {NoTx, again} : tx' = [tx EXCEPT ![t] = v] /\ db' = db
  BY DEF AbandonTx, RetryTx
<1>2. /\ again \in [job : {again.job}, open : BOOLEAN, stale : BOOLEAN, writes : {again.writes}]
      /\ again.job = tx[t].job /\ again.open = FALSE
  BY DEF NoTx
<1>3. JobFits(tx[t].job)
  BY DEF HandlersFit, HandlerFits
<1>. HIDE DEF again
<1>4. HandlerFits(db, again)
  BY <1>2, <1>3 DEF HandlerFits
<1>5. HandlerFits(db, v)
  BY <1>4, NoTxFits
<1>6. DOMAIN tx' = Sessions /\ tx'[t] = v /\ \A s \in Sessions \ {t} : tx'[s] = tx[s]
  BY <1>1 DEF HandlersFit
<1>7. \A s \in Sessions : HandlerFits(db, tx'[s])
  BY <1>5, <1>6 DEF HandlersFit
<1>8. \A s \in Sessions : HandlerFits(db', tx'[s])
  BY <1>1, <1>7
<1>. QED BY <1>1, <1>6, <1>8 DEF HandlersFit

\* A transaction commits: the others still stand, or are told.
LEMMA CommitFits ==
    ASSUME NEW t \in Sessions, InOrder(db), HandlersFit, CommitTx(t)
    PROVE  HandlersFit' /\ Keeps(db, db')
<1>. DEFINE w == tx[t].writes
            told(s) == [tx[s] EXCEPT !.stale = TRUE]
<1>1. /\ tx[t].open /\ ~tx[t].stale
      /\ db' = w ++ db
      /\ tx' = [s \in Sessions |-> IF s = t THEN NoTx
                                   ELSE IF tx[s].open /\ Conflicts(t, s) THEN told(s) ELSE tx[s]]
  BY DEF CommitTx
<1>2. Stands(db, w) /\ Respects(db, w)
  BY <1>1, StandingRespects DEF HandlersFit, HandlerFits
<1>3. Keeps(db, w ++ db) /\ InOrder(w ++ db)
  BY <1>2, CommitKeeps DEF Keeps
<1>4. ASSUME NEW s \in Sessions, s # t, tx[s].open /\ Conflicts(t, s)
      PROVE  HandlerFits(w ++ db, told(s))
  <2>1. PICK v : v = tx[s]
    OBVIOUS
  <2>2. v \in [job : {v.job}, open : BOOLEAN, stale : BOOLEAN, writes : {v.writes}] /\ JobFits(v.job)
    BY <2>1 DEF HandlersFit, HandlerFits
  <2>. DEFINE u == [v EXCEPT !.stale = TRUE]
  <2>3. /\ u \in [job : {u.job}, open : BOOLEAN, stale : BOOLEAN, writes : {u.writes}]
        /\ u.job = v.job /\ u.stale = TRUE
    BY <2>2
  <2>. HIDE DEF u
  <2>4. HandlerFits(w ++ db, u)
    BY <2>2, <2>3 DEF HandlerFits
  <2>. QED BY <2>1, <2>4 DEF u
<1>5. ASSUME NEW s \in Sessions, s # t, ~(tx[s].open /\ Conflicts(t, s))
      PROVE  HandlerFits(w ++ db, tx[s])
  <2>1. HandlerFits(db, tx[s])
    BY DEF HandlersFit
  <2>2. CASE ~tx[s].open
    BY <2>1, <2>2 DEF HandlerFits
  <2>3. CASE tx[s].open
    <3>1. DOMAIN w \cap DOMAIN tx[s].writes = {}
      BY <1>5, <2>3 DEF Conflicts
    <3>2. Stands(db, tx[s].writes) => Stands(w ++ db, tx[s].writes)
      BY <1>2, <1>3, <3>1, StillStands
    <3>. QED BY <2>1, <3>2 DEF HandlerFits
  <2>. QED BY <2>2, <2>3
<1>. HIDE DEF w, told
<1>6. DOMAIN tx' = Sessions
  BY <1>1
<1>7. \A s \in Sessions : HandlerFits(w ++ db, tx'[s])
  BY <1>1, <1>4, <1>5, NoTxFits
<1>8. HandlersFit'
  BY <1>1, <1>6, <1>7 DEF HandlersFit
<1>. QED BY <1>1, <1>3, <1>8

LEMMA ReceivingFits ==
    ASSUME NEW t \in Sessions, InOrder(db), HandlersFit, ReceiveRead(t) \/ ReceiveOpen(t)
    PROVE  HandlersFit' /\ UNCHANGED db
<1>1. CASE ReceiveRead(t)
  <2>1. PICK s \in Shelves : ReadOutside(t, [kind |-> "receive", shelf |-> s])
    BY <1>1 DEF ReceiveRead
  <2>2. JobFits([kind |-> "receive", shelf |-> s])
    BY DEF JobFits
  <2>. QED BY <2>1, <2>2, ReadingFits
<1>2. CASE ReceiveOpen(t)
  <2>. DEFINE s == tx[t].job.shelf
              w == [x \in {Loose(i, s) : i \in {j \in Items : Delivered[j] > 0}} |-> db[x] + Delivered[x[2]]]
                   ++ (Task ::= [status |-> "PENDING", source |-> s, left |-> Delivered])
  <2>1. tx[t].job.kind = "receive" /\ db[Task] = NoTask /\ OpenTx(t, tx[t].job, w)
    BY <1>2 DEF ReceiveOpen
  <2>2. JobFits(tx[t].job)
    BY DEF HandlersFit, HandlerFits
  <2>3. s \in Shelves
    BY <2>1, <2>2 DEF JobFits
  <2>4. Stands(db, w)
    BY <2>1, <2>3, ReceiptOpens
  <2>. HIDE DEF w
  <2>. QED BY <2>1, <2>2, <2>4, OpeningFits
<1>. QED BY <1>1, <1>2

LEMMA ConfirmingFits ==
    ASSUME NEW t \in Sessions, InOrder(db), HandlersFit, ConfirmRead(t) \/ ConfirmOpen(t)
    PROVE  HandlersFit' /\ UNCHANGED db
<1>1. CASE ConfirmRead(t)
  <2>1. PICK i \in Items, s \in Shelves, b \in Bays, qty \in Counts :
           \E source \in Sources(db) :
              ReadOutside(t, [kind |-> "confirm", item |-> i, shelf |-> s, bay |-> b,
                              made |-> db[Cell(s, b)].made, qty |-> qty, source |-> source])
    BY <1>1 DEF ConfirmRead
  <2>2. PICK source \in Sources(db) :
           ReadOutside(t, [kind |-> "confirm", item |-> i, shelf |-> s, bay |-> b,
                           made |-> db[Cell(s, b)].made, qty |-> qty, source |-> source])
    BY <2>1
  <2>3. source \in Shelves
    <3>1. db[Task] \in TaskSchema
      BY DocForms DEF InOrder
    <3>2. db[Task].source \in Shelves \cup {"none"}
      BY <3>1 DEF TaskSchema
    <3>. QED BY <3>2 DEF Sources
  <2>. DEFINE job == [kind |-> "confirm", item |-> i, shelf |-> s, bay |-> b,
                      made |-> db[Cell(s, b)].made, qty |-> qty, source |-> source]
  <2>4. JobFits(job)
    BY <2>3 DEF JobFits
  <2>5. ReadOutside(t, job)
    BY <2>2
  <2>. HIDE DEF job
  <2>. QED BY <2>4, <2>5, ReadingFits
<1>2. CASE ConfirmOpen(t)
  <2>. DEFINE i == tx[t].job.item
              s == tx[t].job.shelf
              b == tx[t].job.bay
              qty == tx[t].job.qty
              source == tx[t].job.source
              w == ((Cell(s, b) ::= db[Cell(s, b)]) ++ (Shelf(s) ::= db[Shelf(s)]))
                   ++ (Loose(i, source) ::= db[Loose(i, source)] - qty)
                   ++ ((InCell(i, s, b) ::= db[InCell(i, s, b)] + qty) ++ (Snapshot(i, s, b) ::= Width[i]))
                   ++ (Task ::= TaskAfter(db[Task], i, qty))
  <2>1. /\ tx[t].job.kind = "confirm"
        /\ db[Cell(s, b)].live /\ HasRoom(db, s, b, qty, Width[i]) /\ db[Loose(i, source)] >= qty
        /\ db[Task].status = "PENDING" /\ db[Task].left[i] >= qty
        /\ OpenTx(t, tx[t].job, w)
    BY <1>2 DEF ConfirmOpen, Locked, PutInCell
  <2>2. JobFits(tx[t].job)
    BY DEF HandlersFit, HandlerFits
  <2>3. i \in Items /\ s \in Shelves /\ b \in Bays /\ source \in Shelves /\ qty \in Nat
    BY <2>1, <2>2, WidthsOfBoxes DEF JobFits
  <2>4. Width[i] \in Nat
    BY <2>3, WidthsOfBoxes
  <2>5. Stands(db, w)
    BY <2>1, <2>3, <2>4, ConfirmOpens
  <2>. HIDE DEF w
  <2>. QED BY <2>1, <2>2, <2>5, OpeningFits
<1>. QED BY <1>1, <1>2

LEMMA AssigningFits ==
    ASSUME NEW t \in Sessions, InOrder(db), HandlersFit, AssignOpen(t)
    PROVE  HandlersFit' /\ UNCHANGED db
<1>1. PICK i \in Items, from \in Shelves, s \in Shelves, b \in Bays, qty \in Counts, size \in Sizes :
         /\ db[Loose(i, from)] >= qty
         /\ db[Cell(s, b)].live
         /\ HasRoom(db, s, b, qty, size)
         /\ OpenTx(t, [kind |-> "assign"], AssignWrites(i, s, b, from, qty, size))
  BY DEF AssignOpen
<1>. DEFINE w == AssignWrites(i, s, b, from, qty, size)
<1>2. w = (Cell(s, b) ::= db[Cell(s, b)])
          ++ (Loose(i, from) ::= db[Loose(i, from)] - qty)
          ++ ((InCell(i, s, b) ::= db[InCell(i, s, b)] + qty) ++ (Snapshot(i, s, b) ::= size))
          ++ (Assigned(i) ::= db[Assigned(i)] + qty)
  BY DEF AssignWrites, PutInCell
<1>3. OpenTx(t, [kind |-> "assign"], w)
  BY <1>1
<1>. HIDE DEF w
<1>4. Stands(db, w)
  BY <1>1, <1>2, WidthsOfBoxes, AssignOpens
<1>5. JobFits([kind |-> "assign"])
  BY DEF JobFits
<1>. QED BY <1>3, <1>4, <1>5, OpeningFits

LEMMA HandlingFits ==
    ASSUME NEW t \in Sessions, InOrder(db), HandlersFit, Handle(t)
    PROVE  HandlersFit' /\ (UNCHANGED db \/ Keeps(db, db'))
<1>1. CASE EditLayout(t)
  <2>1. PICK w \in Mutations(db) \cup Saves(db) \cup Resets(db) : OpenTx(t, EditJob, w)
    BY <1>1 DEF EditLayout
  <2>2. Stands(db, w)
    BY <1>1, EditsStand DEF EditLayout
  <2>3. JobFits(EditJob)
    BY DEF JobFits, EditJob
  <2>. QED BY <2>1, <2>2, <2>3, OpeningFits
<1>2. CASE ReceiveRead(t) \/ ReceiveOpen(t)
  BY <1>2, ReceivingFits
<1>3. CASE ConfirmRead(t) \/ ConfirmOpen(t)
  BY <1>3, ConfirmingFits
<1>4. CASE AssignOpen(t)
  BY <1>4, AssigningFits
<1>5. CASE CommitTx(t)
  BY <1>5, CommitFits
<1>6. CASE RetryTx(t) \/ AbandonTx(t)
  BY <1>6, EndingFits
<1>. QED BY <1>1, <1>2, <1>3, <1>4, <1>5, <1>6 DEF Handle

----------------------------------------------------------------------------
\* The steps of the script

LEMMA ScriptForms ==
    ASSUME NEW v \in Scripts
    PROVE  /\ v.named \subseteq Racks /\ v.received \in Shelves \cup {"none"} /\ v.preferred \in Racks \cup {"none"}
           /\ v.todo \subseteq Shelves /\ v.at # "done"
BY DEF Scripts

\* A write of the script is an edit: there is no stock in the cells to mind.
LEMMA WriteKeeps ==
    ASSUME NEW d, InOrder(d), BeforeCells(d), NEW w,
           DOMAIN w \subseteq ShelfDocs \cup CellDocs,
           \A x \in DOMAIN w : w[x] \in Schema(x),
           \A s \in Shelves : Shelf(s) \in DOMAIN w /\ w[Shelf(s)].live => d[Rack(w[Shelf(s)].rack)].live,
           \A s \in Shelves, b \in Bays : (w ++ d)[Cell(s, b)].live => (w ++ d)[Shelf(s)].live,
           \A s \in Shelves, b \in Bays : Cell(s, b) \in DOMAIN w /\ w[Cell(s, b)].live => b \in 1..d[Template]
    PROVE  /\ Keeps(d, w ++ d) /\ BeforeCells(w ++ d)
           /\ (w ++ d)[Template] = d[Template] /\ (w ++ d)[Task] = d[Task]
           /\ \A r \in Racks : (w ++ d)[Rack(r)] = d[Rack(r)]
<1>1. FitsSchema(d) /\ OrphanFree(d) /\ DOMAIN d = Docs
  BY DEF InOrder, FitsSchema
<1>2. \A i \in Items, s \in Shelves, b \in Bays : d[InCell(i, s, b)] = 0
  BY DEF BeforeCells
<1>3. SoundEdit(d, w)
  BY <1>1, <1>2, FloorEdit
<1>4. Keeps(d, w ++ d)
  BY <1>3, EditKeeps DEF SoundEdit
<1>5. /\ \A x \in DOMAIN w : (w ++ d)[x] = w[x]
      /\ \A x \in DOMAIN d \ DOMAIN w : (w ++ d)[x] = d[x]
  BY Over
<1>6. (w ++ d)[Template] = d[Template]
  <2>1. Template \notin DOMAIN w
    BY CellsApart DEF ShelfDocs, CellDocs
  <2>. QED BY <1>1, <1>5, <2>1, Placed
<1>7. (w ++ d)[Task] = d[Task]
  <2>1. Task \notin DOMAIN w
    BY LayoutIsNoWork, FloorDocs
  <2>. QED BY <1>1, <1>5, <2>1, Placed
<1>8. \A r \in Racks : (w ++ d)[Rack(r)] = d[Rack(r)]
  BY <1>1, <1>5, FloorDocs, Placed
<1>9. \A i \in Items, s \in Shelves, b \in Bays : (w ++ d)[InCell(i, s, b)] = 0
  <2>1. \A i \in Items, s \in Shelves, b \in Bays : InCell(i, s, b) \notin DOMAIN w
    BY LayoutIsNoStock, FloorDocs
  <2>. QED BY <1>1, <1>2, <1>5, <2>1, Placed
<1>10. ASSUME NEW s \in Shelves, NEW b \in Bays, (w ++ d)[Cell(s, b)].live
       PROVE  b \in 1..d[Template]
  <2>1. CASE Cell(s, b) \in DOMAIN w
    BY <1>5, <1>10, <2>1
  <2>2. CASE Cell(s, b) \notin DOMAIN w
    <3>1. d[Cell(s, b)].live
      BY <1>1, <1>5, <1>10, <2>2, Placed
    <3>. QED BY <3>1 DEF BeforeCells, CellsOf
  <2>. QED BY <2>1, <2>2
<1>11. BeforeCells(w ++ d)
  BY <1>6, <1>9, <1>10 DEF BeforeCells, CellsOf
<1>. QED BY <1>4, <1>6, <1>7, <1>8, <1>11

LEMMA ShelvesWritten ==
    ASSUME NEW d, InOrder(d), BeforeCells(d), NEW w, DOMAIN w \subseteq ShelfDocs,
           \A s \in Shelves : Shelf(s) \in DOMAIN w
              => w[Shelf(s)] \in ShelfSchema /\ w[Shelf(s)].live /\ d[Rack(w[Shelf(s)].rack)].live
    PROVE  Keeps(d, w ++ d) /\ BeforeCells(w ++ d)
<1>1. FitsSchema(d) /\ OrphanFree(d) /\ DOMAIN d = Docs
  BY DEF InOrder, FitsSchema
<1>2. /\ \A x \in DOMAIN w : (w ++ d)[x] = w[x]
      /\ \A x \in DOMAIN d \ DOMAIN w : (w ++ d)[x] = d[x]
  BY Over
<1>3. \A s \in Shelves, b \in Bays : Cell(s, b) \notin DOMAIN w
  BY CellsApart DEF ShelfDocs
<1>4. \A x \in DOMAIN w : w[x] \in Schema(x)
  <2>1. \A s \in Shelves : Shelf(s) \in DOMAIN w => w[Shelf(s)] \in Schema(Shelf(s))
    BY SchemaOf
  <2>. QED BY <2>1 DEF ShelfDocs
<1>5. ASSUME NEW s \in Shelves, NEW b \in Bays, (w ++ d)[Cell(s, b)].live
      PROVE  (w ++ d)[Shelf(s)].live
  <2>1. d[Cell(s, b)].live
    BY <1>1, <1>2, <1>3, <1>5, Placed
  <2>2. d[Shelf(s)].live
    BY <1>1, <2>1, OrphansAre
  <2>. QED BY <1>1, <1>2, <2>2, Placed
<1>. QED BY <1>3, <1>4, <1>5, WriteKeeps

LEMMA CellsWritten ==
    ASSUME NEW d, InOrder(d), BeforeCells(d), NEW w, DOMAIN w \subseteq CellDocs,
           \A s \in Shelves, b \in Bays : Cell(s, b) \in DOMAIN w
              => w[Cell(s, b)] \in CellSchema /\ (w[Cell(s, b)].live => d[Shelf(s)].live /\ b \in 1..d[Template])
    PROVE  /\ Keeps(d, w ++ d) /\ BeforeCells(w ++ d)
           /\ (w ++ d)[Template] = d[Template] /\ (w ++ d)[Task] = d[Task]
           /\ \A r \in Racks : (w ++ d)[Rack(r)] = d[Rack(r)]
           /\ \A s \in Shelves : (w ++ d)[Shelf(s)] = d[Shelf(s)]
           /\ \A s \in Shelves, b \in Bays :
                 (w ++ d)[Cell(s, b)] = IF Cell(s, b) \in DOMAIN w THEN w[Cell(s, b)] ELSE d[Cell(s, b)]
<1>1. FitsSchema(d) /\ OrphanFree(d) /\ DOMAIN d = Docs
  BY DEF InOrder, FitsSchema
<1>2. /\ \A x \in DOMAIN w : (w ++ d)[x] = w[x]
      /\ \A x \in DOMAIN d \ DOMAIN w : (w ++ d)[x] = d[x]
  BY Over
<1>3. \A s \in Shelves : Shelf(s) \notin DOMAIN w
  BY CellsApart DEF CellDocs
<1>4. \A s \in Shelves : (w ++ d)[Shelf(s)] = d[Shelf(s)]
  BY <1>1, <1>2, <1>3, Placed
<1>5. \A s \in Shelves, b \in Bays :
         (w ++ d)[Cell(s, b)] = IF Cell(s, b) \in DOMAIN w THEN w[Cell(s, b)] ELSE d[Cell(s, b)]
  BY <1>1, <1>2, Placed
<1>6. \A x \in DOMAIN w : w[x] \in Schema(x)
  <2>1. \A s \in Shelves, b \in Bays : Cell(s, b) \in DOMAIN w => w[Cell(s, b)] \in Schema(Cell(s, b))
    BY SchemaOf
  <2>. QED BY <2>1 DEF CellDocs
<1>7. \A s \in Shelves, b \in Bays : (w ++ d)[Cell(s, b)].live => (w ++ d)[Shelf(s)].live
  BY <1>1, <1>4, <1>5, OrphansAre
<1>. QED BY <1>3, <1>4, <1>5, <1>6, <1>7, WriteKeeps

\* Before the cells are made, a step has nothing more to leave than a script that fits.
LEMMA EarlyStep ==
    ASSUME ScriptFits, script # NoScript, NEW v \in Scripts, script' = v, v.at \notin {"cells", "end"},
           tx' = tx, BeforeCells(db')
    PROVE  ScriptFits'
<1>1. tx = [s \in Sessions |-> NoTx]
  BY DEF ScriptFits
<1>2. script' \in Scripts /\ script'.at \notin {"cells", "end"}
  OBVIOUS
<1>3. Scripts' = Scripts
  BY DEF Scripts
<1>. QED BY <1>1, <1>2, <1>3 DEF ScriptFits

LEMMA LiveShelfForm ==
    ASSUME NEW v \in ShelfSchema, v.live
    PROVE  /\ v.rack \in Racks
           /\ \A yes \in BOOLEAN : /\ [v EXCEPT !.staging = yes] \in ShelfSchema
                                   /\ [v EXCEPT !.staging = yes].live
                                   /\ [v EXCEPT !.staging = yes].rack = v.rack
           /\ Fitted(v) \in ShelfSchema /\ Fitted(v).live /\ Fitted(v).rack = v.rack
           /\ Fitted(v).staging = (v.rack = script.preferred)
           /\ Fitted(v).width \in Widths
<1>1. v \in [live : BOOLEAN, rack : Racks, staging : BOOLEAN, width : Widths \cup {0}]
  BY ShelfForm
<1>2. \A yes \in BOOLEAN :
         /\ [v EXCEPT !.staging = yes] \in [live : BOOLEAN, rack : Racks, staging : BOOLEAN, width : Widths \cup {0}]
         /\ [v EXCEPT !.staging = yes].live = v.live
         /\ [v EXCEPT !.staging = yes].rack = v.rack
         /\ [v EXCEPT !.staging = yes].staging = yes
         /\ [v EXCEPT !.staging = yes].width = v.width
  BY <1>1
<1>. DEFINE m == [v EXCEPT !.staging = (v.rack = script.preferred)]
<1>3. /\ m \in [live : BOOLEAN, rack : Racks, staging : BOOLEAN, width : Widths \cup {0}]
      /\ m.live = v.live /\ m.rack = v.rack /\ m.staging = (v.rack = script.preferred) /\ m.width = v.width
  BY <1>2
<1>4. Fitted(v) = [m EXCEPT !.width = IF m.width = 0 THEN DefaultWidth ELSE m.width]
  BY DEF Fitted
<1>. HIDE DEF m
<1>5. \A n \in Widths \cup {0} :
         /\ [m EXCEPT !.width = n] \in [live : BOOLEAN, rack : Racks, staging : BOOLEAN, width : Widths \cup {0}]
         /\ [m EXCEPT !.width = n].live = m.live /\ [m EXCEPT !.width = n].rack = m.rack
         /\ [m EXCEPT !.width = n].staging = m.staging /\ [m EXCEPT !.width = n].width = n
  BY <1>3
<1>. DEFINE n == IF m.width = 0 THEN DefaultWidth ELSE m.width
<1>6. n \in Widths
  BY <1>3, MigrationAssumption
<1>7. Fitted(v) = [m EXCEPT !.width = n]
  BY <1>4
<1>. HIDE DEF n
<1>8. /\ Fitted(v) \in [live : BOOLEAN, rack : Racks, staging : BOOLEAN, width : Widths \cup {0}]
      /\ Fitted(v).live = v.live /\ Fitted(v).rack = v.rack
      /\ Fitted(v).staging = (v.rack = script.preferred) /\ Fitted(v).width = n
  BY <1>3, <1>5, <1>6, <1>7
<1>. QED BY <1>1, <1>2, <1>6, <1>8 DEF ShelfSchema

LEMMA ReadingStep ==
    ASSUME InOrder(db), ScriptFits, script # NoScript, MigrateRead \/ MigrateDies
    PROVE  UNCHANGED db /\ ScriptFits'
<1>0. script \in Scripts /\ BeforeCells(db)
  BY DEF ScriptFits
<1>1. CASE MigrateRead
  <2>1. PICK r \in Preferred :
           script' = [script EXCEPT !.preferred = r, !.at = IF r = "none" THEN "levels" ELSE "clear"]
    BY <1>1 DEF MigrateRead
  <2>2. r \in Racks \cup {"none"}
    <3>1. StagingRacks(db) \subseteq Racks
      <4>1. \A s \in Shelves : db[Shelf(s)].live => db[Shelf(s)].rack \in Racks
        BY DocForms, LiveShelfForm DEF InOrder
      <4>. QED BY <4>1 DEF StagingRacks
    <3>2. script.named \subseteq Racks
      BY <1>0, ScriptForms
    <3>. QED BY <3>1, <3>2 DEF Preferred
  <2>. DEFINE at == IF r = "none" THEN "levels" ELSE "clear"
              v == [script EXCEPT !.preferred = r, !.at = at]
  <2>3. at \in {"start", "clear", "set", "levels", "cells", "end"} /\ at \notin {"cells", "end"}
    OBVIOUS
  <2>4. script' = v /\ UNCHANGED <<db, tx>>
    BY <1>1, <2>1 DEF MigrateRead, WriteNothing, transactionVars
  <2>. HIDE DEF at
  <2>5. v \in Scripts /\ v.at = at
    BY <1>0, <2>2, <2>3 DEF Scripts
  <2>. HIDE DEF v
  <2>6. BeforeCells(db')
    BY <1>0, <2>4
  <2>. QED BY <2>3, <2>4, <2>5, <2>6, EarlyStep
<1>2. CASE MigrateDies
  <2>. DEFINE v == Script(script.named, script.received)
  <2>1. script' = v /\ UNCHANGED <<db, tx>>
    BY <1>2 DEF MigrateDies, WriteNothing, transactionVars
  <2>2. script.named \subseteq Racks /\ script.received \in Shelves \cup {"none"}
    BY <1>0, ScriptForms
  <2>3. v \in Scripts /\ v.at = "start"
    BY <2>2 DEF Script, Scripts
  <2>. HIDE DEF v
  <2>4. BeforeCells(db')
    BY <1>0, <2>1
  <2>. QED BY <2>1, <2>3, <2>4, EarlyStep
<1>. QED BY <1>1, <1>2

\* A shelf of a rack is a shelf, whatever it becomes.
LEMMA StagingStep ==
    ASSUME InOrder(db), ScriptFits, script # NoScript, MigrateClear \/ MigrateSet
    PROVE  Keeps(db, db') /\ ScriptFits'
<1>0. script \in Scripts /\ BeforeCells(db)
  BY DEF ScriptFits
<1>1. PICK S \in SUBSET LiveShelves, yes \in BOOLEAN, at \in {"set", "levels"} :
         /\ Write([x \in {Shelf(s) : s \in S} |-> [db[x] EXCEPT !.staging = yes]])
         /\ Goto(at)
  <2>1. CASE MigrateClear
    BY <2>1 DEF MigrateClear
  <2>2. CASE MigrateSet
    BY <2>2 DEF MigrateSet, ShelvesOf
  <2>. QED BY <2>1, <2>2
<1>. DEFINE w == [x \in {Shelf(s) : s \in S} |-> [db[x] EXCEPT !.staging = yes]]
            v == [script EXCEPT !.at = at]
<1>2. db' = w ++ db /\ tx' = tx /\ script' = v
  BY <1>1 DEF Write, Goto
<1>3. DOMAIN w \subseteq ShelfDocs
  BY DEF ShelfDocs, LiveShelves
<1>4. ASSUME NEW s \in Shelves, Shelf(s) \in DOMAIN w
      PROVE  w[Shelf(s)] \in ShelfSchema /\ w[Shelf(s)].live /\ db[Rack(w[Shelf(s)].rack)].live
  <2>1. s \in S /\ w[Shelf(s)] = [db[Shelf(s)] EXCEPT !.staging = yes]
    BY <1>4, CellsApart
  <2>2. db[Shelf(s)].live /\ db[Shelf(s)] \in ShelfSchema /\ db[Rack(db[Shelf(s)].rack)].live
    BY <2>1, DocForms DEF InOrder, LiveShelves, OrphanFree
  <2>. QED BY <2>1, <2>2, LiveShelfForm
<1>5. v \in Scripts /\ v.at = at
  <2>1. at \in {"start", "clear", "set", "levels", "cells", "end"}
    OBVIOUS
  <2>. QED BY <1>0, <2>1 DEF Scripts
<1>. HIDE DEF w, v
<1>6. Keeps(db, db') /\ BeforeCells(db')
  BY <1>0, <1>2, <1>3, <1>4, ShelvesWritten
<1>. QED BY <1>2, <1>5, <1>6, EarlyStep

LEMMA LevelStep ==
    ASSUME InOrder(db), ScriptFits, script # NoScript,
           (\E s \in Shelves : FitShelf(s)) \/ \E r \in Racks : AddShelf(r)
    PROVE  Keeps(db, db') /\ ScriptFits'
<1>0. script \in Scripts /\ BeforeCells(db)
  BY DEF ScriptFits
<1>1. \E s \in Shelves : \E form \in ShelfSchema :
         /\ form.live /\ db[Rack(form.rack)].live
         /\ Write(Shelf(s) ::= form) /\ UNCHANGED script /\ Migrating("levels")
  <2>1. ASSUME NEW s \in Shelves, FitShelf(s)
        PROVE  /\ Fitted(db[Shelf(s)]) \in ShelfSchema
               /\ Fitted(db[Shelf(s)]).live /\ db[Rack(Fitted(db[Shelf(s)]).rack)].live
               /\ Write(Shelf(s) ::= Fitted(db[Shelf(s)])) /\ UNCHANGED script /\ Migrating("levels")
    <3>1. db[Shelf(s)].live /\ db[Shelf(s)] \in ShelfSchema /\ db[Rack(db[Shelf(s)].rack)].live
      BY <2>1, DocForms DEF InOrder, FitShelf, OrphanFree
    <3>. QED BY <2>1, <3>1, LiveShelfForm DEF FitShelf
  <2>2. ASSUME NEW r \in Racks, AddShelf(r)
        PROVE  \E s \in Shelves : \E form \in ShelfSchema :
                  /\ form.live /\ db[Rack(form.rack)].live
                  /\ Write(Shelf(s) ::= form) /\ UNCHANGED script /\ Migrating("levels")
    <3>. DEFINE form == [live |-> TRUE, rack |-> r, staging |-> r = script.preferred, width |-> DefaultWidth]
    <3>1. PICK s \in Shelves : Write(Shelf(s) ::= form)
      BY <2>2 DEF AddShelf
    <3>2. form \in ShelfSchema /\ form.live /\ form.rack = r
      BY MigrationAssumption DEF ShelfSchema
    <3>. HIDE DEF form
    <3>3. db[Rack(r)].live /\ UNCHANGED script /\ Migrating("levels")
      BY <2>2 DEF AddShelf
    <3>. QED BY <3>1, <3>2, <3>3
  <2>. QED BY <2>1, <2>2
<1>2. PICK s \in Shelves, form \in ShelfSchema :
         /\ form.live /\ db[Rack(form.rack)].live
         /\ Write(Shelf(s) ::= form) /\ UNCHANGED script /\ Migrating("levels")
  BY <1>1
<1>. DEFINE w == Shelf(s) ::= form
<1>3. DOMAIN w = {Shelf(s)} /\ w[Shelf(s)] = form
  BY One
<1>4. db' = w ++ db /\ tx' = tx /\ script' = script /\ script.at = "levels"
  BY <1>2 DEF Write, Migrating
<1>. HIDE DEF w
<1>5. DOMAIN w \subseteq ShelfDocs
  BY <1>3 DEF ShelfDocs
<1>6. \A t \in Shelves : Shelf(t) \in DOMAIN w
         => w[Shelf(t)] \in ShelfSchema /\ w[Shelf(t)].live /\ db[Rack(w[Shelf(t)].rack)].live
  BY <1>2, <1>3
<1>7. Keeps(db, db') /\ BeforeCells(db')
  BY <1>0, <1>4, <1>5, <1>6, ShelvesWritten
<1>. QED BY <1>0, <1>4, <1>7, EarlyStep

\* Where zones, racks and shelves stay as they are, the shelves remain as they shall be.
LEMMA LevelsStay ==
    ASSUME \A r \in Racks : db'[Rack(r)] = db[Rack(r)], \A s \in Shelves : db'[Shelf(s)] = db[Shelf(s)],
           script'.preferred = script.preferred
    PROVE  Levelled' <=> Levelled
<1>1. LiveShelves' = LiveShelves
  BY DEF LiveShelves
<1>2. \A r \in Racks : ShelvesOf(r)' = ShelvesOf(r)
  BY <1>1 DEF ShelvesOf, LiveShelves
<1>3. \A s \in LiveShelves : (db[Shelf(s)] = Fitted(db[Shelf(s)]))' <=> db[Shelf(s)] = Fitted(db[Shelf(s)])
  BY DEF Fitted, LiveShelves
<1>4. \A r \in Racks : IsFull(r)' <=> IsFull(r)
  BY <1>2 DEF IsFull
<1>. QED BY <1>1, <1>3, <1>4 DEF Levelled

LEMMA DroppingStep ==
    ASSUME InOrder(db), ScriptFits, script # NoScript, DropStagingCells
    PROVE  Keeps(db, db') /\ ScriptFits'
<1>0. script \in Scripts /\ BeforeCells(db) /\ tx = [s \in Sessions |-> NoTx]
  BY DEF ScriptFits
<1>. DEFINE staging == LiveShelves \ Storing
            f == [s \in staging |-> DropCells(db, s, Bays)]
            w == Joined(f, staging)
            v == [script EXCEPT !.at = "cells", !.todo = Storing]
<1>1. /\ \A r \in Racks : db[Rack(r)].live => IsFitted(r) /\ IsFull(r)
      /\ db' = w ++ db /\ tx' = tx /\ script' = v
  BY DEF DropStagingCells, Write
<1>2. v \in Scripts /\ v.at = "cells" /\ v.todo = Storing /\ v.preferred = script.preferred
  <2>1. Storing \in SUBSET Shelves
    BY DEF Storing, LiveShelves
  <2>. QED BY <1>0, <2>1 DEF Scripts
<1>3. FitsSchema(db) /\ OrphanFree(db) /\ staging \in SUBSET Shelves
  BY DEF InOrder, LiveShelves
<1>4. \A s \in staging :
         /\ DOMAIN f[s] = {Cell(s, b) : b \in CellsOf(db, s)}
         /\ \A b \in CellsOf(db, s) : f[s][Cell(s, b)] \in CellSchema /\ ~f[s][Cell(s, b)].live
  <2>0. \A s \in staging : f[s] = DropCells(db, s, Bays)
    OBVIOUS
  <2>. HIDE DEF v, w, f, staging
  <2>. SUFFICES ASSUME NEW s \in staging
                PROVE  /\ DOMAIN f[s] = {Cell(s, b) : b \in CellsOf(db, s)}
                       /\ \A b \in CellsOf(db, s) : f[s][Cell(s, b)] \in CellSchema /\ ~f[s][Cell(s, b)].live
    OBVIOUS
  <2>1. CellsOf(db, s) \cap Bays = CellsOf(db, s)
    BY DEF CellsOf
  <2>2. PICK d : d = db
    OBVIOUS
  <2>3. s \in Shelves /\ Bays \in SUBSET Bays /\ FitsSchema(d)
    BY <1>3, <2>2
  <2>4. /\ DOMAIN DropCells(d, s, Bays) = {Cell(s, b) : b \in CellsOf(d, s) \cap Bays}
        /\ \A b \in CellsOf(d, s) \cap Bays :
              DropCells(d, s, Bays)[Cell(s, b)] \in CellSchema /\ ~DropCells(d, s, Bays)[Cell(s, b)].live
    BY <2>3, DropCellsFit
  <2>. QED BY <2>0, <2>1, <2>2, <2>4
<1>. HIDE DEF v, f, staging
<1>5. \A s \in staging : DOMAIN f[s] \subseteq {Cell(s, b) : b \in Bays}
  BY <1>4 DEF CellsOf
<1>6. /\ DOMAIN w \subseteq CellDocs
      /\ \A s \in Shelves, b \in Bays : Cell(s, b) \in DOMAIN w <=> s \in staging /\ Cell(s, b) \in DOMAIN f[s]
      /\ \A s \in Shelves, b \in Bays : Cell(s, b) \in DOMAIN w => w[Cell(s, b)] = f[s][Cell(s, b)]
  BY <1>3, <1>5, JoinedCells
<1>. HIDE DEF w
<1>7. ASSUME NEW s \in Shelves, NEW b \in Bays, Cell(s, b) \in DOMAIN w
      PROVE  w[Cell(s, b)] \in CellSchema /\ ~w[Cell(s, b)].live
  <2>1. s \in staging /\ Cell(s, b) \in DOMAIN f[s] /\ w[Cell(s, b)] = f[s][Cell(s, b)]
    BY <1>6, <1>7
  <2>2. b \in CellsOf(db, s)
    BY <1>4, <2>1, CellsApart
  <2>. QED BY <1>4, <2>1, <2>2
<1>8. /\ Keeps(db, db') /\ BeforeCells(db')
      /\ \A r \in Racks : db'[Rack(r)] = db[Rack(r)]
      /\ \A s \in Shelves : db'[Shelf(s)] = db[Shelf(s)]
      /\ \A s \in Shelves, b \in Bays :
            db'[Cell(s, b)] = IF Cell(s, b) \in DOMAIN w THEN w[Cell(s, b)] ELSE db[Cell(s, b)]
  BY <1>0, <1>1, <1>6, <1>7, CellsWritten
<1>9. Levelled
  <2>1. \A s \in LiveShelves : db[Shelf(s)].rack \in Racks /\ db[Rack(db[Shelf(s)].rack)].live
    BY <1>3, DocForms, LiveShelfForm DEF OrphanFree, LiveShelves
  <2>. QED BY <1>1, <2>1 DEF Levelled, IsFitted, ShelvesOf
<1>10. Levelled'
  BY <1>1, <1>2, <1>8, <1>9, LevelsStay
<1>11. LiveShelves' = LiveShelves /\ Storing' = Storing
  BY <1>8 DEF LiveShelves, Storing
<1>12. ASSUME NEW s \in staging
       PROVE  CellsOf(db', s) = {}
  <2>1. ASSUME NEW b \in Bays, db'[Cell(s, b)].live
        PROVE  FALSE
    <3>1. s \in Shelves
      BY <1>3
    <3>2. Cell(s, b) \notin DOMAIN w
      BY <1>7, <1>8, <2>1, <3>1
    <3>3. b \in CellsOf(db, s)
      BY <1>8, <2>1, <3>1, <3>2 DEF CellsOf
    <3>. QED BY <1>4, <1>6, <3>1, <3>2, <3>3
  <2>. QED BY <2>1 DEF CellsOf
<1>13. CellsDone'
  BY <1>1, <1>2, <1>11, <1>12 DEF CellsDone, staging
<1>14. Scripts' = Scripts
  BY DEF Scripts
<1>. QED BY <1>0, <1>1, <1>2, <1>8, <1>10, <1>13, <1>14 DEF ScriptFits

LEMMA CellsStep ==
    ASSUME InOrder(db), ScriptFits, script # NoScript, NEW s \in Shelves, MigrateCells(s)
    PROVE  Keeps(db, db') /\ ScriptFits'
<1>. DEFINE width == db[Shelf(s)].width \div db[Template]
            doc(b) == [live |-> TRUE, width |-> width,
                       made |-> IF db[Cell(s, b)] = NoCell THEN 1 ELSE db[Cell(s, b)].made]
            w == CellWrites(s, 1..db[Template], doc)
            v == [script EXCEPT !.todo = @ \ {s}]
<1>1. /\ script.at = "cells" /\ s \in script.todo
      /\ db' = w ++ db /\ tx' = tx /\ script' = v
  BY DEF MigrateCells, Migrating, Write
<1>2. script \in Scripts /\ BeforeCells(db) /\ tx = [t \in Sessions |-> NoTx] /\ Levelled /\ CellsDone
  BY <1>1 DEF ScriptFits
<1>3. v \in Scripts /\ v.at = "cells" /\ v.todo = script.todo \ {s} /\ v.preferred = script.preferred
  BY <1>1, <1>2 DEF Scripts
<1>. HIDE DEF v
<1>4. FitsSchema(db) /\ db[Template] \in Bays /\ 1..db[Template] \subseteq Bays /\ db[Shelf(s)].live /\ s \in Storing
  BY <1>1, <1>2, DocForms, BaysAreNumbers DEF InOrder, CellsDone, Storing, LiveShelves
<1>5. width \in Nat
  BY <1>4, DocForms, ShelfForm, BaysAreNumbers
<1>6. ASSUME NEW b \in 1..db[Template]
      PROVE  doc(b) \in CellSchema /\ doc(b).live /\ doc(b).width = width
  <2>1. db[Cell(s, b)].made \in Nat
    BY <1>4, DocForms, CellForm
  <2>. HIDE DEF width
  <2>. QED BY <1>5, <2>1 DEF CellSchema
<1>7. /\ DOMAIN w = {Cell(s, b) : b \in 1..db[Template]}
      /\ \A b \in 1..db[Template] : w[Cell(s, b)] = doc(b)
  BY DEF CellWrites, Cell
<1>. HIDE DEF w, doc, width
<1>8. DOMAIN w \subseteq CellDocs
  BY <1>4, <1>7 DEF CellDocs
<1>9. ASSUME NEW t \in Shelves, NEW b \in Bays
      PROVE  /\ Cell(t, b) \in DOMAIN w <=> t = s /\ b \in 1..db[Template]
             /\ Cell(t, b) \in DOMAIN w => /\ w[Cell(t, b)] \in CellSchema /\ w[Cell(t, b)].live
                                           /\ w[Cell(t, b)].width = width
  BY <1>6, <1>7, CellsApart
<1>10. /\ Keeps(db, db') /\ BeforeCells(db')
       /\ db'[Template] = db[Template]
       /\ \A r \in Racks : db'[Rack(r)] = db[Rack(r)]
       /\ \A t \in Shelves : db'[Shelf(t)] = db[Shelf(t)]
       /\ \A t \in Shelves, b \in Bays :
             db'[Cell(t, b)] = IF Cell(t, b) \in DOMAIN w THEN w[Cell(t, b)] ELSE db[Cell(t, b)]
  BY <1>1, <1>2, <1>4, <1>8, <1>9, CellsWritten
<1>11. Levelled'
  BY <1>1, <1>2, <1>3, <1>10, LevelsStay
<1>12. LiveShelves' = LiveShelves /\ Storing' = Storing
  BY <1>10 DEF LiveShelves, Storing
<1>13. \A t \in Shelves \ {s} : CellsOf(db', t) = CellsOf(db, t) /\ (Divided(t) => Divided(t)')
  BY <1>9, <1>10 DEF CellsOf, Divided
<1>14. Divided(s)'
  <2>1. \A b \in Bays : db[Cell(s, b)].live => b \in 1..db[Template]
    BY <1>2 DEF BeforeCells, CellsOf
  <2>2. \A b \in Bays : db'[Cell(s, b)].live <=> b \in 1..db[Template]
    BY <1>9, <1>10, <2>1
  <2>3. CellsOf(db', s) = 1..db[Template]
    BY <1>4, <2>2 DEF CellsOf
  <2>4. \A b \in Bays : db'[Cell(s, b)].live => db'[Cell(s, b)].width = db[Shelf(s)].width \div db[Template]
    BY <1>9, <1>10, <2>2 DEF width
  <2>. QED BY <1>10, <2>3, <2>4 DEF Divided
<1>15. CellsDone'
  <2>1. script'.todo \subseteq Storing
    BY <1>1, <1>2, <1>3 DEF CellsDone
  <2>2. ASSUME NEW t \in LiveShelves \ Storing
        PROVE  CellsOf(db', t) = {}
    <3>1. t \in Shelves \ {s}
      BY <1>4 DEF LiveShelves
    <3>. QED BY <1>2, <1>13, <3>1 DEF CellsDone
  <2>3. ASSUME NEW t \in Storing \ script'.todo
        PROVE  Divided(t)'
    <3>1. t \in Shelves
      BY DEF Storing, LiveShelves
    <3>2. CASE t = s
      BY <1>14, <3>2
    <3>3. CASE t # s
      <4>1. Divided(t)
        BY <1>1, <1>2, <1>3, <3>3 DEF CellsDone
      <4>. QED BY <1>13, <3>1, <3>3, <4>1
    <3>. QED BY <3>2, <3>3
  <2>. QED BY <1>12, <2>1, <2>2, <2>3 DEF CellsDone
<1>16. Scripts' = Scripts
  BY DEF Scripts
<1>. QED BY <1>1, <1>2, <1>3, <1>10, <1>11, <1>15, <1>16 DEF ScriptFits

LEMMA TaskStep ==
    ASSUME InOrder(db), ScriptFits, script # NoScript, MigrateTask
    PROVE  (UNCHANGED db \/ Keeps(db, db')) /\ ScriptFits'
<1>. DEFINE v == [script EXCEPT !.at = "end"]
            task == [db[Task] EXCEPT !.source = script.received]
            w == Task ::= task
            late == db[Task].status # "none" /\ db[Task].source = "none"
<1>1. /\ script.at = "cells" /\ script.todo = {} /\ script' = v /\ tx' = tx
      /\ late => db' = w ++ db
      /\ ~late => db' = db
  BY DEF MigrateTask, Migrating, Goto, Write, WriteNothing, transactionVars
<1>2. script \in Scripts /\ BeforeCells(db) /\ tx = [t \in Sessions |-> NoTx] /\ Levelled /\ CellsDone
  BY <1>1 DEF ScriptFits
<1>3. /\ v \in Scripts /\ v.at = "end" /\ v.todo = script.todo /\ v.preferred = script.preferred
      /\ v.received = script.received
  BY <1>2 DEF Scripts
<1>. HIDE DEF v
<1>4. FitsSchema(db) /\ OrphanFree(db) /\ StockHeld(db) /\ Explained(db) /\ DOMAIN db = Docs
  BY DEF InOrder, FitsSchema
<1>5. /\ task \in TaskSchema /\ task.source = script.received /\ task.status = db[Task].status
      /\ task.left = db[Task].left
  <2>1. db[Task] \in TaskSchema /\ script.received \in Shelves \cup {"none"}
    BY <1>2, <1>4, DocForms, ScriptForms
  <2>. QED BY <2>1 DEF TaskSchema
<1>. HIDE DEF task
<1>6. DOMAIN w = {Task} /\ w[Task] = task
  BY One
<1>. HIDE DEF w
<1>7. /\ late => db'[Task] = task
      /\ ~late => db'[Task] = db[Task]
      /\ \A x \in Docs \ {Task} : db'[x] = db[x]
  <2>1. /\ \A x \in DOMAIN w : (w ++ db)[x] = w[x]
        /\ \A x \in DOMAIN db \ DOMAIN w : (w ++ db)[x] = db[x]
    BY Over
  <2>. QED BY <1>1, <1>4, <1>6, <2>1
<1>8. FitsSchema(db')
  <2>1. CASE late
    <3>1. DOMAIN w \subseteq Docs /\ \A x \in DOMAIN w : w[x] \in Schema(x)
      BY <1>5, <1>6, SchemaOf, Placed
    <3>2. FitsSchema(w ++ db)
      BY <1>4, <3>1, FitsOver
    <3>. QED BY <1>1, <2>1, <3>2
  <2>2. CASE ~late
    BY <1>1, <1>4, <2>2
  <2>. QED BY <2>1, <2>2
<1>9. \A x \in LayoutDocs : db'[x] = db[x]
  BY <1>7, FloorDocs, LayoutIsNoWork
<1>10. SameFloor(db, db')
  BY <1>9, FloorPlaced DEF SameFloor
<1>11. SameCells(db, db') /\ SameLoose(db, db') /\ \A i \in Items : db'[Assigned(i)] = db[Assigned(i)]
  BY <1>7, Placed, StockApart DEF SameCells, SameLoose
<1>12. \A i \in Items : Received(db', i) = Received(db, i) /\ Left(db', i) = Left(db, i)
  <2>1. CASE late
    <3>1. NoTask.status = "none"
      BY DEF NoTask
    <3>2. db[Task] # NoTask /\ db'[Task] # NoTask /\ db'[Task].left = db[Task].left
      BY <1>5, <1>7, <2>1, <3>1
    <3>. QED BY <3>2 DEF Received, Left
  <2>2. CASE ~late
    BY <1>7, <2>2 DEF Received, Left
  <2>. QED BY <2>1, <2>2
<1>13. Keeps(db, db')
  <2>1. OrphanFree(db')
    BY <1>4, <1>8, <1>10, OrphansOfSameFloor
  <2>2. StockHeld(db')
    BY <1>4, <1>10, <1>11 DEF StockHeld, SameFloor, SameCells
  <2>3. Explained(db') /\ Balanced(db, db') /\ NoneOverfilled(db, db')
    BY <1>4, <1>8, <1>11, <1>12, StockUntouched
  <2>. QED BY <1>8, <2>1, <2>2, <2>3 DEF Keeps, InOrder
<1>14. BeforeCells(db')
  <2>1. \A s \in Shelves : CellsOf(db', s) = CellsOf(db, s)
    BY <1>10 DEF SameFloor, CellsOf
  <2>. QED BY <1>2, <1>9, <1>11, <2>1, FloorPlaced DEF BeforeCells, SameCells
<1>15. Levelled'
  BY <1>1, <1>2, <1>3, <1>10, LevelsStay DEF SameFloor
<1>16. CellsDone'
  <2>1. LiveShelves' = LiveShelves /\ Storing' = Storing
    BY <1>10 DEF LiveShelves, Storing, SameFloor
  <2>2. \A s \in Shelves : CellsOf(db', s) = CellsOf(db, s) /\ (Divided(s) => Divided(s)')
    BY <1>9, <1>10, FloorPlaced DEF Divided, CellsOf, SameFloor
  <2>3. LiveShelves \subseteq Shelves /\ Storing \subseteq Shelves
    BY DEF LiveShelves, Storing
  <2>4. script'.todo = script.todo
    BY <1>1, <1>3
  <2>. QED BY <1>2, <2>1, <2>2, <2>3, <2>4 DEF CellsDone
<1>17. TaskDone'
  <2>1. CASE late
    BY <1>1, <1>3, <1>5, <1>7, <2>1 DEF TaskDone
  <2>2. CASE ~late
    BY <1>1, <1>3, <1>7, <2>2 DEF TaskDone
  <2>. QED BY <2>1, <2>2
<1>18. Scripts' = Scripts
  BY DEF Scripts
<1>. HIDE DEF late
<1>. QED BY <1>1, <1>2, <1>3, <1>13, <1>14, <1>15, <1>16, <1>17, <1>18 DEF ScriptFits

LEMMA MigrationFits ==
    ASSUME InOrder(db), HandlersFit, ScriptFits, MigrationStep
    PROVE  (UNCHANGED db \/ Keeps(db, db')) /\ HandlersFit' /\ ScriptFits'
<1>1. script # NoScript
  <2>1. NoScript.at = "done"
    BY DEF NoScript
  <2>. QED BY <2>1 DEF MigrationStep, MigrateRead, MigrateClear, MigrateSet, DropStagingCells, FitShelf,
                       MigrateCells, AddShelf, MigrateTask, MigrateEnd, MigrateDies, Migrating
<1>2. tx = [s \in Sessions |-> NoTx]
  BY <1>1 DEF ScriptFits
<1>3. tx' = tx
  BY DEF MigrationStep, MigrateRead, MigrateClear, MigrateSet, DropStagingCells, FitShelf, MigrateCells, AddShelf,
         MigrateTask, MigrateEnd, MigrateDies, Write, WriteNothing, transactionVars
<1>4. HandlersFit'
  <2>1. DOMAIN tx' = Sessions /\ \A s \in Sessions : HandlerFits(db', tx'[s])
    BY <1>2, <1>3, NoTxFits
  <2>. QED BY <2>1 DEF HandlersFit
<1>5. (UNCHANGED db \/ Keeps(db, db')) /\ ScriptFits'
  <2>1. CASE MigrateEnd
    BY <2>1 DEF MigrateEnd, WriteNothing, transactionVars, ScriptFits, NoScript
  <2>2. CASE MigrateRead \/ MigrateDies
    BY <1>1, <2>2, ReadingStep
  <2>3. CASE MigrateClear \/ MigrateSet
    BY <1>1, <2>3, StagingStep
  <2>4. CASE (\E s \in Shelves : FitShelf(s)) \/ \E r \in Racks : AddShelf(r)
    BY <1>1, <2>4, LevelStep
  <2>5. CASE DropStagingCells
    BY <1>1, <2>5, DroppingStep
  <2>6. CASE \E s \in Shelves : MigrateCells(s)
    BY <1>1, <2>6, CellsStep
  <2>7. CASE MigrateTask
    BY <1>1, <2>7, TaskStep
  <2>. QED BY <2>1, <2>2, <2>3, <2>4, <2>5, <2>6, <2>7 DEF MigrationStep
<1>. QED BY <1>4, <1>5

----------------------------------------------------------------------------
\* The specification

LEMMA BeginsInOrder == Init => StorageInv
<1>. SUFFICES ASSUME Init PROVE StorageInv
  OBVIOUS
<1>1. tx = [s \in Sessions |-> NoTx]
  BY DEF Init
<1>2. HandlersFit
  BY <1>1, NoTxFits DEF HandlersFit
<1>3. InOrder(db) /\ db \in Begun \cup {old.docs : old \in Older} /\ ScriptFits
  <2>1. CASE db \in Begun /\ script = NoScript
    BY <2>1, StorageAssumption DEF ScriptFits
  <2>2. CASE \E old \in Older : db = old.docs /\ script = Script(old.named, old.received)
    <3>1. PICK old \in Older : db = old.docs /\ script = Script(old.named, old.received)
      BY <2>2
    <3>2. /\ InOrder(db) /\ BeforeCells(db)
          /\ old.named \subseteq Racks /\ old.received \in Shelves \cup {"none"}
      BY <3>1, StorageAssumption
    <3>3. script \in Scripts /\ script.at = "start"
      BY <3>1, <3>2 DEF Script, Scripts
    <3>. QED BY <1>1, <3>1, <3>2, <3>3 DEF ScriptFits
  <2>. QED BY <2>1, <2>2 DEF Init
<1>4. StockIsMoved
  BY <1>3 DEF StockIsMoved
<1>. QED BY <1>2, <1>3, <1>4 DEF StorageInv

\* What stood is what was there and what was received, and a balanced change leaves it so.
LEMMA StillMoved ==
    ASSUME InOrder(db), StockIsMoved, InOrder(db'), Balanced(db, db')
    PROVE  StockIsMoved'
<1>1. PICK d \in Begun \cup {old.docs : old \in Older} :
         \A i \in Items : Found(db, i) + Received(d, i) = Found(d, i) + Received(db, i)
  BY DEF StockIsMoved
<1>2. FitsSchema(db) /\ FitsSchema(db') /\ FitsSchema(d)
  BY StorageAssumption DEF InOrder
<1>3. \A i \in Items : Found(db', i) + Received(db, i) = Found(db, i) + Received(db', i)
  BY DEF Balanced
<1>4. \A e : FitsSchema(e) => \A i \in Items : Found(e, i) \in Int /\ Received(e, i) \in Int
  <2>. SUFFICES ASSUME NEW e, FitsSchema(e), NEW i \in Items
                PROVE  Found(e, i) \in Int /\ Received(e, i) \in Int
    OBVIOUS
  <2>1. /\ Found(e, i) = Total(LooseStock(e, i), Shelves) + Stored(e, i)
        /\ Stored(e, i) \in Int /\ Total(LooseStock(e, i), Shelves) \in Int
    BY StockTotals
  <2>2. Received(e, i) \in Nat
    BY ReceivedNumbers
  <2>. QED BY <2>1, <2>2
<1>5. ASSUME NEW i \in Items
      PROVE  Found(db', i) + Received(d, i) = Found(d, i) + Received(db', i)
  <2>. DEFINE first == Found(d, i)
              then == Found(db, i)
              now == Found(db', i)
              in0 == Received(d, i)
              in1 == Received(db, i)
              in2 == Received(db', i)
  <2>1. first \in Int /\ then \in Int /\ now \in Int /\ in0 \in Int /\ in1 \in Int /\ in2 \in Int
    BY <1>2, <1>4
  <2>2. then + in0 = first + in1 /\ now + in1 = then + in2
    BY <1>1, <1>3
  <2>. HIDE DEF first, then, now, in0, in1, in2
  <2>3. now + in0 = first + in2
    BY <2>1, <2>2
  <2>. QED BY <2>3 DEF first, now, in0, in2
<1>. QED BY <1>1, <1>5 DEF StockIsMoved

LEMMA StepKeepsOrder == StorageInv /\ [Next]_vars => StorageInv' /\ (UNCHANGED db \/ Keeps(db, db'))
<1>. SUFFICES ASSUME StorageInv, [Next]_vars
              PROVE  StorageInv' /\ (UNCHANGED db \/ Keeps(db, db'))
  OBVIOUS
<1>1. InOrder(db) /\ StockIsMoved /\ HandlersFit /\ ScriptFits
  BY DEF StorageInv
<1>2. (UNCHANGED db \/ Keeps(db, db')) /\ HandlersFit' /\ ScriptFits'
  <2>1. CASE script = NoScript /\ (\E s \in Sessions : Handle(s)) /\ UNCHANGED script
    <3>1. PICK s \in Sessions : Handle(s)
      BY <2>1
    <3>2. HandlersFit' /\ (UNCHANGED db \/ Keeps(db, db'))
      BY <1>1, <3>1, HandlingFits
    <3>3. ScriptFits'
      BY <2>1 DEF ScriptFits, NoScript
    <3>. QED BY <3>2, <3>3
  <2>2. CASE MigrationStep
    BY <1>1, <2>2, MigrationFits
  <2>3. CASE UNCHANGED vars
    <3>1. UNCHANGED <<db, tx, script>>
      BY <2>3 DEF vars, transactionVars
    <3>2. HandlersFit'
      BY <1>1, <3>1 DEF HandlersFit
    <3>3. ScriptFits'
      BY <1>1, <3>1 DEF ScriptFits, Levelled, CellsDone, TaskDone, LiveShelves, Fitted, IsFull, ShelvesOf, Storing,
                        Divided, Scripts
    <3>. QED BY <3>1, <3>2, <3>3
  <2>. QED BY <2>1, <2>2, <2>3 DEF Next
<1>3. InOrder(db')
  BY <1>1, <1>2 DEF Keeps
<1>4. StockIsMoved'
  <2>1. CASE UNCHANGED db
    BY <1>1, <2>1 DEF StockIsMoved
  <2>2. CASE Keeps(db, db')
    BY <1>1, <1>3, <2>2, StillMoved DEF Keeps
  <2>. QED BY <1>2, <2>1, <2>2
<1>. QED BY <1>2, <1>3, <1>4 DEF StorageInv

LEMMA AlwaysInOrder == Spec => []StorageInv
BY BeginsInOrder, StepKeepsOrder, PTL DEF Spec

\* Each document holds what its schema allows, whatever handlers and script write.
THEOREM TypeCorrect == Spec => []TypeOK
<1>1. StorageInv => TypeOK
  BY DEF StorageInv, InOrder, TypeOK
<1>. QED BY <1>1, AlwaysInOrder, PTL

\* However many managers edit the layout at once, and whatever two of them read before
\* they write, no rack is left without its zone, no shelf without its rack and no cell
\* without its shelf: of two edits on one layout only one commits.
THEOREM OrphansNever == Spec => []NoOrphans
<1>1. StorageInv => NoOrphans
  BY DEF StorageInv, InOrder, NoOrphans
<1>. QED BY <1>1, AlwaysInOrder, PTL

\* A cell that holds stock is never given up: an edit looks for stock before it writes, and
\* goods that come down while it does lock the cell it would write.
THEOREM StockStaysHeld == Spec => []CellStockIsHeld
<1>1. StorageInv => CellStockIsHeld
  BY DEF StorageInv, InOrder, CellStockIsHeld
<1>. QED BY <1>1, AlwaysInOrder, PTL

\* What lies in cells is what the task has counted off and the assignments name, for any
\* number of workers who scan the same line and any order in which they commit.
THEOREM CellsExplained == Spec => []CellsAreExplained
<1>1. StorageInv => CellsAreExplained
  BY DEF StorageInv, InOrder, CellsAreExplained
<1>. QED BY <1>1, AlwaysInOrder, PTL

\* Putting away neither makes stock nor loses any.
THEOREM StockConserved == Spec => []StockIsMoved
<1>1. StorageInv => StockIsMoved
  BY DEF StorageInv
<1>. QED BY <1>1, AlwaysInOrder, PTL

\* Goods come down only in a cell that has room for them as it then is, unless they
\* give those that lie there another size: the room was counted in the transaction that
\* locks the cell, and so still is when it commits.
THEOREM RoomIsKept == Spec => NeverOverfilled
<1>1. StorageInv /\ [Next]_vars
         => [\A s \in Shelves, b \in Bays :
                BroughtIn(db, db', s, b) /\ ~Resized(db, db', s, b)
                   => Volume(db', s, b) <= db'[Cell(s, b)].width]_vars
  <2>. SUFFICES ASSUME StorageInv, [Next]_vars PROVE NoneOverfilled(db, db')
    BY DEF NoneOverfilled
  <2>1. UNCHANGED db \/ Keeps(db, db')
    BY StepKeepsOrder
  <2>2. CASE UNCHANGED db
    BY <2>2, NothingBrought DEF StorageInv, InOrder, SameCells
  <2>3. CASE Keeps(db, db')
    BY <2>3 DEF Keeps
  <2>. QED BY <2>1, <2>2, <2>3
<1>. QED BY <1>1, AlwaysInOrder, PTL DEF Spec, NeverOverfilled

\* However often the script dies and is begun again, one that ends leaves a floor the
\* handlers can work on.
THEOREM MigrationEndsWhole == Spec => []MigrationIsWhole
<1>1. StorageInv => MigrationIsWhole
  <2>. SUFFICES ASSUME StorageInv, Migrating("end") PROVE
          /\ Cardinality(StagingRacks(db)) <= 1
          /\ \A s \in LiveShelves :
                /\ CellsOf(db, s) = IF s \in Storing THEN 1..db[Template] ELSE {}
                /\ \A b \in CellsOf(db, s) : db[Cell(s, b)].width * db[Template] = db[Shelf(s)].width
          /\ \A r \in Racks : db[Rack(r)].live => Cardinality(ShelvesOf(r)) >= LevelCount
          /\ db[Task].status = "PENDING" /\ script.received # "none" => db[Task].source # "none"
    BY DEF MigrationIsWhole
  <2>1. script # NoScript /\ script.at = "end"
    BY DEF Migrating, NoScript
  <2>2. Levelled /\ CellsDone /\ script.todo = {} /\ TaskDone /\ FitsSchema(db)
    BY <2>1 DEF StorageInv, ScriptFits, InOrder
  <2>3. \A s \in LiveShelves : /\ db[Shelf(s)].staging = (db[Shelf(s)].rack = script.preferred)
                               /\ db[Shelf(s)].width \in Widths
    <3>. SUFFICES ASSUME NEW s \in LiveShelves
                  PROVE  /\ db[Shelf(s)].staging = (db[Shelf(s)].rack = script.preferred)
                         /\ db[Shelf(s)].width \in Widths
      OBVIOUS
    <3>1. db[Shelf(s)] \in ShelfSchema /\ db[Shelf(s)].live /\ db[Shelf(s)] = Fitted(db[Shelf(s)])
      BY <2>2, DocForms DEF LiveShelves, Levelled
    <3>. QED BY <3>1, LiveShelfForm
  <2>4. Cardinality(StagingRacks(db)) <= 1
    <3>1. StagingRacks(db) \subseteq {script.preferred}
      BY <2>3 DEF StagingRacks, LiveShelves
    <3>2. StagingRacks(db) = {} \/ StagingRacks(db) = {script.preferred}
      BY <3>1
    <3>3. Cardinality({}) = 0 /\ Cardinality({script.preferred}) = 1
      BY FS_EmptySet, FS_Singleton
    <3>. QED BY <3>2, <3>3
  <2>5. ASSUME NEW s \in LiveShelves
        PROVE  /\ CellsOf(db, s) = IF s \in Storing THEN 1..db[Template] ELSE {}
               /\ \A b \in CellsOf(db, s) : db[Cell(s, b)].width * db[Template] = db[Shelf(s)].width
    <3>1. CASE s \in Storing
      <4>1. Divided(s)
        BY <2>2, <3>1 DEF CellsDone
      <4>2. db[Template] \in 1..MaxBays /\ db[Shelf(s)].width \in Widths
        BY <2>2, <2>3, DocForms DEF Bays
      <4>3. (db[Shelf(s)].width \div db[Template]) * db[Template] = db[Shelf(s)].width
        BY <4>2, LayoutAssumption
      <4>4. \A b \in CellsOf(db, s) : db[Cell(s, b)].width = db[Shelf(s)].width \div db[Template]
        BY <4>1 DEF Divided, CellsOf
      <4>. QED BY <3>1, <4>1, <4>3, <4>4 DEF Divided
    <3>2. CASE s \notin Storing
      BY <2>2, <3>2 DEF CellsDone
    <3>. QED BY <3>1, <3>2
  <2>6. \A r \in Racks : db[Rack(r)].live => Cardinality(ShelvesOf(r)) >= LevelCount
    BY <2>2 DEF Levelled, IsFull
  <2>7. db[Task].status = "PENDING" /\ script.received # "none" => db[Task].source # "none"
    BY <2>2 DEF TaskDone
  <2>. QED BY <2>4, <2>5, <2>6, <2>7
<1>. QED BY <1>1, AlwaysInOrder, PTL

----------------------------------------------------------------------------
\* The floor plan: rectangles

Rects == [x : Int, y : Int, w : Int, h : Int]

\* A rectangle that covers ground.
IsGround(r) == r \in Rects /\ r.w > 0 /\ r.h > 0

\* What a rectangle is made of.
LEMMA RectFields ==
    ASSUME NEW x \in Int, NEW y \in Int, NEW w \in Int, NEW h \in Int
    PROVE  /\ Rect(x, y, w, h) \in Rects
           /\ Rect(x, y, w, h).x = x /\ Rect(x, y, w, h).y = y
           /\ Rect(x, y, w, h).w = w /\ Rect(x, y, w, h).h = h
BY DEF Rect, Rects

\* Turning leaves the corner, and exchanges the sides or not.
LEMMA TurnedFields ==
    ASSUME NEW x \in Int, NEW y \in Int, NEW w \in Int, NEW h \in Int, NEW o
    PROVE  /\ Turned(x, y, w, h, o) \in Rects
           /\ w > 0 /\ h > 0 <=> IsGround(Turned(x, y, w, h, o))
<1>1. Turned(x, y, w, h, o) = Rect(x, y, w, h) \/ Turned(x, y, w, h, o) = Rect(x, y, h, w)
  BY DEF Turned
<1>2. /\ Rect(x, y, w, h) \in Rects /\ Rect(x, y, w, h).w = w /\ Rect(x, y, w, h).h = h
      /\ Rect(x, y, h, w) \in Rects /\ Rect(x, y, h, w).w = h /\ Rect(x, y, h, w).h = w
  BY RectFields
<1>. QED BY <1>1, <1>2 DEF IsGround

\* One rectangle encloses another exactly if it has all of its square metres.
LEMMA EnclosesIsSubset ==
    ASSUME NEW a \in Rects, NEW b, IsGround(b)
    PROVE  Encloses(a, b) <=> Squares(b) \subseteq Squares(a)
<1>1. /\ a.x \in Int /\ a.y \in Int /\ a.w \in Int /\ a.h \in Int
      /\ b.x \in Int /\ b.y \in Int /\ b.w \in Int /\ b.h \in Int /\ b.w > 0 /\ b.h > 0
  BY DEF Rects, IsGround
<1>2. ASSUME Encloses(a, b) PROVE Squares(b) \subseteq Squares(a)
  <2>1. /\ b.x..(b.x + b.w - 1) \subseteq a.x..(a.x + a.w - 1)
        /\ b.y..(b.y + b.h - 1) \subseteq a.y..(a.y + a.h - 1)
    BY <1>1, <1>2 DEF Encloses
  <2>. QED BY <2>1 DEF Squares
<1>3. ASSUME Squares(b) \subseteq Squares(a) PROVE Encloses(a, b)
  <2>1. /\ b.x \in b.x..(b.x + b.w - 1) /\ b.y \in b.y..(b.y + b.h - 1)
        /\ b.x + b.w - 1 \in b.x..(b.x + b.w - 1) /\ b.y + b.h - 1 \in b.y..(b.y + b.h - 1)
    BY <1>1
  <2>2. /\ <<b.x, b.y>> \in Squares(a)
        /\ <<b.x + b.w - 1, b.y + b.h - 1>> \in Squares(a)
    BY <1>3, <2>1 DEF Squares
  <2>3. /\ b.x \in a.x..(a.x + a.w - 1) /\ b.y \in a.y..(a.y + a.h - 1)
        /\ b.x + b.w - 1 \in a.x..(a.x + a.w - 1) /\ b.y + b.h - 1 \in a.y..(a.y + a.h - 1)
    BY <2>2 DEF Squares
  <2>. QED BY <1>1, <2>3 DEF Encloses
<1>. QED BY <1>2, <1>3

\* Two rectangles overlap exactly if they have a square metre in common.
LEMMA OverlapsIsShared ==
    ASSUME NEW a, IsGround(a), NEW b, IsGround(b)
    PROVE  Overlaps(a, b) <=> Squares(a) \cap Squares(b) # {}
<1>1. /\ a.x \in Int /\ a.y \in Int /\ a.w \in Int /\ a.h \in Int /\ a.w > 0 /\ a.h > 0
      /\ b.x \in Int /\ b.y \in Int /\ b.w \in Int /\ b.h \in Int /\ b.w > 0 /\ b.h > 0
  BY DEF Rects, IsGround
<1>2. ASSUME Overlaps(a, b) PROVE Squares(a) \cap Squares(b) # {}
  <2>1. PICK u \in {a.x, b.x} : u \in a.x..(a.x + a.w - 1) /\ u \in b.x..(b.x + b.w - 1)
    BY <1>1, <1>2 DEF Overlaps
  <2>2. PICK v \in {a.y, b.y} : v \in a.y..(a.y + a.h - 1) /\ v \in b.y..(b.y + b.h - 1)
    BY <1>1, <1>2 DEF Overlaps
  <2>3. <<u, v>> \in Squares(a) /\ <<u, v>> \in Squares(b)
    BY <2>1, <2>2 DEF Squares
  <2>. QED BY <2>3
<1>3. ASSUME Squares(a) \cap Squares(b) # {} PROVE Overlaps(a, b)
  <2>1. PICK p : p \in Squares(a) /\ p \in Squares(b)
    BY <1>3
  <2>2. /\ p[1] \in a.x..(a.x + a.w - 1) /\ p[1] \in b.x..(b.x + b.w - 1)
        /\ p[2] \in a.y..(a.y + a.h - 1) /\ p[2] \in b.y..(b.y + b.h - 1)
    BY <2>1 DEF Squares
  <2>. QED BY <1>1, <2>2 DEF Overlaps
<1>. QED BY <1>2, <1>3

\* A rectangle covers ground exactly if it has a square metre.
LEMMA GroundHasSquares ==
    ASSUME NEW a \in Rects
    PROVE  IsGround(a) <=> Squares(a) # {}
<1>1. /\ a.x \in Int /\ a.y \in Int /\ a.w \in Int /\ a.h \in Int
  BY DEF Rects
<1>2. ASSUME IsGround(a) PROVE Squares(a) # {}
  <2>1. a.x \in a.x..(a.x + a.w - 1) /\ a.y \in a.y..(a.y + a.h - 1)
    BY <1>1, <1>2 DEF IsGround
  <2>2. <<a.x, a.y>> \in Squares(a)
    BY <2>1 DEF Squares
  <2>. QED BY <2>2
<1>3. ASSUME Squares(a) # {} PROVE IsGround(a)
  <2>1. PICK p : p \in Squares(a)
    BY <1>3
  <2>2. p[1] \in a.x..(a.x + a.w - 1) /\ p[2] \in a.y..(a.y + a.h - 1)
    BY <2>1 DEF Squares
  <2>. QED BY <1>1, <2>2 DEF IsGround
<1>. QED BY <1>2, <1>3

\* A rectangle encloses a point exactly if it is one of its points.
LEMMA EnclosesPoint ==
    ASSUME NEW a \in Rects, NEW p \in Point
    PROVE  Encloses(a, PointRect(p)) <=> p \in Points(a)
<1>1. /\ a.x \in Int /\ a.y \in Int /\ a.w \in Int /\ a.h \in Int /\ p[1] \in Int /\ p[2] \in Int
      /\ p = <<p[1], p[2]>>
  BY DEF Rects, Point
<1>2. /\ PointRect(p).x = p[1] /\ PointRect(p).y = p[2]
      /\ PointRect(p).w = 0 /\ PointRect(p).h = 0
  BY <1>1 DEF PointRect, Rect
<1>3. Encloses(a, PointRect(p)) <=> p[1] \in a.x..(a.x + a.w) /\ p[2] \in a.y..(a.y + a.h)
  BY <1>1, <1>2 DEF Encloses
<1>4. p \in Points(a) <=> p[1] \in a.x..(a.x + a.w) /\ p[2] \in a.y..(a.y + a.h)
  BY <1>1 DEF Points
<1>. QED BY <1>3, <1>4

----------------------------------------------------------------------------
\* Layouts

\* What a layout is made of; sizes of zones and aisles are those of a form, valid or not.
IsLayout(l) ==
    /\ l = [canvas |-> l.canvas, template |-> l.template, zone |-> l.zone, rack |-> l.rack,
            aisle |-> l.aisle, gate |-> l.gate]
    /\ l.canvas \in [w : Nat \ {0}, h : Nat \ {0}]
    /\ l.template \in [w : Nat \ {0}, d : Nat \ {0}]
    /\ \A z \in DOMAIN l.zone :
          l.zone[z] \in [x : Int, y : Int, w : Int, h : Int, rotation : Rotations]
    /\ \A r \in DOMAIN l.rack :
          l.rack[r] \in [zone : ZoneIds, x : Int, y : Int, rotation : Rotations, access : Point]
    /\ \A a \in DOMAIN l.aisle :
          l.aisle[a] \in [x : Int, y : Int, w : Int, h : Int, type : AisleTypes]
    /\ DOMAIN l.aisle \subseteq Nat
    /\ \A g \in DOMAIN l.gate : l.gate[g] \in Point

\* The canvas and the racks cover ground, and what passes the rules of size.
LEMMA LayoutRects ==
    ASSUME NEW l, IsLayout(l)
    PROVE  /\ IsGround(CanvasRect(l))
           /\ \A z \in DOMAIN l.zone :
                 /\ ZoneRect(l, z) \in Rects
                 /\ IsGround(ZoneRect(l, z)) <=> ~(l.zone[z].w <= 0 \/ l.zone[z].h <= 0)
           /\ \A a \in DOMAIN l.aisle :
                 /\ AisleRect(l, a) \in Rects
                 /\ IsGround(AisleRect(l, a)) <=> ~(l.aisle[a].w <= 0 \/ l.aisle[a].h <= 0)
           /\ \A r \in DOMAIN l.rack : IsGround(RackRect(l, r))
<1>1. IsGround(CanvasRect(l))
  <2>1. /\ l.canvas.w \in Int /\ l.canvas.h \in Int /\ l.canvas.w > 0 /\ l.canvas.h > 0
    BY DEF IsLayout
  <2>. QED BY <2>1, RectFields DEF CanvasRect, IsGround
<1>2. ASSUME NEW z \in DOMAIN l.zone
      PROVE  /\ ZoneRect(l, z) \in Rects
             /\ IsGround(ZoneRect(l, z)) <=> ~(l.zone[z].w <= 0 \/ l.zone[z].h <= 0)
  <2>1. /\ l.zone[z].x \in Int /\ l.zone[z].y \in Int /\ l.zone[z].w \in Int /\ l.zone[z].h \in Int
    BY DEF IsLayout
  <2>. QED BY <2>1, TurnedFields DEF ZoneRect
<1>3. ASSUME NEW a \in DOMAIN l.aisle
      PROVE  /\ AisleRect(l, a) \in Rects
             /\ IsGround(AisleRect(l, a)) <=> ~(l.aisle[a].w <= 0 \/ l.aisle[a].h <= 0)
  <2>1. /\ l.aisle[a].x \in Int /\ l.aisle[a].y \in Int /\ l.aisle[a].w \in Int /\ l.aisle[a].h \in Int
    BY DEF IsLayout
  <2>2. /\ AisleRect(l, a) \in Rects
        /\ AisleRect(l, a).w = l.aisle[a].w /\ AisleRect(l, a).h = l.aisle[a].h
    BY <2>1 DEF AisleRect, Rect, Rects
  <2>. QED BY <2>1, <2>2 DEF IsGround
<1>4. ASSUME NEW r \in DOMAIN l.rack PROVE IsGround(RackRect(l, r))
  <2>1. /\ l.rack[r].x \in Int /\ l.rack[r].y \in Int
        /\ l.template.w \in Int /\ l.template.d \in Int /\ l.template.w > 0 /\ l.template.d > 0
    BY DEF IsLayout
  <2>. QED BY <2>1, TurnedFields DEF RackRect
<1>. QED BY <1>1, <1>2, <1>3, <1>4

\* What each group of rules says, where none of them is broken.
LEMMA NoSizeIssues ==
    ASSUME NEW l, IsLayout(l)
    PROVE  SizeIssues(l) = {} <=>
               /\ \A z \in DOMAIN l.zone : IsGround(ZoneRect(l, z))
               /\ \A a \in DOMAIN l.aisle : IsGround(AisleRect(l, a))
<1>1. {g \in DOMAIN l.canvas : l.canvas[g] <= 0} = {}
  BY DEF IsLayout
<1>2. {g \in DOMAIN l.template : l.template[g] <= 0} = {}
  BY DEF IsLayout
<1>3. SizeIssues(l) = {} <=>
          /\ {y \in DOMAIN l.zone : l.zone[y].w <= 0 \/ l.zone[y].h <= 0} = {}
          /\ {b \in DOMAIN l.aisle : l.aisle[b].w <= 0 \/ l.aisle[b].h <= 0} = {}
  BY <1>1, <1>2 DEF SizeIssues
<1>4. {y \in DOMAIN l.zone : l.zone[y].w <= 0 \/ l.zone[y].h <= 0} = {}
      <=> \A z \in DOMAIN l.zone : IsGround(ZoneRect(l, z))
  BY LayoutRects
<1>5. {b \in DOMAIN l.aisle : l.aisle[b].w <= 0 \/ l.aisle[b].h <= 0} = {}
      <=> \A a \in DOMAIN l.aisle : IsGround(AisleRect(l, a))
  BY LayoutRects
<1>. QED BY <1>3, <1>4, <1>5

\* Nothing lies off the canvas.
LEMMA NoCanvasIssues ==
    ASSUME NEW l, IsLayout(l)
    PROVE  CanvasIssues(l) = {} <=>
               /\ \A z \in DOMAIN l.zone : Encloses(CanvasRect(l), ZoneRect(l, z))
               /\ \A a \in DOMAIN l.aisle : Encloses(CanvasRect(l), AisleRect(l, a))
               /\ \A g \in DOMAIN l.gate : l.gate[g] \in Points(CanvasRect(l))
<1>1. CanvasIssues(l) = {} <=>
          /\ {y \in DOMAIN l.zone : ~Encloses(CanvasRect(l), ZoneRect(l, y))} = {}
          /\ {b \in DOMAIN l.aisle : ~Encloses(CanvasRect(l), AisleRect(l, b))} = {}
          /\ {h \in DOMAIN l.gate : \/ l.gate[h][1] \notin 0..l.canvas.w
                                    \/ l.gate[h][2] \notin 0..l.canvas.h} = {}
  BY DEF CanvasIssues
<1>2. ASSUME NEW g \in DOMAIN l.gate
      PROVE  l.gate[g] \in Points(CanvasRect(l))
                 <=> l.gate[g][1] \in 0..l.canvas.w /\ l.gate[g][2] \in 0..l.canvas.h
  <2>1. /\ l.canvas.w \in Int /\ l.canvas.h \in Int
        /\ l.gate[g] = <<l.gate[g][1], l.gate[g][2]>>
    BY DEF IsLayout, Point
  <2>2. Points(CanvasRect(l)) = (0..l.canvas.w) \X (0..l.canvas.h)
    BY <2>1 DEF Points, CanvasRect, Rect
  <2>. QED BY <2>1, <2>2
<1>. QED BY <1>1, <1>2

\* Every rack stands where it may.
LEMMA NoRackIssues ==
    ASSUME NEW l, IsLayout(l)
    PROVE  RackIssues(l) = {} <=>
               \A r \in DOMAIN l.rack :
                  /\ l.rack[r].zone \in DOMAIN l.zone
                  /\ Encloses(ZoneRect(l, l.rack[r].zone), RackRect(l, r))
                  /\ \A a \in DOMAIN l.aisle : ~Overlaps(RackRect(l, r), AisleRect(l, a))
                  /\ \E a \in DOMAIN l.aisle : Encloses(AisleRect(l, a), PointRect(l.rack[r].access))
                  /\ \A q \in DOMAIN l.rack \ {r} : ~Overlaps(RackRect(l, r), RackRect(l, q))
<1>. DEFINE Zoned(r) ==
              IF l.rack[r].zone \notin DOMAIN l.zone THEN {Issue("RACK", r, "RACK_ZONE_NOT_FOUND")}
              ELSE IF ~Encloses(ZoneRect(l, l.rack[r].zone), RackRect(l, r))
                   THEN {Issue("RACK", r, "RACK_OUTSIDE_ZONE")} ELSE {}
            Blocked(r) ==
              IF \E a \in DOMAIN l.aisle : Overlaps(RackRect(l, r), AisleRect(l, a))
              THEN {Issue("RACK", r, "RACK_OVERLAPS_AISLE")} ELSE {}
            Cut(r) ==
              IF \E a \in DOMAIN l.aisle : Encloses(AisleRect(l, a), PointRect(l.rack[r].access))
              THEN {} ELSE {Issue("RACK", r, "RACK_ACCESS_POINT_NOT_CONNECTED")}
            Shared(r) ==
              IF \E q \in DOMAIN l.rack \ {r} : Overlaps(RackRect(l, r), RackRect(l, q))
              THEN {Issue("RACK", r, "RACK_OVERLAPS_RACK")} ELSE {}
<1>1. RackIssues(l) = UNION {Zoned(r) \cup Blocked(r) \cup Cut(r) \cup Shared(r) : r \in DOMAIN l.rack}
  BY DEF RackIssues
<1>2. ASSUME NEW r \in DOMAIN l.rack
      PROVE  Zoned(r) \cup Blocked(r) \cup Cut(r) \cup Shared(r) = {} <=>
                  /\ l.rack[r].zone \in DOMAIN l.zone
                  /\ Encloses(ZoneRect(l, l.rack[r].zone), RackRect(l, r))
                  /\ \A a \in DOMAIN l.aisle : ~Overlaps(RackRect(l, r), AisleRect(l, a))
                  /\ \E a \in DOMAIN l.aisle : Encloses(AisleRect(l, a), PointRect(l.rack[r].access))
                  /\ \A q \in DOMAIN l.rack \ {r} : ~Overlaps(RackRect(l, r), RackRect(l, q))
  <2>1. Zoned(r) = {} <=> /\ l.rack[r].zone \in DOMAIN l.zone
                          /\ Encloses(ZoneRect(l, l.rack[r].zone), RackRect(l, r))
    OBVIOUS
  <2>2. Blocked(r) = {} <=> \A a \in DOMAIN l.aisle : ~Overlaps(RackRect(l, r), AisleRect(l, a))
    OBVIOUS
  <2>3. Cut(r) = {} <=> \E a \in DOMAIN l.aisle : Encloses(AisleRect(l, a), PointRect(l.rack[r].access))
    OBVIOUS
  <2>4. Shared(r) = {} <=> \A q \in DOMAIN l.rack \ {r} : ~Overlaps(RackRect(l, r), RackRect(l, q))
    OBVIOUS
  <2>5. Zoned(r) \cup Blocked(r) \cup Cut(r) \cup Shared(r) = {} <=>
            Zoned(r) = {} /\ Blocked(r) = {} /\ Cut(r) = {} /\ Shared(r) = {}
    <3>. HIDE DEF Zoned, Blocked, Cut, Shared
    <3>. QED OBVIOUS
  <2>. HIDE DEF Zoned, Blocked, Cut, Shared
  <2>. QED BY <2>1, <2>2, <2>3, <2>4, <2>5
<1>. HIDE DEF Zoned, Blocked, Cut, Shared
<1>3. RackIssues(l) = {} <=>
          \A r \in DOMAIN l.rack : Zoned(r) \cup Blocked(r) \cup Cut(r) \cup Shared(r) = {}
  BY <1>1
<1>. QED BY <1>2, <1>3

\* The rules are broken nowhere exactly if the layout is sound.
LEMMA IssuesAreFlaws ==
    ASSUME NEW l, IsLayout(l)
    PROVE  Issues(l) = {} <=> Sound(l)
<1>. DEFINE Sized == /\ \A z \in DOMAIN l.zone : IsGround(ZoneRect(l, z))
                     /\ \A a \in DOMAIN l.aisle : IsGround(AisleRect(l, a))
            Kept(r) ==
                /\ l.rack[r].zone \in DOMAIN l.zone
                /\ Encloses(ZoneRect(l, l.rack[r].zone), RackRect(l, r))
                /\ \A a \in DOMAIN l.aisle : ~Overlaps(RackRect(l, r), AisleRect(l, a))
                /\ \E a \in DOMAIN l.aisle : Encloses(AisleRect(l, a), PointRect(l.rack[r].access))
                /\ \A q \in DOMAIN l.rack \ {r} : ~Overlaps(RackRect(l, r), RackRect(l, q))
            Placing(r) ==
                /\ l.rack[r].zone \in DOMAIN l.zone
                /\ Squares(RackRect(l, r)) \subseteq Squares(ZoneRect(l, l.rack[r].zone))
                /\ \A a \in DOMAIN l.aisle : Squares(RackRect(l, r)) \cap Squares(AisleRect(l, a)) = {}
                /\ \A q \in DOMAIN l.rack \ {r} : Squares(RackRect(l, r)) \cap Squares(RackRect(l, q)) = {}
                /\ \E a \in DOMAIN l.aisle : l.rack[r].access \in Points(AisleRect(l, a))
<1>1. Issues(l) = {} <=> SizeIssues(l) = {} /\ CanvasIssues(l) = {} /\ RackIssues(l) = {}
  BY DEF Issues
<1>2. Sound(l) => Sized
  BY LayoutRects, GroundHasSquares DEF Sound
<1>3. Issues(l) = {} => Sized
  BY <1>1, NoSizeIssues
<1>4. ASSUME Sized PROVE Issues(l) = {} <=> Sound(l)
  <2>1. SizeIssues(l) = {}
    BY <1>4, NoSizeIssues
  <2>2. \A z \in DOMAIN l.zone : /\ Squares(ZoneRect(l, z)) # {}
                                 /\ Squares(ZoneRect(l, z)) \subseteq Squares(CanvasRect(l))
                                    <=> Encloses(CanvasRect(l), ZoneRect(l, z))
    BY <1>4, LayoutRects, GroundHasSquares, EnclosesIsSubset DEF IsGround
  <2>3. \A a \in DOMAIN l.aisle : /\ Squares(AisleRect(l, a)) # {}
                                  /\ Squares(AisleRect(l, a)) \subseteq Squares(CanvasRect(l))
                                     <=> Encloses(CanvasRect(l), AisleRect(l, a))
    BY <1>4, LayoutRects, GroundHasSquares, EnclosesIsSubset DEF IsGround
  <2>4. ASSUME NEW r \in DOMAIN l.rack
        PROVE  Kept(r) <=> Placing(r)
    <3>1. IsGround(RackRect(l, r))
      BY LayoutRects
    <3>2. l.rack[r].zone \in DOMAIN l.zone =>
              (Encloses(ZoneRect(l, l.rack[r].zone), RackRect(l, r))
               <=> Squares(RackRect(l, r)) \subseteq Squares(ZoneRect(l, l.rack[r].zone)))
      BY <3>1, LayoutRects, EnclosesIsSubset
    <3>3. \A a \in DOMAIN l.aisle : Overlaps(RackRect(l, r), AisleRect(l, a))
                <=> Squares(RackRect(l, r)) \cap Squares(AisleRect(l, a)) # {}
      BY <3>1, <1>4, OverlapsIsShared
    <3>4. \A q \in DOMAIN l.rack : Overlaps(RackRect(l, r), RackRect(l, q))
                <=> Squares(RackRect(l, r)) \cap Squares(RackRect(l, q)) # {}
      BY <3>1, LayoutRects, OverlapsIsShared
    <3>5. l.rack[r].access \in Point
      BY DEF IsLayout
    <3>6. \A a \in DOMAIN l.aisle : Encloses(AisleRect(l, a), PointRect(l.rack[r].access))
                <=> l.rack[r].access \in Points(AisleRect(l, a))
      BY <3>5, LayoutRects, EnclosesPoint
    <3>. QED BY <3>2, <3>3, <3>4, <3>6
  <2>5. CanvasIssues(l) = {} <=>
            /\ \A z \in DOMAIN l.zone : Encloses(CanvasRect(l), ZoneRect(l, z))
            /\ \A a \in DOMAIN l.aisle : Encloses(CanvasRect(l), AisleRect(l, a))
            /\ \A g \in DOMAIN l.gate : l.gate[g] \in Points(CanvasRect(l))
    BY NoCanvasIssues
  <2>6. RackIssues(l) = {} <=> \A r \in DOMAIN l.rack : Placing(r)
    BY <2>4, NoRackIssues
  <2>7. Sound(l) <=>
            /\ \A z \in DOMAIN l.zone : Encloses(CanvasRect(l), ZoneRect(l, z))
            /\ \A a \in DOMAIN l.aisle : Encloses(CanvasRect(l), AisleRect(l, a))
            /\ \A g \in DOMAIN l.gate : l.gate[g] \in Points(CanvasRect(l))
            /\ \A r \in DOMAIN l.rack : Placing(r)
    BY <2>2, <2>3 DEF Sound
  <2>. QED BY <1>1, <2>1, <2>5, <2>6, <2>7
<1>. QED BY <1>2, <1>3, <1>4

----------------------------------------------------------------------------
\* Edits

\* A thing put leaves the others.
LEMMA PutThings ==
    ASSUME NEW things, NEW ids, NEW forms, NEW t \in Put(things, ids, forms)
    PROVE  /\ DOMAIN t \subseteq DOMAIN things \cup ids
           /\ \A i \in DOMAIN t : t[i] \in forms \/ (i \in DOMAIN things /\ t[i] = things[i])
<1>1. PICK i \in ids, f \in forms : t = WithThing(things, i, f)
  BY DEF Put
<1>. QED BY <1>1 DEF WithThing

\* A thing taken leaves the others.
LEMMA TakenThings ==
    ASSUME NEW things, NEW ids, NEW t \in Taken(things, ids)
    PROVE  /\ DOMAIN t \subseteq DOMAIN things
           /\ \A i \in DOMAIN t : t[i] = things[i]
<1>1. PICK i \in ids : t = Restrict(things, DOMAIN things \ {i})
  BY DEF Taken
<1>. QED BY <1>1 DEF Restrict

IsRecord(l) ==
    l = [canvas |-> l.canvas, template |-> l.template, zone |-> l.zone, rack |-> l.rack,
         aisle |-> l.aisle, gate |-> l.gate]

\* An edit of one kind of thing leaves the others.
LEMMA OneKindEdited ==
    ASSUME NEW l, IsRecord(l), NEW v
    PROVE  /\ [l EXCEPT !.canvas = v]
                  = [canvas |-> v, template |-> l.template, zone |-> l.zone, rack |-> l.rack,
                     aisle |-> l.aisle, gate |-> l.gate]
           /\ [l EXCEPT !.template = v]
                  = [canvas |-> l.canvas, template |-> v, zone |-> l.zone, rack |-> l.rack,
                     aisle |-> l.aisle, gate |-> l.gate]
           /\ [l EXCEPT !.zone = v]
                  = [canvas |-> l.canvas, template |-> l.template, zone |-> v, rack |-> l.rack,
                     aisle |-> l.aisle, gate |-> l.gate]
           /\ [l EXCEPT !.rack = v]
                  = [canvas |-> l.canvas, template |-> l.template, zone |-> l.zone, rack |-> v,
                     aisle |-> l.aisle, gate |-> l.gate]
           /\ [l EXCEPT !.aisle = v]
                  = [canvas |-> l.canvas, template |-> l.template, zone |-> l.zone, rack |-> l.rack,
                     aisle |-> v, gate |-> l.gate]
           /\ [l EXCEPT !.gate = v]
                  = [canvas |-> l.canvas, template |-> l.template, zone |-> l.zone, rack |-> l.rack,
                     aisle |-> l.aisle, gate |-> v]
BY DEF IsRecord

\* Whatever is edited, what comes of it has its type.
LEMMA StepsAreLayouts ==
    ASSUME NEW l, IsLayout(l), NEW m \in Steps(l)
    PROVE  IsLayout(m)
<1>. USE GeometryAssumption
<1>1. IsRecord(l)
  BY DEF IsLayout, IsRecord
<1>2. CASE m \in ZonePlans(l)
  <2>1. PICK v : /\ m = [l EXCEPT !.zone = v]
                 /\ \/ v \in Put(l.zone, ZoneIds, ZoneForms)
                    \/ v \in Taken(l.zone, {y \in DOMAIN l.zone :
                                                \A r \in DOMAIN l.rack : l.rack[r].zone # y})
    BY <1>2 DEF ZonePlans
  <2>2. \A z \in DOMAIN v : v[z] \in ZoneForms \/ (z \in DOMAIN l.zone /\ v[z] = l.zone[z])
    BY <2>1, PutThings, TakenThings
  <2>. QED BY <1>1, <2>1, <2>2, OneKindEdited DEF IsLayout
<1>3. CASE m \in RackPlans(l)
  <2>1. PICK v : /\ m = [l EXCEPT !.rack = v]
                 /\ \/ v \in Put(l.rack, RackIds, {f \in RackForms : f.zone \in DOMAIN l.zone})
                    \/ v \in Taken(l.rack, DOMAIN l.rack)
    BY <1>3 DEF RackPlans
  <2>2. \A r \in DOMAIN v : v[r] \in RackForms \/ (r \in DOMAIN l.rack /\ v[r] = l.rack[r])
    BY <2>1, PutThings, TakenThings
  <2>. QED BY <1>1, <2>1, <2>2, OneKindEdited DEF IsLayout
<1>4. CASE m \in AislePlans(l)
  <2>1. PICK v : /\ m = [l EXCEPT !.aisle = v]
                 /\ \/ v \in Put(l.aisle, Aisles, AisleForms)
                    \/ v \in Taken(l.aisle, DOMAIN l.aisle)
    BY <1>4 DEF AislePlans
  <2>2. /\ \A a \in DOMAIN v : v[a] \in AisleForms \/ (a \in DOMAIN l.aisle /\ v[a] = l.aisle[a])
        /\ DOMAIN v \subseteq DOMAIN l.aisle \cup Aisles
    BY <2>1, PutThings, TakenThings
  <2>. QED BY <1>1, <2>1, <2>2, OneKindEdited DEF IsLayout
<1>5. CASE m \in GatePlans(l)
  <2>1. PICK v : /\ m = [l EXCEPT !.gate = v]
                 /\ \/ v \in Put(l.gate, Gates, GateForms)
                    \/ v \in Taken(l.gate, DOMAIN l.gate)
    BY <1>5 DEF GatePlans
  <2>2. \A g \in DOMAIN v : v[g] \in GateForms \/ (g \in DOMAIN l.gate /\ v[g] = l.gate[g])
    BY <2>1, PutThings, TakenThings
  <2>. QED BY <1>1, <2>1, <2>2, OneKindEdited DEF IsLayout
<1>6. CASE m \in TemplatePlans(l)
  <2>1. PICK v \in Templates : m = [l EXCEPT !.template = v]
    BY <1>6 DEF TemplatePlans
  <2>. QED BY <1>1, <2>1, OneKindEdited DEF IsLayout
<1>7. CASE m \in CanvasPlans(l)
  <2>1. PICK v \in Canvases : m = [l EXCEPT !.canvas = v]
    BY <1>7 DEF CanvasPlans
  <2>. QED BY <1>1, <2>1, OneKindEdited DEF IsLayout
<1>. QED BY <1>2, <1>3, <1>4, <1>5, <1>6, <1>7 DEF Steps, Plans

\* Of some numbers there is a least one, and Min is one.
LEMMA LeastOfNumbers ==
    ASSUME NEW S, S \subseteq Nat, S # {}
    PROVE  Min(S) \in S /\ \A n \in S : Min(S) <= n
<1>1. \E n \in S : \A m \in S : n <= m
  BY LeastNat
<1>. QED BY <1>1 DEF Min

----------------------------------------------------------------------------
\* Distances

\* The greater a number, the greater its square.
LEMMA Squared ==
    ASSUME NEW m \in Nat, NEW n \in Nat, m <= n
    PROVE  m * m \in Nat /\ m * m <= n * n
<1>1. PICK d \in Nat : n = m + d
  <2>1. n - m \in Nat /\ n = m + (n - m)
    OBVIOUS
  <2>. QED BY <2>1
<1>2. m * m \in Nat /\ m * d \in Nat /\ d * d \in Nat
  OBVIOUS
<1>3. n * n = m * m + 2 * (m * d) + d * d
  BY <1>1
<1>. QED BY <1>2, <1>3

\* A gap is never negative, nor is a distance.
LEMMA GapIsNat ==
    ASSUME NEW a \in Int, NEW s \in Int, NEW b \in Int, NEW t \in Int
    PROVE  Gap(a, s, b, t) \in Nat
BY DEF Gap, Most

LEMMA ApartIsNat ==
    ASSUME NEW a \in Rects, NEW b \in Rects
    PROVE  Apart(a, b) \in Nat
<1>1. /\ a.x \in Int /\ a.y \in Int /\ a.w \in Int /\ a.h \in Int
      /\ b.x \in Int /\ b.y \in Int /\ b.w \in Int /\ b.h \in Int
  BY DEF Rects
<1>2. Gap(a.x, a.w, b.x, b.w) \in Nat /\ Gap(a.y, a.h, b.y, b.h) \in Nat
  BY <1>1, GapIsNat
<1>. QED BY <1>2, Squared DEF Apart

\* Of the aisles, the nearest is one, and none is nearer.
LEMMA NearestIsNearest ==
    ASSUME NEW l, IsLayout(l), DOMAIN l.aisle # {}, NEW rack \in Rects
    PROVE  /\ NearestAisle(l, rack) \in DOMAIN l.aisle
           /\ \A a \in DOMAIN l.aisle :
                 Apart(rack, AisleRect(l, NearestAisle(l, rack))) <= Apart(rack, AisleRect(l, a))
<1>. DEFINE far(a) == Apart(rack, AisleRect(l, a))
            near == {a \in DOMAIN l.aisle : \A b \in DOMAIN l.aisle : far(a) <= far(b)}
            between == {a \in near : l.aisle[a].type = "RACK"}
            best == IF between # {} THEN between ELSE near
<1>1. \A a \in DOMAIN l.aisle : far(a) \in Nat
  BY LayoutRects, ApartIsNat
<1>2. NearestAisle(l, rack) = Min(best)
  BY DEF NearestAisle
<1>. HIDE DEF far
<1>3. near # {}
  <2>1. {far(a) : a \in DOMAIN l.aisle} \in SUBSET Nat /\ {far(a) : a \in DOMAIN l.aisle} # {}
    BY <1>1
  <2>2. \E n \in {far(a) : a \in DOMAIN l.aisle} : \A m \in {far(a) : a \in DOMAIN l.aisle} : n <= m
    BY <2>1, LeastNat
  <2>. QED BY <2>2
<1>4. best \subseteq near /\ best # {} /\ best \subseteq Nat
  BY <1>3 DEF IsLayout
<1>5. Min(best) \in best
  BY <1>4, LeastOfNumbers
<1>6. Min(best) \in near
  BY <1>4, <1>5
<1>7. /\ Min(best) \in DOMAIN l.aisle
      /\ \A a \in DOMAIN l.aisle : far(Min(best)) <= far(a)
  BY <1>6
<1>. QED BY <1>2, <1>7 DEF far

\* An access point is a point.
LEMMA AccessIsPoint ==
    ASSUME NEW a \in Rects, NEW b \in Rects
    PROVE  AccessPoint(a, b) \in Point
<1>1. /\ a.x \in Int /\ a.y \in Int /\ a.w \in Int /\ a.h \in Int
      /\ b.x \in Int /\ b.y \in Int /\ b.w \in Int /\ b.h \in Int
  BY DEF Rects
<1>2. a.x + a.w \div 2 \in Int /\ a.y + a.h \div 2 \in Int
  BY <1>1
<1>3. \A n, low, high \in Int : Clamp(n, low, high) \in Int
  BY DEF Clamp, Least, Most
<1>4. b.x + b.w \in Int /\ b.y + b.h \in Int
  BY <1>1
<1>5. /\ Clamp(a.x + a.w \div 2, b.x, b.x + b.w) \in Int
      /\ Clamp(a.y + a.h \div 2, b.y, b.y + b.h) \in Int
  BY <1>1, <1>2, <1>3, <1>4
<1>. QED BY <1>5 DEF AccessPoint, Point

\* A save moves the access points and nothing else.
LEMMA NormalizedLayout ==
    ASSUME NEW l, IsLayout(l)
    PROVE  /\ IsLayout(Normalized(l))
           /\ Normalized(l).aisle = l.aisle
           /\ Normalized(l).template = l.template
           /\ DOMAIN Normalized(l).rack = DOMAIN l.rack
           /\ \A r \in DOMAIN l.rack :
                 /\ RackRect(Normalized(l), r) = RackRect(l, r)
                 /\ DOMAIN l.aisle # {} =>
                        Normalized(l).rack[r].access
                            = AccessPoint(RackRect(l, r),
                                          AisleRect(l, NearestAisle(l, RackRect(l, r))))
<1>1. CASE DOMAIN l.aisle = {}
  BY <1>1 DEF Normalized
<1>2. CASE DOMAIN l.aisle # {}
  <2>. DEFINE access(r) == AccessPoint(RackRect(l, r), AisleRect(l, NearestAisle(l, RackRect(l, r))))
              racks == [r \in DOMAIN l.rack |-> [l.rack[r] EXCEPT !.access = access(r)]]
  <2>1. Normalized(l) = [l EXCEPT !.rack = racks]
    BY <1>2 DEF Normalized
  <2>2. ASSUME NEW r \in DOMAIN l.rack PROVE access(r) \in Point
    <3>1. RackRect(l, r) \in Rects
      BY LayoutRects DEF IsGround
    <3>2. NearestAisle(l, RackRect(l, r)) \in DOMAIN l.aisle
      BY <1>2, <3>1, NearestIsNearest
    <3>. QED BY <3>1, <3>2, LayoutRects, AccessIsPoint
  <2>. HIDE DEF access
  <2>3. ASSUME NEW r \in DOMAIN l.rack
        PROVE  /\ racks[r] \in [zone : ZoneIds, x : Int, y : Int, rotation : Rotations, access : Point]
               /\ racks[r].x = l.rack[r].x /\ racks[r].y = l.rack[r].y
               /\ racks[r].rotation = l.rack[r].rotation
               /\ racks[r].access = access(r)
    <3>1. l.rack[r] \in [zone : ZoneIds, x : Int, y : Int, rotation : Rotations, access : Point]
      BY DEF IsLayout
    <3>. QED BY <2>2, <3>1
  <2>4. DOMAIN racks = DOMAIN l.rack
    OBVIOUS
  <2>. HIDE DEF racks
  <2>5. IsRecord(l)
    BY DEF IsLayout, IsRecord
  <2>6. Normalized(l) = [canvas |-> l.canvas, template |-> l.template, zone |-> l.zone, rack |-> racks,
                         aisle |-> l.aisle, gate |-> l.gate]
    BY <2>1, <2>5, OneKindEdited
  <2>7. IsLayout(Normalized(l))
    BY <2>3, <2>4, <2>6 DEF IsLayout
  <2>8. \A r \in DOMAIN l.rack : RackRect(Normalized(l), r) = RackRect(l, r)
    BY <2>3, <2>6 DEF RackRect
  <2>. QED BY <2>3, <2>4, <2>6, <2>7, <2>8 DEF access
<1>. QED BY <1>1, <1>2

----------------------------------------------------------------------------
\* The invariant

\* A layout is never broken.
GeometryInv == IsLayout(layout) /\ Issues(layout) = {}

\* A layout without anything breaks no rule.
LEMMA EmptyIsSound ==
    ASSUME NEW c \in [w : Nat \ {0}, h : Nat \ {0}], NEW t \in [w : Nat \ {0}, d : Nat \ {0}], NEW l,
           l = [canvas |-> c, template |-> t, zone |-> NoThings, rack |-> NoThings,
                aisle |-> NoThings, gate |-> NoThings]
    PROVE  IsLayout(l) /\ Issues(l) = {}
<1>1. DOMAIN NoThings = {}
  BY DEF NoThings
<1>2. IsLayout(l)
  BY <1>1 DEF IsLayout
<1>3. Sound(l)
  BY <1>1 DEF Sound
<1>. QED BY <1>2, <1>3, IssuesAreFlaws

\* The system starts with such a layout.
LEMMA GeometryInitially == GeometryInit => GeometryInv
<1>. SUFFICES ASSUME GeometryInit PROVE GeometryInv
  OBVIOUS
<1>1. PICK c \in Canvases, t \in Templates :
          layout = [canvas |-> c, template |-> t, zone |-> NoThings, rack |-> NoThings,
                    aisle |-> NoThings, gate |-> NoThings]
  BY DEF GeometryInit
<1>. QED BY <1>1, GeometryAssumption, EmptyIsSound DEF GeometryInv

\* Every edit is turned away or keeps it.
LEMMA GeometryStep == GeometryInv /\ [GeometryNext]_layout => GeometryInv'
<1>. SUFFICES ASSUME GeometryInv, [GeometryNext]_layout PROVE GeometryInv'
  OBVIOUS
<1>1. PICK l : l = layout
  OBVIOUS
<1>2. PICK m : m = layout'
  OBVIOUS
<1>3. IsLayout(l) /\ Issues(l) = {}
  BY <1>1 DEF GeometryInv
<1>4. CASE Mutate
  <2>1. m \in Plans(l) /\ Issues(m) = {}
    BY <1>1, <1>2, <1>4 DEF Mutate
  <2>2. IsLayout(m)
    BY <1>3, <2>1, StepsAreLayouts DEF Steps
  <2>. QED BY <1>2, <2>1, <2>2 DEF GeometryInv
<1>5. CASE SaveLayout
  <2>1. PICK n \in SavePlans(l) : m = Normalized(n) /\ Issues(m) = {}
    BY <1>1, <1>2, <1>5 DEF SaveLayout
  <2>2. IsLayout(n)
    <3>1. CASE n \in Steps(l)
      BY <1>3, <3>1, StepsAreLayouts
    <3>2. CASE n \notin Steps(l)
      <4>1. PICK k \in Steps(l) : n \in Steps(k)
        BY <2>1, <3>2 DEF SavePlans
      <4>. QED BY <1>3, <4>1, StepsAreLayouts
    <3>. QED BY <3>1, <3>2
  <2>. QED BY <1>2, <2>1, <2>2, NormalizedLayout DEF GeometryInv
<1>6. CASE ResetLayout
  <2>1. m = [l EXCEPT !.zone = NoThings, !.rack = NoThings, !.aisle = NoThings, !.gate = NoThings]
    BY <1>1, <1>2, <1>6 DEF ResetLayout
  <2>2. m = [canvas |-> l.canvas, template |-> l.template, zone |-> NoThings, rack |-> NoThings,
             aisle |-> NoThings, gate |-> NoThings]
    BY <1>3, <2>1 DEF IsLayout
  <2>. QED BY <1>2, <1>3, <2>2, EmptyIsSound DEF GeometryInv, IsLayout
<1>7. CASE UNCHANGED layout
  BY <1>7 DEF GeometryInv
<1>. QED BY <1>4, <1>5, <1>6, <1>7 DEF GeometryNext

\* validateWarehouseLayoutGeometry: whatever edits a layout went through, everything lies on
\* the canvas, racks in their zones and off each other and the aisles, each with its access
\* point in an aisle; and the rules turn away no edit that would keep it so.
THEOREM LayoutsAreSound == GeometrySpec => []RulesAreExact
<1>1. GeometryInv => RulesAreExact
  <2>. SUFFICES ASSUME GeometryInv PROVE RulesAreExact
    OBVIOUS
  <2>1. PICK l : l = layout
    OBVIOUS
  <2>2. Sound(l)
    BY <2>1, IssuesAreFlaws DEF GeometryInv
  <2>3. ASSUME NEW m \in Plans(l) PROVE Issues(m) = {} <=> Sound(m)
    BY <2>1, StepsAreLayouts, IssuesAreFlaws DEF GeometryInv, Steps
  <2>. QED BY <2>1, <2>2, <2>3 DEF RulesAreExact
<1>. QED BY <1>1, GeometryInitially, GeometryStep, PTL DEF GeometrySpec

----------------------------------------------------------------------------
\* Access points

\* The way from a number to an interval, to its end that is nearer, and from there to another.
LEMMA ClampClosest ==
    ASSUME NEW n \in Int, NEW b \in Int, NEW t \in Nat, NEW k \in b..(b + t)
    PROVE  /\ Clamp(n, b, b + t) \in b..(b + t)
           /\ (n - Clamp(n, b, b + t)) * (n - Clamp(n, b, b + t)) = Gap(n, 0, b, t) * Gap(n, 0, b, t)
           /\ Gap(n, 0, b, t) * Gap(n, 0, b, t) <= (n - k) * (n - k)
<1>1. /\ Clamp(n, b, b + t) \in b..(b + t)
      /\ \/ n - Clamp(n, b, b + t) = Gap(n, 0, b, t)
         \/ n - Clamp(n, b, b + t) = 0 - Gap(n, 0, b, t)
  BY DEF Clamp, Gap, Least, Most
<1>2. Gap(n, 0, b, t) \in Nat
  BY GapIsNat
<1>3. PICK g \in Nat : g = Gap(n, 0, b, t)
  BY <1>2
<1>4. PICK c \in Int : c = n - Clamp(n, b, b + t)
  BY <1>1
<1>5. c * c = g * g
  <2>1. c = g \/ c = 0 - g
    BY <1>1, <1>3, <1>4
  <2>. QED BY <2>1
<1>6. PICK d \in Nat : (d = n - k \/ d = k - n) /\ g <= d
  <2>1. (g <= n - k /\ n - k \in Nat) \/ (g <= k - n /\ k - n \in Nat)
    BY <1>3 DEF Gap, Most
  <2>. QED BY <2>1
<1>7. d * d = (n - k) * (n - k)
  <2>1. PICK e \in Int : e = n - k
    OBVIOUS
  <2>2. d = e \/ d = 0 - e
    BY <1>6, <2>1
  <2>3. d * d = e * e
    BY <2>2
  <2>. QED BY <2>1, <2>3
<1>8. g * g <= d * d
  BY <1>6, Squared
<1>. QED BY <1>1, <1>3, <1>4, <1>5, <1>7, <1>8

\* How far apart a point and a rectangle are, squared.
PointApart(p, r) ==
    Gap(p[1], 0, r.x, r.w) * Gap(p[1], 0, r.x, r.w) + Gap(p[2], 0, r.y, r.h) * Gap(p[2], 0, r.y, r.h)

\* The point of a rectangle closest to another point is as far from it as the rectangle.
LEMMA ClosestPoint ==
    ASSUME NEW r, IsGround(r), NEW p \in Point
    PROVE  Min({SquaredDistance(p, q) : q \in Points(r)}) = PointApart(p, r)
<1>. DEFINE cx == Clamp(p[1], r.x, r.x + r.w)
            cy == Clamp(p[2], r.y, r.y + r.h)
            S == {SquaredDistance(p, q) : q \in Points(r)}
<1>1. /\ r.x \in Int /\ r.y \in Int /\ r.w \in Nat /\ r.h \in Nat /\ p[1] \in Int /\ p[2] \in Int
  BY DEF IsGround, Rects, Point
<1>2. \A n, b \in Int, t \in Nat : \A k \in b..(b + t) :
           /\ Clamp(n, b, b + t) \in b..(b + t)
           /\ (n - Clamp(n, b, b + t)) * (n - Clamp(n, b, b + t)) = Gap(n, 0, b, t) * Gap(n, 0, b, t)
           /\ Gap(n, 0, b, t) * Gap(n, 0, b, t) <= (n - k) * (n - k)
  BY ClampClosest
<1>3. /\ cx \in r.x..(r.x + r.w) /\ cy \in r.y..(r.y + r.h)
      /\ (p[1] - cx) * (p[1] - cx) = Gap(p[1], 0, r.x, r.w) * Gap(p[1], 0, r.x, r.w)
      /\ (p[2] - cy) * (p[2] - cy) = Gap(p[2], 0, r.y, r.h) * Gap(p[2], 0, r.y, r.h)
  <2>1. r.x \in r.x..(r.x + r.w) /\ r.y \in r.y..(r.y + r.h)
    BY <1>1
  <2>. QED BY <1>1, <1>2, <2>1
<1>4. PointApart(p, r) \in S
  <2>1. <<cx, cy>> \in Points(r)
    BY <1>3 DEF Points
  <2>2. SquaredDistance(p, <<cx, cy>>) = PointApart(p, r)
    BY <1>3 DEF SquaredDistance, PointApart
  <2>. QED BY <2>1, <2>2
<1>5. Gap(p[1], 0, r.x, r.w) \in Nat /\ Gap(p[2], 0, r.y, r.h) \in Nat
  <2>1. 0 \in Int /\ r.w \in Int /\ r.h \in Int
    BY <1>1
  <2>. QED BY <1>1, <2>1, GapIsNat
<1>6. PointApart(p, r) \in Nat
  BY <1>5, Squared DEF PointApart
<1>7. ASSUME NEW q \in Points(r) PROVE SquaredDistance(p, q) \in Int /\ PointApart(p, r) <= SquaredDistance(p, q)
  <2>1. q[1] \in r.x..(r.x + r.w) /\ q[2] \in r.y..(r.y + r.h)
    BY DEF Points
  <2>2. /\ Gap(p[1], 0, r.x, r.w) * Gap(p[1], 0, r.x, r.w) <= (p[1] - q[1]) * (p[1] - q[1])
        /\ Gap(p[2], 0, r.y, r.h) * Gap(p[2], 0, r.y, r.h) <= (p[2] - q[2]) * (p[2] - q[2])
    BY <1>1, <1>2, <2>1
  <2>3. PICK u \in Int, v \in Int : u = (p[1] - q[1]) * (p[1] - q[1]) /\ v = (p[2] - q[2]) * (p[2] - q[2])
    <3>1. q[1] \in Int /\ q[2] \in Int
      BY <1>1, <2>1
    <3>2. p[1] - q[1] \in Int /\ p[2] - q[2] \in Int
      BY <1>1, <3>1
    <3>. QED BY <3>2
  <2>4. PICK s \in Int, t \in Int : /\ s = Gap(p[1], 0, r.x, r.w) * Gap(p[1], 0, r.x, r.w)
                                    /\ t = Gap(p[2], 0, r.y, r.h) * Gap(p[2], 0, r.y, r.h)
    BY <1>5, Squared
  <2>5. SquaredDistance(p, q) = u + v /\ PointApart(p, r) = s + t /\ s <= u /\ t <= v
    BY <2>2, <2>3, <2>4 DEF SquaredDistance, PointApart
  <2>. QED BY <2>5
<1>8. \A n \in S : n \in Int /\ PointApart(p, r) <= n
  BY <1>7
<1>. HIDE DEF S
<1>9. \A n \in S : (\A m \in S : n <= m) => n = PointApart(p, r)
  BY <1>4, <1>6, <1>8
<1>10. Min(S) = PointApart(p, r)
  BY <1>4, <1>8, <1>9 DEF Min
<1>. QED BY <1>10 DEF S

\* Between two intervals, the gap is the least way from a point of one to the other.
LEMMA GapIsLeast ==
    ASSUME NEW a \in Int, NEW s \in Nat, NEW b \in Int, NEW t \in Nat, NEW k \in b..(b + t)
    PROVE  Gap(a, s, b, t) <= Gap(k, 0, a, s)
BY DEF Gap, Most

\* The point of one interval that is closest to the middle of the other.
Beside(a, s, b, t) == Clamp(a + s \div 2, b, b + t)

\* It is as close to the other as any.
LEMMA BesideIsNear ==
    ASSUME NEW a \in Int, NEW s \in Nat, NEW b \in Int, NEW t \in Nat
    PROVE  Gap(Beside(a, s, b, t), 0, a, s) = Gap(a, s, b, t)
<1>1. PICK m \in Int : m = a + s \div 2 /\ a <= m /\ m <= a + s
  BY SMT
<1>2. Gap(Clamp(m, b, b + t), 0, a, s) = Gap(a, s, b, t)
  BY <1>1 DEF Clamp, Gap, Least, Most
<1>. QED BY <1>1, <1>2 DEF Beside

\* From the access point of a rack to the rack it is as far as from the aisle, and from no
\* point of the aisle is it less.
LEMMA AccessIsClosest ==
    ASSUME NEW rack, IsGround(rack), NEW aisle, IsGround(aisle)
    PROVE  /\ PointApart(AccessPoint(rack, aisle), rack) = Apart(rack, aisle)
           /\ \A p \in Points(aisle) : Apart(rack, aisle) <= PointApart(p, rack)
<1>1. /\ rack.x \in Int /\ rack.y \in Int /\ rack.w \in Nat /\ rack.h \in Nat
      /\ aisle.x \in Int /\ aisle.y \in Int /\ aisle.w \in Nat /\ aisle.h \in Nat
  BY DEF IsGround, Rects
<1>2. \A a, b \in Int, s, t \in Nat : \A k \in b..(b + t) : Gap(a, s, b, t) <= Gap(k, 0, a, s)
  BY GapIsLeast
<1>3. PointApart(AccessPoint(rack, aisle), rack) = Apart(rack, aisle)
  <2>1. AccessPoint(rack, aisle)
            = <<Beside(rack.x, rack.w, aisle.x, aisle.w), Beside(rack.y, rack.h, aisle.y, aisle.h)>>
    BY DEF AccessPoint, Beside
  <2>2. Gap(Beside(rack.x, rack.w, aisle.x, aisle.w), 0, rack.x, rack.w)
               = Gap(rack.x, rack.w, aisle.x, aisle.w)
    <3>1. PICK a \in Int, s \in Nat, b \in Int, t \in Nat :
              a = rack.x /\ s = rack.w /\ b = aisle.x /\ t = aisle.w
      BY <1>1
    <3>2. Gap(Beside(a, s, b, t), 0, a, s) = Gap(a, s, b, t)
      BY BesideIsNear
    <3>. QED BY <3>1, <3>2
  <2>3. Gap(Beside(rack.y, rack.h, aisle.y, aisle.h), 0, rack.y, rack.h)
               = Gap(rack.y, rack.h, aisle.y, aisle.h)
    <3>1. PICK a \in Int, s \in Nat, b \in Int, t \in Nat :
              a = rack.y /\ s = rack.h /\ b = aisle.y /\ t = aisle.h
      BY <1>1
    <3>2. Gap(Beside(a, s, b, t), 0, a, s) = Gap(a, s, b, t)
      BY BesideIsNear
    <3>. QED BY <3>1, <3>2
  <2>. QED BY <2>1, <2>2, <2>3 DEF PointApart, Apart
<1>4. ASSUME NEW p \in Points(aisle) PROVE Apart(rack, aisle) <= PointApart(p, rack)
  <2>1. p[1] \in aisle.x..(aisle.x + aisle.w) /\ p[2] \in aisle.y..(aisle.y + aisle.h)
    BY DEF Points
  <2>2. /\ Gap(rack.x, rack.w, aisle.x, aisle.w) <= Gap(p[1], 0, rack.x, rack.w)
        /\ Gap(rack.y, rack.h, aisle.y, aisle.h) <= Gap(p[2], 0, rack.y, rack.h)
    BY <1>1, <1>2, <2>1
  <2>3. p[1] \in Int /\ p[2] \in Int
    BY <1>1, <2>1
  <2>4. PICK u \in Nat, v \in Nat, s \in Nat, t \in Nat :
            /\ u = Gap(rack.x, rack.w, aisle.x, aisle.w) /\ v = Gap(rack.y, rack.h, aisle.y, aisle.h)
            /\ s = Gap(p[1], 0, rack.x, rack.w) /\ t = Gap(p[2], 0, rack.y, rack.h)
    <3>1. /\ 0 \in Int /\ rack.w \in Int /\ rack.h \in Int /\ aisle.w \in Int /\ aisle.h \in Int
      BY <1>1
    <3>2. /\ Gap(rack.x, rack.w, aisle.x, aisle.w) \in Nat /\ Gap(rack.y, rack.h, aisle.y, aisle.h) \in Nat
          /\ Gap(p[1], 0, rack.x, rack.w) \in Nat /\ Gap(p[2], 0, rack.y, rack.h) \in Nat
      BY <1>1, <2>3, <3>1, GapIsNat
    <3>. QED BY <3>2
  <2>5. u * u <= s * s /\ v * v <= t * t /\ u * u \in Nat /\ v * v \in Nat /\ s * s \in Nat /\ t * t \in Nat
    BY <2>2, <2>4, Squared
  <2>6. Apart(rack, aisle) = u * u + v * v /\ PointApart(p, rack) = s * s + t * t
    BY <2>4 DEF Apart, PointApart
  <2>. QED BY <2>5, <2>6
<1>. QED BY <1>3, <1>4

\* normalizeRackAccessPoints: after a save, no point of any aisle is nearer to a rack than the
\* rack's access point.
THEOREM AccessPointsAreNearest == GeometrySpec => []SavedAccessIsNearest
<1>1. GeometryInv => SavedAccessIsNearest
  <2>. SUFFICES ASSUME GeometryInv PROVE SavedAccessIsNearest
    OBVIOUS
  <2>1. PICK l : l = layout
    OBVIOUS
  <2>2. IsLayout(l) /\ \A a \in DOMAIN l.aisle : IsGround(AisleRect(l, a))
    BY <2>1, NoSizeIssues DEF GeometryInv, Issues
  <2>3. PICK saved : saved = Normalized(l)
    OBVIOUS
  <2>. DEFINE near(r, p) == Min({SquaredDistance(p, q) : q \in Points(RackRect(saved, r))})
  <2>4. ASSUME NEW r \in DOMAIN saved.rack, NEW a \in DOMAIN saved.aisle,
               NEW p \in Points(AisleRect(saved, a))
        PROVE  near(r, saved.rack[r].access) <= near(r, p)
    <3>1. /\ r \in DOMAIN l.rack /\ a \in DOMAIN l.aisle
          /\ RackRect(saved, r) = RackRect(l, r)
          /\ saved.aisle = l.aisle
      BY <2>2, <2>3, NormalizedLayout
    <3>2. AisleRect(saved, a) = AisleRect(l, a)
      BY <3>1 DEF AisleRect
    <3>3. PICK rack : rack = RackRect(l, r) /\ IsGround(rack)
      BY <2>2, <3>1, LayoutRects
    <3>4. PICK aisle : aisle = AisleRect(l, NearestAisle(l, rack))
      OBVIOUS
    <3>5. /\ IsGround(aisle)
          /\ Apart(rack, aisle) <= Apart(rack, AisleRect(l, a))
      BY <2>2, <3>1, <3>3, <3>4, NearestIsNearest DEF IsGround
    <3>6. saved.rack[r].access = AccessPoint(rack, aisle)
      BY <2>2, <2>3, <3>1, <3>3, <3>4, NormalizedLayout
    <3>7. AccessPoint(rack, aisle) \in Point
      BY <3>3, <3>5, AccessIsPoint DEF IsGround
    <3>8. near(r, saved.rack[r].access) = Apart(rack, aisle)
      BY <3>1, <3>3, <3>5, <3>6, <3>7, ClosestPoint, AccessIsClosest
    <3>9. IsGround(AisleRect(l, a))
      BY <2>2, <3>1
    <3>10. p \in Point
      BY <3>2, <3>9 DEF Points, Point, IsGround, Rects
    <3>11. Apart(rack, AisleRect(l, a)) <= PointApart(p, rack)
      BY <3>2, <3>3, <3>9, AccessIsClosest
    <3>12. near(r, p) = PointApart(p, rack)
      BY <3>1, <3>3, <3>10, ClosestPoint
    <3>13. Apart(rack, aisle) \in Nat /\ Apart(rack, AisleRect(l, a)) \in Nat
      BY <3>3, <3>5, <3>9, ApartIsNat DEF IsGround
    <3>14. PointApart(p, rack) \in Int
      <4>1. /\ rack.x \in Int /\ rack.y \in Int /\ rack.w \in Int /\ rack.h \in Int
            /\ p[1] \in Int /\ p[2] \in Int
        BY <3>3, <3>10 DEF IsGround, Rects, Point
      <4>2. Gap(p[1], 0, rack.x, rack.w) \in Nat /\ Gap(p[2], 0, rack.y, rack.h) \in Nat
        <5>1. 0 \in Int
          OBVIOUS
        <5>. QED BY <4>1, <5>1, GapIsNat
      <4>. QED BY <4>2, Squared DEF PointApart
    <3>. QED BY <3>5, <3>8, <3>11, <3>12, <3>13, <3>14
  <2>. QED BY <2>1, <2>3, <2>4 DEF SavedAccessIsNearest
<1>. QED BY <1>1, GeometryInitially, GeometryStep, PTL DEF GeometrySpec

=============================================================================
