--------------------------- MODULE CellMigration ----------------------------
(***************************************************************************)
(* migrate-storage-cells, the script that divides the shelves of an older   *)
(* database into cells before the handlers run: one write after the other,   *)
(* with no transaction, and begun again when it dies.  Indexes, barcodes and  *)
(* the status of old notes are left out; a shelf of no width has none yet.    *)
(***************************************************************************)
EXTENDS PutAway

CONSTANTS DefaultWidth,             \* RackTemplate.widthM
          LevelCount                \* RackTemplate.levelCount

ASSUME MigrationAssumption == DefaultWidth \in Widths /\ LevelCount \in Nat \ {0}

VARIABLE script                     \* where it is, and what it has read

NoScript == [at |-> "done"]

\* To be run where these racks are named as the ones goods come in at, and the receipt
\* that is still to be put away came in on this shelf.
Script(named, received) ==
    [at |-> "start", named |-> named, received |-> received, preferred |-> "none", todo |-> {}]

Migrating(at) == script.at = at
Goto(at) == script' = [script EXCEPT !.at = at]
Write(writes) == db' = writes ++ db /\ UNCHANGED tx
WriteNothing == UNCHANGED transactionVars

LiveShelves == {s \in Shelves : db[Shelf(s)].live}
ShelvesOf(r) == {s \in LiveShelves : db[Shelf(s)].rack = r}

\* preferredStagingRack: by its name, or the rack of a staging shelf there is.
Preferred ==
    LET named == {r \in script.named : db[Rack(r)].live}
        staging == {r \in StagingRacks(db) : db[Rack(r)].live} IN
    IF named # {} THEN named ELSE IF staging # {} THEN staging ELSE {"none"}

MigrateRead ==
    /\ Migrating("start")
    /\ \E r \in Preferred :
          script' = [script EXCEPT !.preferred = r, !.at = IF r = "none" THEN "levels" ELSE "clear"]
    /\ WriteNothing

\* No shelf is a staging one ...
MigrateClear ==
    /\ Migrating("clear")
    /\ Write([x \in {Shelf(s) : s \in LiveShelves} |-> [db[x] EXCEPT !.staging = FALSE]])
    /\ Goto("set")

\* ... and then those of the rack are.
MigrateSet ==
    /\ Migrating("set")
    /\ Write([x \in {Shelf(s) : s \in ShelvesOf(script.preferred)} |-> [db[x] EXCEPT !.staging = TRUE]])
    /\ Goto("levels")

Fitted(shelf) == [shelf EXCEPT !.staging = shelf.rack = script.preferred,
                               !.width = IF @ = 0 THEN DefaultWidth ELSE @]

\* Each shelf gets a size, one by one ...
FitShelf(s) ==
    /\ Migrating("levels")
    /\ db[Shelf(s)].live /\ db[Shelf(s)] # Fitted(db[Shelf(s)])
    /\ Write(Shelf(s) ::= Fitted(db[Shelf(s)]))
    /\ UNCHANGED script

IsFitted(r) == \A s \in ShelvesOf(r) : db[Shelf(s)] = Fitted(db[Shelf(s)])
IsFull(r) == Cardinality(ShelvesOf(r)) >= LevelCount

\* ... and each rack the levels it has no shelf on.
AddShelf(r) ==
    /\ Migrating("levels")
    /\ db[Rack(r)].live /\ IsFitted(r) /\ ~IsFull(r)
    /\ \E s \in Shelves :
          /\ db[Shelf(s)] = NoShelf
          /\ Write(Shelf(s) ::= [live |-> TRUE, rack |-> r, staging |-> r = script.preferred,
                                width |-> DefaultWidth])
    /\ UNCHANGED script

Storing == {s \in LiveShelves : ~db[Shelf(s)].staging}

\* Mutated: the shelves that are staging ones now keep the cells they had.
KeepStagingCells ==
    /\ Migrating("levels")
    /\ \A r \in Racks : db[Rack(r)].live => IsFitted(r) /\ IsFull(r)
    /\ WriteNothing
    /\ script' = [script EXCEPT !.at = "cells", !.todo = Storing]

\* A staging shelf has no cells, even if it had.
DropStagingCells ==
    /\ Migrating("levels")
    /\ \A r \in Racks : db[Rack(r)].live => IsFitted(r) /\ IsFull(r)
    /\ Write(Joined([s \in LiveShelves \ Storing |-> DropCells(db, s, Bays)], LiveShelves \ Storing))
    /\ script' = [script EXCEPT !.at = "cells", !.todo = Storing]

\* The cells of a shelf, one per bay: made, or taken up again as they were left.
MigrateCells(s) ==
    /\ Migrating("cells") /\ s \in script.todo
    /\ LET width == db[Shelf(s)].width \div db[Template] IN
       Write(CellWrites(s, 1..db[Template],
                        LAMBDA b : [live |-> TRUE, width |-> width,
                                    made |-> IF db[Cell(s, b)] = NoCell THEN 1 ELSE db[Cell(s, b)].made]))
    /\ script' = [script EXCEPT !.todo = @ \ {s}]

\* A task from before tasks had a source has the shelf its goods were received on.
MigrateTask ==
    /\ Migrating("cells") /\ script.todo = {}
    /\ IF db[Task].status # "none" /\ db[Task].source = "none"
       THEN Write(Task ::= [db[Task] EXCEPT !.source = script.received])
       ELSE WriteNothing
    /\ Goto("end")

MigrateEnd ==
    /\ Migrating("end")
    /\ script' = NoScript
    /\ WriteNothing

\* It dies, and is started again from the beginning.
MigrateDies ==
    /\ ~Migrating("end") /\ ~Migrating("done")
    /\ script' = Script(script.named, script.received)
    /\ WriteNothing

MigrationStep ==
    \/ MigrateRead \/ MigrateClear \/ MigrateSet \/ DropStagingCells
    \/ (\E s \in Shelves : FitShelf(s) \/ MigrateCells(s))
    \/ (\E r \in Racks : AddShelf(r))
    \/ MigrateTask \/ MigrateEnd \/ MigrateDies

----------------------------------------------------------------------------

\* However often it died on the way, a script that ends leaves a floor the handlers can
\* work on: one rack at most receives, its shelves have no cells and every other shelf has
\* one per bay that share its width, and a task to put away goods knows where they lie if a movement says so.
MigrationIsWhole ==
    Migrating("end") =>
       /\ Cardinality(StagingRacks(db)) <= 1
       /\ \A s \in LiveShelves :
             /\ CellsOf(db, s) = IF s \in Storing THEN 1..db[Template] ELSE {}
             /\ \A b \in CellsOf(db, s) : db[Cell(s, b)].width * db[Template] = db[Shelf(s)].width
       /\ \A r \in Racks : db[Rack(r)].live => Cardinality(ShelvesOf(r)) >= LevelCount
       /\ db[Task].status = "PENDING" /\ script.received # "none" => db[Task].source # "none"
=============================================================================
