----------------------------- MODULE MCStorage ------------------------------
EXTENDS Storage

LOCAL T == INSTANCE TLC

BoxWidth == [i \in {"wide", "slim"} |-> IF i = "wide" THEN 2 ELSE 1]
OneWide == [i \in {"wide", "slim"} |-> IF i = "wide" THEN 1 ELSE 0]

\* A zone and nothing else.
Bare ==
    [x \in Docs |->
        CASE x = Config -> 1
          [] x = Template -> 1
          [] x[1] = "zone" -> TRUE
          [] x[1] = "rack" -> NoRack
          [] x[1] = "shelf" -> NoShelf
          [] x[1] = "cell" -> NoCell
          [] x = Task -> NoTask
          [] OTHER -> 0]

\* A staging shelf A and a storage shelf B of one bay, where a box lies in no cell yet,
\* and two more edits to come.
Furnished ==
    (Config ::= MaxRevisions - 2)
    ++ (Rack("r") ::= [live |-> TRUE, zone |-> "z"])
    ++ (Shelf("A") ::= [live |-> TRUE, rack |-> "r", staging |-> TRUE, width |-> 4])
    ++ (Shelf("B") ::= [live |-> TRUE, rack |-> "r", staging |-> FALSE, width |-> 4])
    ++ (Cell("B", 1) ::= [live |-> TRUE, made |-> 1, width |-> 4])
    ++ (Loose("slim", "B") ::= 1)
    ++ Bare

\* The same with a box in the cell.
Stocked ==
    (InCell("slim", "B", 1) ::= 1) ++ (Snapshot("slim", "B", 1) ::= 1) ++ (Assigned("slim") ::= 1)
    ++ Furnished

Standing == {Bare, Furnished, Stocked}

\* Before there were cells: a shelf A without a size, where the boxes of a receipt lie, a
\* rack q without a shelf, and one more edit to come.
Cellless(staging) ==
    (Config ::= MaxRevisions - 1) ++ (Template ::= 2)
    ++ (Rack("r") ::= [live |-> TRUE, zone |-> "z"]) ++ (Rack("q") ::= [live |-> TRUE, zone |-> "z"])
    ++ (Shelf("A") ::= [live |-> TRUE, rack |-> "r", staging |-> staging, width |-> 0])
    ++ (Task ::= [status |-> "PENDING", source |-> "none", left |-> Delivered])
    ++ [x \in {Loose(i, "A") : i \in Items} |-> Delivered[x[2]]]
    ++ Bare

\* With a staging shelf or without; with cells from a time before q was named for it.
NotYetDivided ==
    {[docs |-> Cellless(TRUE), named |-> {}, received |-> "A"],
     [docs |-> Cellless(FALSE), named |-> {}, received |-> "A"],
     [docs |-> Cellless(TRUE), named |-> {"q"}, received |-> "none"],
     [docs |-> (Shelf("B") ::= [live |-> TRUE, rack |-> "q", staging |-> FALSE, width |-> 4])
               ++ (Cell("B", 1) ::= [live |-> TRUE, made |-> 1, width |-> 4])
               ++ (Cell("A", 1) ::= [live |-> FALSE, made |-> 1, width |-> 1])
               ++ Cellless(TRUE),
      named |-> {"q"}, received |-> "A"]}

SessionSymmetry == T!Permutations(Sessions)
=============================================================================
