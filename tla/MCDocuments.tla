----------------------------- MODULE MCDocuments -----------------------------
(***************************************************************************)
(* An instance of Documents: cups on two shelves, the second with a cell,   *)
(* and a perishable jar.                                                    *)
(***************************************************************************)
EXTENDS Documents

CONSTANTS s1, s2, cup, jar

Start == [row \in Rows |-> CASE row = <<cup, "A", NoLot>> -> 1
                             [] row = <<cup, "B1", NoLot>> -> 1
                             [] row = <<jar, "A", "l">> -> 1
                             [] OTHER -> 0]
OneShelf == "A" :> "A" @@ "B" :> "B" @@ "B1" :> "B"
JarLot == "l" :> jar
Back == [i \in Items |-> 1]
TwoLines == {<<[item |-> cup, expected |-> 1], [item |-> jar, expected |-> 2]>>,
             <<[item |-> cup, expected |-> 1], [item |-> cup, expected |-> 1]>>}
Came == {<<[item |-> cup, lot |-> NoLot, qty |-> 1], [item |-> jar, lot |-> "l", qty |-> 1]>>,
         <<[item |-> cup, lot |-> NoLot, qty |-> 1]>>,
         <<[item |-> jar, lot |-> "l", qty |-> 2]>>,
         <<[item |-> jar, lot |-> "l", qty |-> 0]>>,
         <<[item |-> jar, lot |-> "l", qty |-> 1]>>}
ZoneOrAll == {{"B"}, {"A", "B"}}

\* Everything but receipts; receipts with the time to redo a note and to receive
\* twice; receipts of a lot that expires.
ThreeMixes == {[kinds |-> {"return", "scrap", "count", "expiry"}, requests |-> 5],
               [kinds |-> {"receipt"}, requests |-> 6],
               [kinds |-> {"receipt", "expiry"}, requests |-> 4]}

RequestSymmetry == Permutations({s1, s2})

=============================================================================
