--------------------------- MODULE MCProcurement ----------------------------
EXTENDS Procurement, TLC

CONSTANTS s1, s2, w1, w2

\* Two packagings; "L" is a size of one and the colour of another.
Forms ==
    [lid |-> [key |-> "PACKAGING_CATEGORY", code |-> "LID"],
     large |-> [key |-> "SIZE", code |-> "L"],
     lilac |-> [key |-> "COLOR", code |-> "L"]]

\* Nothing, or an old item whose code the counter comes to first.
OldCodes == {[c \in {} |-> "old"], [c \in {Ean13(1)} |-> "old"]}

Zero == [items |-> 0, edits |-> 0, orders |-> 0, terms |-> 0, catalog |-> 0]

\* Items made at once and drafted in the shop; or one item, edited and ordered.
ThreeMixes ==
    {[Zero EXCEPT !.items = 3, !.edits = 3, !.catalog = 1],
     [Zero EXCEPT !.items = 1, !.edits = 2, !.orders = 4],
     [Zero EXCEPT !.items = 1, !.edits = 1, !.orders = 1, !.terms = 2]}

OneSupplier ==
    {[suppliers |-> ("ncc" :> [status |-> "ACTIVE", deleted |-> FALSE]), quotes |-> [x \in {} |-> 0]]}

Symmetric == Permutations({s1, s2}) \cup Permutations({w1, w2})
=============================================================================
