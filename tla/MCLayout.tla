------------------------------ MODULE MCLayout ------------------------------
EXTENDS Suggestions

Halls == {[w |-> 14, h |-> 10], [w |-> 12, h |-> 10]}
RackSizes == {[w |-> 4, d |-> 2], [w |-> 4, d |-> 4]}

\* A zone of 4 x 10, and one of 4 x 8, turned.
ZoneAreas == {[x |-> 10, y |-> 0, w |-> 4, h |-> 10, rotation |-> 0],
              [x |-> 10, y |-> 0, w |-> 8, h |-> 4, rotation |-> 90]}

\* A rack turned along the aisle, and one across it.
RackPlaces == {[zone |-> "z", x |-> 10, y |-> 2, rotation |-> 90, access |-> <<10, 4>>],
               [zone |-> "z", x |-> 10, y |-> 6, rotation |-> 0, access |-> <<10, 0>>]}

\* A corridor, and two aisles side by side that lead to it: three are a ring.
AisleAreas == {[x |-> 0, y |-> 8, w |-> 14, h |-> 2, type |-> "MAIN"],
               [x |-> 6, y |-> 0, w |-> 2, h |-> 8, type |-> "RACK"],
               [x |-> 8, y |-> 0, w |-> 2, h |-> 8, type |-> "RACK"]}

\* On the edge of both aisles.
Doors == {<<8, 4>>}

\* A cell of rack r that holds the item already, and an empty one of either rack, which has
\* a factor of its own or not; where not, the first holds boxes of the lot.
Bays ==
    {<<[rack |-> "r", size |-> 2, volume |-> 8, fill |-> 0, occupied |-> 2,
        sku |-> TRUE, lot |-> p = 0],
       [rack |-> s, size |-> 1, volume |-> 8, fill |-> p, occupied |-> 0,
        sku |-> FALSE, lot |-> FALSE]>> : s \in {"r", "q"}, p \in {0, 50}}

Cartons == {[size |-> 1, volume |-> 2], [size |-> 2, volume |-> 3], [size |-> 3, volume |-> 3]}
=============================================================================
