--------------------------- MODULE StockPromise ---------------------------
(***************************************************************************)
(* What the warehouse promises about stock held for orders, whatever jobs  *)
(* arrive, twice or out of order, and wherever a handler dies: an order    *)
(* takes everything it needs out of the sellable stock at one moment, or   *)
(* nothing; it takes it at most once; it gives all of it back at most once *)
(* and only after taking it; and nothing else, the picking included,       *)
(* changes what is left to sell.                                           *)
(***************************************************************************)
EXTENDS Integers

CONSTANTS Orders, Items,
          Need,   \* Need[o][i]: what the order takes, in Nat
          Free0   \* what can be sold at the start, in Nat

VARIABLES free,   \* the sellable quantity of each item
          claim   \* what became of each order's claim

vars == <<free, claim>>

Claims == {"none", "held", "released"}

Init ==
    /\ free = Free0
    /\ claim = [o \in Orders |-> "none"]

Hold(o) ==
    /\ claim[o] = "none"
    /\ \A i \in Items : free[i] >= Need[o][i]
    /\ free' = [i \in Items |-> free[i] - Need[o][i]]
    /\ claim' = [claim EXCEPT ![o] = "held"]

Release(o) ==
    /\ claim[o] = "held"
    /\ free' = [i \in Items |-> free[i] + Need[o][i]]
    /\ claim' = [claim EXCEPT ![o] = "released"]

Next == \E o \in Orders : Hold(o) \/ Release(o)

Spec == Init /\ [][Next]_vars

=============================================================================
