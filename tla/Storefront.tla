----------------------------- MODULE Storefront -----------------------------
(***************************************************************************)
(* The shop's side of one product: the counter the warehouse keeps up to     *)
(* date, whose variant a manager shows or hides, and the cart of a customer   *)
(* that it can be put into while it is shown.                                *)
(***************************************************************************)
EXTENDS StockCounter, Cart

CONSTANT MaxTotal                   \* bound: changes of the stock and requests together

vars == <<counterVars, cartVars>>

Init == CounterInit /\ CartInit

CounterNext == CounterStep /\ UNCHANGED cartVars
CartNext == CartStep(variant.status = "active") /\ UNCHANGED counterVars

Next ==
    /\ CounterNext \/ CartNext
    /\ Len(changes') + requests' <= MaxTotal

Spec == Init /\ [][Next]_vars

TypeOK == CounterTypeOK /\ CartTypeOK

\* Nothing tells the tabs apart, nor the SKUs of the cart.
TabSymmetry == Permutations(Handlers) \cup Permutations(Skus)
=============================================================================
