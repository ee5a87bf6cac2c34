----------------------------- MODULE MCDelivery ------------------------------
(***************************************************************************)
(* An instance of Delivery: one plain order with a request at a time, its   *)
(* parcel with two.                                                         *)
(***************************************************************************)
EXTENDS Delivery, TLC

CONSTANTS k1, k2

Cod == [o \in Orders |-> {<<"COD", FALSE>>}]

SlotSymmetry == Permutations({k1, k2})

=============================================================================
