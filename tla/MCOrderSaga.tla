---------------------------- MODULE MCOrderSaga ----------------------------
(***************************************************************************)
(* Instances of OrderSaga: orders of one cup each, with one or two cups on  *)
(* the shelf.                                                              *)
(***************************************************************************)
EXTENDS OrderSaga, TLC

CONSTANTS r1, cup

Cod == [o \in Orders |-> {<<"COD", FALSE>>}]
Both == ("o1" :> {<<"COD", FALSE>>}) @@ ("o2" :> {<<"ONLINE", FALSE>>})
OneNeed == ("o1" :> (cup :> 1))
TwoNeed == ("o1" :> (cup :> 1)) @@ ("o2" :> (cup :> 1))
OneOnHand == (cup :> 1)
TwoOnHand == (cup :> 2)
NoneExpired == (cup :> 0)

=============================================================================
