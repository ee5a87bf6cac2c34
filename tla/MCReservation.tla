--------------------------- MODULE MCReservation ---------------------------
(***************************************************************************)
(* Instances of Reservation.  Race: two orders want the last sellable cup  *)
(* (one more is expired), two jobs are in the queue at a time.              *)
(* Lines: an order of two skus, one that competes for the last box, and    *)
(* one of a sku that the warehouse does not know; one job at a time.       *)
(***************************************************************************)
EXTENDS Reservation, TLC

CONSTANTS o1, o2, o3, cup, box, ghost

RaceNeed == (o1 :> (cup :> 1)) @@ (o2 :> (cup :> 1))
RaceOnHand == (cup :> 2)
RaceExpired == (cup :> 1)

LinesKnown == {cup, box}
LinesNeed == (o1 :> (cup :> 1 @@ box :> 1 @@ ghost :> 0))
          @@ (o2 :> (cup :> 0 @@ box :> 1 @@ ghost :> 0))
          @@ (o3 :> (cup :> 0 @@ box :> 0 @@ ghost :> 1))
LinesOnHand == (cup :> 1 @@ box :> 1 @@ ghost :> 0)
LinesExpired == (cup :> 0 @@ box :> 0 @@ ghost :> 0)

=============================================================================
