------------------------------ MODULE LotExpiry ------------------------------
(***************************************************************************)
(* ExpiredLotScanService: the daily scan moves what is left of a lot past   *)
(* its date to the expired part of the balance and tells the shop.  One     *)
(* scan runs at a time.                                                     *)
(***************************************************************************)
EXTENDS StockLedger

VARIABLES overdue,     \* the lots whose expiryDate has passed
          scan         \* the lot the scan is at, and what it found of it

Resting == [at |-> "rest"]

ExpiryInit == overdue = {} /\ scan = Resting

DatePasses(l) ==
    /\ l \notin overdue
    /\ overdue' = overdue \cup {l}
    /\ UNCHANGED <<stockVars, scan>>

\* A lot that is ACTIVE and overdue; what is left of it is summed up outside the
\* transaction.
ScanLot(l) ==
    /\ scan = Resting
    /\ l \in overdue /\ lot[l] = "ACTIVE"
    /\ scan' = [at |-> "commit", lot |-> l, qty |-> SumInventoryByLot(l)]
    /\ UNCHANGED <<stockVars, overdue>>

OfLot(l, qty) == [i \in Items |-> IF i = ItemOf[l] THEN qty ELSE 0]

\* Mutated: a lot is moved but stays ACTIVE.
ScanCommitActive ==
    /\ scan.at = "commit"
    /\ UpsertBalance(NoItem, NoItem, OfLot(scan.lot, scan.qty))
    /\ scan' = [scan EXCEPT !.at = "tell"]
    /\ UNCHANGED <<inventory, lot, moved, told, overdue>>

ScanCommit ==
    /\ scan.at = "commit"
    /\ UpsertBalance(NoItem, NoItem, OfLot(scan.lot, scan.qty))
    /\ lot' = [lot EXCEPT ![scan.lot] = "EXPIRED"]
    /\ scan' = [scan EXCEPT !.at = "tell"]
    /\ UNCHANGED <<inventory, moved, told, overdue>>

ScanTell ==
    /\ scan.at = "tell"
    /\ Tell(scan.lot, OfLot(scan.lot, -scan.qty))
    /\ scan' = Resting
    /\ UNCHANGED <<inventory, balance, lot, moved, overdue>>

\* The process dies: a lot that was not committed is found again the next day.
ScanDies ==
    /\ scan # Resting
    /\ scan' = Resting
    /\ UNCHANGED <<stockVars, overdue>>

ExpiryStep ==
    \/ \E l \in Lots : DatePasses(l) \/ ScanLot(l)
    \/ ScanCommit \/ ScanTell \/ ScanDies

=============================================================================
