----------------------------- MODULE StockLedger -----------------------------
(***************************************************************************)
(* The warehouse's stock as StockRepository keeps it, over the collections  *)
(* inventory_stocks (how much lies where), stock_balances (one document per *)
(* item), lots and stock_movements, and the stock events the warehouse      *)
(* queues for the shop.  A document that moves stock calls several of these *)
(* operators in one database transaction, so in one action.                 *)
(*                                                                          *)
(* The documents are handled by requests.  A request reads its document,    *)
(* decides, writes or commits a transaction, and then queues events; others *)
(* run between any two of these steps, and its process may die there.       *)
(*                                                                          *)
(* This module declares the state and the operations; the modules of the    *)
(* documents extend it and give the actions.  How orders reserve is the     *)
(* subject of Reservation.                                                  *)
(***************************************************************************)
EXTENDS Integers, FiniteSetsExt

CONSTANTS Items,       \* warehouse_items
          Places,      \* where stock may lie: a shelf (shelfId, no cellId), or a cell
          Shelf,       \* the shelf of each place; a shelf's own is itself
          Lots,        \* lots of perishable items
          ItemOf,      \* the item of each lot
          NoLot,       \* the lotId null
          Perishable,  \* the items with isPerishable
          Inventory0,  \* what lies where at the start
          Refs,        \* the documents that move stock: refType and refId
          Requests     \* the slots for requests that run at one time

ASSUME LedgerAssumption ==
    /\ IsFiniteSet(Items) /\ IsFiniteSet(Places) /\ IsFiniteSet(Lots) /\ IsFiniteSet(Refs)
    /\ Shelf \in [Places -> Places]
    /\ ItemOf \in [Lots -> Items]
    /\ NoLot \notin Lots
    /\ Refs \cap Lots = {}        \* a lot is no document
    /\ Perishable \subseteq Items

\* The rows of inventory_stocks: unique by item, place and lot.
Rows == {row \in Items \X Places \X (Lots \cup {NoLot}) :
            row[3] # NoLot => ItemOf[row[3]] = row[1]}
RowsOf(i) == {row \in Rows : row[1] = i}

\* The rows with cellId null: what the documents that know no cells book on.
ShelfRows == {row \in Rows : Shelf[row[2]] = row[2]}

ASSUME StartAssumption == Inventory0 \in [Rows -> Nat]

VARIABLES
    inventory,  \* InventoryStock.quantity of each row; 0 for no document
    balance,    \* StockBalance of each item
    lot,        \* Lot.status of each lot
    moved,      \* the movements of each document, summed up by row
    told        \* the jobs on the stock queue, by document and item: the delta, 0 for no job

stockVars == <<inventory, balance, lot, moved, told>>

VARIABLES
    request,    \* what each slot is at, and what it has read
    left        \* bound: the requests that may still be made

requestVars == <<request, left>>

\* The sum of the values of a function.
SumOf(f) == MapThenSumSet(LAMBDA x : f[x], DOMAIN f)

\* What a change of rows means for each item.
PerItem(delta) == [i \in Items |-> SumOf([row \in RowsOf(i) |-> delta[row]])]

Nothing == [row \in Rows |-> 0]
NoItem == [i \in Items |-> 0]

StockInit ==
    /\ inventory = Inventory0
    /\ balance = [i \in Items |-> [onHand |-> PerItem(Inventory0)[i], reserved |-> 0, expired |-> 0]]
    /\ lot = [l \in Lots |-> "ACTIVE"]
    /\ moved = [ref \in Refs |-> Nothing]
    /\ told = [ref \in Refs \cup Lots |-> NoItem]

----------------------------------------------------------------------------

\* Increments without a condition, documents made as needed.
UpsertInventory(delta) == inventory' = [row \in Rows |-> inventory[row] + delta[row]]

UpsertBalance(onHand, reserved, expired) ==
    balance' = [i \in Items |-> [onHand |-> balance[i].onHand + onHand[i],
                                 reserved |-> balance[i].reserved + reserved[i],
                                 expired |-> balance[i].expired + expired[i]]]

\* The movements of a document, or of several that one transaction books.
InsertMovements(delta) ==
    moved' = [ref \in Refs |-> IF ref \in DOMAIN delta
                               THEN [row \in Rows |-> moved[ref][row] + delta[ref][row]]
                               ELSE moved[ref]]

\* A job is named after its document and sku: one that is on the queue already is
\* not added again.
Tell(ref, delta) ==
    told' = [told EXCEPT ![ref] = [i \in Items |-> IF @[i] = 0 THEN delta[i] ELSE @[i]]]

Negative(delta) == [x \in DOMAIN delta |-> -delta[x]]

\* A row that was ever written stays, with quantity 0 if nothing is left.
Exists(row) == Inventory0[row] > 0 \/ \E ref \in Refs : moved[ref][row] # 0

\* How much of a lot lies in the warehouse.
SumInventoryByLot(l) ==
    SumOf([row \in {r \in Rows : r[3] = l /\ inventory[r] > 0} |-> inventory[row]])

\* How much of an item may be sold: what StockBalance.available computes.
Available(i) == balance[i].onHand - balance[i].reserved - balance[i].expired

----------------------------------------------------------------------------
\* Requests

Idle == [at |-> "idle"]

RequestInit(most) ==
    /\ request = [s \in Requests |-> Idle]
    /\ left = most

At(s, at) == request[s].at = at

\* A request arrives, passes its first checks and goes on at r.
Begin(s, r) ==
    /\ At(s, "idle")
    /\ left > 0
    /\ request' = [request EXCEPT ![s] = r]
    /\ left' = left - 1

Goto(s, r) == request' = [request EXCEPT ![s] = r] /\ UNCHANGED left

Done(s) == Goto(s, Idle)

\* A request that is done with one write.
Single ==
    /\ left > 0
    /\ left' = left - 1
    /\ UNCHANGED request

\* The process of a request dies, or a call of it throws.
Die(s) ==
    /\ ~At(s, "idle")
    /\ Done(s)
    /\ UNCHANGED stockVars

----------------------------------------------------------------------------
\* Properties

StockTypeOK ==
    /\ inventory \in [Rows -> Int]
    /\ balance \in [Items -> [onHand : Int, reserved : Int, expired : Int]]
    /\ lot \in [Lots -> {"ACTIVE", "EXPIRED"}]
    /\ moved \in [Refs -> [Rows -> Int]]
    /\ told \in [Refs \cup Lots -> [Items -> Int]]

\* Three records of the same stock agree, although every kind of document changes them,
\* each for its own reasons: onHand of the balance is what lies on the shelves, and what
\* lies elsewhere than at the start is explained by stock_movements.
BooksAgree ==
    /\ \A i \in Items : balance[i].onHand = PerItem(inventory)[i]
    /\ \A row \in Rows :
          inventory[row] = Inventory0[row] + SumOf([ref \in Refs |-> moved[ref][row]])

=============================================================================
