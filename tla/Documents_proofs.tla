--------------------------- MODULE Documents_proofs ---------------------------
(***************************************************************************)
(* Theorems about Documents and PrintJob: what holds of the shelves, the    *)
(* balances, the movements, the documents and the print jobs for any number *)
(* of items, places, lots, requests, documents and jobs, whatever is        *)
(* approved or scanned twice, edited meanwhile or left half done by a       *)
(* process that dies.                                                       *)
(*                                                                         *)
(* The stock is changed by four kinds of documents, by the scan of lots and *)
(* by print jobs, each of which keeps the books for itself; so an invariant *)
(* is the books' and one part per kind, which says what its documents and   *)
(* its requests know.  What they share - sums over rows and items, and what *)
(* a transaction, a job and a request do to the books - comes first.        *)
(***************************************************************************)
EXTENDS Documents, PrintJob, Sums

\* The quantities of items, and of rows.
ItemQty == [Items -> Int]
RowQty == [Rows -> Int]

LedgerInv == StockTypeOK /\ BooksAgree

\* The slots of the requests.
SlotsInv ==
    /\ request = [s \in Requests |-> request[s]]
    /\ left \in Nat

----------------------------------------------------------------------------
\* Sums over rows

\* There are finitely many rows.
LEMMA RowsFinite == IsFiniteSet(Rows) /\ \A i \in Items : IsFiniteSet(RowsOf(i))
<1>. DEFINE Pairs == (Items \X Places) \X (Lots \cup {NoLot})
            code == [row \in Rows |-> <<<<row[1], row[2]>>, row[3]>>]
<1>1. IsFiniteSet(Lots \cup {NoLot})
  BY LedgerAssumption, FiniteWithOne
<1>2. IsFiniteSet(Items \X Places)
  BY LedgerAssumption, FiniteProduct
<1>3. IsFiniteSet(Pairs)
  BY <1>1, <1>2, FiniteProduct
<1>4. \A row \in Rows : row = <<row[1], row[2], row[3]>> /\ row \in Items \X Places \X (Lots \cup {NoLot})
  BY DEF Rows
<1>5. \A row \in Rows : code[row] \in Pairs
  BY <1>4
<1>6. \A a, b \in Rows : code[a] = code[b] => a = b
  BY <1>4
<1>7. code = [row \in Rows |-> code[row]]
  OBVIOUS
<1>8. IsFiniteSet(Rows)
  <2>. HIDE DEF Pairs, code
  <2>. QED BY <1>3, <1>5, <1>6, <1>7, FiniteByCode
<1>9. ASSUME NEW i \in Items
      PROVE  IsFiniteSet(RowsOf(i))
  BY <1>8, FiniteSubset DEF RowsOf
<1>. QED BY <1>8, <1>9

\* The model's sum is the one the lemmas of Sums are about.
LEMMA SumOfIsTotal ==
    ASSUME NEW f
    PROVE  SumOf(f) = Total(f, DOMAIN f)
BY DEF SumOf, MapThenSumSet, MapThenFoldSet, Total, Fold, Solves, Pick1

LEMMA PerItemIsTotal ==
    ASSUME NEW d, NEW i \in Items
    PROVE  PerItem(d)[i] = Total(d, RowsOf(i)) \/ ~Summable(d, RowsOf(i))
<1>. DEFINE f == [row \in RowsOf(i) |-> d[row]]
<1>1. PerItem(d)[i] = Total(f, RowsOf(i))
  <2>1. PerItem(d)[i] = SumOf(f)
    BY DEF PerItem
  <2>2. DOMAIN f = RowsOf(i)
    OBVIOUS
  <2>. HIDE DEF f
  <2>. QED BY <2>1, <2>2, SumOfIsTotal
<1>2. \A row \in RowsOf(i) : d[row] = f[row]
  OBVIOUS
<1>. HIDE DEF f
<1>. QED BY <1>1, <1>2, TotalAgrees

LEMMA RowsSummable ==
    ASSUME NEW d \in RowQty, NEW i \in Items
    PROVE  Summable(d, RowsOf(i))
BY RowsFinite DEF Summable, RowQty, RowsOf

\* What a change of rows means for an item.
LEMMA PerItemValue ==
    ASSUME NEW d \in RowQty, NEW i \in Items
    PROVE  PerItem(d)[i] = Total(d, RowsOf(i)) /\ PerItem(d)[i] \in Int
<1>1. Summable(d, RowsOf(i))
  BY RowsSummable
<1>2. PerItem(d)[i] = Total(d, RowsOf(i))
  BY <1>1, PerItemIsTotal
<1>. QED BY <1>1, <1>2, TotalRemove

LEMMA PerItemType ==
    ASSUME NEW d \in RowQty
    PROVE  PerItem(d) \in ItemQty
<1>1. \A i \in Items : PerItem(d)[i] \in Int
  BY PerItemValue
<1>. QED BY <1>1 DEF PerItem, ItemQty

LEMMA PerItemPlus ==
    ASSUME NEW d \in RowQty, NEW e \in RowQty, NEW h \in RowQty,
           \A row \in Rows : h[row] = d[row] + e[row], NEW i \in Items
    PROVE  PerItem(h)[i] = PerItem(d)[i] + PerItem(e)[i]
<1>1. Summable(d, RowsOf(i)) /\ Summable(e, RowsOf(i))
  BY RowsSummable
<1>2. \A row \in RowsOf(i) : h[row] = d[row] + e[row]
  BY DEF RowsOf
<1>. QED BY <1>1, <1>2, TotalPlus, PerItemValue

\* Two changes that undo each other.
LEMMA PerItemUndone ==
    ASSUME NEW d \in RowQty, NEW e \in RowQty, \A row \in Rows : e[row] = -d[row], NEW i \in Items
    PROVE  PerItem(e)[i] = -PerItem(d)[i]
<1>1. Nothing \in RowQty /\ \A row \in Rows : Nothing[row] = d[row] + e[row]
  BY DEF Nothing, RowQty
<1>2. PerItem(Nothing)[i] = PerItem(d)[i] + PerItem(e)[i]
  BY <1>1, PerItemPlus
<1>3. Total(Nothing, RowsOf(i)) = 0
  BY RowsFinite, TotalOfZeros DEF Nothing, RowsOf
<1>4. PerItem(Nothing)[i] = 0
  BY <1>1, <1>3, PerItemValue
<1>5. PerItem(d)[i] \in Int /\ PerItem(e)[i] \in Int
  BY PerItemValue
<1>. QED BY <1>2, <1>4, <1>5

LEMMA PerItemZero ==
    ASSUME NEW d \in RowQty, NEW i \in Items, \A row \in RowsOf(i) : d[row] = 0
    PROVE  PerItem(d)[i] = 0
BY RowsFinite, TotalOfZeros, PerItemValue

\* One row only.
LEMMA PerItemOfOne ==
    ASSUME NEW d \in RowQty, NEW i \in Items, NEW x \in RowsOf(i),
           \A row \in RowsOf(i) \ {x} : d[row] = 0
    PROVE  PerItem(d)[i] = d[x]
<1>1. Nothing \in RowQty /\ \A row \in RowsOf(i) : Nothing[row] = 0
  BY DEF Nothing, RowQty, RowsOf
<1>2. PerItem(Nothing)[i] = 0
  BY <1>1, PerItemZero
<1>3. Summable(d, RowsOf(i)) /\ Summable(Nothing, RowsOf(i))
  BY <1>1, RowsSummable
<1>4. Total(d, RowsOf(i)) = Total(Nothing, RowsOf(i)) + (d[x] - Nothing[x])
  BY <1>1, <1>3, TotalChanges
<1>5. d[x] \in Int
  BY DEF RowQty, RowsOf
<1>6. Total(d, RowsOf(i)) = PerItem(d)[i] /\ Total(Nothing, RowsOf(i)) = PerItem(Nothing)[i]
  BY <1>1, PerItemValue
<1>. QED BY <1>1, <1>2, <1>4, <1>5, <1>6

\* The movements of one row, by document.
Column(m, row) == [ref \in Refs |-> m[ref][row]]

LEMMA ColumnSum ==
    ASSUME NEW m \in [Refs -> RowQty], NEW row \in Rows
    PROVE  Summable(Column(m, row), Refs)
BY LedgerAssumption DEF Summable, Column, RowQty
----------------------------------------------------------------------------
\* Steps of the stock

\* A document books one change of rows.
LEMMA OneMovement ==
    ASSUME moved \in [Refs -> RowQty], NEW ref \in Refs, NEW d \in RowQty,
           InsertMovements([x \in {ref} |-> d])
    PROVE  /\ moved' \in [Refs -> RowQty]
           /\ \A row \in Rows : moved'[ref][row] = moved[ref][row] + d[row]
           /\ \A other \in Refs \ {ref} : moved'[other] = moved[other]
           /\ \A row \in Rows :
                 Total(Column(moved', row), Refs) = Total(Column(moved, row), Refs) + d[row]
<1>1. DOMAIN [x \in {ref} |-> d] = {ref} /\ [x \in {ref} |-> d][ref] = d
  OBVIOUS
<1>2. moved' = [other \in Refs |-> IF other = ref
                                   THEN [row \in Rows |-> moved[ref][row] + d[row]]
                                   ELSE moved[other]]
  BY <1>1 DEF InsertMovements
<1>3. \A other \in Refs : moved[other] \in RowQty
  OBVIOUS
<1>4. [row \in Rows |-> moved[ref][row] + d[row]] \in RowQty
  BY <1>3 DEF RowQty
<1>5. moved' \in [Refs -> RowQty]
  BY <1>2, <1>3, <1>4
<1>6. \A row \in Rows : moved'[ref][row] = moved[ref][row] + d[row]
  BY <1>2
<1>7. \A other \in Refs \ {ref} : moved'[other] = moved[other]
  BY <1>2
<1>8. ASSUME NEW row \in Rows
      PROVE  Total(Column(moved', row), Refs) = Total(Column(moved, row), Refs) + d[row]
  <2>1. Summable(Column(moved, row), Refs) /\ Summable(Column(moved', row), Refs)
    BY <1>5, ColumnSum
  <2>2. \A other \in Refs \ {ref} : Column(moved, row)[other] = Column(moved', row)[other]
    BY <1>7 DEF Column
  <2>3. Total(Column(moved', row), Refs) = Total(Column(moved, row), Refs)
            + (Column(moved', row)[ref] - Column(moved, row)[ref])
    BY <2>1, <2>2, TotalChanges
  <2>4. Column(moved', row)[ref] = moved[ref][row] + d[row] /\ Column(moved, row)[ref] = moved[ref][row]
    BY <1>6 DEF Column
  <2>5. moved[ref][row] \in Int /\ d[row] \in Int /\ Total(Column(moved, row), Refs) \in Int
    BY <1>3, <2>1, TotalRemove DEF RowQty
  <2>. QED BY <2>3, <2>4, <2>5
<1>. QED BY <1>5, <1>6, <1>7, <1>8

\* A transaction books the changes of two documents.
LEMMA TwoMovements ==
    ASSUME moved \in [Refs -> RowQty], NEW a \in Refs, NEW b \in Refs, a # b,
           NEW d \in RowQty, NEW e \in RowQty, InsertMovements([x \in {a, b} |-> IF x = a THEN d ELSE e])
    PROVE  /\ moved' \in [Refs -> RowQty]
           /\ \A row \in Rows : moved'[a][row] = moved[a][row] + d[row]
           /\ \A row \in Rows : moved'[b][row] = moved[b][row] + e[row]
           /\ \A other \in Refs \ {a, b} : moved'[other] = moved[other]
           /\ \A row \in Rows :
                 Total(Column(moved', row), Refs) = Total(Column(moved, row), Refs) + (d[row] + e[row])
<1>. DEFINE half == [other \in Refs |-> IF other = a
                                        THEN [row \in Rows |-> moved[a][row] + d[row]]
                                        ELSE moved[other]]
<1>2. moved' = [other \in Refs |-> IF other = b
                                   THEN [row \in Rows |-> moved[b][row] + e[row]]
                                   ELSE half[other]]
  BY DEF InsertMovements
<1>3. \A other \in Refs : moved[other] \in RowQty
  OBVIOUS
<1>4. /\ [row \in Rows |-> moved[a][row] + d[row]] \in RowQty
      /\ [row \in Rows |-> moved[b][row] + e[row]] \in RowQty
  BY <1>3 DEF RowQty
<1>5. half \in [Refs -> RowQty] /\ moved' \in [Refs -> RowQty]
  BY <1>2, <1>3, <1>4
<1>6. \A row \in Rows : half[a][row] = moved[a][row] + d[row] /\ moved'[a][row] = half[a][row]
  BY <1>2
<1>7. \A row \in Rows : half[b][row] = moved[b][row] /\ moved'[b][row] = moved[b][row] + e[row]
  BY <1>2
<1>8. \A other \in Refs \ {a, b} : moved'[other] = moved[other] /\ half[other] = moved[other]
  BY <1>2
<1>9. ASSUME NEW row \in Rows
      PROVE  Total(Column(moved', row), Refs) = Total(Column(moved, row), Refs) + (d[row] + e[row])
  <2>. HIDE DEF half
  <2>1. /\ Summable(Column(moved, row), Refs) /\ Summable(Column(moved', row), Refs)
        /\ Summable(Column(half, row), Refs)
    BY <1>5, ColumnSum
  <2>2. /\ \A other \in Refs \ {a} : Column(moved, row)[other] = Column(half, row)[other]
        /\ \A other \in Refs \ {b} : Column(half, row)[other] = Column(moved', row)[other]
    BY <1>6, <1>7, <1>8 DEF Column
  <2>3. Total(Column(half, row), Refs) = Total(Column(moved, row), Refs)
            + (Column(half, row)[a] - Column(moved, row)[a])
    BY <2>1, <2>2, TotalChanges
  <2>4. Total(Column(moved', row), Refs) = Total(Column(half, row), Refs)
            + (Column(moved', row)[b] - Column(half, row)[b])
    BY <2>1, <2>2, TotalChanges
  <2>5. /\ Column(half, row)[a] = moved[a][row] + d[row] /\ Column(moved, row)[a] = moved[a][row]
        /\ Column(moved', row)[b] = moved[b][row] + e[row] /\ Column(half, row)[b] = moved[b][row]
    BY <1>6, <1>7 DEF Column
  <2>6. /\ moved[a][row] \in Int /\ d[row] \in Int /\ Total(Column(moved, row), Refs) \in Int
        /\ moved[b][row] \in Int /\ e[row] \in Int
    BY <1>3, <2>1, TotalRemove DEF RowQty
  <2>. QED BY <2>3, <2>4, <2>5, <2>6
<1>. QED BY <1>5, <1>6, <1>7, <1>8, <1>9

\* BooksAgree, with the sum over the documents as a Total.
LEMMA BooksByColumn ==
    BooksAgree <=>
        /\ \A i \in Items : balance[i].onHand = PerItem(inventory)[i]
        /\ \A row \in Rows : inventory[row] = Inventory0[row] + Total(Column(moved, row), Refs)
<1>1. ASSUME NEW row \in Rows
      PROVE  SumOf([ref \in Refs |-> moved[ref][row]]) = Total(Column(moved, row), Refs)
  <2>1. DOMAIN [ref \in Refs |-> moved[ref][row]] = Refs
    OBVIOUS
  <2>2. SumOf([ref \in Refs |-> moved[ref][row]]) = Total([ref \in Refs |-> moved[ref][row]], Refs)
    BY <2>1, SumOfIsTotal
  <2>. QED BY <2>2 DEF Column
<1>. QED BY <1>1 DEF BooksAgree

\* At the start every record says what Inventory0 says.
LEMMA LedgerStart == StockInit => LedgerInv
<1>. SUFFICES ASSUME StockInit PROVE LedgerInv
  OBVIOUS
<1>1. /\ inventory = Inventory0
      /\ balance = [i \in Items |-> [onHand |-> PerItem(Inventory0)[i], reserved |-> 0, expired |-> 0]]
      /\ lot = [l \in Lots |-> "ACTIVE"]
      /\ moved = [ref \in Refs |-> Nothing]
      /\ told = [ref \in Refs \cup Lots |-> NoItem]
  BY DEF StockInit
<1>2. /\ Inventory0 \in RowQty /\ Nothing \in RowQty /\ NoItem \in ItemQty
      /\ \A row \in Rows : Nothing[row] = 0
  BY StartAssumption DEF RowQty, ItemQty, Nothing, NoItem
<1>3. \A i \in Items : PerItem(Inventory0)[i] \in Int
  BY <1>2, PerItemValue
<1>4. StockTypeOK
  BY <1>1, <1>2, <1>3 DEF StockTypeOK, RowQty, ItemQty
<1>5. \A i \in Items : balance[i].onHand = PerItem(inventory)[i]
  BY <1>1
<1>6. ASSUME NEW row \in Rows
      PROVE  inventory[row] = Inventory0[row] + Total(Column(moved, row), Refs)
  <2>1. \A ref \in Refs : Column(moved, row)[ref] = 0
    BY <1>1, <1>2 DEF Column
  <2>2. Total(Column(moved, row), Refs) = 0
    BY <2>1, LedgerAssumption, TotalOfZeros
  <2>3. Inventory0[row] \in Int
    BY <1>2 DEF RowQty
  <2>. QED BY <1>1, <2>2, <2>3
<1>7. BooksAgree
  BY <1>5, <1>6, BooksByColumn
<1>. QED BY <1>4, <1>7 DEF LedgerInv

LEMMA QuietLedger == LedgerInv /\ UNCHANGED stockVars => LedgerInv'
BY DEF LedgerInv, StockTypeOK, BooksAgree, stockVars

\* The transaction of a document: the rows, the balances of their items and the
\* movements change by the same.
LEMMA CommitLedger ==
    ASSUME LedgerInv, NEW d \in RowQty, NEW onHand, NEW reserved \in ItemQty, NEW expired \in ItemQty,
           \A i \in Items : onHand[i] = PerItem(d)[i],
           UpsertInventory(d), UpsertBalance(onHand, reserved, expired),
           moved' \in [Refs -> RowQty],
           \A row \in Rows :
               Total(Column(moved', row), Refs) = Total(Column(moved, row), Refs) + d[row],
           lot' \in [Lots -> {"ACTIVE", "EXPIRED"}], told' = told
    PROVE  LedgerInv'
<1>1. /\ inventory \in RowQty
      /\ balance \in [Items -> [onHand : Int, reserved : Int, expired : Int]]
      /\ moved \in [Refs -> RowQty]
  BY DEF LedgerInv, StockTypeOK, RowQty
<1>2. inventory' \in RowQty /\ \A row \in Rows : inventory'[row] = inventory[row] + d[row]
  BY <1>1 DEF UpsertInventory, RowQty
<1>3. \A i \in Items : onHand[i] \in Int
  BY PerItemValue
<1>4. \A i \in Items : /\ balance[i].onHand \in Int /\ balance[i].reserved \in Int
                       /\ balance[i].expired \in Int
                       /\ reserved[i] \in Int /\ expired[i] \in Int
  BY <1>1 DEF ItemQty
<1>5. balance' \in [Items -> [onHand : Int, reserved : Int, expired : Int]]
  BY <1>3, <1>4 DEF UpsertBalance
<1>6. StockTypeOK'
  BY <1>2, <1>5 DEF StockTypeOK, LedgerInv, RowQty
<1>7. ASSUME NEW i \in Items
      PROVE  balance'[i].onHand = PerItem(inventory')[i]
  <2>1. balance'[i].onHand = balance[i].onHand + onHand[i]
    BY DEF UpsertBalance
  <2>2. balance[i].onHand = PerItem(inventory)[i]
    BY DEF LedgerInv, BooksAgree
  <2>3. PerItem(inventory')[i] = PerItem(inventory)[i] + PerItem(d)[i]
    BY <1>1, <1>2, PerItemPlus
  <2>. QED BY <2>1, <2>2, <2>3
<1>8. ASSUME NEW row \in Rows
      PROVE  inventory'[row] = Inventory0[row] + Total(Column(moved', row), Refs)
  <2>1. inventory[row] = Inventory0[row] + Total(Column(moved, row), Refs)
    BY BooksByColumn DEF LedgerInv
  <2>2. /\ Inventory0[row] \in Int /\ d[row] \in Int
        /\ Total(Column(moved, row), Refs) \in Int
    <3>1. Summable(Column(moved, row), Refs)
      BY <1>1, ColumnSum
    <3>. QED BY <3>1, TotalRemove, StartAssumption DEF RowQty
  <2>. QED BY <1>2, <2>1, <2>2
<1>9. BooksAgree'
  <2>1. (/\ \A i \in Items : balance[i].onHand = PerItem(inventory)[i]
         /\ \A row \in Rows : inventory[row] = Inventory0[row] + Total(Column(moved, row), Refs))'
    BY <1>7, <1>8
  <2>. QED BY <2>1, BooksByColumn, PTL
<1>. QED BY <1>6, <1>9 DEF LedgerInv

\* A document, or a lot, tells the shop; a job that is queued stands.
LEMMA TellLedger ==
    ASSUME LedgerInv, NEW ref \in Refs \cup Lots, NEW d \in ItemQty,
           Tell(ref, d), UNCHANGED <<inventory, balance, lot, moved>>
    PROVE  /\ LedgerInv'
           /\ \A i \in Items : told'[ref][i] = IF told[ref][i] = 0 THEN d[i] ELSE told[ref][i]
           /\ \A other \in (Refs \cup Lots) \ {ref} : told'[other] = told[other]
<1>1. told \in [Refs \cup Lots -> ItemQty]
  BY DEF LedgerInv, StockTypeOK, ItemQty
<1>2. told' = [other \in Refs \cup Lots |->
                  IF other = ref THEN [i \in Items |-> IF told[ref][i] = 0 THEN d[i] ELSE told[ref][i]]
                  ELSE told[other]]
  BY <1>1 DEF Tell
<1>3. told[ref] \in ItemQty
  BY <1>1
<1>4. [i \in Items |-> IF told[ref][i] = 0 THEN d[i] ELSE told[ref][i]] \in ItemQty
  BY <1>3 DEF ItemQty
<1>5. told' \in [Refs \cup Lots -> ItemQty]
  BY <1>1, <1>2, <1>4
<1>6. /\ \A i \in Items : told'[ref][i] = IF told[ref][i] = 0 THEN d[i] ELSE told[ref][i]
      /\ \A other \in (Refs \cup Lots) \ {ref} : told'[other] = told[other]
  BY <1>2
<1>7. StockTypeOK'
  BY <1>5 DEF StockTypeOK, LedgerInv, ItemQty
<1>8. BooksAgree'
  BY DEF LedgerInv, BooksAgree
<1>. QED BY <1>6, <1>7, <1>8 DEF LedgerInv

----------------------------------------------------------------------------
\* Steps of the slots

LEMMA SlotGoes ==
    ASSUME SlotsInv, NEW s \in Requests, NEW r, request' = [request EXCEPT ![s] = r], left' \in Nat
    PROVE  /\ SlotsInv'
           /\ request'[s] = r
           /\ \A t \in Requests \ {s} : request'[t] = request[t]
<1>1. request = [t \in Requests |-> request[t]]
  BY DEF SlotsInv
<1>2. request' = [t \in Requests |-> IF t = s THEN r ELSE request[t]]
  BY <1>1
<1>3. request' = [t \in Requests |-> request'[t]]
  BY <1>2
<1>. QED BY <1>2, <1>3 DEF SlotsInv

LEMMA SlotBegins ==
    ASSUME SlotsInv, NEW s \in Requests, NEW r, Begin(s, r)
    PROVE  /\ SlotsInv'
           /\ request'[s] = r
           /\ \A t \in Requests \ {s} : request'[t] = request[t]
<1>1. left' \in Nat
  BY DEF Begin, SlotsInv
<1>. QED BY <1>1, SlotGoes DEF Begin

LEMMA SlotGoesOn ==
    ASSUME SlotsInv, NEW s \in Requests, NEW r, Goto(s, r)
    PROVE  /\ SlotsInv'
           /\ request'[s] = r
           /\ \A t \in Requests \ {s} : request'[t] = request[t]
<1>1. left' \in Nat
  BY DEF Goto, SlotsInv
<1>. QED BY <1>1, SlotGoes DEF Goto

LEMMA SlotSingle == SlotsInv /\ Single => SlotsInv' /\ request' = request
BY DEF SlotsInv, Single

\* No document but these tells the shop of anything.
Speaking == Grns \cup {"return", "scrap", "count"}

BooksInv ==
    /\ StockTypeOK
    /\ BooksAgree
    /\ \A ref \in Refs \ Speaking : told[ref] = NoItem

----------------------------------------------------------------------------
\* Receipts

ReceiptSteps == {"grn.count", "grn.insert", "grn.replace", "grn.image", "grn.submit",
                 "grn.approve", "grn.tell"}

\* The lines a request has read are those of a receipt, the note it is about exists,
\* and an approval that tells the shop is the one that was booked.
ReceiptRequestOK(r) ==
    /\ r.at \in {"grn.count", "grn.insert"} => r.po \in Pos /\ po[r.po].status # "none"
    /\ r.at \in {"grn.count", "grn.insert", "grn.replace", "grn.approve"} => r.lines \in Receipts
    /\ r.at = "grn.insert" => r.number \in Nat
    /\ r.at \in {"grn.replace", "grn.image", "grn.submit", "grn.approve", "grn.tell"} =>
           r.grn \in Grns /\ grn[r.grn].status # "none"
    /\ r.at = "grn.approve" => Ready(r.lines)
    /\ r.at = "grn.tell" => r.lines = task[r.grn] /\ r.lines # <<>>

\* What the movements of the approved notes of an order brought of an item.
CameOf(p, i) ==
    [g \in Grns |-> IF grn[g].status = "APPROVED" /\ grn[g].po = p THEN PerItem(moved[g])[i] ELSE 0]

\* OrderCountsReceipts for a line of an order, with the sum taken over all notes.
LineCounts(p, doc, n) ==
    LET line == doc.lines[n] IN
    IF n = PoLine(doc.lines, line.item)
    THEN /\ line.received = Total(CameOf(p, line.item), Grns)
         /\ doc.status = "COMPLETED" => line.received >= line.expected
    ELSE line.received = 0

CountsReceipts == \A p \in Pos : \A n \in DOMAIN po[p].lines : LineCounts(p, po[p], n)

ReceivingInv ==
    /\ ReceivingTypeOK
    /\ \A g \in Grns : grn[g].status # "none" => po[grn[g].po].status # "none"
    /\ CountsReceipts
    /\ BookedOnce
    /\ \A g \in Grns, i \in Items :
          told[g][i] # 0 => \E row \in RowsOf(i) : moved[g][row] # 0
    /\ \A s \in Requests : ReceiptRequestOK(request[s])

----------------------------------------------------------------------------
\* The return

ReturnSteps == {"return.inspect", "return.confirm", "return.tell", "return.cancel"}

\* What is left on the shelves of the return and the scrap notes made for it.
Kept(i) == PerItem(moved["return"])[i] + PerItem(moved["rma"])[i]

\* A confirmation that is about to tell the shop has booked what it will tell.
ReturnRequestOK(r) ==
    /\ r.at \in {"return.inspect", "return.confirm", "return.tell"} => r.line \in ValidInspections
    /\ r.at = "return.tell" =>
           \A i \in ReturnedItems :
               /\ Quantities(GoodLines(r.line))[i] <= Kept(i)
               /\ \E row \in RowsOf(i) : moved["return"][row] # 0

ReturnInv ==
    /\ return \in ReturnDocs
    /\ return.status = "INSPECTED" => return.line \in ValidInspections
    /\ \A row \in Rows : moved["return"][row] >= 0
    /\ OnlyGoodIsTold
    /\ \A i \in Items :
          told["return"][i] # 0 => \E row \in RowsOf(i) : moved["return"][row] # 0
    /\ \A s \in Requests : ReturnRequestOK(request[s])

----------------------------------------------------------------------------
\* The scrap note

ScrapSteps == {"note.approve", "note.tell", "note.reject"}

ScrapRequestOK(r) ==
    /\ r.at \in ScrapSteps => note.status # "none"
    /\ r.at = "note.tell" => \A row \in Rows : note.lines[row] > 0 => moved["scrap"][row] # 0

ScrapInv ==
    /\ note \in NoteDocs
    /\ \A row \in Rows : moved["scrap"][row] <= 0
    /\ \A i \in Items :
          told["scrap"][i] # 0 => \E row \in RowsOf(i) : moved["scrap"][row] # 0
    /\ \A s \in Requests : ScrapRequestOK(request[s])

----------------------------------------------------------------------------
\* The count

CountSteps == {"count.item", "count.delta", "count.mark", "count.approve", "count.tell"}

\* A number is entered for a line of the count, and an approval adjusts only rows
\* of items it counted.
CountRequestOK(r) ==
    /\ r.at \in CountSteps => count.status # "none"
    /\ r.at \in {"count.item", "count.delta"} =>
           r \in [at : {"count.item", "count.delta"}, line : DOMAIN count.lines, n : Counts,
                  first : BOOLEAN]
    /\ r.at \in {"count.approve", "count.tell"} =>
           /\ r \in [at : {"count.approve", "count.tell"}, delta : RowQty]
           /\ \A row \in Rows : r.delta[row] # 0 => \E l \in DOMAIN count.lines : l[1] = row[1]

CountDocs == [status : CountStatuses, lines : UNION {[S -> LineDocs] : S \in SUBSET Rows}]

CountInv ==
    /\ count \in CountDocs
    /\ count.status = "none" => DOMAIN count.lines = {}
    /\ \A i \in Items :
          told["count"][i] # 0 => \E row \in DOMAIN count.lines : row[1] = i
    /\ \A s \in Requests : CountRequestOK(request[s])

----------------------------------------------------------------------------
\* The scan

ScanInv ==
    /\ overdue \subseteq Lots
    /\ scan = Resting \/ scan \in [at : {"commit", "tell"}, lot : Lots, qty : Int]
    /\ scan.at = "tell" => lot[scan.lot] = "EXPIRED"
    /\ \A l \in Lots, i \in Items : told[l][i] # 0 => lot[l] = "EXPIRED"

DInv ==
    /\ BooksInv
    /\ SlotsInv
    /\ ReceivingInv
    /\ ReturnInv
    /\ ScrapInv
    /\ CountInv
    /\ ScanInv

----------------------------------------------------------------------------
\* The books, with what was told

LEMMA QuietBooks == BooksInv /\ UNCHANGED stockVars => BooksInv'
BY QuietLedger DEF BooksInv, LedgerInv, stockVars

LEMMA CommitBooks ==
    ASSUME BooksInv, NEW d \in RowQty, NEW onHand, NEW reserved \in ItemQty, NEW expired \in ItemQty,
           \A i \in Items : onHand[i] = PerItem(d)[i],
           UpsertInventory(d), UpsertBalance(onHand, reserved, expired),
           moved' \in [Refs -> RowQty],
           \A row \in Rows :
               Total(Column(moved', row), Refs) = Total(Column(moved, row), Refs) + d[row],
           lot' \in [Lots -> {"ACTIVE", "EXPIRED"}], told' = told
    PROVE  BooksInv'
<1>1. LedgerInv
  BY DEF BooksInv, LedgerInv
<1>2. LedgerInv'
  BY <1>1, CommitLedger
<1>. QED BY <1>2 DEF BooksInv, LedgerInv

\* Only documents that speak, and lots, tell the shop.
LEMMA TellBooks ==
    ASSUME BooksInv, NEW ref \in (Refs \cap Speaking) \cup Lots, NEW d \in ItemQty,
           Tell(ref, d), UNCHANGED <<inventory, balance, lot, moved>>
    PROVE  /\ BooksInv'
           /\ \A i \in Items : told'[ref][i] = IF told[ref][i] = 0 THEN d[i] ELSE told[ref][i]
           /\ \A other \in (Refs \cup Lots) \ {ref} : told'[other] = told[other]
<1>1. LedgerInv /\ ref \in Refs \cup Lots
  BY DEF BooksInv, LedgerInv
<1>2. /\ LedgerInv'
      /\ \A i \in Items : told'[ref][i] = IF told[ref][i] = 0 THEN d[i] ELSE told[ref][i]
      /\ \A other \in (Refs \cup Lots) \ {ref} : told'[other] = told[other]
  BY <1>1, TellLedger
<1>3. \A other \in Refs \ Speaking : told'[other] = NoItem
  BY <1>2, LedgerAssumption DEF BooksInv
<1>. QED BY <1>2, <1>3 DEF BooksInv, LedgerInv
----------------------------------------------------------------------------
\* What the lines of a receipt come to

\* The quantity of each line, and the row it is booked on.
QtyOf(lines) == [n \in DOMAIN lines |-> lines[n].qty]
RowAt(lines) == [n \in DOMAIN lines |-> <<lines[n].item, Staging, lines[n].lot>>]

\* The lines that may come, those of no task included.
ReceiptLines == Receipts \cup {<<>>}

LEMMA LinesType ==
    ASSUME NEW lines \in ReceiptLines
    PROVE  /\ IsFiniteSet(DOMAIN lines)
           /\ \A n \in DOMAIN lines : /\ lines[n].item \in Items
                                      /\ lines[n].lot \in Lots \cup {NoLot}
                                      /\ lines[n].qty \in Nat
                                      /\ RowAt(lines)[n] \in RowsOf(lines[n].item)
<1>. DEFINE Line == [item : Items, lot : Lots \cup {NoLot}, qty : Nat]
<1>1. lines \in Seq(Line)
  <2>1. CASE lines \in Receipts
    BY <2>1, ReceivingAssumption
  <2>2. CASE lines = <<>>
    <3>. HIDE DEF Line
    <3>. QED BY <2>2
  <2>. QED BY <2>1, <2>2 DEF ReceiptLines
<1>2. DOMAIN lines = 1 .. Len(lines) /\ Len(lines) \in Nat
  <2>. HIDE DEF Line
  <2>. QED BY <1>1
<1>3. \A n \in DOMAIN lines : lines[n] \in Line
  <2>. HIDE DEF Line
  <2>. QED BY <1>1, <1>2
<1>4. \A n \in DOMAIN lines : lines[n].lot # NoLot => ItemOf[lines[n].lot] = lines[n].item
  BY <1>2, ReceivingAssumption DEF ReceiptLines
<1>5. IsFiniteSet(DOMAIN lines)
  BY <1>2, FiniteInterval
<1>6. ASSUME NEW n \in DOMAIN lines
      PROVE  RowAt(lines)[n] \in RowsOf(lines[n].item)
  <2>1. /\ lines[n].item \in Items /\ lines[n].lot \in Lots \cup {NoLot} /\ Staging \in Places
    BY <1>3, ReceivingAssumption
  <2>2. RowAt(lines)[n] = <<lines[n].item, Staging, lines[n].lot>>
    BY DEF RowAt
  <2>. QED BY <1>4, <2>1, <2>2 DEF RowsOf, Rows
<1>. QED BY <1>3, <1>5, <1>6

\* The lines of an item, and those of a row.
ItemLines(lines, i) == {m \in DOMAIN lines : lines[m].item = i}
RowLines(lines, row) == {m \in DOMAIN lines : row = RowAt(lines)[m]}

LEMMA LinesSummable ==
    ASSUME NEW lines \in ReceiptLines, NEW S \in SUBSET DOMAIN lines
    PROVE  Summable(QtyOf(lines), S) /\ Total(QtyOf(lines), S) \in Nat
<1>1. IsFiniteSet(S)
  BY LinesType, FiniteSubset
<1>2. \A n \in S : QtyOf(lines)[n] \in Nat
  BY LinesType DEF QtyOf
<1>. QED BY <1>1, <1>2, TotalNatural DEF Summable

LEMMA TotalsValue ==
    ASSUME NEW lines \in ReceiptLines, NEW i \in Items
    PROVE  Totals(lines)[i] = Total(QtyOf(lines), ItemLines(lines, i)) /\ Totals(lines)[i] \in Nat
<1>. DEFINE S == ItemLines(lines, i)
            f == [n \in S |-> lines[n].qty]
<1>1. S \in SUBSET DOMAIN lines
  BY DEF ItemLines
<1>2. Totals(lines)[i] = SumOf(f)
  BY DEF Totals, ItemLines
<1>3. DOMAIN f = S
  OBVIOUS
<1>4. \A n \in S : QtyOf(lines)[n] = f[n]
  BY <1>1 DEF QtyOf
<1>5. Summable(QtyOf(lines), S) /\ Total(QtyOf(lines), S) \in Nat
  BY <1>1, LinesSummable
<1>6. SumOf(f) = Total(f, S)
  <2>. HIDE DEF f
  <2>. QED BY <1>3, SumOfIsTotal
<1>7. Total(QtyOf(lines), S) = Total(f, S)
  <2>. HIDE DEF f
  <2>. QED BY <1>4, <1>5, TotalAgrees
<1>. QED BY <1>2, <1>5, <1>6, <1>7

LEMMA TotalsType ==
    ASSUME NEW lines \in ReceiptLines
    PROVE  Totals(lines) \in ItemQty
<1>1. \A i \in Items : Totals(lines)[i] \in Int
  BY TotalsValue
<1>. QED BY <1>1 DEF Totals, ItemQty

LEMMA BookedValue ==
    ASSUME NEW lines \in ReceiptLines, NEW row \in Rows
    PROVE  Booked(lines)[row] = Total(QtyOf(lines), RowLines(lines, row)) /\ Booked(lines)[row] \in Nat
<1>. DEFINE S == {m \in DOMAIN lines : row = <<lines[m].item, Staging, lines[m].lot>>}
            f == [n \in S |-> lines[n].qty]
<1>1. S = RowLines(lines, row)
  BY DEF RowLines, RowAt
<1>2. S \in SUBSET DOMAIN lines
  OBVIOUS
<1>3. Booked(lines)[row] = SumOf(f)
  BY DEF Booked
<1>4. DOMAIN f = S
  OBVIOUS
<1>5. \A n \in S : QtyOf(lines)[n] = f[n]
  BY <1>2 DEF QtyOf
<1>6. Summable(QtyOf(lines), S) /\ Total(QtyOf(lines), S) \in Nat
  <2>. HIDE DEF S
  <2>. QED BY <1>2, LinesSummable
<1>7. SumOf(f) = Total(f, S)
  <2>. HIDE DEF f
  <2>. QED BY <1>4, SumOfIsTotal
<1>8. Total(QtyOf(lines), S) = Total(f, S)
  <2>. HIDE DEF f
  <2>. QED BY <1>5, <1>6, TotalAgrees
<1>. HIDE DEF S, f
<1>. QED BY <1>1, <1>3, <1>6, <1>7, <1>8

LEMMA BookedType ==
    ASSUME NEW lines \in ReceiptLines
    PROVE  Booked(lines) \in RowQty
<1>1. \A row \in Rows : Booked(lines)[row] \in Int
  BY BookedValue
<1>. QED BY <1>1 DEF Booked, RowQty

\* Of each item, what is booked is what the lines name.
LEMMA BookedOfItem ==
    ASSUME NEW lines \in ReceiptLines, NEW i \in Items
    PROVE  PerItem(Booked(lines))[i] = Totals(lines)[i]
<1>. DEFINE S == ItemLines(lines, i)
            group == [row \in RowsOf(i) |-> Total(QtyOf(lines), Fibre(RowAt(lines), S, row))]
<1>1. Summable(QtyOf(lines), S)
  BY LinesSummable DEF ItemLines
<1>2. \A n \in S : RowAt(lines)[n] \in RowsOf(i)
  BY LinesType DEF ItemLines
<1>3. Total(group, RowsOf(i)) = Total(QtyOf(lines), S)
  <2>. HIDE DEF S
  <2>. QED BY <1>1, <1>2, RowsFinite, TotalByGroup
<1>4. ASSUME NEW row \in RowsOf(i)
      PROVE  Booked(lines)[row] = group[row]
  <2>1. \A n \in DOMAIN lines : RowAt(lines)[n] = <<lines[n].item, Staging, lines[n].lot>>
    BY DEF RowAt
  <2>2. row[1] = i /\ row \in Rows
    BY DEF RowsOf
  <2>3. RowLines(lines, row) = Fibre(RowAt(lines), S, row)
    BY <2>1, <2>2 DEF RowLines, Fibre, ItemLines
  <2>4. Booked(lines)[row] = Total(QtyOf(lines), RowLines(lines, row))
    BY <2>2, BookedValue
  <2>. HIDE DEF S
  <2>. QED BY <2>3, <2>4
<1>5. Booked(lines) \in RowQty /\ Summable(Booked(lines), RowsOf(i))
  BY BookedType, RowsSummable
<1>6. Total(Booked(lines), RowsOf(i)) = Total(group, RowsOf(i))
  <2>. HIDE DEF group
  <2>. QED BY <1>4, <1>5, TotalAgrees
<1>7. PerItem(Booked(lines))[i] = Total(Booked(lines), RowsOf(i))
  BY <1>5, PerItemValue
<1>8. Totals(lines)[i] = Total(QtyOf(lines), S)
  BY TotalsValue
<1>. HIDE DEF S, group
<1>. QED BY <1>3, <1>6, <1>7, <1>8

\* A note without lines books nothing.
LEMMA NothingBooked == Booked(<<>>) = Nothing
<1>1. <<>> \in ReceiptLines /\ DOMAIN <<>> = {}
  BY DEF ReceiptLines
<1>2. \A row \in Rows : RowLines(<<>>, row) = {}
  BY <1>1 DEF RowLines
<1>3. \A row \in Rows : Booked(<<>>)[row] = 0
  BY <1>1, <1>2, BookedValue, TotalEmpty
<1>4. Booked(<<>>) = [row \in Rows |-> Booked(<<>>)[row]]
  BY DEF Booked
<1>. QED BY <1>3, <1>4 DEF Nothing

\* What comes of an item lies on one of its rows.
LEMMA NamedIsBooked ==
    ASSUME NEW lines \in ReceiptLines, NEW i \in Items, Totals(lines)[i] # 0
    PROVE  \E row \in RowsOf(i) : Booked(lines)[row] # 0
<1>1. PerItem(Booked(lines))[i] # 0
  BY BookedOfItem
<1>2. Booked(lines) \in RowQty
  BY BookedType
<1>. QED BY <1>1, <1>2, PerItemZero

\* The lines of orders

LEMMA SamePoLine ==
    ASSUME NEW a, NEW b, Len(a) = Len(b), \A n \in 1 .. Len(a) : a[n].item = b[n].item, NEW i
    PROVE  PoLine(a, i) = PoLine(b, i)
<1>1. {n \in 1 .. Len(a) : a[n].item = i} = {n \in 1 .. Len(b) : b[n].item = i}
  OBVIOUS
<1>. QED BY <1>1 DEF PoLine, SelectInSeq
----------------------------------------------------------------------------
\* A step of one kind of document leaves the others' movements, jobs and requests alone.
Else(refs, steps) ==
    /\ \A ref \in Refs \ refs : moved'[ref] = moved[ref]
    /\ \A ref \in (Refs \cup Lots) \ refs : told'[ref] = told[ref]
    /\ \A t \in Requests : request'[t] = request[t] \/ request'[t].at \in steps \cup {"idle"}

----------------------------------------------------------------------------
\* Steps of receipts

ReceivingKept == BooksInv' /\ SlotsInv' /\ ReceivingInv' /\ Else(Grns, ReceiptSteps) /\ lot' = lot

\* The notes there are.
RealNotes == [status : {"DRAFT", "PENDING_APPROVAL", "APPROVED", "REJECTED", "deleted"},
              po : Pos, number : Nat, lines : Receipts, pictures : Nat]

LEMMA NoteIsReal ==
    ASSUME ReceivingInv, NEW g \in Grns, grn[g].status # "none"
    PROVE  grn[g] \in RealNotes
<1>1. grn[g] = NoGrn \/ grn[g] \in RealNotes
  BY DEF ReceivingInv, ReceivingTypeOK, GrnDocs, RealNotes
<1>. QED BY <1>1 DEF NoGrn

\* A request that is not about a receipt knows nothing of one.
LEMMA OtherIsNoReceipt ==
    ASSUME NEW r, r.at \notin ReceiptSteps
    PROVE  ReceiptRequestOK(r)
BY DEF ReceiptRequestOK, ReceiptSteps

\* What a request knows stays true: documents do not vanish, tasks are not made again.
LEMMA ReceiptRequestStays ==
    ASSUME NEW r, ReceiptRequestOK(r),
           \A p \in Pos : po[p].status # "none" => po'[p].status # "none",
           \A g \in Grns : grn[g].status # "none" => grn'[g].status # "none",
           \A g \in Grns : task[g] # <<>> => task'[g] = task[g]
    PROVE  ReceiptRequestOK(r)'
<1>1. r.at \in {"grn.count", "grn.insert"} => r.po \in Pos /\ po'[r.po].status # "none"
  BY DEF ReceiptRequestOK
<1>2. r.at \in {"grn.replace", "grn.image", "grn.submit", "grn.approve", "grn.tell"} =>
           r.grn \in Grns /\ grn'[r.grn].status # "none"
  BY DEF ReceiptRequestOK
<1>3. r.at = "grn.tell" => r.lines = task'[r.grn] /\ r.lines # <<>>
  BY <1>2 DEF ReceiptRequestOK
<1>. QED BY <1>1, <1>2, <1>3 DEF ReceiptRequestOK

\* Documents, movements and jobs of receipts as they were.
LEMMA ReceivingFrame ==
    ASSUME ReceivingInv, UNCHANGED receivingVars,
           \A g \in Grns : moved'[g] = moved[g] /\ told'[g] = told[g],
           \A t \in Requests : request'[t] = request[t] \/ ReceiptRequestOK(request[t])'
    PROVE  ReceivingInv'
<1>1. po' = po /\ grn' = grn /\ task' = task /\ supplier' = supplier
  BY DEF receivingVars
<1>2. ReceivingTypeOK'
  BY <1>1 DEF ReceivingInv, ReceivingTypeOK
<1>3. (\A g \in Grns : grn[g].status # "none" => po[grn[g].po].status # "none")'
  BY <1>1 DEF ReceivingInv
<1>4. CountsReceipts'
  <2>1. \A p, i : CameOf(p, i)' = CameOf(p, i)
    BY <1>1 DEF CameOf
  <2>. QED BY <1>1, <2>1 DEF ReceivingInv, CountsReceipts, LineCounts
<1>5. BookedOnce'
  BY <1>1 DEF ReceivingInv, BookedOnce
<1>6. (\A g \in Grns, i \in Items :
          told[g][i] # 0 => \E row \in RowsOf(i) : moved[g][row] # 0)'
  BY DEF ReceivingInv
<1>7. ASSUME NEW t \in Requests
      PROVE  ReceiptRequestOK(request[t])'
  <2>1. PICK r : r = request[t]
    OBVIOUS
  <2>2. ReceiptRequestOK(r)'
    BY <1>1, <2>1, ReceiptRequestStays DEF ReceivingInv
  <2>. QED BY <2>1, <2>2 DEF ReceiptRequestOK
<1>. QED BY <1>2, <1>3, <1>4, <1>5, <1>6, <1>7 DEF ReceivingInv

\* A request goes on, and nothing else happens.
LEMMA ReceiptMoves ==
    ASSUME BooksInv, SlotsInv, ReceivingInv, NEW s \in Requests, NEW r,
           Begin(s, r) \/ Goto(s, r), UNCHANGED <<stockVars, receivingVars>>,
           ReceiptRequestOK(r), r.at \in ReceiptSteps \cup {"idle"}
    PROVE  ReceivingKept
<1>1. /\ SlotsInv'
      /\ request'[s] = r
      /\ \A t \in Requests \ {s} : request'[t] = request[t]
  BY SlotBegins, SlotGoesOn
<1>2. po' = po /\ grn' = grn /\ task' = task /\ moved' = moved /\ told' = told /\ lot' = lot
  BY DEF receivingVars, stockVars
<1>3. ReceiptRequestOK(r)'
  BY <1>2, ReceiptRequestStays
<1>4. \A t \in Requests : request'[t] = request[t] \/ ReceiptRequestOK(request[t])'
  BY <1>1, <1>3 DEF ReceiptRequestOK
<1>5. ReceivingInv'
  BY <1>2, <1>4, ReceivingFrame
<1>6. Else(Grns, ReceiptSteps)
  BY <1>1, <1>2 DEF Else
<1>. QED BY <1>1, <1>2, <1>5, <1>6, QuietBooks DEF ReceivingKept

\* One note changes, but not to or from APPROVED.
LEMMA NoteChanges ==
    ASSUME BooksInv, SlotsInv, ReceivingInv, NEW g \in Grns, NEW doc \in RealNotes,
           grn' = [grn EXCEPT ![g] = doc], UNCHANGED <<stockVars, supplier, po, task>>,
           doc.status = "APPROVED" <=> grn[g].status = "APPROVED",
           grn[g].status # "none" => doc.po = grn[g].po,
           po[doc.po].status # "none",
           SlotsInv', \A t \in Requests : request'[t] = request[t] \/ request'[t].at = "idle"
    PROVE  ReceivingKept
<1>1. po' = po /\ task' = task /\ supplier' = supplier /\ moved' = moved /\ told' = told /\ lot' = lot
  BY DEF stockVars
<1>2. grn \in [Grns -> GrnDocs] /\ doc \in GrnDocs
  BY DEF ReceivingInv, ReceivingTypeOK, GrnDocs, RealNotes
<1>3. grn' \in [Grns -> GrnDocs] /\ grn'[g] = doc /\ \A h \in Grns \ {g} : grn'[h] = grn[h]
  BY <1>2
<1>4. doc.status # "none"
  BY DEF RealNotes
<1>5. ReceivingTypeOK'
  BY <1>1, <1>3 DEF ReceivingInv, ReceivingTypeOK
<1>6. (\A h \in Grns : grn[h].status # "none" => po[grn[h].po].status # "none")'
  BY <1>1, <1>3 DEF ReceivingInv
<1>7. CountsReceipts'
  <2>1. ASSUME NEW p, NEW i
        PROVE  CameOf(p, i)' = CameOf(p, i)
    <3>1. ASSUME NEW h \in Grns
          PROVE  (grn'[h].status = "APPROVED" /\ grn'[h].po = p)
                     <=> (grn[h].status = "APPROVED" /\ grn[h].po = p)
      <4>1. CASE h = g
        BY <1>3, <4>1
      <4>2. CASE h # g
        BY <1>3, <4>2
      <4>. QED BY <4>1, <4>2
    <3>. QED BY <1>1, <3>1 DEF CameOf
  <2>. QED BY <1>1, <2>1 DEF ReceivingInv, CountsReceipts, LineCounts
<1>8. BookedOnce'
  <2>1. ASSUME NEW h \in Grns
        PROVE  moved'[h] = Booked(task'[h]) /\ (task'[h] # <<>> => grn'[h].status = "APPROVED")
    <3>1. moved[h] = Booked(task[h]) /\ (task[h] # <<>> => grn[h].status = "APPROVED")
      BY DEF ReceivingInv, BookedOnce
    <3>2. CASE h = g
      BY <1>1, <1>3, <3>1, <3>2
    <3>3. CASE h # g
      BY <1>1, <1>3, <3>1, <3>3
    <3>. QED BY <3>2, <3>3
  <2>. QED BY <2>1 DEF BookedOnce
<1>9. (\A h \in Grns, i \in Items :
          told[h][i] # 0 => \E row \in RowsOf(i) : moved[h][row] # 0)'
  BY <1>1 DEF ReceivingInv
<1>10. ASSUME NEW t \in Requests
       PROVE  ReceiptRequestOK(request[t])'
  <2>1. PICK r : r = request[t]
    OBVIOUS
  <2>2. \A h \in Grns : grn[h].status # "none" => grn'[h].status # "none"
    BY <1>3, <1>4
  <2>3. ReceiptRequestOK(r)'
    BY <1>1, <2>1, <2>2, ReceiptRequestStays DEF ReceivingInv
  <2>4. CASE request'[t] = request[t]
    BY <2>1, <2>3, <2>4 DEF ReceiptRequestOK
  <2>5. CASE request'[t].at = "idle"
    BY <2>5 DEF ReceiptRequestOK
  <2>. QED BY <2>4, <2>5
<1>11. ReceivingInv'
  BY <1>5, <1>6, <1>7, <1>8, <1>9, <1>10 DEF ReceivingInv
<1>12. Else(Grns, ReceiptSteps)
  BY <1>1 DEF Else
<1>. QED BY <1>1, <1>11, <1>12, QuietBooks DEF ReceivingKept
LEMMA CreateReadKeeps ==
    ASSUME BooksInv, SlotsInv, ReceivingInv, NEW s \in Requests, NEW p \in Pos, GrnCreateRead(s, p)
    PROVE  ReceivingKept
<1>1. PICK lines \in ValidReceipts(p) :
          Begin(s, [at |-> "grn.count", po |-> p, lines |-> lines, tries |-> 1])
  BY DEF GrnCreateRead
<1>. DEFINE r == [at |-> "grn.count", po |-> p, lines |-> lines, tries |-> 1]
<1>2. lines \in Receipts /\ po[p].status # "none"
  BY DEF ValidReceipts, GrnCreateRead
<1>3. ReceiptRequestOK(r) /\ r.at \in ReceiptSteps
  BY <1>2 DEF ReceiptRequestOK, ReceiptSteps
<1>4. Begin(s, r) /\ UNCHANGED <<stockVars, receivingVars>>
  BY <1>1 DEF GrnCreateRead
<1>. HIDE DEF r
<1>. QED BY <1>3, <1>4, ReceiptMoves

LEMMA NumberKeeps ==
    ASSUME BooksInv, SlotsInv, ReceivingInv, NEW s \in Requests, GenerateGrnNumber(s)
    PROVE  ReceivingKept
<1>1. PICK q : q = request[s] /\ q.at = "grn.count"
  BY DEF GenerateGrnNumber, At
<1>. DEFINE r == [at |-> "grn.insert", po |-> q.po, lines |-> q.lines, tries |-> q.tries,
                  number |-> Cardinality(Notes) + 1]
<1>2. IsFiniteSet(Notes)
  <2>1. IsFiniteSet(Grns)
    BY LedgerAssumption, ReceivingAssumption, FiniteSubset
  <2>. QED BY <2>1, FiniteSubset DEF Notes
<1>3. Cardinality(Notes) + 1 \in Nat
  BY <1>2, FiniteCardinality
<1>4. ReceiptRequestOK(q)
  BY <1>1 DEF ReceivingInv
<1>5. ReceiptRequestOK(r) /\ r.at \in ReceiptSteps
  BY <1>1, <1>3, <1>4 DEF ReceiptRequestOK, ReceiptSteps
<1>6. Goto(s, r) /\ UNCHANGED <<stockVars, receivingVars>>
  BY <1>1 DEF GenerateGrnNumber
<1>. HIDE DEF r
<1>. QED BY <1>5, <1>6, ReceiptMoves

\* The request that is done knows nothing of receipts.
LEMMA IdleKnowsNothing == ReceiptRequestOK(Idle) /\ Idle.at = "idle"
BY DEF ReceiptRequestOK, Idle

LEMMA InsertKeeps ==
    ASSUME BooksInv, SlotsInv, ReceivingInv, NEW s \in Requests, GrnInsert(s)
    PROVE  ReceivingKept
<1>1. PICK q : q = request[s] /\ q.at = "grn.insert"
  BY DEF GrnInsert, At
<1>2. ReceiptRequestOK(q)
  BY <1>1 DEF ReceivingInv
<1>3. CASE \E g \in Notes : grn[g].number = q.number
  <2>. DEFINE r == [at |-> "grn.count", po |-> q.po, lines |-> q.lines, tries |-> q.tries + 1]
  <2>1. UNCHANGED <<stockVars, receivingVars>> /\ (Goto(s, r) \/ Goto(s, Idle))
    BY <1>1, <1>3 DEF GrnInsert, receivingVars, Done
  <2>2. ReceiptRequestOK(r) /\ r.at \in ReceiptSteps
    BY <1>1, <1>2 DEF ReceiptRequestOK, ReceiptSteps
  <2>. HIDE DEF r
  <2>. QED BY <2>1, <2>2, IdleKnowsNothing, ReceiptMoves
<1>4. CASE ~ \E g \in Notes : grn[g].number = q.number
  <2>. DEFINE doc == [status |-> "DRAFT", po |-> q.po, number |-> q.number, lines |-> q.lines,
                      pictures |-> 1]
  <2>1. /\ grn' = [grn EXCEPT ![NewGrn] = doc] /\ Done(s)
        /\ UNCHANGED <<stockVars, supplier, po, task>>
        /\ \E g \in Grns : grn[g] = NoGrn
    BY <1>1, <1>4 DEF GrnInsert
  <2>2. NewGrn \in Grns /\ grn[NewGrn] = NoGrn
    BY <2>1 DEF NewGrn
  <2>3. PICK g \in Grns : g = NewGrn
    BY <2>2
  <2>4. grn[g].status = "none" /\ grn' = [grn EXCEPT ![g] = doc]
    BY <2>1, <2>2, <2>3 DEF NoGrn
  <2>5. doc \in RealNotes /\ po[doc.po].status # "none" /\ doc.status = "DRAFT"
    BY <1>1, <1>2 DEF RealNotes, ReceiptRequestOK
  <2>6. SlotsInv' /\ \A t \in Requests : request'[t] = request[t] \/ request'[t].at = "idle"
    BY <2>1, SlotGoesOn DEF Done, Idle
  <2>. HIDE DEF doc
  <2>. QED BY <2>1, <2>4, <2>5, <2>6, NoteChanges
<1>. QED BY <1>3, <1>4

LEMMA UpdateReadKeeps ==
    ASSUME BooksInv, SlotsInv, ReceivingInv, NEW s \in Requests, NEW g \in Grns, GrnUpdateRead(s, g)
    PROVE  ReceivingKept
<1>1. PICK lines \in ValidReceipts(grn[g].po) :
          Begin(s, [at |-> "grn.replace", grn |-> g, lines |-> lines])
  BY DEF GrnUpdateRead
<1>. DEFINE r == [at |-> "grn.replace", grn |-> g, lines |-> lines]
<1>2. lines \in Receipts /\ grn[g].status # "none"
  BY DEF ValidReceipts, GrnUpdateRead, MayEdit
<1>3. ReceiptRequestOK(r) /\ r.at \in ReceiptSteps
  BY <1>2 DEF ReceiptRequestOK, ReceiptSteps
<1>4. Begin(s, r) /\ UNCHANGED <<stockVars, receivingVars>>
  BY <1>1 DEF GrnUpdateRead
<1>. HIDE DEF r
<1>. QED BY <1>3, <1>4, ReceiptMoves

\* The requests that only name the note they are about.
LEMMA NoteReadKeeps ==
    ASSUME BooksInv, SlotsInv, ReceivingInv, NEW s \in Requests, NEW g \in Grns,
           GrnImageRead(s, g) \/ SubmitRead(s, g)
    PROVE  ReceivingKept
<1>1. PICK at \in {"grn.image", "grn.submit"} : Begin(s, [at |-> at, grn |-> g])
  BY DEF GrnImageRead, SubmitRead
<1>. DEFINE r == [at |-> at, grn |-> g]
<1>2. grn[g].status # "none" /\ UNCHANGED <<stockVars, receivingVars>>
  BY DEF GrnImageRead, SubmitRead, MayEdit
<1>3. ReceiptRequestOK(r) /\ r.at \in ReceiptSteps
  BY <1>2 DEF ReceiptRequestOK, ReceiptSteps
<1>4. Begin(s, r)
  BY <1>1
<1>. HIDE DEF r
<1>. QED BY <1>2, <1>3, <1>4, ReceiptMoves

LEMMA ApproveReadKeeps ==
    ASSUME BooksInv, SlotsInv, ReceivingInv, NEW s \in Requests, NEW g \in Grns, ApproveGrnRead(s, g)
    PROVE  ReceivingKept
<1>. DEFINE r == [at |-> "grn.approve", grn |-> g, lines |-> grn[g].lines]
<1>1. /\ grn[g].status = "PENDING_APPROVAL" /\ Ready(grn[g].lines)
      /\ Begin(s, r) /\ UNCHANGED <<stockVars, receivingVars>>
  BY DEF ApproveGrnRead
<1>2. grn[g].lines \in Receipts
  BY <1>1, NoteIsReal DEF RealNotes
<1>3. ReceiptRequestOK(r) /\ r.at \in ReceiptSteps
  BY <1>1, <1>2 DEF ReceiptRequestOK, ReceiptSteps
<1>. HIDE DEF r
<1>. QED BY <1>1, <1>3, ReceiptMoves

\* The writes that replace, hand in, delete, reject or illustrate a note.
LEMMA NoteWriteKeeps ==
    ASSUME BooksInv, SlotsInv, ReceivingInv, NEW s \in Requests,
           \/ ReplaceItems(s) \/ UpdateStatusSubmitted(s) \/ PushImage(s)
           \/ \E g \in Grns : DeleteGoodsReceiptNote(g) \/ RejectGoodsReceiptNote(g)
    PROVE  ReceivingKept
<1>1. /\ UNCHANGED <<stockVars, supplier, po, task>>
      /\ SlotsInv'
      /\ \A t \in Requests : request'[t] = request[t] \/ request'[t].at = "idle"
  BY SlotGoesOn, SlotSingle DEF ReplaceItems, UpdateStatusSubmitted, PushImage, Done, Idle,
     DeleteGoodsReceiptNote, RejectGoodsReceiptNote
<1>2. CASE UNCHANGED grn
  <2>1. UNCHANGED receivingVars /\ UNCHANGED stockVars
    BY <1>1, <1>2 DEF receivingVars
  <2>2. moved' = moved /\ told' = told /\ lot' = lot
    BY <2>1 DEF stockVars
  <2>3. \A t \in Requests : request'[t] = request[t] \/ ReceiptRequestOK(request[t])'
    BY <1>1 DEF ReceiptRequestOK
  <2>4. ReceivingInv'
    BY <2>1, <2>2, <2>3, ReceivingFrame
  <2>5. Else(Grns, ReceiptSteps)
    BY <1>1, <2>2 DEF Else
  <2>. QED BY <1>1, <2>1, <2>2, <2>4, <2>5, QuietBooks DEF ReceivingKept
<1>3. CASE \E g \in Grns, doc \in RealNotes :
              /\ grn' = [grn EXCEPT ![g] = doc] /\ grn[g].status # "none" /\ doc.po = grn[g].po
              /\ doc.status = "APPROVED" <=> grn[g].status = "APPROVED"
  <2>1. PICK g \in Grns, doc \in RealNotes :
              /\ grn' = [grn EXCEPT ![g] = doc] /\ grn[g].status # "none" /\ doc.po = grn[g].po
              /\ doc.status = "APPROVED" <=> grn[g].status = "APPROVED"
    BY <1>3
  <2>2. po[doc.po].status # "none"
    BY <2>1 DEF ReceivingInv
  <2>. QED BY <1>1, <2>1, <2>2, NoteChanges
<1>4. CASE ReplaceItems(s) \/ UpdateStatusSubmitted(s) \/ PushImage(s)
  <2>1. PICK q : q = request[s] /\ q.at \in {"grn.replace", "grn.submit", "grn.image"}
    BY <1>4 DEF ReplaceItems, UpdateStatusSubmitted, PushImage, At
  <2>2. ReceiptRequestOK(q)
    BY <2>1 DEF ReceivingInv
  <2>3. PICK g \in Grns : g = q.grn /\ grn[g].status # "none"
    BY <2>1, <2>2 DEF ReceiptRequestOK
  <2>4. PICK note0 \in RealNotes : note0 = grn[g]
    BY <2>3, NoteIsReal
  <2>5. CASE ReplaceItems(s)
    <3>. DEFINE doc == [note0 EXCEPT !.lines = q.lines]
    <3>1. UNCHANGED grn \/ (MayEdit(g) /\ grn' = [grn EXCEPT ![g] = doc])
      BY <2>1, <2>3, <2>4, <2>5 DEF ReplaceItems
    <3>2. q.lines \in Receipts
      BY <2>1, <2>2, <2>5 DEF ReplaceItems, At, ReceiptRequestOK
    <3>3. doc \in RealNotes /\ doc.po = note0.po /\ doc.status = note0.status
      BY <3>2 DEF RealNotes
    <3>. HIDE DEF doc
    <3>. QED BY <1>2, <1>3, <2>3, <2>4, <3>1, <3>3
  <2>6. CASE UpdateStatusSubmitted(s)
    <3>. DEFINE doc == [note0 EXCEPT !.status = "PENDING_APPROVAL"]
    <3>1. UNCHANGED grn \/ (MayEdit(g) /\ grn' = [grn EXCEPT ![g] = doc])
      BY <2>1, <2>3, <2>4, <2>6 DEF UpdateStatusSubmitted
    <3>2. doc \in RealNotes /\ doc.po = note0.po /\ doc.status = "PENDING_APPROVAL"
      BY DEF RealNotes
    <3>3. MayEdit(g) => grn[g].status # "APPROVED"
      BY DEF MayEdit
    <3>. HIDE DEF doc
    <3>. QED BY <1>2, <1>3, <2>3, <2>4, <3>1, <3>2, <3>3
  <2>7. CASE PushImage(s)
    <3>. DEFINE doc == [note0 EXCEPT !.pictures = @ + 1]
    <3>1. UNCHANGED grn \/ grn' = [grn EXCEPT ![g] = doc]
      BY <2>1, <2>3, <2>4, <2>7 DEF PushImage
    <3>2. doc \in RealNotes /\ doc.po = note0.po /\ doc.status = note0.status
      BY DEF RealNotes
    <3>. HIDE DEF doc
    <3>. QED BY <1>2, <1>3, <2>3, <2>4, <3>1, <3>2
  <2>. QED BY <1>4, <2>5, <2>6, <2>7
<1>5. ASSUME NEW g \in Grns, DeleteGoodsReceiptNote(g) \/ RejectGoodsReceiptNote(g)
      PROVE  ReceivingKept
  <2>1. grn[g].status \in {"DRAFT", "PENDING_APPROVAL"}
    BY <1>5 DEF DeleteGoodsReceiptNote, RejectGoodsReceiptNote
  <2>2. PICK note0 \in RealNotes : note0 = grn[g]
    BY <2>1, NoteIsReal
  <2>3. PICK status \in {"deleted", "REJECTED"} :
            grn' = [grn EXCEPT ![g] = [note0 EXCEPT !.status = status]]
    BY <1>5, <2>2 DEF DeleteGoodsReceiptNote, RejectGoodsReceiptNote
  <2>. DEFINE doc == [note0 EXCEPT !.status = status]
  <2>4. doc \in RealNotes /\ doc.po = note0.po /\ doc.status # "APPROVED"
    BY DEF RealNotes
  <2>5. grn' = [grn EXCEPT ![g] = doc]
    BY <2>3
  <2>. HIDE DEF doc
  <2>. QED BY <1>3, <2>1, <2>2, <2>4, <2>5
<1>. QED BY <1>4, <1>5
----------------------------------------------------------------------------
\* What a receipt makes of an order

PoLines == [item : Items, expected : Nat, received : Nat]

LEMMA CountedLines ==
    ASSUME NEW asked \in Seq(PoLines), NEW totals \in [Items -> Nat]
    PROVE  LET lines == Counted(asked, totals) IN
           /\ lines \in Seq(PoLines)
           /\ DOMAIN lines = DOMAIN asked
           /\ \A i : PoLine(lines, i) = PoLine(asked, i)
           /\ \A n \in DOMAIN asked :
                 /\ lines[n].item = asked[n].item
                 /\ lines[n].expected = asked[n].expected
                 /\ lines[n].received = IF n = PoLine(asked, asked[n].item)
                                        THEN asked[n].received + totals[asked[n].item]
                                        ELSE asked[n].received
<1>. DEFINE lines == Counted(asked, totals)
<1>1. /\ Len(asked) \in Nat /\ DOMAIN asked = 1 .. Len(asked)
      /\ \A n \in DOMAIN asked : asked[n] \in PoLines
  <2>. HIDE DEF PoLines
  <2>. QED OBVIOUS
<1>2. ASSUME NEW n \in DOMAIN asked
      PROVE  /\ lines[n] \in PoLines
             /\ lines[n].item = asked[n].item
             /\ lines[n].expected = asked[n].expected
             /\ lines[n].received = IF n = PoLine(asked, asked[n].item)
                                    THEN asked[n].received + totals[asked[n].item]
                                    ELSE asked[n].received
  <2>1. PICK old \in PoLines : old = asked[n]
    BY <1>1
  <2>2. totals[old.item] \in Nat /\ old.received \in Nat
    BY DEF PoLines
  <2>3. CASE n = PoLine(asked, old.item)
    <3>1. lines[n] = [old EXCEPT !.received = @ + totals[old.item]]
      BY <2>1, <2>3 DEF Counted
    <3>2. PICK more \in Nat : more = old.received + totals[old.item]
      BY <2>2
    <3>3. lines[n] = [old EXCEPT !.received = more]
      <4>. HIDE DEF lines
      <4>. QED BY <3>1, <3>2
    <3>4. [old EXCEPT !.received = more] \in PoLines
      BY DEF PoLines
    <3>5. /\ [old EXCEPT !.received = more].item = old.item
          /\ [old EXCEPT !.received = more].expected = old.expected
          /\ [old EXCEPT !.received = more].received = more
      BY DEF PoLines
    <3>. HIDE DEF lines
    <3>. QED BY <2>1, <2>3, <3>2, <3>3, <3>4, <3>5
  <2>4. CASE n # PoLine(asked, old.item)
    <3>1. lines[n] = old
      BY <2>1, <2>4 DEF Counted
    <3>. HIDE DEF lines
    <3>. QED BY <2>1, <2>2, <2>4, <3>1
  <2>. QED BY <2>3, <2>4
<1>3. lines = [n \in 1 .. Len(asked) |-> lines[n]]
  BY <1>1 DEF Counted
<1>4. lines \in Seq(PoLines) /\ Len(lines) = Len(asked) /\ DOMAIN lines = DOMAIN asked
  <2>. HIDE DEF lines, PoLines
  <2>. QED BY <1>1, <1>2, <1>3
<1>5. \A i : PoLine(lines, i) = PoLine(asked, i)
  <2>. HIDE DEF lines
  <2>. QED BY <1>1, <1>2, <1>4, SamePoLine
<1>. QED BY <1>2, <1>4, <1>5, Zenon

LEMMA ReceivedOrder ==
    ASSUME NEW doc \in PoDocs, NEW came \in Receipts
    PROVE  /\ Received(doc, came) \in PoDocs
           /\ Received(doc, came).status # "none"
           /\ Received(doc, came).lines = Counted(doc.lines, Totals(came))
           /\ Received(doc, came).status = "COMPLETED" =>
                  LET lines == Counted(doc.lines, Totals(came)) IN
                  \A n \in DOMAIN lines :
                      n = PoLine(lines, lines[n].item) => lines[n].received >= lines[n].expected
<1>. DEFINE lines == Counted(doc.lines, Totals(came))
<1>1. Totals(came) \in [Items -> Nat]
  <2>1. \A i \in Items : Totals(came)[i] \in Nat
    BY TotalsValue DEF ReceiptLines
  <2>. QED BY <2>1 DEF Totals
<1>2. doc.lines \in Seq(PoLines)
  BY DEF PoDocs, PoLines
<1>3. lines \in Seq(PoLines)
  BY <1>1, <1>2, CountedLines
<1>4. /\ Received(doc, came).lines = lines
      /\ Received(doc, came).status \in {"COMPLETED", "PARTIALLY_RECEIVED"}
      /\ Received(doc, came) = [status |-> Received(doc, came).status, lines |-> lines]
  BY DEF Received
<1>5. Received(doc, came) \in PoDocs
  <2>. HIDE DEF lines
  <2>. QED BY <1>3, <1>4 DEF PoDocs, PoLines
<1>6. ASSUME Received(doc, came).status = "COMPLETED", NEW n \in DOMAIN lines,
             n = PoLine(lines, lines[n].item)
      PROVE  lines[n].received >= lines[n].expected
  <2>1. \/ lines[n].received >= lines[n].expected
        \/ lines[n].item = came[Len(came)].item /\ n # PoLine(lines, came[Len(came)].item)
    BY <1>6 DEF Received
  <2>. HIDE DEF lines
  <2>. QED BY <1>6, <2>1
<1>. QED BY <1>4, <1>5, <1>6

\* The order counts what a note brings that is approved now.
LEMMA CommitCounts ==
    ASSUME ReceivingInv, moved \in [Refs -> RowQty], moved' \in [Refs -> RowQty],
           NEW g \in Grns, NEW lines \in Receipts, NEW p \in Pos, p = grn[g].po,
           grn[g].status = "PENDING_APPROVAL",
           grn'[g].status = "APPROVED", grn'[g].po = p,
           \A h \in Grns \ {g} : grn'[h] = grn[h] /\ moved'[h] = moved[h],
           moved'[g] = Booked(lines),
           po' = [po EXCEPT ![p] = Received(@, lines)]
    PROVE  CountsReceipts'
<1>1. po \in [Pos -> PoDocs] /\ lines \in ReceiptLines
  BY DEF ReceivingInv, ReceivingTypeOK, ReceiptLines
<1>2. PICK doc \in PoDocs : doc = po[p]
  BY <1>1
<1>3. po'[p] = Received(doc, lines) /\ \A q \in Pos \ {p} : po'[q] = po[q]
  BY <1>1, <1>2
<1>. DEFINE now == Counted(doc.lines, Totals(lines))
<1>4. /\ po'[p].lines = now
      /\ po'[p].status = "COMPLETED" =>
            \A n \in DOMAIN now : n = PoLine(now, now[n].item) => now[n].received >= now[n].expected
  BY <1>3, ReceivedOrder
<1>5. Totals(lines) \in [Items -> Nat]
  <2>1. \A i \in Items : Totals(lines)[i] \in Nat
    BY <1>1, TotalsValue
  <2>. QED BY <2>1 DEF Totals
<1>6. doc.lines \in Seq(PoLines)
  BY DEF PoDocs, PoLines
<1>7. /\ now \in Seq(PoLines)
      /\ DOMAIN now = DOMAIN doc.lines
      /\ \A i : PoLine(now, i) = PoLine(doc.lines, i)
      /\ \A n \in DOMAIN doc.lines :
            /\ now[n].item = doc.lines[n].item
            /\ now[n].expected = doc.lines[n].expected
            /\ now[n].received = IF n = PoLine(doc.lines, doc.lines[n].item)
                                 THEN doc.lines[n].received + Totals(lines)[doc.lines[n].item]
                                 ELSE doc.lines[n].received
  BY <1>5, <1>6, CountedLines
<1>. HIDE DEF now
<1>8. \A h \in Grns : moved[h] \in RowQty /\ moved'[h] \in RowQty
  BY ReceivingAssumption
<1>9. ASSUME NEW i \in Items
      PROVE  Total(CameOf(p, i)', Grns) = Total(CameOf(p, i), Grns) + Totals(lines)[i]
  <2>1. IsFiniteSet(Grns)
    BY LedgerAssumption, ReceivingAssumption, FiniteSubset
  <2>2. PICK f : f = CameOf(p, i)
    OBVIOUS
  <2>3. PICK f1 : f1 = CameOf(p, i)'
    OBVIOUS
  <2>4. \A h \in Grns : f[h] \in Int /\ f1[h] \in Int
    <3>1. \A h \in Grns : PerItem(moved[h])[i] \in Int /\ PerItem(moved'[h])[i] \in Int
      BY <1>8, PerItemValue
    <3>. QED BY <2>2, <2>3, <3>1 DEF CameOf
  <2>5. \A h \in Grns \ {g} : f[h] = f1[h]
    BY <2>2, <2>3 DEF CameOf
  <2>6. f[g] = 0
    BY <2>2 DEF CameOf
  <2>7. f1[g] = Totals(lines)[i]
    <3>1. f1[g] = PerItem(Booked(lines))[i]
      BY <2>3 DEF CameOf
    <3>. QED BY <1>1, <3>1, BookedOfItem
  <2>8. Total(f1, Grns) = Total(f, Grns) + (f1[g] - f[g])
    BY <2>1, <2>4, <2>5, TotalChanges DEF Summable
  <2>9. Total(f, Grns) \in Int /\ Totals(lines)[i] \in Int
    BY <1>5, <2>1, <2>4, TotalRemove DEF Summable
  <2>. QED BY <2>2, <2>3, <2>6, <2>7, <2>8, <2>9
<1>10. ASSUME NEW q \in Pos \ {p}, NEW i
       PROVE  CameOf(q, i)' = CameOf(q, i)
  <2>1. ASSUME NEW h \in Grns
        PROVE  CameOf(q, i)'[h] = CameOf(q, i)[h]
    <3>1. CASE h = g
      BY <3>1 DEF CameOf
    <3>2. CASE h # g
      BY <3>2 DEF CameOf
    <3>. QED BY <3>1, <3>2
  <2>. QED BY <2>1 DEF CameOf
<1>11. ASSUME NEW q \in Pos \ {p}, NEW n \in DOMAIN po'[q].lines
       PROVE  LineCounts(q, po[q], n)'
  <2>1. PICK same : same = po[q] /\ same = po'[q]
    BY <1>3
  <2>2. LineCounts(q, same, n)
    BY <2>1 DEF ReceivingInv, CountsReceipts
  <2>3. LineCounts(q, same, n)'
    BY <1>10, <2>2 DEF LineCounts
  <2>. QED BY <2>1, <2>3 DEF LineCounts
<1>12. ASSUME NEW n \in DOMAIN now
       PROVE  IF n = PoLine(now, now[n].item)
              THEN /\ now[n].received = Total(CameOf(p, now[n].item)', Grns)
                   /\ po'[p].status = "COMPLETED" => now[n].received >= now[n].expected
              ELSE now[n].received = 0
  <2>1. PICK i \in Items : i = now[n].item
    <3>1. now[n] \in PoLines
      <4>. HIDE DEF PoLines
      <4>. QED BY <1>7
    <3>. QED BY <3>1 DEF PoLines
  <2>2. /\ doc.lines[n].item = i
        /\ n \in DOMAIN doc.lines
        /\ PoLine(now, i) = PoLine(doc.lines, i)
    BY <1>7, <2>1
  <2>3. IF n = PoLine(doc.lines, i)
        THEN doc.lines[n].received = Total(CameOf(p, i), Grns)
        ELSE doc.lines[n].received = 0
    <3>1. LineCounts(p, doc, n)
      BY <1>2, <2>2 DEF ReceivingInv, CountsReceipts
    <3>. QED BY <2>2, <3>1 DEF LineCounts
  <2>4. CASE n = PoLine(doc.lines, i)
    <3>1. now[n].received = doc.lines[n].received + Totals(lines)[i]
      BY <1>7, <2>2, <2>4
    <3>2. now[n].received = Total(CameOf(p, i)', Grns)
      BY <1>9, <2>3, <2>4, <3>1
    <3>. QED BY <1>4, <2>1, <2>2, <2>4, <3>2
  <2>5. CASE n # PoLine(doc.lines, i)
    BY <1>7, <2>1, <2>2, <2>3, <2>5
  <2>. QED BY <2>4, <2>5
<1>13. ASSUME NEW n \in DOMAIN po'[p].lines
       PROVE  LineCounts(p, po[p], n)'
  <2>1. PICK new : new = po'[p]
    OBVIOUS
  <2>2. LineCounts(p, new, n)'
    BY <1>4, <1>12, <2>1 DEF LineCounts
  <2>. QED BY <2>1, <2>2 DEF LineCounts
<1>14. \A q \in Pos : \A n \in DOMAIN po'[q].lines : LineCounts(q, po[q], n)'
  BY <1>11, <1>13
<1>. QED BY <1>14 DEF CountsReceipts
----------------------------------------------------------------------------
\* The approval of a receipt

LEMMA CommitKeeps ==
    ASSUME BooksInv, SlotsInv, ReceivingInv, NEW s \in Requests, ApproveGrnCommit(s)
    PROVE  ReceivingKept
<1>1. PICK q : q = request[s] /\ q.at = "grn.approve"
  BY DEF ApproveGrnCommit, At
<1>2. ReceiptRequestOK(q)
  BY <1>1 DEF ReceivingInv
<1>3. PICK g \in Grns, lines \in Receipts :
          g = q.grn /\ lines = q.lines /\ grn[g].status # "none" /\ Ready(lines)
  BY <1>1, <1>2 DEF ReceiptRequestOK
<1>4. PICK old \in RealNotes : old = grn[g]
  BY <1>3, NoteIsReal
<1>5. PICK p \in Pos : p = grn[g].po
  BY <1>4 DEF RealNotes
<1>6. CASE ~(Claimable(g) /\ LotsUsable(lines))
  <2>1. Goto(s, Idle) /\ UNCHANGED <<stockVars, receivingVars>>
    BY <1>1, <1>3, <1>6 DEF ApproveGrnCommit, Done, stockVars, receivingVars
  <2>. QED BY <2>1, IdleKnowsNothing, ReceiptMoves
<1>7. CASE Claimable(g) /\ LotsUsable(lines)
  <2>. DEFINE new == [old EXCEPT !.status = "APPROVED"]
              r == [at |-> "grn.tell", grn |-> g, lines |-> lines]
  <2>1. /\ grn' = [grn EXCEPT ![g] = new]
        /\ UpsertInventory(Booked(lines)) /\ UpsertBalance(Totals(lines), NoItem, NoItem)
        /\ InsertMovements([ref \in {g} |-> Booked(lines)])
        /\ po' = [po EXCEPT ![p] = Received(@, lines)]
        /\ task' = [task EXCEPT ![g] = lines]
        /\ Goto(s, r)
        /\ lot' = lot /\ told' = told /\ supplier' = supplier
    BY <1>1, <1>3, <1>4, <1>5, <1>7 DEF ApproveGrnCommit
  <2>2. grn[g].status = "PENDING_APPROVAL"
    BY <1>7 DEF Claimable
  <2>3. new \in RealNotes /\ new.po = p /\ new.status = "APPROVED"
    BY <1>4, <1>5 DEF RealNotes
  <2>4. lines \in ReceiptLines /\ lines # <<>> /\ g \in Refs
    BY <1>3, ReceivingAssumption DEF Ready, ReceiptLines
  <2>5. po \in [Pos -> PoDocs] /\ grn \in [Grns -> GrnDocs] /\ task \in [Grns -> ReceiptLines]
    BY DEF ReceivingInv, ReceivingTypeOK, ReceiptLines
  <2>6. moved \in [Refs -> RowQty] /\ Booked(lines) \in RowQty
    BY <2>4, BookedType DEF BooksInv, StockTypeOK, RowQty
  <2>7. /\ moved' \in [Refs -> RowQty]
        /\ \A row \in Rows : moved'[g][row] = moved[g][row] + Booked(lines)[row]
        /\ \A other \in Refs \ {g} : moved'[other] = moved[other]
        /\ \A row \in Rows :
              Total(Column(moved', row), Refs) = Total(Column(moved, row), Refs) + Booked(lines)[row]
    BY <2>1, <2>4, <2>6, OneMovement
  <2>8. task[g] = <<>> /\ moved[g] = Nothing
    BY <2>2, NothingBooked DEF ReceivingInv, BookedOnce
  <2>9. moved'[g] = Booked(lines)
    <3>1. \A row \in Rows : moved'[g][row] = Booked(lines)[row]
      BY <2>6, <2>7, <2>8 DEF Nothing, RowQty
    <3>2. moved'[g] \in RowQty
      BY <2>4, <2>7
    <3>. QED BY <2>6, <3>1, <3>2 DEF RowQty
  <2>. HIDE DEF new, r
  <2>10. BooksInv'
    <3>1. NoItem \in ItemQty /\ lot' \in [Lots -> {"ACTIVE", "EXPIRED"}]
      BY <2>1 DEF NoItem, ItemQty, BooksInv, StockTypeOK
    <3>2. \A i \in Items : Totals(lines)[i] = PerItem(Booked(lines))[i]
      BY <2>4, BookedOfItem
    <3>. QED BY <2>1, <2>6, <2>7, <3>1, <3>2, CommitBooks
  <2>11. /\ SlotsInv'
         /\ request'[s] = r
         /\ \A t \in Requests \ {s} : request'[t] = request[t]
    BY <2>1, SlotGoesOn
  <2>12. grn'[g] = new /\ \A h \in Grns \ {g} : grn'[h] = grn[h]
    BY <2>1, <2>5
  <2>13. po' \in [Pos -> PoDocs] /\ po'[p].status # "none" /\ \A o \in Pos \ {p} : po'[o] = po[o]
    <3>1. PICK doc \in PoDocs : doc = po[p]
      BY <2>5
    <3>2. Received(doc, lines) \in PoDocs /\ Received(doc, lines).status # "none"
      BY ReceivedOrder
    <3>3. po' = [po EXCEPT ![p] = Received(doc, lines)]
      BY <2>1, <3>1
    <3>. QED BY <2>5, <3>2, <3>3
  <2>14. task' \in [Grns -> ReceiptLines] /\ task'[g] = lines /\ \A h \in Grns \ {g} : task'[h] = task[h]
    BY <2>1, <2>4, <2>5
  <2>15. new \in GrnDocs /\ new.status # "none"
    BY <2>3 DEF RealNotes, GrnDocs
  <2>16. ReceivingTypeOK'
    <3>1. grn' \in [Grns -> GrnDocs]
      BY <2>1, <2>5, <2>15
    <3>. QED BY <2>1, <2>13, <2>14, <3>1 DEF ReceivingInv, ReceivingTypeOK, ReceiptLines
  <2>17. (\A h \in Grns : grn[h].status # "none" => po[grn[h].po].status # "none")'
    <3>1. ASSUME NEW h \in Grns, grn'[h].status # "none"
          PROVE  po'[grn'[h].po].status # "none"
      <4>1. CASE h = g
        BY <2>3, <2>12, <2>13, <4>1
      <4>2. CASE h # g
        <5>1. grn'[h] = grn[h] /\ po[grn[h].po].status # "none"
          BY <2>12, <3>1, <4>2 DEF ReceivingInv
        <5>2. grn[h].po \in Pos
          BY <3>1, <5>1, NoteIsReal DEF RealNotes
        <5>. QED BY <2>13, <5>1, <5>2
      <4>. QED BY <4>1, <4>2
    <3>. QED BY <3>1
  <2>18. CountsReceipts'
    <3>1. \A h \in Grns \ {g} : grn'[h] = grn[h] /\ moved'[h] = moved[h]
      BY <2>7, <2>12, ReceivingAssumption
    <3>2. grn'[g].status = "APPROVED" /\ grn'[g].po = p
      BY <2>3, <2>12
    <3>. QED BY <1>5, <2>1, <2>2, <2>6, <2>7, <2>9, <3>1, <3>2, CommitCounts
  <2>19. BookedOnce'
    <3>1. ASSUME NEW h \in Grns
          PROVE  moved'[h] = Booked(task'[h]) /\ (task'[h] # <<>> => grn'[h].status = "APPROVED")
      <4>1. CASE h = g
        BY <2>3, <2>9, <2>12, <2>14, <4>1
      <4>2. CASE h # g
        BY <2>7, <2>12, <2>14, <4>2, ReceivingAssumption DEF ReceivingInv, BookedOnce
      <4>. QED BY <4>1, <4>2
    <3>. QED BY <3>1 DEF BookedOnce
  <2>20. (\A h \in Grns, i \in Items :
             told[h][i] # 0 => \E row \in RowsOf(i) : moved[h][row] # 0)'
    <3>1. ASSUME NEW h \in Grns, NEW i \in Items, told'[h][i] # 0
          PROVE  \E row \in RowsOf(i) : moved'[h][row] # 0
      <4>1. \E row \in RowsOf(i) : moved[h][row] # 0
        BY <2>1, <3>1 DEF ReceivingInv
      <4>2. h # g
        BY <2>8, <4>1 DEF Nothing, RowsOf
      <4>. QED BY <2>7, <4>1, <4>2, ReceivingAssumption
    <3>. QED BY <3>1
  <2>21. ASSUME NEW t \in Requests
         PROVE  ReceiptRequestOK(request[t])'
    <3>1. CASE t = s
      <4>1. ReceiptRequestOK(r)'
        BY <1>3, <2>3, <2>4, <2>12, <2>14 DEF ReceiptRequestOK, r, RealNotes
      <4>. QED BY <2>11, <3>1, <4>1 DEF ReceiptRequestOK
    <3>2. CASE t # s
      <4>1. PICK x : x = request[t]
        OBVIOUS
      <4>2. \A o \in Pos : po[o].status # "none" => po'[o].status # "none"
        BY <2>13
      <4>3. \A h \in Grns : grn[h].status # "none" => grn'[h].status # "none"
        BY <2>12, <2>15
      <4>4. \A h \in Grns : task[h] # <<>> => task'[h] = task[h]
        BY <2>8, <2>14
      <4>5. ReceiptRequestOK(x)
        BY <4>1 DEF ReceivingInv
      <4>6. ReceiptRequestOK(x)'
        BY <4>2, <4>3, <4>4, <4>5, ReceiptRequestStays
      <4>. QED BY <2>11, <3>2, <4>1, <4>6 DEF ReceiptRequestOK
    <3>. QED BY <3>1, <3>2
  <2>22. ReceivingInv'
    BY <2>16, <2>17, <2>18, <2>19, <2>20, <2>21 DEF ReceivingInv
  <2>23. Else(Grns, ReceiptSteps)
    <3>1. r.at \in ReceiptSteps
      BY DEF r, ReceiptSteps
    <3>. QED BY <2>1, <2>7, <2>11, <3>1 DEF Else
  <2>. QED BY <2>1, <2>10, <2>11, <2>22, <2>23 DEF ReceivingKept
<1>. QED BY <1>6, <1>7

LEMMA TellKeeps ==
    ASSUME BooksInv, SlotsInv, ReceivingInv, NEW s \in Requests, ApproveGrnTell(s)
    PROVE  ReceivingKept
<1>1. PICK q : q = request[s] /\ q.at = "grn.tell"
  BY DEF ApproveGrnTell, At
<1>2. ReceiptRequestOK(q)
  BY <1>1 DEF ReceivingInv
<1>3. PICK g \in Grns : g = q.grn /\ q.lines = task[g] /\ q.lines # <<>>
  BY <1>1, <1>2 DEF ReceiptRequestOK
<1>4. PICK lines \in ReceiptLines : lines = task[g]
  BY DEF ReceivingInv, ReceivingTypeOK, ReceiptLines
<1>5. /\ Tell(g, Totals(lines)) /\ Goto(s, Idle)
      /\ UNCHANGED <<inventory, balance, lot, moved>> /\ UNCHANGED receivingVars
  BY <1>1, <1>3, <1>4 DEF ApproveGrnTell, Done
<1>6. g \in Refs \cap Speaking /\ Totals(lines) \in ItemQty
  BY ReceivingAssumption, TotalsType DEF Speaking
<1>7. /\ BooksInv'
      /\ \A i \in Items : told'[g][i] = IF told[g][i] = 0 THEN Totals(lines)[i] ELSE told[g][i]
      /\ \A other \in (Refs \cup Lots) \ {g} : told'[other] = told[other]
  BY <1>5, <1>6, TellBooks
<1>8. /\ SlotsInv'
      /\ request'[s] = Idle
      /\ \A t \in Requests \ {s} : request'[t] = request[t]
  BY <1>5, SlotGoesOn
<1>9. po' = po /\ grn' = grn /\ task' = task /\ supplier' = supplier /\ moved' = moved
  BY <1>5 DEF receivingVars
<1>10. ReceivingTypeOK' /\ BookedOnce'
  BY <1>9 DEF ReceivingInv, ReceivingTypeOK, BookedOnce
<1>11. (\A h \in Grns : grn[h].status # "none" => po[grn[h].po].status # "none")'
  BY <1>9 DEF ReceivingInv
<1>12. CountsReceipts'
  <2>1. \A p, i : CameOf(p, i)' = CameOf(p, i)
    BY <1>9 DEF CameOf
  <2>. QED BY <1>9, <2>1 DEF ReceivingInv, CountsReceipts, LineCounts
<1>13. (\A h \in Grns, i \in Items :
           told[h][i] # 0 => \E row \in RowsOf(i) : moved[h][row] # 0)'
  <2>1. ASSUME NEW h \in Grns, NEW i \in Items, told'[h][i] # 0
        PROVE  \E row \in RowsOf(i) : moved'[h][row] # 0
    <3>1. CASE told[h][i] # 0
      BY <1>9, <3>1 DEF ReceivingInv
    <3>2. CASE told[h][i] = 0
      <4>1. h = g
        BY <1>7, <2>1, <3>2, ReceivingAssumption
      <4>2. Totals(lines)[i] # 0
        BY <1>7, <2>1, <3>2, <4>1
      <4>3. moved[g] = Booked(lines)
        BY <1>4 DEF ReceivingInv, BookedOnce
      <4>. QED BY <1>9, <4>1, <4>2, <4>3, NamedIsBooked
    <3>. QED BY <3>1, <3>2
  <2>. QED BY <2>1
<1>14. ASSUME NEW t \in Requests
       PROVE  ReceiptRequestOK(request[t])'
  <2>1. CASE t = s
    BY <1>8, <2>1 DEF ReceiptRequestOK, Idle
  <2>2. CASE t # s
    <3>1. PICK x : x = request[t] /\ ReceiptRequestOK(x)
      BY DEF ReceivingInv
    <3>2. ReceiptRequestOK(x)'
      BY <1>9, <3>1, ReceiptRequestStays
    <3>. QED BY <1>8, <2>2, <3>1, <3>2 DEF ReceiptRequestOK
  <2>. QED BY <2>1, <2>2
<1>15. ReceivingInv'
  BY <1>10, <1>11, <1>12, <1>13, <1>14 DEF ReceivingInv
<1>16. Else(Grns, ReceiptSteps)
  BY <1>7, <1>8, <1>9 DEF Else, Idle
<1>. QED BY <1>5, <1>7, <1>8, <1>15, <1>16 DEF ReceivingKept

LEMMA ReceivingStepKeeps ==
    ASSUME BooksInv, SlotsInv, ReceivingInv, NEW s \in Requests, ReceivingStep(s)
    PROVE  ReceivingKept
<1>1. CASE \E p \in Pos : GrnCreateRead(s, p)
  BY <1>1, CreateReadKeeps
<1>2. CASE \E g \in Grns : GrnUpdateRead(s, g)
  BY <1>2, UpdateReadKeeps
<1>3. CASE \E g \in Grns : GrnImageRead(s, g) \/ SubmitRead(s, g)
  BY <1>3, NoteReadKeeps
<1>4. CASE \E g \in Grns : ApproveGrnRead(s, g)
  BY <1>4, ApproveReadKeeps
<1>5. CASE GenerateGrnNumber(s)
  BY <1>5, NumberKeeps
<1>6. CASE GrnInsert(s)
  BY <1>6, InsertKeeps
<1>7. CASE \/ ReplaceItems(s) \/ UpdateStatusSubmitted(s) \/ PushImage(s)
           \/ \E g \in Grns : DeleteGoodsReceiptNote(g) \/ RejectGoodsReceiptNote(g)
  BY <1>7, NoteWriteKeeps
<1>8. CASE ApproveGrnCommit(s)
  BY <1>8, CommitKeeps
<1>9. CASE ApproveGrnTell(s)
  BY <1>9, TellKeeps
<1>. QED BY <1>1, <1>2, <1>3, <1>4, <1>5, <1>6, <1>7, <1>8, <1>9 DEF ReceivingStep

\* Orders and suppliers: a new order has received nothing, and no note is about it yet.
LEMMA OfficeStepKeeps ==
    ASSUME BooksInv, SlotsInv, ReceivingInv, OfficeStep
    PROVE  ReceivingKept
<1>1. /\ UNCHANGED stockVars /\ UNCHANGED requestVars /\ grn' = grn /\ task' = task
  BY DEF OfficeStep, ChangeStatus, CreatePurchaseOrder
<1>2. moved' = moved /\ told' = told /\ lot' = lot /\ request' = request /\ left' = left
  BY <1>1 DEF stockVars, requestVars
<1>3. BooksInv' /\ SlotsInv' /\ Else(Grns, ReceiptSteps)
  BY <1>1, <1>2, QuietBooks DEF SlotsInv, Else
<1>4. CASE \E status \in {"ACTIVE", "INACTIVE", "BLACKLIST"} : ChangeStatus(status)
  <2>1. po' = po /\ supplier' \in {"ACTIVE", "INACTIVE", "BLACKLIST"}
    BY <1>4 DEF ChangeStatus
  <2>2. \A p, i : CameOf(p, i)' = CameOf(p, i)
    BY <1>1, <1>2 DEF CameOf
  <2>3. CountsReceipts'
    BY <2>1, <2>2 DEF ReceivingInv, CountsReceipts, LineCounts
  <2>4. ReceivingTypeOK' /\ BookedOnce'
    BY <1>1, <1>2, <2>1 DEF ReceivingInv, ReceivingTypeOK, BookedOnce
  <2>5. ReceivingInv'
    BY <1>1, <1>2, <2>1, <2>3, <2>4 DEF ReceivingInv, ReceiptRequestOK
  <2>. QED BY <1>2, <1>3, <2>5 DEF ReceivingKept
<1>5. ASSUME NEW p \in Pos, CreatePurchaseOrder(p)
      PROVE  ReceivingKept
  <2>1. PICK lines \in Ordered :
            po' = [po EXCEPT ![p] = [status |-> "CONFIRMED",
                                     lines |-> [n \in DOMAIN lines |->
                                         [item |-> lines[n].item, expected |-> lines[n].expected,
                                          received |-> 0]]]]
    BY <1>5 DEF CreatePurchaseOrder
  <2>. DEFINE made == [n \in DOMAIN lines |->
                          [item |-> lines[n].item, expected |-> lines[n].expected, received |-> 0]]
              doc == [status |-> "CONFIRMED", lines |-> made]
  <2>2. supplier' = supplier /\ po[p].status = "none"
    BY <1>5 DEF CreatePurchaseOrder
  <2>3. doc \in PoDocs
    <3>. DEFINE Expected == [item : Items, expected : Nat \ {0}]
    <3>1. lines \in Seq(Expected)
      BY ReceivingAssumption
    <3>2. /\ Len(lines) \in Nat /\ DOMAIN lines = 1 .. Len(lines)
          /\ \A n \in DOMAIN lines : lines[n] \in Expected
      <4>. HIDE DEF Expected
      <4>. QED BY <3>1
    <3>3. \A n \in DOMAIN lines : made[n] \in PoLines
      BY <3>2 DEF PoLines
    <3>4. made = [n \in 1 .. Len(lines) |-> made[n]]
      BY <3>2
    <3>5. made \in Seq(PoLines)
      <4>. HIDE DEF made, PoLines
      <4>. QED BY <3>2, <3>3, <3>4
    <3>. HIDE DEF made
    <3>. QED BY <3>5 DEF PoDocs, PoLines
  <2>4. po \in [Pos -> PoDocs]
    BY DEF ReceivingInv, ReceivingTypeOK
  <2>5. po'[p] = doc /\ po' \in [Pos -> PoDocs] /\ \A o \in Pos \ {p} : po'[o] = po[o]
    <3>1. po' = [po EXCEPT ![p] = doc]
      BY <2>1
    <3>. HIDE DEF doc
    <3>. QED BY <2>3, <2>4, <3>1
  <2>6. doc.status = "CONFIRMED" /\ doc.lines = made /\ \A n \in DOMAIN made : made[n].received = 0
    OBVIOUS
  <2>7. \A g \in Grns : grn[g].status # "none" => grn[g].po # p
    BY <2>2 DEF ReceivingInv
  <2>8. IsFiniteSet(Grns)
    BY LedgerAssumption, ReceivingAssumption, FiniteSubset
  <2>9. \A o, i : CameOf(o, i)' = CameOf(o, i)
    BY <1>1, <1>2 DEF CameOf
  <2>10. \A i : Total(CameOf(p, i), Grns) = 0
    <3>1. \A i : \A g \in Grns : CameOf(p, i)[g] = 0
      BY <2>7 DEF CameOf
    <3>. QED BY <2>8, <3>1, TotalOfZeros
  <2>. HIDE DEF made, doc
  <2>11. ASSUME NEW o \in Pos, NEW n \in DOMAIN po'[o].lines
         PROVE  LineCounts(o, po[o], n)'
    <3>1. PICK new : new = po'[o]
      OBVIOUS
    <3>2. CASE o = p
      <4>1. new = doc /\ new.lines[n].received = 0 /\ new.status # "COMPLETED"
        BY <2>5, <2>6, <2>11, <3>1, <3>2
      <4>2. LineCounts(p, new, n)'
        BY <2>9, <2>10, <4>1 DEF LineCounts
      <4>. QED BY <3>1, <3>2, <4>2 DEF LineCounts
    <3>3. CASE o # p
      <4>1. new = po[o]
        BY <2>5, <3>1, <3>3
      <4>2. LineCounts(o, new, n)
        BY <2>11, <3>1, <4>1 DEF ReceivingInv, CountsReceipts
      <4>3. LineCounts(o, new, n)'
        BY <2>9, <4>2 DEF LineCounts
      <4>. QED BY <3>1, <4>3 DEF LineCounts
    <3>. QED BY <3>2, <3>3
  <2>12. CountsReceipts'
    BY <2>11 DEF CountsReceipts
  <2>13. ReceivingTypeOK' /\ BookedOnce'
    BY <1>1, <1>2, <2>2, <2>5 DEF ReceivingInv, ReceivingTypeOK, BookedOnce
  <2>14. (\A g \in Grns : grn[g].status # "none" => po[grn[g].po].status # "none")'
    <3>1. ASSUME NEW g \in Grns, grn[g].status # "none"
          PROVE  po'[grn[g].po].status # "none"
      <4>1. grn[g].po \in Pos \ {p} /\ po[grn[g].po].status # "none"
        BY <2>7, <3>1, NoteIsReal DEF ReceivingInv, RealNotes
      <4>. QED BY <2>5, <4>1
    <3>. QED BY <1>1, <3>1
  <2>15. ASSUME NEW t \in Requests
         PROVE  ReceiptRequestOK(request[t])'
    <3>1. PICK x : x = request[t] /\ ReceiptRequestOK(x)
      BY DEF ReceivingInv
    <3>2. \A o \in Pos : po[o].status # "none" => po'[o].status # "none"
      BY <2>2, <2>5
    <3>3. ReceiptRequestOK(x)'
      BY <1>1, <3>1, <3>2, ReceiptRequestStays
    <3>. QED BY <1>2, <3>1, <3>3 DEF ReceiptRequestOK
  <2>16. (\A g \in Grns, i \in Items :
             told[g][i] # 0 => \E row \in RowsOf(i) : moved[g][row] # 0)'
    BY <1>2 DEF ReceivingInv
  <2>17. ReceivingInv'
    BY <2>12, <2>13, <2>14, <2>15, <2>16 DEF ReceivingInv
  <2>. QED BY <1>2, <1>3, <2>17 DEF ReceivingKept
<1>. QED BY <1>4, <1>5 DEF OfficeStep
----------------------------------------------------------------------------
\* What a return comes to

\* The row a line names is one of its item.
LEMMA InspectedRow ==
    ASSUME NEW line \in ValidInspections, NEW i \in ReturnedItems
    PROVE  /\ i \in Items /\ ReturnedQty[i] \in Nat /\ ReturnedQty[i] > 0
           /\ line[i].row \in RowsOf(i)
           /\ line[i].condition \in {"GOOD", "DAMAGED"}
<1>1. line[i] \in Inspections /\ line[i].row[1] = i
  BY DEF ValidInspections
<1>2. line[i].row \in Rows /\ line[i].condition \in {"GOOD", "DAMAGED"}
  BY <1>1 DEF Inspections, ShelfRows, Conditions
<1>. QED BY <1>1, <1>2, ReturnedAssumption DEF ReturnedItems, RowsOf

LEMMA ReturnedRows ==
    ASSUME NEW line \in ValidInspections, NEW S \in SUBSET ReturnedItems
    PROVE  /\ Returned(line, S) \in RowQty
           /\ \A row \in Rows : Returned(line, S)[row] >= 0
           /\ \A i \in S : Returned(line, S)[line[i].row] = ReturnedQty[i]
           /\ Quantities(S) \in ItemQty
           /\ \A i \in Items : PerItem(Returned(line, S))[i] = Quantities(S)[i]
<1>1. \A row \in Rows :
          Returned(line, S)[row] = IF row[1] \in S /\ row = line[row[1]].row
                                   THEN ReturnedQty[row[1]] ELSE 0
  BY DEF Returned
<1>2. \A i \in S : i \in Items /\ ReturnedQty[i] \in Nat /\ line[i].row \in RowsOf(i)
  BY InspectedRow
<1>3. \A row \in Rows : Returned(line, S)[row] \in Int /\ Returned(line, S)[row] >= 0
  BY <1>1, <1>2
<1>4. Returned(line, S) \in RowQty
  BY <1>3 DEF Returned, RowQty
<1>5. \A i \in S : Returned(line, S)[line[i].row] = ReturnedQty[i]
  BY <1>1, <1>2 DEF RowsOf
<1>6. Quantities(S) \in ItemQty
  BY <1>2 DEF Quantities, ItemQty
<1>7. ASSUME NEW i \in Items
      PROVE  PerItem(Returned(line, S))[i] = Quantities(S)[i]
  <2>1. CASE i \in S
    <3>1. \A row \in RowsOf(i) \ {line[i].row} : Returned(line, S)[row] = 0
      BY <1>1 DEF RowsOf
    <3>2. PerItem(Returned(line, S))[i] = Returned(line, S)[line[i].row]
      BY <1>2, <1>4, <2>1, <3>1, PerItemOfOne
    <3>. QED BY <1>5, <2>1, <3>2 DEF Quantities
  <2>2. CASE i \notin S
    <3>1. \A row \in RowsOf(i) : Returned(line, S)[row] = 0
      BY <1>1, <2>2 DEF RowsOf
    <3>. QED BY <1>4, <2>2, <3>1, PerItemZero DEF Quantities
  <2>. QED BY <2>1, <2>2
<1>. QED BY <1>3, <1>4, <1>5, <1>6, <1>7

----------------------------------------------------------------------------
\* Steps of the return

ReturnKept ==
    BooksInv' /\ SlotsInv' /\ ReturnInv' /\ Else({"return", "rma"}, ReturnSteps) /\ lot' = lot

\* What a request knows stays true while more is left on the shelves.
LEMMA ReturnRequestStays ==
    ASSUME NEW r, ReturnRequestOK(r),
           \A i \in Items : Kept(i) \in Int /\ Kept(i)' \in Int /\ Kept(i)' >= Kept(i),
           \A row \in Rows : moved["return"][row] # 0 => moved'["return"][row] # 0
    PROVE  ReturnRequestOK(r)'
<1>1. r.at \in {"return.inspect", "return.confirm", "return.tell"} => r.line \in ValidInspections
  BY DEF ReturnRequestOK
<1>2. ASSUME r.at = "return.tell", NEW i \in ReturnedItems
      PROVE  /\ Quantities(GoodLines(r.line))[i] <= Kept(i)'
             /\ \E row \in RowsOf(i) : moved'["return"][row] # 0
  <2>1. /\ Quantities(GoodLines(r.line))[i] <= Kept(i)
        /\ \E row \in RowsOf(i) : moved["return"][row] # 0
    BY <1>2 DEF ReturnRequestOK
  <2>2. i \in Items /\ Quantities(GoodLines(r.line))[i] \in Int
    BY ReturnedAssumption DEF ReturnedItems, Quantities
  <2>. QED BY <2>1, <2>2 DEF RowsOf
<1>. QED BY <1>1, <1>2 DEF ReturnRequestOK

LEMMA KeptType ==
    ASSUME BooksInv, NEW i \in Items
    PROVE  Kept(i) \in Int
<1>1. moved["return"] \in RowQty /\ moved["rma"] \in RowQty
  BY ReturnedAssumption DEF BooksInv, StockTypeOK, RowQty
<1>. QED BY <1>1, PerItemValue DEF Kept

LEMMA ReturnFrame ==
    ASSUME BooksInv, ReturnInv, return' = return,
           moved'["return"] = moved["return"], moved'["rma"] = moved["rma"],
           told'["return"] = told["return"],
           \A t \in Requests : request'[t] = request[t] \/ ReturnRequestOK(request[t])'
    PROVE  ReturnInv'
<1>1. \A i : Kept(i)' = Kept(i)
  BY DEF Kept
<1>2. OnlyGoodIsTold'
  BY DEF ReturnInv, OnlyGoodIsTold
<1>3. ASSUME NEW t \in Requests
      PROVE  ReturnRequestOK(request[t])'
  <2>1. PICK r : r = request[t] /\ ReturnRequestOK(r)
    BY DEF ReturnInv
  <2>2. \A i \in Items : Kept(i) \in Int /\ Kept(i)' \in Int /\ Kept(i)' >= Kept(i)
    BY <1>1, KeptType
  <2>3. ReturnRequestOK(r)'
    BY <2>1, <2>2, ReturnRequestStays
  <2>. QED BY <2>1, <2>3 DEF ReturnRequestOK
<1>. QED BY <1>2, <1>3 DEF ReturnInv

\* The document or a request changes, the stock does not.
LEMMA ReturnMoves ==
    ASSUME BooksInv, SlotsInv, ReturnInv, NEW s \in Requests, NEW r,
           Begin(s, r) \/ Goto(s, r), UNCHANGED stockVars,
           ReturnRequestOK(r), r.at \in ReturnSteps \cup {"idle"},
           return' \in ReturnDocs, return'.status = "INSPECTED" => return'.line \in ValidInspections
    PROVE  ReturnKept
<1>1. /\ SlotsInv'
      /\ request'[s] = r
      /\ \A t \in Requests \ {s} : request'[t] = request[t]
  BY SlotBegins, SlotGoesOn
<1>2. moved' = moved /\ told' = told /\ lot' = lot
  BY DEF stockVars
<1>3. ASSUME NEW t \in Requests
      PROVE  ReturnRequestOK(request[t])'
  <2>1. PICK x : x = request'[t] /\ ReturnRequestOK(x)
    BY <1>1 DEF ReturnInv
  <2>2. ReturnRequestOK(x)'
    BY <1>2, <2>1 DEF ReturnRequestOK, Kept
  <2>. QED BY <2>1, <2>2 DEF ReturnRequestOK
<1>4. ReturnInv'
  BY <1>2, <1>3 DEF ReturnInv, OnlyGoodIsTold
<1>5. Else({"return", "rma"}, ReturnSteps)
  BY <1>1, <1>2 DEF Else
<1>. QED BY <1>1, <1>2, <1>4, <1>5, QuietBooks DEF ReturnKept

LEMMA ReturnCreateKeeps ==
    ASSUME BooksInv, SlotsInv, ReturnInv, ReturnCreate
    PROVE  ReturnKept
<1>1. SlotsInv' /\ request' = request /\ UNCHANGED stockVars
  BY SlotSingle DEF ReturnCreate
<1>2. moved' = moved /\ told' = told /\ lot' = lot
  BY <1>1 DEF stockVars
<1>3. PICK doc \in ReturnDocs : doc = return
  BY DEF ReturnInv
<1>4. return' = [doc EXCEPT !.status = "DRAFT"]
  BY <1>3 DEF ReturnCreate
<1>5. return' \in ReturnDocs /\ return'.status = "DRAFT"
  BY <1>4 DEF ReturnDocs
<1>6. ReturnInv'
  BY <1>1, <1>2, <1>5 DEF ReturnInv, OnlyGoodIsTold, ReturnRequestOK, Kept
<1>7. Else({"return", "rma"}, ReturnSteps)
  BY <1>1, <1>2 DEF Else
<1>. QED BY <1>1, <1>2, <1>6, <1>7, QuietBooks DEF ReturnKept

\* All steps but the transaction and the event.
LEMMA ReturnDocKeeps ==
    ASSUME BooksInv, SlotsInv, ReturnInv, NEW s \in Requests,
           \/ InspectRead(s) \/ SetInspected(s) \/ ConfirmRead(s) \/ CancelRead(s) \/ SetCancelled(s)
    PROVE  ReturnKept
<1>1. PICK doc \in ReturnDocs : doc = return
  BY DEF ReturnInv
<1>2. CASE InspectRead(s)
  <2>1. PICK line \in ValidInspections : Begin(s, [at |-> "return.inspect", line |-> line])
    BY <1>2 DEF InspectRead
  <2>. DEFINE r == [at |-> "return.inspect", line |-> line]
  <2>2. ReturnRequestOK(r) /\ r.at \in ReturnSteps
    BY DEF ReturnRequestOK, ReturnSteps
  <2>3. UNCHANGED stockVars /\ return' = return
    BY <1>2 DEF InspectRead
  <2>4. Begin(s, r)
    BY <2>1
  <2>. HIDE DEF r
  <2>. QED BY <2>2, <2>3, <2>4, ReturnMoves DEF ReturnInv
<1>3. CASE SetInspected(s)
  <2>1. PICK q : q = request[s] /\ q.at = "return.inspect" /\ ReturnRequestOK(q)
    BY <1>3 DEF SetInspected, At, ReturnInv
  <2>2. PICK line \in ValidInspections : line = q.line
    BY <2>1 DEF ReturnRequestOK
  <2>3. return' = [status |-> "INSPECTED", line |-> line] /\ Goto(s, Idle) /\ UNCHANGED stockVars
    BY <1>3, <2>1, <2>2 DEF SetInspected, Done
  <2>4. line \in [ReturnedItems -> Inspections \cup {Unseen}]
    BY DEF ValidInspections
  <2>5. return' \in ReturnDocs /\ return'.line \in ValidInspections
    BY <2>3, <2>4 DEF ReturnDocs
  <2>6. ReturnRequestOK(Idle) /\ Idle.at = "idle"
    BY DEF ReturnRequestOK, Idle
  <2>. QED BY <2>3, <2>5, <2>6, ReturnMoves
<1>4. CASE ConfirmRead(s)
  <2>. DEFINE r == [at |-> "return.confirm", line |-> return.line]
  <2>1. /\ Begin(s, r) /\ UNCHANGED stockVars /\ return' = return
        /\ return.line \in ValidInspections
    BY <1>4 DEF ConfirmRead, ReturnInv
  <2>2. ReturnRequestOK(r) /\ r.at \in ReturnSteps
    BY <2>1 DEF ReturnRequestOK, ReturnSteps
  <2>. HIDE DEF r
  <2>. QED BY <2>1, <2>2, ReturnMoves DEF ReturnInv
<1>5. CASE CancelRead(s)
  <2>. DEFINE r == [at |-> "return.cancel"]
  <2>1. Begin(s, r) /\ UNCHANGED stockVars /\ return' = return
    BY <1>5 DEF CancelRead
  <2>2. ReturnRequestOK(r) /\ r.at \in ReturnSteps
    BY DEF ReturnRequestOK, ReturnSteps
  <2>. HIDE DEF r
  <2>. QED BY <2>1, <2>2, ReturnMoves DEF ReturnInv
<1>6. CASE SetCancelled(s)
  <2>1. return' = [doc EXCEPT !.status = "CANCELLED"] /\ Goto(s, Idle) /\ UNCHANGED stockVars
    BY <1>1, <1>6 DEF SetCancelled, Done
  <2>2. return' \in ReturnDocs /\ return'.status = "CANCELLED"
    BY <2>1 DEF ReturnDocs
  <2>3. ReturnRequestOK(Idle) /\ Idle.at = "idle"
    BY DEF ReturnRequestOK, Idle
  <2>. QED BY <2>1, <2>2, <2>3, ReturnMoves
<1>. QED BY <1>2, <1>3, <1>4, <1>5, <1>6

\* The transaction.
LEMMA ConfirmKeeps ==
    ASSUME BooksInv, SlotsInv, ReturnInv, NEW s \in Requests, ConfirmCommit(s)
    PROVE  ReturnKept
<1>1. PICK q : q = request[s] /\ q.at = "return.confirm" /\ ReturnRequestOK(q)
  BY DEF ConfirmCommit, At, ReturnInv
<1>2. PICK line \in ValidInspections : line = q.line
  BY <1>1 DEF ReturnRequestOK
<1>3. PICK doc \in ReturnDocs : doc = return
  BY DEF ReturnInv
<1>4. PICK in : in = Returned(line, ReturnedItems)
  OBVIOUS
<1>5. PICK out : out = Returned(line, Scrapped(line))
  OBVIOUS
<1>. DEFINE d == [row \in Rows |-> in[row] - out[row]]
            onHand == [i \in Items |-> Quantities(ReturnedItems)[i] - Quantities(Scrapped(line))[i]]
            r == [at |-> "return.tell", line |-> line]
<1>6. /\ UpsertInventory(d) /\ UpsertBalance(onHand, NoItem, NoItem)
      /\ InsertMovements([ref \in {"return", "rma"} |-> IF ref = "return" THEN in ELSE Negative(out)])
      /\ return' = [doc EXCEPT !.status = "RESTOCKED"] /\ Goto(s, r)
      /\ lot' = lot /\ told' = told
  BY <1>1, <1>2, <1>3, <1>4, <1>5 DEF ConfirmCommit
<1>7. Scrapped(line) \in SUBSET ReturnedItems /\ ReturnedItems \in SUBSET ReturnedItems
  BY DEF Scrapped, ItemsIn
<1>8. /\ in \in RowQty /\ out \in RowQty
      /\ \A row \in Rows : in[row] >= 0
      /\ \A i \in ReturnedItems : in[line[i].row] = ReturnedQty[i]
      /\ Quantities(ReturnedItems) \in ItemQty /\ Quantities(Scrapped(line)) \in ItemQty
      /\ \A i \in Items : /\ PerItem(in)[i] = Quantities(ReturnedItems)[i]
                          /\ PerItem(out)[i] = Quantities(Scrapped(line))[i]
  BY <1>4, <1>5, <1>7, ReturnedRows
<1>9. PICK back \in RowQty : back = Negative(out) /\ \A row \in Rows : back[row] = -out[row]
  <2>1. Negative(out) = [row \in Rows |-> -out[row]]
    BY <1>8 DEF Negative, RowQty
  <2>2. Negative(out) \in RowQty
    BY <1>8, <2>1 DEF RowQty
  <2>. QED BY <2>1, <2>2
<1>10. d \in RowQty /\ \A row \in Rows : d[row] = in[row] + back[row]
  BY <1>8, <1>9 DEF RowQty
<1>11. ASSUME NEW i \in Items
       PROVE  /\ PerItem(back)[i] = -PerItem(out)[i]
              /\ PerItem(d)[i] = PerItem(in)[i] + PerItem(back)[i]
              /\ PerItem(in)[i] \in Int /\ PerItem(out)[i] \in Int
  <2>. HIDE DEF d
  <2>1. PerItem(back)[i] = -PerItem(out)[i]
    BY <1>8, <1>9, PerItemUndone
  <2>2. PerItem(d)[i] = PerItem(in)[i] + PerItem(back)[i]
    BY <1>8, <1>10, PerItemPlus
  <2>3. PerItem(in)[i] \in Int /\ PerItem(out)[i] \in Int
    BY <1>8, PerItemValue
  <2>. QED BY <2>1, <2>2, <2>3
<1>12. \A i \in Items : onHand[i] = PerItem(d)[i]
  BY <1>8, <1>11
<1>13. /\ moved \in [Refs -> RowQty] /\ "return" \in Refs /\ "rma" \in Refs
       /\ InsertMovements([ref \in {"return", "rma"} |-> IF ref = "return" THEN in ELSE back])
  BY <1>6, <1>9, ReturnedAssumption DEF BooksInv, StockTypeOK, RowQty
<1>14. /\ moved' \in [Refs -> RowQty]
       /\ \A row \in Rows : moved'["return"][row] = moved["return"][row] + in[row]
       /\ \A row \in Rows : moved'["rma"][row] = moved["rma"][row] + back[row]
       /\ \A other \in Refs \ {"return", "rma"} : moved'[other] = moved[other]
       /\ \A row \in Rows :
             Total(Column(moved', row), Refs) = Total(Column(moved, row), Refs) + (in[row] + back[row])
  BY <1>8, <1>9, <1>13, TwoMovements
<1>. HIDE DEF d, onHand, r
<1>15. BooksInv'
  <2>1. NoItem \in ItemQty /\ lot' \in [Lots -> {"ACTIVE", "EXPIRED"}]
    BY <1>6 DEF NoItem, ItemQty, BooksInv, StockTypeOK
  <2>2. \A row \in Rows :
            Total(Column(moved', row), Refs) = Total(Column(moved, row), Refs) + d[row]
    BY <1>10, <1>14
  <2>. QED BY <1>6, <1>10, <1>12, <1>14, <2>1, <2>2, CommitBooks
<1>16. /\ SlotsInv'
       /\ request'[s] = r
       /\ \A t \in Requests \ {s} : request'[t] = request[t]
  BY <1>6, SlotGoesOn
<1>17. ASSUME NEW i \in Items
       PROVE  /\ Kept(i) \in Int
              /\ Kept(i)' = Kept(i) + (Quantities(ReturnedItems)[i] - Quantities(Scrapped(line))[i])
  <2>1. /\ moved["return"] \in RowQty /\ moved["rma"] \in RowQty
        /\ moved'["return"] \in RowQty /\ moved'["rma"] \in RowQty
    BY <1>13, <1>14
  <2>2. PerItem(moved'["return"])[i] = PerItem(moved["return"])[i] + PerItem(in)[i]
    BY <1>8, <1>14, <2>1, PerItemPlus
  <2>3. PerItem(moved'["rma"])[i] = PerItem(moved["rma"])[i] + PerItem(back)[i]
    BY <1>9, <1>14, <2>1, PerItemPlus
  <2>4. PerItem(moved["return"])[i] \in Int /\ PerItem(moved["rma"])[i] \in Int
    BY <2>1, PerItemValue
  <2>. QED BY <1>8, <1>11, <2>2, <2>3, <2>4 DEF Kept
<1>18. ASSUME NEW i \in Items
       PROVE  /\ Quantities(GoodLines(line))[i] \in Int /\ Quantities(GoodLines(line))[i] >= 0
              /\ Quantities(ReturnedItems)[i] - Quantities(Scrapped(line))[i]
                     = Quantities(GoodLines(line))[i]
  <2>1. CASE i \in ReturnedItems
    <3>1. line[i].condition \in {"GOOD", "DAMAGED"} /\ ReturnedQty[i] \in Nat
      BY <2>1, InspectedRow
    <3>. QED BY <2>1, <3>1 DEF Quantities, GoodLines, Scrapped, ItemsIn
  <2>2. CASE i \notin ReturnedItems
    BY <2>2 DEF Quantities, GoodLines, Scrapped, ItemsIn
  <2>. QED BY <2>1, <2>2
<1>19. \A i \in Items : Kept(i) \in Int /\ Kept(i)' \in Int /\ Kept(i)' >= Kept(i)
  BY <1>17, <1>18
<1>20. \A row \in Rows : /\ moved["return"][row] \in Int /\ moved["return"][row] >= 0
                         /\ moved'["return"][row] >= moved["return"][row]
                         /\ moved'["return"][row] >= in[row]
  <2>1. \A row \in Rows : moved["return"][row] \in Int /\ in[row] \in Int
    BY <1>8, <1>13 DEF RowQty
  <2>. QED BY <1>8, <1>14, <2>1 DEF ReturnInv
<1>21. \A row \in Rows : moved["return"][row] # 0 => moved'["return"][row] # 0
  <2>1. \A row \in Rows : moved'["return"][row] \in Int
    BY <1>13, <1>14 DEF RowQty
  <2>. QED BY <1>20, <2>1
<1>22. \A i \in ReturnedItems : told["return"][i] \in Int /\ told["return"][i] >= 0 /\ told["return"][i] <= Kept(i)
  <2>1. \A i \in Items : told["return"][i] \in Int
    BY ReturnedAssumption DEF BooksInv, StockTypeOK
  <2>. QED BY <2>1 DEF ReturnInv, OnlyGoodIsTold, Kept, ReturnedItems
<1>23. OnlyGoodIsTold'
  <2>1. \A i \in ReturnedItems : told'["return"][i] >= 0 /\ told'["return"][i] <= Kept(i)'
    <3>1. \A i \in ReturnedItems : i \in Items
      BY DEF ReturnedItems
    <3>. QED BY <1>6, <1>19, <1>22, <3>1
  <2>. QED BY <2>1 DEF OnlyGoodIsTold, Kept
<1>24. (\A row \in Rows : moved["return"][row] >= 0)'
  <2>1. \A row \in Rows : moved'["return"][row] \in Int
    BY <1>13, <1>14 DEF RowQty
  <2>. QED BY <1>20, <2>1
<1>25. (\A i \in Items : told["return"][i] # 0 => \E row \in RowsOf(i) : moved["return"][row] # 0)'
  BY <1>6, <1>21 DEF ReturnInv, RowsOf
<1>26. return' \in ReturnDocs /\ return'.status = "RESTOCKED"
  BY <1>6 DEF ReturnDocs
<1>27. ReturnRequestOK(r)'
  <2>1. ASSUME NEW i \in ReturnedItems
        PROVE  /\ Quantities(GoodLines(line))[i] <= Kept(i)'
               /\ \E row \in RowsOf(i) : moved'["return"][row] # 0
    <3>1. i \in Items /\ ReturnedQty[i] \in Nat /\ ReturnedQty[i] > 0 /\ line[i].row \in RowsOf(i)
      BY InspectedRow
    <3>2. Quantities(GoodLines(line))[i] <= Kept(i)'
      BY <1>17, <1>18, <1>22, <3>1
    <3>3. line[i].row \in Rows /\ moved'["return"][line[i].row] >= ReturnedQty[i]
      BY <1>8, <1>20, <3>1 DEF RowsOf
    <3>4. moved'["return"][line[i].row] # 0
      BY <3>1, <3>3
    <3>. QED BY <3>1, <3>2, <3>4
  <2>2. r.at = "return.tell" /\ r.line = line
    BY DEF r
  <2>. QED BY <2>1, <2>2 DEF ReturnRequestOK
<1>28. ASSUME NEW t \in Requests
       PROVE  ReturnRequestOK(request[t])'
  <2>1. CASE t = s
    BY <1>16, <1>27, <2>1 DEF ReturnRequestOK
  <2>2. CASE t # s
    <3>1. PICK x : x = request[t] /\ ReturnRequestOK(x)
      BY DEF ReturnInv
    <3>2. ReturnRequestOK(x)'
      BY <1>19, <1>21, <3>1, ReturnRequestStays
    <3>. QED BY <1>16, <2>2, <3>1, <3>2 DEF ReturnRequestOK
  <2>. QED BY <2>1, <2>2
<1>29. ReturnInv'
  BY <1>23, <1>24, <1>25, <1>26, <1>28 DEF ReturnInv
<1>30. Else({"return", "rma"}, ReturnSteps)
  <2>1. r.at \in ReturnSteps
    BY DEF r, ReturnSteps
  <2>. QED BY <1>6, <1>14, <1>16, <2>1 DEF Else
<1>. QED BY <1>6, <1>15, <1>16, <1>29, <1>30 DEF ReturnKept

LEMMA ConfirmTellKeeps ==
    ASSUME BooksInv, SlotsInv, ReturnInv, NEW s \in Requests, ConfirmTell(s)
    PROVE  ReturnKept
<1>1. PICK q : q = request[s] /\ q.at = "return.tell" /\ ReturnRequestOK(q)
  BY DEF ConfirmTell, At, ReturnInv
<1>2. PICK line \in ValidInspections : line = q.line
  BY <1>1 DEF ReturnRequestOK
<1>3. PICK good \in ItemQty : good = Quantities(GoodLines(line))
  <2>1. GoodLines(line) \in SUBSET ReturnedItems
    BY DEF GoodLines, ItemsIn
  <2>. QED BY <2>1, ReturnedRows
<1>4. /\ Tell("return", good) /\ Goto(s, Idle)
      /\ UNCHANGED <<inventory, balance, lot, moved>> /\ return' = return
  BY <1>1, <1>2, <1>3 DEF ConfirmTell, Done
<1>5. "return" \in Refs \cap Speaking
  BY ReturnedAssumption DEF Speaking
<1>6. /\ BooksInv'
      /\ \A i \in Items : told'["return"][i] = IF told["return"][i] = 0 THEN good[i] ELSE told["return"][i]
      /\ \A other \in (Refs \cup Lots) \ {"return"} : told'[other] = told[other]
  BY <1>4, <1>5, TellBooks
<1>7. /\ SlotsInv'
      /\ request'[s] = Idle
      /\ \A t \in Requests \ {s} : request'[t] = request[t]
  BY <1>4, SlotGoesOn
<1>8. \A i : Kept(i)' = Kept(i)
  BY <1>4 DEF Kept
<1>9. \A i \in ReturnedItems : /\ i \in Items
                               /\ good[i] <= Kept(i) /\ good[i] >= 0
                               /\ \E row \in RowsOf(i) : moved["return"][row] # 0
  BY <1>1, <1>2, <1>3, ReturnedAssumption DEF ReturnRequestOK, ReturnedItems, Quantities
<1>10. OnlyGoodIsTold'
  <2>1. ASSUME NEW i \in ReturnedItems
        PROVE  told'["return"][i] >= 0 /\ told'["return"][i] <= Kept(i)'
    <3>1. told["return"][i] >= 0 /\ told["return"][i] <= Kept(i)
      BY DEF ReturnInv, OnlyGoodIsTold, Kept
    <3>. QED BY <1>6, <1>8, <1>9, <3>1
  <2>. QED BY <2>1 DEF OnlyGoodIsTold, Kept
<1>11. (\A i \in Items : told["return"][i] # 0 => \E row \in RowsOf(i) : moved["return"][row] # 0)'
  <2>1. ASSUME NEW i \in Items, told'["return"][i] # 0
        PROVE  \E row \in RowsOf(i) : moved'["return"][row] # 0
    <3>1. CASE told["return"][i] # 0
      BY <1>4, <3>1 DEF ReturnInv
    <3>2. CASE told["return"][i] = 0
      <4>1. good[i] # 0
        BY <1>6, <2>1, <3>2
      <4>2. i \in ReturnedItems
        BY <1>3, <4>1 DEF Quantities, GoodLines, ItemsIn
      <4>. QED BY <1>4, <1>9, <4>2
    <3>. QED BY <3>1, <3>2
  <2>. QED BY <2>1
<1>12. ASSUME NEW t \in Requests
       PROVE  ReturnRequestOK(request[t])'
  <2>1. CASE t = s
    BY <1>7, <2>1 DEF ReturnRequestOK, Idle
  <2>2. CASE t # s
    BY <1>4, <1>7, <2>2 DEF ReturnInv, ReturnRequestOK, Kept
  <2>. QED BY <2>1, <2>2
<1>13. ReturnInv'
  BY <1>4, <1>10, <1>11, <1>12 DEF ReturnInv
<1>14. Else({"return", "rma"}, ReturnSteps)
  BY <1>4, <1>6, <1>7 DEF Else, Idle
<1>. QED BY <1>4, <1>6, <1>7, <1>13, <1>14 DEF ReturnKept

LEMMA ReturnStepKeeps ==
    ASSUME BooksInv, SlotsInv, ReturnInv, NEW s \in Requests, ReturnStep(s)
    PROVE  ReturnKept
BY ReturnCreateKeeps, ReturnDocKeeps, ConfirmKeeps, ConfirmTellKeeps DEF ReturnStep
----------------------------------------------------------------------------
\* Steps of the scrap note

ScrapKept == BooksInv' /\ SlotsInv' /\ ScrapInv' /\ Else({"scrap"}, ScrapSteps) /\ lot' = lot

\* What a request knows stays true while the lines of the note do not change and what
\* was booked stays booked.
LEMMA ScrapRequestStays ==
    ASSUME NEW r, ScrapRequestOK(r), note.status # "none" => note'.status # "none",
           note'.lines = note.lines,
           \A row \in Rows : moved["scrap"][row] # 0 => moved'["scrap"][row] # 0
    PROVE  ScrapRequestOK(r)'
BY DEF ScrapRequestOK

LEMMA ScrapFrame ==
    ASSUME ScrapInv, note' = note, moved'["scrap"] = moved["scrap"], told'["scrap"] = told["scrap"],
           \A t \in Requests : request'[t] = request[t] \/ ScrapRequestOK(request[t])'
    PROVE  ScrapInv'
<1>1. ASSUME NEW t \in Requests
      PROVE  ScrapRequestOK(request[t])'
  <2>1. PICK r : r = request[t] /\ ScrapRequestOK(r)
    BY DEF ScrapInv
  <2>2. ScrapRequestOK(r)'
    BY <2>1, ScrapRequestStays
  <2>. QED BY <2>1, <2>2 DEF ScrapRequestOK
<1>. QED BY <1>1 DEF ScrapInv

\* The document's status or a request changes, the stock does not.
LEMMA ScrapMoves ==
    ASSUME BooksInv, SlotsInv, ScrapInv, NEW s \in Requests, NEW r,
           Begin(s, r) \/ Goto(s, r), UNCHANGED stockVars,
           note' \in NoteDocs, note'.lines = note.lines, note'.status # "none",
           r.at \in (ScrapSteps \ {"note.tell"}) \cup {"idle"}
    PROVE  ScrapKept
<1>1. /\ SlotsInv'
      /\ request'[s] = r
      /\ \A t \in Requests \ {s} : request'[t] = request[t]
  BY SlotBegins, SlotGoesOn
<1>2. moved' = moved /\ told' = told /\ lot' = lot
  BY DEF stockVars
<1>3. ASSUME NEW t \in Requests
      PROVE  ScrapRequestOK(request[t])'
  <2>1. CASE t = s
    BY <1>1, <2>1 DEF ScrapRequestOK
  <2>2. CASE t # s
    <3>1. PICK x : x = request[t] /\ ScrapRequestOK(x)
      BY DEF ScrapInv
    <3>2. ScrapRequestOK(x)'
      BY <1>2, <3>1, ScrapRequestStays
    <3>. QED BY <1>1, <2>2, <3>1, <3>2 DEF ScrapRequestOK
  <2>. QED BY <2>1, <2>2
<1>4. ScrapInv'
  BY <1>2, <1>3 DEF ScrapInv
<1>5. Else({"scrap"}, ScrapSteps)
  BY <1>1, <1>2 DEF Else
<1>. QED BY <1>1, <1>2, <1>4, <1>5, QuietBooks DEF ScrapKept

LEMMA NoteCreateKeeps ==
    ASSUME BooksInv, SlotsInv, ScrapInv, NoteCreate
    PROVE  ScrapKept
<1>1. SlotsInv' /\ request' = request /\ UNCHANGED stockVars /\ note.status = "none"
  BY SlotSingle DEF NoteCreate
<1>2. moved' = moved /\ told' = told /\ lot' = lot
  BY <1>1 DEF stockVars
<1>3. PICK lines \in [ShelfRows -> 0 .. MaxScrap] :
          note' = [status |-> "DRAFT",
                   lines |-> [row \in Rows |-> IF row \in ShelfRows THEN lines[row] ELSE 0]]
  BY DEF NoteCreate, ScrapLines
<1>4. [row \in Rows |-> IF row \in ShelfRows THEN lines[row] ELSE 0] \in [Rows -> 0 .. MaxScrap]
  BY ScrapAssumption
<1>5. note' \in NoteDocs
  BY <1>3, <1>4 DEF NoteDocs
<1>6. ASSUME NEW t \in Requests
      PROVE  ScrapRequestOK(request[t])'
  BY <1>1 DEF ScrapInv, ScrapRequestOK, ScrapSteps
<1>7. ScrapInv'
  BY <1>2, <1>5, <1>6 DEF ScrapInv
<1>8. Else({"scrap"}, ScrapSteps)
  BY <1>1, <1>2 DEF Else
<1>. QED BY <1>1, <1>2, <1>7, <1>8, QuietBooks DEF ScrapKept

LEMMA ScrapDocKeeps ==
    ASSUME BooksInv, SlotsInv, ScrapInv, NEW s \in Requests,
           ApproveNoteRead(s) \/ RejectNoteRead(s) \/ SetRejected(s)
    PROVE  ScrapKept
<1>1. PICK doc \in NoteDocs : doc = note
  BY DEF ScrapInv
<1>2. CASE ApproveNoteRead(s) \/ RejectNoteRead(s)
  <2>1. PICK at \in {"note.approve", "note.reject"} : Begin(s, [at |-> at])
    BY <1>2 DEF ApproveNoteRead, RejectNoteRead
  <2>. DEFINE r == [at |-> at]
  <2>2. UNCHANGED stockVars /\ note' = note /\ note.status = "DRAFT"
    BY <1>2 DEF ApproveNoteRead, RejectNoteRead
  <2>3. Begin(s, r) /\ r.at \in ScrapSteps \ {"note.tell"}
    BY <2>1 DEF ScrapSteps
  <2>. HIDE DEF r
  <2>. QED BY <1>1, <2>2, <2>3, ScrapMoves
<1>3. CASE SetRejected(s)
  <2>1. note' = [doc EXCEPT !.status = "REJECTED"] /\ Goto(s, Idle) /\ UNCHANGED stockVars
    BY <1>1, <1>3 DEF SetRejected, Done
  <2>2. note' \in NoteDocs /\ note'.lines = note.lines /\ note'.status = "REJECTED"
    BY <1>1, <2>1 DEF NoteDocs
  <2>3. Idle.at = "idle"
    BY DEF Idle
  <2>. QED BY <2>1, <2>2, <2>3, ScrapMoves
<1>. QED BY <1>2, <1>3

\* The transaction takes the lines off the shelves.
LEMMA ApproveNoteKeeps ==
    ASSUME BooksInv, SlotsInv, ScrapInv, NEW s \in Requests, ApproveNoteCommit(s)
    PROVE  ScrapKept
<1>1. PICK q : q = request[s] /\ q.at = "note.approve" /\ ScrapRequestOK(q)
  BY DEF ApproveNoteCommit, At, ScrapInv
<1>2. PICK doc \in NoteDocs : doc = note /\ doc.status # "none"
  BY <1>1 DEF ScrapInv, ScrapRequestOK, ScrapSteps
<1>3. PICK lines \in [Rows -> 0 .. MaxScrap] : lines = doc.lines
  BY DEF NoteDocs
<1>4. \A row \in Rows : lines[row] \in Nat
  BY ScrapAssumption
<1>5. PICK off \in RowQty : off = Negative(lines) /\ \A row \in Rows : off[row] = -lines[row]
  <2>1. Negative(lines) = [row \in Rows |-> -lines[row]]
    BY DEF Negative
  <2>. QED BY <1>4, <2>1 DEF RowQty
<1>6. lines \in RowQty
  BY <1>4 DEF RowQty
<1>7. PICK lotted \in RowQty : lotted = [row \in Rows |-> IF row[3] = NoLot THEN 0 ELSE lines[row]]
  <2>1. [row \in Rows |-> IF row[3] = NoLot THEN 0 ELSE lines[row]] \in RowQty
    BY <1>4 DEF RowQty
  <2>. QED BY <2>1
<1>. DEFINE onHand == Negative(PerItem(lines))
            expired == Negative(PerItem(lotted))
            r == [at |-> "note.tell"]
<1>8. /\ UpsertInventory(off) /\ UpsertBalance(onHand, NoItem, expired)
      /\ InsertMovements([ref \in {"scrap"} |-> off])
      /\ note' = [doc EXCEPT !.status = "APPROVED"] /\ Goto(s, r) /\ lot' = lot /\ told' = told
  BY <1>2, <1>3, <1>5, <1>7 DEF ApproveNoteCommit, ScrappedFrom
<1>9. PerItem(lines) \in ItemQty /\ PerItem(lotted) \in ItemQty
  BY <1>6, PerItemType
<1>10. /\ \A i \in Items : onHand[i] = -PerItem(lines)[i]
       /\ expired \in ItemQty
  BY <1>9 DEF Negative, ItemQty
<1>11. \A i \in Items : onHand[i] = PerItem(off)[i]
  <2>1. \A i \in Items : PerItem(off)[i] = -PerItem(lines)[i]
    BY <1>5, <1>6, PerItemUndone
  <2>. QED BY <1>10, <2>1
<1>12. moved \in [Refs -> RowQty] /\ "scrap" \in Refs
  BY ScrapAssumption DEF BooksInv, StockTypeOK, RowQty
<1>13. /\ moved' \in [Refs -> RowQty]
       /\ \A row \in Rows : moved'["scrap"][row] = moved["scrap"][row] + off[row]
       /\ \A other \in Refs \ {"scrap"} : moved'[other] = moved[other]
       /\ \A row \in Rows :
             Total(Column(moved', row), Refs) = Total(Column(moved, row), Refs) + off[row]
  BY <1>8, <1>12, OneMovement
<1>. HIDE DEF onHand, expired, r
<1>14. BooksInv'
  <2>1. NoItem \in ItemQty /\ lot' \in [Lots -> {"ACTIVE", "EXPIRED"}]
    BY <1>8 DEF NoItem, ItemQty, BooksInv, StockTypeOK
  <2>. QED BY <1>8, <1>10, <1>11, <1>13, <2>1, CommitBooks
<1>15. /\ SlotsInv'
       /\ request'[s] = r
       /\ \A t \in Requests \ {s} : request'[t] = request[t]
  BY <1>8, SlotGoesOn
<1>16. note' \in NoteDocs /\ note'.status = "APPROVED" /\ note'.lines = lines /\ note.lines = lines
  BY <1>2, <1>3, <1>8 DEF NoteDocs
<1>17. \A row \in Rows : /\ moved["scrap"][row] \in Int /\ moved["scrap"][row] <= 0
                         /\ moved'["scrap"][row] = moved["scrap"][row] - lines[row]
  <2>1. \A row \in Rows : moved["scrap"][row] \in Int
    BY <1>12 DEF RowQty
  <2>. QED BY <1>4, <1>5, <1>13, <2>1 DEF ScrapInv
<1>18. /\ \A row \in Rows : moved'["scrap"][row] <= 0
       /\ \A row \in Rows : moved["scrap"][row] # 0 => moved'["scrap"][row] # 0
       /\ \A row \in Rows : lines[row] > 0 => moved'["scrap"][row] # 0
  BY <1>4, <1>17
<1>19. ASSUME NEW t \in Requests
       PROVE  ScrapRequestOK(request[t])'
  <2>1. CASE t = s
    <3>1. ScrapRequestOK(r)'
      BY <1>16, <1>18 DEF ScrapRequestOK
    <3>. QED BY <1>15, <2>1, <3>1 DEF ScrapRequestOK
  <2>2. CASE t # s
    <3>1. PICK x : x = request[t] /\ ScrapRequestOK(x)
      BY DEF ScrapInv
    <3>2. ScrapRequestOK(x)'
      BY <1>16, <1>18, <3>1, ScrapRequestStays
    <3>. QED BY <1>15, <2>2, <3>1, <3>2 DEF ScrapRequestOK
  <2>. QED BY <2>1, <2>2
<1>20. ScrapInv'
  <2>1. (\A i \in Items : told["scrap"][i] # 0 => \E row \in RowsOf(i) : moved["scrap"][row] # 0)'
    BY <1>8, <1>18 DEF ScrapInv, RowsOf
  <2>. QED BY <1>16, <1>18, <1>19, <2>1 DEF ScrapInv
<1>21. Else({"scrap"}, ScrapSteps)
  BY <1>8, <1>13, <1>15 DEF Else, r, ScrapSteps
<1>. QED BY <1>8, <1>14, <1>15, <1>20, <1>21 DEF ScrapKept

LEMMA ApproveNoteTellKeeps ==
    ASSUME BooksInv, SlotsInv, ScrapInv, NEW s \in Requests, ApproveNoteTell(s)
    PROVE  ScrapKept
<1>1. PICK q : q = request[s] /\ q.at = "note.tell" /\ ScrapRequestOK(q)
  BY DEF ApproveNoteTell, At, ScrapInv
<1>2. PICK lines \in [Rows -> 0 .. MaxScrap] : lines = note.lines
  BY DEF ScrapInv, NoteDocs
<1>3. \A row \in Rows : lines[row] \in Nat
  BY ScrapAssumption
<1>4. PICK loose \in RowQty : loose = [row \in Rows |-> IF row[3] = NoLot THEN lines[row] ELSE 0]
  <2>1. [row \in Rows |-> IF row[3] = NoLot THEN lines[row] ELSE 0] \in RowQty
    BY <1>3 DEF RowQty
  <2>. QED BY <2>1
<1>5. PICK less \in ItemQty : less = Negative(PerItem(loose)) /\ \A i \in Items : less[i] = -PerItem(loose)[i]
  <2>1. PerItem(loose) \in ItemQty
    BY PerItemType
  <2>2. Negative(PerItem(loose)) = [i \in Items |-> -PerItem(loose)[i]]
    BY <2>1 DEF Negative, ItemQty
  <2>. QED BY <2>1, <2>2 DEF ItemQty
<1>6. /\ Tell("scrap", less) /\ Goto(s, Idle)
      /\ UNCHANGED <<inventory, balance, lot, moved>> /\ note' = note
  BY <1>2, <1>4, <1>5 DEF ApproveNoteTell, Done
<1>7. "scrap" \in Refs \cap Speaking
  BY ScrapAssumption DEF Speaking
<1>8. /\ BooksInv'
      /\ \A i \in Items : told'["scrap"][i] = IF told["scrap"][i] = 0 THEN less[i] ELSE told["scrap"][i]
      /\ \A other \in (Refs \cup Lots) \ {"scrap"} : told'[other] = told[other]
  BY <1>6, <1>7, TellBooks
<1>9. /\ SlotsInv'
      /\ request'[s] = Idle
      /\ \A t \in Requests \ {s} : request'[t] = request[t]
  BY <1>6, SlotGoesOn
<1>10. ASSUME NEW i \in Items, told'["scrap"][i] # 0
       PROVE  \E row \in RowsOf(i) : moved'["scrap"][row] # 0
  <2>1. CASE told["scrap"][i] # 0
    BY <1>6, <2>1 DEF ScrapInv
  <2>2. CASE told["scrap"][i] = 0
    <3>1. PerItem(loose)[i] # 0
      BY <1>5, <1>8, <1>10, <2>2
    <3>2. PICK row \in RowsOf(i) : loose[row] # 0
      BY <3>1, PerItemZero
    <3>3. row \in Rows /\ lines[row] > 0
      BY <1>3, <1>4, <3>2 DEF RowsOf
    <3>4. moved["scrap"][row] # 0
      BY <1>1, <1>2, <3>3 DEF ScrapRequestOK
    <3>. QED BY <1>6, <3>4
  <2>. QED BY <2>1, <2>2
<1>11. ASSUME NEW t \in Requests
       PROVE  ScrapRequestOK(request[t])'
  <2>1. CASE t = s
    BY <1>9, <2>1 DEF ScrapRequestOK, Idle, ScrapSteps
  <2>2. CASE t # s
    BY <1>6, <1>9, <2>2 DEF ScrapInv, ScrapRequestOK
  <2>. QED BY <2>1, <2>2
<1>12. ScrapInv'
  BY <1>6, <1>10, <1>11 DEF ScrapInv
<1>13. Else({"scrap"}, ScrapSteps)
  BY <1>6, <1>8, <1>9 DEF Else, Idle
<1>. QED BY <1>6, <1>8, <1>9, <1>12, <1>13 DEF ScrapKept

LEMMA NoteStepKeeps ==
    ASSUME BooksInv, SlotsInv, ScrapInv, NEW s \in Requests, NoteStep(s)
    PROVE  ScrapKept
BY NoteCreateKeeps, ScrapDocKeeps, ApproveNoteKeeps, ApproveNoteTellKeeps DEF NoteStep
----------------------------------------------------------------------------
\* Steps of the count

CountKept == BooksInv' /\ SlotsInv' /\ CountInv' /\ Else({"count"}, CountSteps) /\ lot' = lot

\* What a request knows stays true while the count keeps its lines.
LEMMA CountRequestStays ==
    ASSUME NEW r, CountRequestOK(r), count.status # "none" => count'.status # "none",
           DOMAIN count'.lines = DOMAIN count.lines
    PROVE  CountRequestOK(r)'
BY DEF CountRequestOK

LEMMA CountFrame ==
    ASSUME CountInv, count' = count, told'["count"] = told["count"],
           \A t \in Requests : request'[t] = request[t] \/ CountRequestOK(request[t])'
    PROVE  CountInv'
<1>1. ASSUME NEW t \in Requests
      PROVE  CountRequestOK(request[t])'
  <2>1. PICK r : r = request[t] /\ CountRequestOK(r)
    BY DEF CountInv
  <2>2. CountRequestOK(r)'
    BY <2>1, CountRequestStays
  <2>. QED BY <2>1, <2>2 DEF CountRequestOK
<1>. QED BY <1>1 DEF CountInv

LEMMA CountIs ==
    ASSUME CountInv
    PROVE  /\ count = [status |-> count.status, lines |-> count.lines]
           /\ count.status \in CountStatuses
           /\ DOMAIN count.lines \in SUBSET Rows
           /\ count.lines \in [DOMAIN count.lines -> LineDocs]
<1>1. PICK doc \in CountDocs : doc = count
  BY DEF CountInv
<1>2. /\ doc = [status |-> doc.status, lines |-> doc.lines] /\ doc.status \in CountStatuses
      /\ doc.lines \in UNION {[S -> LineDocs] : S \in SUBSET Rows}
  BY DEF CountDocs
<1>3. PICK S \in SUBSET Rows : doc.lines \in [S -> LineDocs]
  BY <1>2
<1>. QED BY <1>1, <1>2, <1>3

\* The document or a request changes, the stock does not.
LEMMA CountMoves ==
    ASSUME BooksInv, SlotsInv, CountInv, NEW s \in Requests, NEW r,
           Begin(s, r) \/ Goto(s, r), UNCHANGED stockVars,
           CountRequestOK(r)', r.at \in CountSteps \cup {"idle"},
           NEW status \in CountStatuses \ {"none"}, NEW lines \in [DOMAIN count.lines -> LineDocs],
           count' = [status |-> status, lines |-> lines]
    PROVE  CountKept
<1>1. /\ SlotsInv'
      /\ request'[s] = r
      /\ \A t \in Requests \ {s} : request'[t] = request[t]
  BY SlotBegins, SlotGoesOn
<1>2. moved' = moved /\ told' = told /\ lot' = lot
  BY DEF stockVars
<1>3. /\ count'.status # "none" /\ DOMAIN count'.lines = DOMAIN count.lines
      /\ DOMAIN count.lines \in SUBSET Rows
  BY CountIs
<1>4. count' \in CountDocs
  <2>1. lines \in UNION {[S -> LineDocs] : S \in SUBSET Rows}
    BY <1>3
  <2>. QED BY <2>1 DEF CountDocs
<1>5. ASSUME NEW t \in Requests
      PROVE  CountRequestOK(request[t])'
  <2>1. CASE t = s
    BY <1>1, <2>1 DEF CountRequestOK
  <2>2. CASE t # s
    <3>1. PICK x : x = request[t] /\ CountRequestOK(x)
      BY DEF CountInv
    <3>2. CountRequestOK(x)'
      BY <1>3, <3>1, CountRequestStays
    <3>. QED BY <1>1, <2>2, <3>1, <3>2 DEF CountRequestOK
  <2>. QED BY <2>1, <2>2
<1>6. CountInv'
  BY <1>2, <1>3, <1>4, <1>5 DEF CountInv
<1>7. Else({"count"}, CountSteps)
  BY <1>1, <1>2 DEF Else
<1>. QED BY <1>1, <1>2, <1>6, <1>7, QuietBooks DEF CountKept

LEMMA CountCreateKeeps ==
    ASSUME BooksInv, SlotsInv, CountInv, CountCreate
    PROVE  CountKept
<1>1. SlotsInv' /\ request' = request /\ UNCHANGED stockVars /\ count.status = "none"
  BY SlotSingle DEF CountCreate
<1>2. moved' = moved /\ told' = told /\ lot' = lot
  BY <1>1 DEF stockVars
<1>3. PICK rows \in SUBSET Rows :
          /\ \A row \in rows : inventory[row] >= 0
          /\ count' = [status |-> "DRAFT",
                       lines |-> [row \in rows |-> [system |-> inventory[row],
                                                   actual |-> Uncounted, delta |-> 0]]]
  BY DEF CountCreate
<1>. DEFINE lines == [row \in rows |-> [system |-> inventory[row], actual |-> Uncounted, delta |-> 0]]
<1>4. \A row \in rows : inventory[row] \in Nat
  BY <1>3 DEF BooksInv, StockTypeOK
<1>5. \A row \in rows : [system |-> inventory[row], actual |-> Uncounted, delta |-> 0] \in LineDocs
  BY <1>4 DEF LineDocs
<1>6. lines \in [rows -> LineDocs]
  BY <1>5
<1>7. count' = [status |-> "DRAFT", lines |-> lines]
  BY <1>3
<1>. HIDE DEF lines
<1>8. count' \in CountDocs /\ count'.status = "DRAFT"
  <2>1. lines \in UNION {[S -> LineDocs] : S \in SUBSET Rows}
    BY <1>6
  <2>. QED BY <1>7, <2>1 DEF CountDocs, CountStatuses
<1>9. \A i \in Items : told["count"][i] = 0
  BY <1>1 DEF CountInv
<1>10. \A t \in Requests : CountRequestOK(request[t])'
  BY <1>1 DEF CountInv, CountRequestOK, CountSteps
<1>11. CountInv'
  BY <1>2, <1>8, <1>9, <1>10 DEF CountInv
<1>12. Else({"count"}, CountSteps)
  BY <1>1, <1>2 DEF Else
<1>. QED BY <1>1, <1>2, <1>11, <1>12, QuietBooks DEF CountKept

LEMMA CountReadKeeps ==
    ASSUME BooksInv, SlotsInv, CountInv, NEW s \in Requests, CountRead(s)
    PROVE  CountKept
<1>1. PICK row \in DOMAIN count.lines, n \in Counts :
          Begin(s, [at |-> "count.item", line |-> FirstLine(LineOf(row)), n |-> n,
                    first |-> count.status = "DRAFT"])
  BY DEF CountRead
<1>2. UNCHANGED stockVars /\ count' = count /\ count.status # "none"
  BY DEF CountRead
<1>3. FirstLine(LineOf(row)) \in DOMAIN count.lines
  BY DEF FirstLine
<1>4. PICK r : /\ Begin(s, r)
               /\ r \in [at : {"count.item", "count.delta"}, line : DOMAIN count.lines, n : Counts,
                         first : BOOLEAN]
               /\ r.at = "count.item"
  <2>1. PICK line \in DOMAIN count.lines, first \in BOOLEAN :
            Begin(s, [at |-> "count.item", line |-> line, n |-> n, first |-> first])
    BY <1>1, <1>3, Zenon
  <2>2. [at |-> "count.item", line |-> line, n |-> n, first |-> first] \in
            [at : {"count.item", "count.delta"}, line : DOMAIN count.lines, n : Counts,
             first : BOOLEAN]
    OBVIOUS
  <2>. QED BY <2>1, <2>2
<1>5. PICK status, lines : status = count.status /\ lines = count.lines
  OBVIOUS
<1>6. /\ status \in CountStatuses \ {"none"} /\ lines \in [DOMAIN count.lines -> LineDocs]
      /\ count' = [status |-> status, lines |-> lines]
  BY <1>2, <1>5, CountIs
<1>7. DOMAIN count'.lines = DOMAIN count.lines /\ count'.status # "none"
  BY <1>2
<1>8. CountRequestOK(r)' /\ r.at \in CountSteps
  BY <1>4, <1>7 DEF CountRequestOK, CountSteps
<1>. QED BY <1>2, <1>4, <1>6, <1>8, CountMoves

LEMMA CountItemKeeps ==
    ASSUME BooksInv, SlotsInv, CountInv, NEW s \in Requests, CountItem(s) \/ CountDelta(s)
    PROVE  CountKept
<1>1. PICK q : q = request[s] /\ q.at \in {"count.item", "count.delta"} /\ CountRequestOK(q)
  BY DEF CountItem, CountDelta, At, CountInv
<1>2. /\ q \in [at : {"count.item", "count.delta"}, line : DOMAIN count.lines, n : Counts,
                first : BOOLEAN]
      /\ count.status # "none"
  BY <1>1 DEF CountRequestOK, CountSteps
<1>3. PICK old \in [DOMAIN count.lines -> LineDocs] : old = count.lines
  BY CountIs
<1>4. PICK line \in DOMAIN count.lines, n \in Counts : line = q.line /\ n = q.n
  BY <1>2
<1>5. PICK doc \in LineDocs : doc = old[line]
  BY <1>3
<1>6. n \in Int
  BY CountAssumption
<1>7. CASE CountItem(s)
  <2>. DEFINE r == [q EXCEPT !.at = "count.delta"]
              status == IF q.first /\ count.status = "DRAFT" THEN "IN_PROGRESS" ELSE count.status
              lines == [old EXCEPT ![line] = [doc EXCEPT !.actual = n]]
  <2>1. /\ count' = [status |-> status, lines |-> lines] /\ Goto(s, r) /\ UNCHANGED stockVars
    BY <1>1, <1>3, <1>4, <1>5, <1>7 DEF CountItem
  <2>2. [doc EXCEPT !.actual = n] \in LineDocs
    BY DEF LineDocs
  <2>3. lines \in [DOMAIN count.lines -> LineDocs]
    BY <2>2
  <2>4. status \in CountStatuses \ {"none"}
    BY <1>2, CountIs DEF CountStatuses
  <2>. HIDE DEF lines, status
  <2>5. DOMAIN count'.lines = DOMAIN count.lines /\ count'.status # "none"
    BY <2>1, <2>3, <2>4
  <2>6. /\ r \in [at : {"count.item", "count.delta"}, line : DOMAIN count.lines, n : Counts,
                  first : BOOLEAN]
        /\ r.at = "count.delta"
    BY <1>2
  <2>. HIDE DEF r
  <2>7. CountRequestOK(r)' /\ r.at \in CountSteps
    BY <2>5, <2>6 DEF CountRequestOK, CountSteps
  <2>. QED BY <2>1, <2>3, <2>4, <2>7, CountMoves
<1>8. CASE CountDelta(s)
  <2>. DEFINE r == [at |-> "count.mark"]
              lines == [old EXCEPT ![line] = [doc EXCEPT !.delta = n - doc.system]]
  <2>1. count' = [count EXCEPT !.lines[line].delta = n - old[line].system]
        /\ Goto(s, r) /\ UNCHANGED stockVars
    BY <1>1, <1>3, <1>4, <1>8 DEF CountDelta
  <2>2. PICK c \in CountDocs : c = count /\ c.lines = old
    BY <1>3 DEF CountInv
  <2>3. count' = [c EXCEPT !.lines = lines]
    BY <1>5, <2>1, <2>2
  <2>4. n - doc.system \in Int
    BY <1>6 DEF LineDocs
  <2>5. [doc EXCEPT !.delta = n - doc.system] \in LineDocs
    BY <2>4 DEF LineDocs
  <2>6. lines \in [DOMAIN count.lines -> LineDocs]
    BY <2>5
  <2>. HIDE DEF lines
  <2>7. count' = [status |-> c.status, lines |-> lines]
    BY <2>3 DEF CountDocs
  <2>8. c.status \in CountStatuses \ {"none"}
    BY <1>2, <2>2, CountIs
  <2>9. CountRequestOK(r)' /\ r.at \in CountSteps
    BY <2>7, <2>8 DEF CountRequestOK, CountSteps
  <2>. HIDE DEF r
  <2>. QED BY <2>1, <2>6, <2>7, <2>8, <2>9, CountMoves
<1>. QED BY <1>7, <1>8

LEMMA MarkKeeps ==
    ASSUME BooksInv, SlotsInv, CountInv, NEW s \in Requests, MarkCompletedIfAllCounted(s)
    PROVE  CountKept
<1>1. PICK q : q = request[s] /\ q.at = "count.mark" /\ CountRequestOK(q)
  BY DEF MarkCompletedIfAllCounted, At, CountInv
<1>2. count.status # "none"
  BY <1>1 DEF CountRequestOK, CountSteps
<1>3. PICK c \in CountDocs : c = count
  BY DEF CountInv
<1>4. PICK status \in CountStatuses \ {"none"} : count' = [c EXCEPT !.status = status]
  <2>1. count' = [c EXCEPT !.status = "COMPLETED"] \/ count' = [c EXCEPT !.status = c.status]
    BY <1>3 DEF MarkCompletedIfAllCounted, CountDocs
  <2>2. c.status \in CountStatuses \ {"none"} /\ "COMPLETED" \in CountStatuses \ {"none"}
    BY <1>2, <1>3, CountIs DEF CountStatuses
  <2>. QED BY <2>1, <2>2
<1>5. count' = [status |-> status, lines |-> count.lines]
  BY <1>3, <1>4 DEF CountDocs
<1>6. Goto(s, Idle) /\ UNCHANGED stockVars
  BY DEF MarkCompletedIfAllCounted, Done
<1>7. CountRequestOK(Idle)' /\ Idle.at = "idle"
  BY DEF CountRequestOK, CountSteps, Idle
<1>. QED BY <1>5, <1>6, <1>7, CountIs, CountMoves

\* The differences of a count are of items it counted.
LEMMA ApproveCountReadKeeps ==
    ASSUME BooksInv, SlotsInv, CountInv, NEW s \in Requests, ApproveCountRead(s)
    PROVE  CountKept
<1>. DEFINE of(row) == {k \in DOMAIN count.lines : LineOf(k) = row}
            delta == [row \in Rows |-> SumOf([l \in of(row) |-> count.lines[l].delta])]
            r == [at |-> "count.approve", delta |-> delta]
<1>1. /\ Begin(s, r) /\ UNCHANGED stockVars /\ count' = count /\ count.status = "COMPLETED"
  BY DEF ApproveCountRead
<1>2. ASSUME NEW row \in Rows
      PROVE  /\ delta[row] \in Int
             /\ delta[row] # 0 => \E l \in DOMAIN count.lines : l[1] = row[1]
  <2>. DEFINE f == [l \in of(row) |-> count.lines[l].delta]
  <2>1. of(row) \in SUBSET Rows /\ IsFiniteSet(of(row))
    <3>1. of(row) \in SUBSET Rows
      BY CountIs
    <3>. QED BY <3>1, RowsFinite, FiniteSubset
  <2>2. \A l \in of(row) : f[l] \in Int
    <3>1. \A l \in DOMAIN count.lines : count.lines[l] \in LineDocs
      BY CountIs
    <3>. QED BY <3>1 DEF LineDocs
  <2>3. delta[row] = SumOf(f) /\ DOMAIN f = of(row)
    OBVIOUS
  <2>4. \A l \in of(row) : l \in DOMAIN count.lines /\ l[1] = row[1]
    BY DEF LineOf
  <2>. HIDE DEF f, delta, of
  <2>5. SumOf(f) = Total(f, of(row))
    BY <2>3, SumOfIsTotal
  <2>6. Total(f, of(row)) \in Int
    BY <2>1, <2>2, TotalRemove DEF Summable
  <2>7. of(row) = {} => Total(f, of(row)) = 0
    BY TotalEmpty
  <2>. QED BY <2>3, <2>4, <2>5, <2>6, <2>7
<1>3. delta \in RowQty
  BY <1>2 DEF RowQty
<1>. HIDE DEF delta
<1>4. PICK x : /\ Begin(s, x)
               /\ x \in [at : {"count.approve", "count.tell"}, delta : RowQty]
               /\ x.at = "count.approve"
               /\ \A row \in Rows : x.delta[row] # 0 => \E l \in DOMAIN count.lines : l[1] = row[1]
  BY <1>1, <1>2, <1>3
<1>5. PICK status, lines : status = count.status /\ lines = count.lines
  OBVIOUS
<1>6. /\ status \in CountStatuses \ {"none"} /\ lines \in [DOMAIN count.lines -> LineDocs]
      /\ count' = [status |-> status, lines |-> lines]
  BY <1>1, <1>5, CountIs
<1>7. DOMAIN count'.lines = DOMAIN count.lines /\ count'.status # "none"
  BY <1>1
<1>8. CountRequestOK(x)' /\ x.at \in CountSteps
  BY <1>4, <1>7 DEF CountRequestOK, CountSteps
<1>. QED BY <1>1, <1>4, <1>6, <1>8, CountMoves

LEMMA ApproveCountKeeps ==
    ASSUME BooksInv, SlotsInv, CountInv, NEW s \in Requests, ApproveCountCommit(s)
    PROVE  CountKept
<1>1. PICK q : q = request[s] /\ q.at = "count.approve" /\ CountRequestOK(q)
  BY DEF ApproveCountCommit, At, CountInv
<1>2. /\ q \in [at : {"count.approve", "count.tell"}, delta : RowQty]
      /\ \A row \in Rows : q.delta[row] # 0 => \E l \in DOMAIN count.lines : l[1] = row[1]
      /\ count.status # "none"
  BY <1>1 DEF CountRequestOK, CountSteps
<1>3. PICK delta \in RowQty : delta = q.delta
  BY <1>2
<1>4. PICK c \in CountDocs : c = count
  BY DEF CountInv
<1>. DEFINE r == [q EXCEPT !.at = "count.tell"]
<1>5. /\ UpsertInventory(delta) /\ UpsertBalance(PerItem(delta), NoItem, NoItem)
      /\ InsertMovements([ref \in {"count"} |-> delta])
      /\ count' = [c EXCEPT !.status = "APPROVED"] /\ Goto(s, r) /\ lot' = lot /\ told' = told
  BY <1>1, <1>3, <1>4 DEF ApproveCountCommit
<1>6. r \in [at : {"count.approve", "count.tell"}, delta : RowQty] /\ r.at = "count.tell" /\ r.delta = q.delta
  BY <1>2
<1>. HIDE DEF r
<1>7. moved \in [Refs -> RowQty] /\ "count" \in Refs
  BY CountAssumption DEF BooksInv, StockTypeOK, RowQty
<1>8. /\ moved' \in [Refs -> RowQty]
      /\ \A other \in Refs \ {"count"} : moved'[other] = moved[other]
      /\ \A row \in Rows :
            Total(Column(moved', row), Refs) = Total(Column(moved, row), Refs) + delta[row]
  BY <1>5, <1>7, OneMovement
<1>9. BooksInv'
  <2>1. NoItem \in ItemQty /\ lot' \in [Lots -> {"ACTIVE", "EXPIRED"}]
    BY <1>5 DEF NoItem, ItemQty, BooksInv, StockTypeOK
  <2>2. \A i \in Items : PerItem(delta)[i] = PerItem(delta)[i]
    OBVIOUS
  <2>. QED BY <1>5, <1>8, <2>1, <2>2, CommitBooks
<1>10. /\ SlotsInv'
       /\ request'[s] = r
       /\ \A t \in Requests \ {s} : request'[t] = request[t]
  BY <1>5, SlotGoesOn
<1>11. /\ count' \in CountDocs /\ count'.status = "APPROVED" /\ count'.lines = count.lines
  BY <1>4, <1>5 DEF CountDocs, CountStatuses
<1>12. ASSUME NEW t \in Requests
       PROVE  CountRequestOK(request[t])'
  <2>1. CASE t = s
    <3>1. CountRequestOK(r)'
      BY <1>2, <1>6, <1>11 DEF CountRequestOK
    <3>. QED BY <1>10, <2>1, <3>1 DEF CountRequestOK
  <2>2. CASE t # s
    <3>1. PICK x : x = request[t] /\ CountRequestOK(x)
      BY DEF CountInv
    <3>2. CountRequestOK(x)'
      BY <1>11, <3>1, CountRequestStays
    <3>. QED BY <1>10, <2>2, <3>1, <3>2 DEF CountRequestOK
  <2>. QED BY <2>1, <2>2
<1>13. CountInv'
  BY <1>5, <1>11, <1>12 DEF CountInv
<1>14. Else({"count"}, CountSteps)
  BY <1>5, <1>6, <1>8, <1>10 DEF Else, CountSteps
<1>. QED BY <1>5, <1>9, <1>10, <1>13, <1>14 DEF CountKept

\* Every item has a row: its place on the staging shelf.
LEMMA ItemHasRow ==
    ASSUME NEW i \in Items
    PROVE  RowsOf(i) # {}
<1>1. <<i, Staging, NoLot>> \in RowsOf(i)
  BY ReceivingAssumption DEF RowsOf, Rows
<1>. QED BY <1>1

LEMMA ApproveCountTellKeeps ==
    ASSUME BooksInv, SlotsInv, CountInv, NEW s \in Requests, ApproveCountTell(s)
    PROVE  CountKept
<1>1. PICK q : q = request[s] /\ q.at = "count.tell" /\ CountRequestOK(q)
  BY DEF ApproveCountTell, At, CountInv
<1>2. /\ q \in [at : {"count.approve", "count.tell"}, delta : RowQty]
      /\ \A row \in Rows : q.delta[row] # 0 => \E l \in DOMAIN count.lines : l[1] = row[1]
  BY <1>1 DEF CountRequestOK
<1>3. PICK delta \in RowQty : delta = q.delta
  BY <1>2
<1>. DEFINE differ(i) == {row \in RowsOf(i) : delta[row] # 0}
<1>4. PICK first \in [Items -> Rows] :
          /\ \A i \in Items : IF differ(i) = {} THEN first[i] = CHOOSE row \in RowsOf(i) : TRUE
                              ELSE first[i] \in differ(i)
          /\ Tell("count", [i \in Items |-> delta[first[i]]])
  BY <1>1, <1>3 DEF ApproveCountTell
<1>5. PICK d \in ItemQty : d = [i \in Items |-> delta[first[i]]]
  <2>1. [i \in Items |-> delta[first[i]]] \in ItemQty
    BY DEF ItemQty, RowQty
  <2>. QED BY <2>1
<1>6. ASSUME NEW i \in Items, d[i] # 0
      PROVE  \E row \in DOMAIN count.lines : row[1] = i
  <2>1. first[i] \in RowsOf(i)
    BY <1>4, ItemHasRow
  <2>2. delta[first[i]] # 0
    BY <1>5, <1>6
  <2>. QED BY <1>2, <1>3, <2>1, <2>2 DEF RowsOf
<1>7. /\ Tell("count", d) /\ Goto(s, Idle)
      /\ UNCHANGED <<inventory, balance, lot, moved>> /\ count' = count
  BY <1>4, <1>5 DEF ApproveCountTell, Done
<1>8. "count" \in Refs \cap Speaking
  BY CountAssumption DEF Speaking
<1>9. /\ BooksInv'
      /\ \A i \in Items : told'["count"][i] = IF told["count"][i] = 0 THEN d[i] ELSE told["count"][i]
      /\ \A other \in (Refs \cup Lots) \ {"count"} : told'[other] = told[other]
  BY <1>7, <1>8, TellBooks
<1>10. /\ SlotsInv'
       /\ request'[s] = Idle
       /\ \A t \in Requests \ {s} : request'[t] = request[t]
  BY <1>7, SlotGoesOn
<1>11. \A t \in Requests : CountRequestOK(request[t])'
  <2>1. ASSUME NEW t \in Requests
        PROVE  CountRequestOK(request[t])'
    <3>1. CASE t = s
      BY <1>10, <3>1 DEF CountRequestOK, Idle, CountSteps
    <3>2. CASE t # s
      BY <1>7, <1>10, <3>2 DEF CountInv, CountRequestOK
    <3>. QED BY <3>1, <3>2
  <2>. QED BY <2>1
<1>12. CountInv'
  <2>1. ASSUME NEW i \in Items, told'["count"][i] # 0
        PROVE  \E row \in DOMAIN count'.lines : row[1] = i
    BY <1>6, <1>7, <1>9, <2>1 DEF CountInv
  <2>. QED BY <1>7, <1>11, <2>1 DEF CountInv
<1>13. Else({"count"}, CountSteps)
  BY <1>7, <1>9, <1>10 DEF Else, Idle
<1>. QED BY <1>7, <1>9, <1>10, <1>12, <1>13 DEF CountKept

LEMMA CountStepKeeps ==
    ASSUME BooksInv, SlotsInv, CountInv, NEW s \in Requests, CountStep(s)
    PROVE  CountKept
BY CountCreateKeeps, CountReadKeeps, CountItemKeeps, MarkKeeps, ApproveCountReadKeeps,
   ApproveCountKeeps, ApproveCountTellKeeps DEF CountStep
----------------------------------------------------------------------------
\* Steps of the scan

ScanKept ==
    /\ BooksInv' /\ ScanInv'
    /\ moved' = moved
    /\ \A ref \in Refs : told'[ref] = told[ref]

\* The steps of the documents do not touch lots.
LEMMA ScanFrame ==
    ASSUME ScanInv, overdue' = overdue, scan' = scan, lot' = lot,
           \A l \in Lots : told'[l] = told[l]
    PROVE  ScanInv'
BY DEF ScanInv

LEMMA OfLotType ==
    ASSUME NEW l, NEW n \in Int
    PROVE  OfLot(l, n) \in ItemQty
BY DEF OfLot, ItemQty

LEMMA LotSumIsInt ==
    ASSUME inventory \in RowQty, NEW l
    PROVE  SumInventoryByLot(l) \in Int
<1>. DEFINE S == {r \in Rows : r[3] = l /\ inventory[r] > 0}
            f == [row \in S |-> inventory[row]]
<1>1. IsFiniteSet(S)
  BY RowsFinite, FiniteSubset
<1>2. \A row \in S : f[row] \in Int
  BY DEF RowQty
<1>3. DOMAIN f = S /\ SumInventoryByLot(l) = SumOf(f)
  BY DEF SumInventoryByLot
<1>. HIDE DEF f, S
<1>4. Total(f, S) \in Int
  BY <1>1, <1>2, TotalRemove DEF Summable
<1>. QED BY <1>3, <1>4, SumOfIsTotal

LEMMA ScanQuietKeeps ==
    ASSUME BooksInv, ScanInv,
           (\E l \in Lots : DatePasses(l) \/ ScanLot(l)) \/ ScanDies
    PROVE  ScanKept
<1>1. /\ UNCHANGED stockVars
      /\ moved' = moved /\ told' = told /\ lot' = lot
  BY DEF DatePasses, ScanLot, ScanDies, stockVars
<1>2. BooksInv'
  BY <1>1, QuietBooks
<1>3. overdue' \subseteq Lots
  BY DEF DatePasses, ScanLot, ScanDies, ScanInv
<1>4. /\ scan' = Resting \/ scan' \in [at : {"commit", "tell"}, lot : Lots, qty : Int]
      /\ scan'.at = "tell" => lot[scan'.lot] = "EXPIRED"
  <2>1. CASE \E l \in Lots : DatePasses(l)
    BY <2>1 DEF DatePasses, ScanInv
  <2>2. CASE \E l \in Lots : ScanLot(l)
    <3>1. PICK l \in Lots : scan' = [at |-> "commit", lot |-> l, qty |-> SumInventoryByLot(l)]
      BY <2>2 DEF ScanLot
    <3>2. SumInventoryByLot(l) \in Int
      BY LotSumIsInt DEF BooksInv, StockTypeOK, RowQty
    <3>. QED BY <3>1, <3>2
  <2>3. CASE ScanDies
    BY <2>3 DEF ScanDies, Resting
  <2>. QED BY <2>1, <2>2, <2>3
<1>5. ScanInv'
  BY <1>1, <1>3, <1>4 DEF ScanInv
<1>. QED BY <1>1, <1>2, <1>5 DEF ScanKept

LEMMA ScanCommitKeeps ==
    ASSUME BooksInv, ScanInv, ScanCommit
    PROVE  ScanKept
<1>1. PICK c \in [at : {"commit", "tell"}, lot : Lots, qty : Int] : c = scan /\ c.at = "commit"
  BY DEF ScanCommit, ScanInv, Resting
<1>2. PICK l \in Lots, qty \in Int : l = c.lot /\ qty = c.qty
  OBVIOUS
<1>3. /\ UpsertBalance(NoItem, NoItem, OfLot(l, qty))
      /\ lot' = [lot EXCEPT ![l] = "EXPIRED"]
      /\ scan' = [c EXCEPT !.at = "tell"]
      /\ inventory' = inventory /\ moved' = moved /\ told' = told /\ overdue' = overdue
  BY <1>1, <1>2 DEF ScanCommit
<1>4. Nothing \in RowQty /\ \A row \in Rows : Nothing[row] = 0
  BY DEF Nothing, RowQty
<1>5. \A i \in Items : NoItem[i] = PerItem(Nothing)[i]
  <2>1. \A i \in Items : PerItem(Nothing)[i] = 0
    BY <1>4, PerItemZero DEF RowsOf
  <2>. QED BY <2>1 DEF NoItem
<1>6. /\ inventory \in RowQty /\ moved \in [Refs -> RowQty]
      /\ lot \in [Lots -> {"ACTIVE", "EXPIRED"}]
  BY DEF BooksInv, StockTypeOK, RowQty
<1>7. UpsertInventory(Nothing)
  <2>1. inventory = [row \in Rows |-> inventory[row] + Nothing[row]]
    BY <1>4, <1>6 DEF RowQty
  <2>. QED BY <1>3, <2>1 DEF UpsertInventory
<1>8. \A row \in Rows :
          Total(Column(moved', row), Refs) = Total(Column(moved, row), Refs) + Nothing[row]
  <2>1. ASSUME NEW row \in Rows
        PROVE  Total(Column(moved, row), Refs) \in Int
    BY <1>6, ColumnSum, TotalRemove
  <2>2. \A row \in Rows : Column(moved', row) = Column(moved, row)
    BY <1>3
  <2>. QED BY <1>4, <2>1, <2>2
<1>9. lot' \in [Lots -> {"ACTIVE", "EXPIRED"}] /\ lot'[l] = "EXPIRED"
      /\ \A k \in Lots : lot[k] = "EXPIRED" => lot'[k] = "EXPIRED"
  BY <1>3, <1>6
<1>10. BooksInv'
  <2>1. NoItem \in ItemQty /\ OfLot(l, qty) \in ItemQty
    BY OfLotType DEF NoItem, ItemQty
  <2>. QED BY <1>3, <1>4, <1>5, <1>6, <1>7, <1>8, <1>9, <2>1, CommitBooks
<1>11. /\ scan' \in [at : {"commit", "tell"}, lot : Lots, qty : Int] /\ scan'.lot = l
  BY <1>2, <1>3
<1>12. ScanInv'
  BY <1>3, <1>9, <1>11 DEF ScanInv
<1>. QED BY <1>3, <1>10, <1>12 DEF ScanKept

LEMMA ScanTellKeeps ==
    ASSUME BooksInv, ScanInv, ScanTell
    PROVE  ScanKept
<1>1. PICK c \in [at : {"commit", "tell"}, lot : Lots, qty : Int] : c = scan /\ c.at = "tell"
  BY DEF ScanTell, ScanInv, Resting
<1>2. PICK l \in Lots, qty \in Int : l = c.lot /\ qty = c.qty
  OBVIOUS
<1>3. /\ Tell(l, OfLot(l, -qty)) /\ scan' = Resting
      /\ UNCHANGED <<inventory, balance, lot, moved>> /\ overdue' = overdue
  BY <1>1, <1>2 DEF ScanTell
<1>4. OfLot(l, -qty) \in ItemQty
  BY OfLotType
<1>5. /\ BooksInv'
      /\ \A other \in (Refs \cup Lots) \ {l} : told'[other] = told[other]
  BY <1>3, <1>4, TellBooks
<1>6. \A ref \in Refs : told'[ref] = told[ref]
  BY <1>5, LedgerAssumption
<1>7. lot[l] = "EXPIRED"
  BY <1>1, <1>2 DEF ScanInv
<1>8. \A k \in Lots, i \in Items : told'[k][i] # 0 => lot'[k] = "EXPIRED"
  BY <1>3, <1>5, <1>7 DEF ScanInv
<1>9. ScanInv'
  BY <1>3, <1>8 DEF ScanInv, Resting
<1>. QED BY <1>3, <1>5, <1>6, <1>9 DEF ScanKept

LEMMA ExpiryStepKeeps ==
    ASSUME BooksInv, ScanInv, ExpiryStep
    PROVE  ScanKept
BY ScanQuietKeeps, ScanCommitKeeps, ScanTellKeeps DEF ExpiryStep
----------------------------------------------------------------------------
\* What a step of another kind leaves as it was

LEMMA ReceivingStays ==
    ASSUME ReceivingInv, UNCHANGED receivingVars, NEW refs, NEW steps, Else(refs, steps),
           refs \cap Grns = {}, steps \cap ReceiptSteps = {}
    PROVE  ReceivingInv'
<1>1. \A g \in Grns : moved'[g] = moved[g] /\ told'[g] = told[g]
  BY ReceivingAssumption DEF Else
<1>2. ASSUME NEW t \in Requests, request'[t].at \in steps \cup {"idle"}
      PROVE  ReceiptRequestOK(request[t])'
  <2>1. request'[t].at \notin ReceiptSteps
    BY <1>2 DEF ReceiptSteps
  <2>. QED BY <2>1 DEF ReceiptRequestOK, ReceiptSteps
<1>3. \A t \in Requests : request'[t] = request[t] \/ ReceiptRequestOK(request[t])'
  BY <1>2 DEF Else
<1>. QED BY <1>1, <1>3, ReceivingFrame

LEMMA ReturnStays ==
    ASSUME BooksInv, ReturnInv, return' = return, NEW refs, NEW steps, Else(refs, steps),
           "return" \notin refs, "rma" \notin refs, steps \cap ReturnSteps = {}
    PROVE  ReturnInv'
<1>1. /\ moved'["return"] = moved["return"] /\ moved'["rma"] = moved["rma"]
      /\ told'["return"] = told["return"]
  BY ReturnedAssumption DEF Else
<1>2. ASSUME NEW t \in Requests, request'[t].at \in steps \cup {"idle"}
      PROVE  ReturnRequestOK(request[t])'
  <2>1. request'[t].at \notin ReturnSteps
    BY <1>2 DEF ReturnSteps
  <2>. QED BY <2>1 DEF ReturnRequestOK, ReturnSteps
<1>3. \A t \in Requests : request'[t] = request[t] \/ ReturnRequestOK(request[t])'
  BY <1>2 DEF Else
<1>. QED BY <1>1, <1>3, ReturnFrame

LEMMA ScrapStays ==
    ASSUME ScrapInv, note' = note, NEW refs, NEW steps, Else(refs, steps),
           "scrap" \notin refs, steps \cap ScrapSteps = {}
    PROVE  ScrapInv'
<1>1. moved'["scrap"] = moved["scrap"] /\ told'["scrap"] = told["scrap"]
  BY ScrapAssumption DEF Else
<1>2. ASSUME NEW t \in Requests, request'[t].at \in steps \cup {"idle"}
      PROVE  ScrapRequestOK(request[t])'
  <2>1. request'[t].at \notin ScrapSteps
    BY <1>2 DEF ScrapSteps
  <2>. QED BY <2>1 DEF ScrapRequestOK, ScrapSteps
<1>3. \A t \in Requests : request'[t] = request[t] \/ ScrapRequestOK(request[t])'
  BY <1>2 DEF Else
<1>. QED BY <1>1, <1>3, ScrapFrame

LEMMA CountStays ==
    ASSUME CountInv, count' = count, NEW refs, NEW steps, Else(refs, steps),
           "count" \notin refs, steps \cap CountSteps = {}
    PROVE  CountInv'
<1>1. told'["count"] = told["count"]
  BY CountAssumption DEF Else
<1>2. ASSUME NEW t \in Requests, request'[t].at \in steps \cup {"idle"}
      PROVE  CountRequestOK(request[t])'
  <2>1. request'[t].at \notin CountSteps
    BY <1>2 DEF CountSteps
  <2>. QED BY <2>1 DEF CountRequestOK, CountSteps
<1>3. \A t \in Requests : request'[t] = request[t] \/ CountRequestOK(request[t])'
  BY <1>2 DEF Else
<1>. QED BY <1>1, <1>3, CountFrame

LEMMA ScanStays ==
    ASSUME ScanInv, UNCHANGED expiryVars, lot' = lot, NEW refs \in SUBSET Refs, NEW steps,
           Else(refs, steps)
    PROVE  ScanInv'
<1>1. \A l \in Lots : told'[l] = told[l]
  BY LedgerAssumption DEF Else
<1>. QED BY <1>1, ScanFrame DEF expiryVars

----------------------------------------------------------------------------
\* The invariant is one

LEMMA DInit == Init => DInv
<1>. SUFFICES ASSUME Init PROVE DInv
  OBVIOUS
<1>1. /\ inventory = Inventory0
      /\ balance = [i \in Items |-> [onHand |-> PerItem(Inventory0)[i], reserved |-> 0, expired |-> 0]]
      /\ lot = [l \in Lots |-> "ACTIVE"]
      /\ moved = [ref \in Refs |-> Nothing]
      /\ told = [ref \in Refs \cup Lots |-> NoItem]
  BY DEF Init, StockInit
<1>2. /\ Inventory0 \in RowQty /\ Nothing \in RowQty /\ NoItem \in ItemQty
      /\ \A row \in Rows : Nothing[row] = 0
  BY StartAssumption DEF RowQty, ItemQty, Nothing, NoItem
<1>3. /\ \A s \in Requests : request[s].at = "idle"
      /\ SlotsInv
  <2>1. PICK m \in Mixes : RequestInit(m.requests)
    BY DEF Init
  <2>2. request = [s \in Requests |-> Idle] /\ left = m.requests
    BY <2>1 DEF RequestInit
  <2>. QED BY <2>2, DocumentsAssumption DEF SlotsInv, Idle
<1>4. BooksInv
  <2>1. LedgerInv
    BY LedgerStart DEF Init
  <2>. QED BY <1>1, <2>1 DEF BooksInv, LedgerInv
<1>5. ReceivingInv
  <2>1. /\ supplier = "ACTIVE" /\ po = [p \in Pos |-> NoPo] /\ grn = [g \in Grns |-> NoGrn]
        /\ task = [g \in Grns |-> <<>>]
    BY DEF Init, ReceivingInit
  <2>2. ReceivingTypeOK
    <3>1. NoPo \in PoDocs
      BY DEF NoPo, PoDocs
    <3>2. NoGrn \in GrnDocs
      BY DEF GrnDocs
    <3>. QED BY <2>1, <3>1, <3>2 DEF ReceivingTypeOK
  <2>3. \A g \in Grns : grn[g].status = "none"
    BY <2>1 DEF NoGrn
  <2>4. CountsReceipts
    <3>1. \A p \in Pos : DOMAIN po[p].lines = {}
      BY <2>1 DEF NoPo
    <3>. QED BY <3>1 DEF CountsReceipts
  <2>5. BookedOnce
    BY <1>1, <2>1, NothingBooked, ReceivingAssumption DEF BookedOnce
  <2>6. \A g \in Grns, i \in Items : told[g][i] = 0
    BY <1>1, ReceivingAssumption DEF NoItem
  <2>7. \A s \in Requests : ReceiptRequestOK(request[s])
    BY <1>3 DEF ReceiptRequestOK
  <2>. QED BY <2>2, <2>3, <2>4, <2>5, <2>6, <2>7 DEF ReceivingInv
<1>6. ReturnInv
  <2>1. return = [status |-> "none", line |-> [i \in ReturnedItems |-> Unseen]]
    BY DEF Init, ReturnInit
  <2>2. return \in ReturnDocs
    BY <2>1 DEF ReturnDocs
  <2>3. moved["return"] = Nothing /\ moved["rma"] = Nothing /\ told["return"] = NoItem
    BY <1>1, ReturnedAssumption
  <2>4. OnlyGoodIsTold
    <3>1. \A i \in Items : PerItem(Nothing)[i] = 0
      BY <1>2, PerItemZero DEF RowsOf
    <3>2. \A i \in ReturnedItems : i \in Items
      BY DEF ReturnedItems
    <3>. QED BY <2>3, <3>1, <3>2 DEF OnlyGoodIsTold, NoItem
  <2>5. \A s \in Requests : ReturnRequestOK(request[s])
    BY <1>3 DEF ReturnRequestOK
  <2>. QED BY <1>2, <2>1, <2>2, <2>3, <2>4, <2>5 DEF ReturnInv, NoItem
<1>7. ScrapInv
  <2>1. note = [status |-> "none", lines |-> Nothing]
    BY DEF Init, NoteInit
  <2>2. Nothing \in [Rows -> 0 .. MaxScrap]
    BY ScrapAssumption DEF Nothing
  <2>3. note \in NoteDocs
    BY <2>1, <2>2 DEF NoteDocs
  <2>4. moved["scrap"] = Nothing /\ told["scrap"] = NoItem
    BY <1>1, ScrapAssumption
  <2>5. \A s \in Requests : ScrapRequestOK(request[s])
    BY <1>3 DEF ScrapRequestOK, ScrapSteps
  <2>. QED BY <1>2, <2>3, <2>4, <2>5 DEF ScrapInv, NoItem
<1>8. CountInv
  <2>1. count = [status |-> "none", lines |-> <<>>]
    BY DEF Init, CountInit
  <2>2. <<>> \in [{} -> LineDocs] /\ DOMAIN <<>> = {}
    OBVIOUS
  <2>3. count \in CountDocs
    <3>1. <<>> \in UNION {[S -> LineDocs] : S \in SUBSET Rows}
      BY <2>2
    <3>. QED BY <2>1, <3>1 DEF CountDocs, CountStatuses
  <2>4. told["count"] = NoItem
    BY <1>1, CountAssumption
  <2>5. \A s \in Requests : CountRequestOK(request[s])
    BY <1>3 DEF CountRequestOK, CountSteps
  <2>. QED BY <2>1, <2>2, <2>3, <2>4, <2>5 DEF CountInv, NoItem
<1>9. ScanInv
  <2>1. overdue = {} /\ scan = Resting
    BY DEF Init, ExpiryInit
  <2>2. \A l \in Lots, i \in Items : told[l][i] = 0
    BY <1>1 DEF NoItem
  <2>. QED BY <2>1, <2>2 DEF ScanInv, Resting
<1>. QED BY <1>3, <1>4, <1>5, <1>6, <1>7, <1>8, <1>9 DEF DInv

LEMMA DieKeeps ==
    ASSUME BooksInv, SlotsInv, NEW s \in Requests, Die(s)
    PROVE  BooksInv' /\ SlotsInv' /\ Else({}, {}) /\ lot' = lot
<1>1. /\ SlotsInv'
      /\ request'[s] = Idle
      /\ \A t \in Requests \ {s} : request'[t] = request[t]
  BY SlotGoesOn DEF Die, Done
<1>2. moved' = moved /\ told' = told /\ lot' = lot
  BY DEF Die, stockVars
<1>3. BooksInv'
  BY QuietBooks DEF Die
<1>. QED BY <1>1, <1>2, <1>3 DEF Else, Idle

LEMMA DStep == DInv /\ [Next]_vars => DInv'
<1>. SUFFICES ASSUME DInv, [Next]_vars PROVE DInv'
  OBVIOUS
<1>. USE DEF DInv
<1>1. CASE UNCHANGED vars
  <2>1. /\ UNCHANGED stockVars /\ UNCHANGED receivingVars /\ return' = return /\ note' = note
        /\ count' = count /\ UNCHANGED expiryVars /\ request' = request /\ left' = left
    BY <1>1 DEF vars, requestVars
  <2>2. BooksInv' /\ SlotsInv' /\ Else({}, {}) /\ lot' = lot
    BY <2>1, QuietBooks DEF Else, stockVars, SlotsInv
  <2>. QED BY <2>1, <2>2, ReceivingStays, ReturnStays, ScrapStays, CountStays, ScanStays
<1>2. ASSUME NEW s \in Requests, ReceivingStep(s),
             UNCHANGED <<return, note, count, expiryVars>>
      PROVE  DInv'
  <2>1. ReceivingKept
    BY <1>2, ReceivingStepKeeps
  <2>2. Else(Grns, ReceiptSteps) /\ lot' = lot
    BY <2>1 DEF ReceivingKept
  <2>3. /\ ReceiptSteps \cap ReturnSteps = {} /\ ReceiptSteps \cap ScrapSteps = {}
        /\ ReceiptSteps \cap CountSteps = {}
    BY DEF ReceiptSteps, ReturnSteps, ScrapSteps, CountSteps
  <2>4. Grns \in SUBSET Refs /\ Grns \cap {"return", "rma", "scrap", "count"} = {}
    BY ReceivingAssumption, DocumentsAssumption
  <2>. QED BY <1>2, <2>1, <2>2, <2>3, <2>4, ReturnStays, ScrapStays, CountStays, ScanStays
           DEF ReceivingKept
<1>3. ASSUME OfficeStep, UNCHANGED <<return, note, count, expiryVars>>
      PROVE  DInv'
  <2>1. ReceivingKept
    BY <1>3, OfficeStepKeeps
  <2>2. Else(Grns, ReceiptSteps) /\ lot' = lot
    BY <2>1 DEF ReceivingKept
  <2>3. /\ ReceiptSteps \cap ReturnSteps = {} /\ ReceiptSteps \cap ScrapSteps = {}
        /\ ReceiptSteps \cap CountSteps = {}
    BY DEF ReceiptSteps, ReturnSteps, ScrapSteps, CountSteps
  <2>4. Grns \in SUBSET Refs /\ Grns \cap {"return", "rma", "scrap", "count"} = {}
    BY ReceivingAssumption, DocumentsAssumption
  <2>. QED BY <1>3, <2>1, <2>2, <2>3, <2>4, ReturnStays, ScrapStays, CountStays, ScanStays
           DEF ReceivingKept
<1>4. ASSUME NEW s \in Requests, ReturnStep(s), UNCHANGED <<receivingVars, note, count, expiryVars>>
      PROVE  DInv'
  <2>1. ReturnKept
    BY <1>4, ReturnStepKeeps
  <2>2. Else({"return", "rma"}, ReturnSteps) /\ lot' = lot
    BY <2>1 DEF ReturnKept
  <2>3. /\ ReturnSteps \cap ReceiptSteps = {} /\ ReturnSteps \cap ScrapSteps = {}
        /\ ReturnSteps \cap CountSteps = {}
    BY DEF ReceiptSteps, ReturnSteps, ScrapSteps, CountSteps
  <2>4. /\ {"return", "rma"} \in SUBSET Refs /\ {"return", "rma"} \cap Grns = {}
        /\ "scrap" \notin {"return", "rma"} /\ "count" \notin {"return", "rma"}
    BY ReturnedAssumption, DocumentsAssumption
  <2>. QED BY <1>4, <2>1, <2>2, <2>3, <2>4, ReceivingStays, ScrapStays, CountStays, ScanStays
           DEF ReturnKept
<1>5. ASSUME NEW s \in Requests, NoteStep(s), UNCHANGED <<receivingVars, return, count, expiryVars>>
      PROVE  DInv'
  <2>1. ScrapKept
    BY <1>5, NoteStepKeeps
  <2>2. Else({"scrap"}, ScrapSteps) /\ lot' = lot
    BY <2>1 DEF ScrapKept
  <2>3. /\ ScrapSteps \cap ReceiptSteps = {} /\ ScrapSteps \cap ReturnSteps = {}
        /\ ScrapSteps \cap CountSteps = {}
    BY DEF ReceiptSteps, ReturnSteps, ScrapSteps, CountSteps
  <2>4. /\ {"scrap"} \in SUBSET Refs /\ {"scrap"} \cap Grns = {}
        /\ "return" \notin {"scrap"} /\ "rma" \notin {"scrap"} /\ "count" \notin {"scrap"}
    BY ScrapAssumption, DocumentsAssumption
  <2>. QED BY <1>5, <2>1, <2>2, <2>3, <2>4, ReceivingStays, ReturnStays, CountStays, ScanStays
           DEF ScrapKept
<1>6. ASSUME NEW s \in Requests, CountStep(s), UNCHANGED <<receivingVars, return, note, expiryVars>>
      PROVE  DInv'
  <2>1. CountKept
    BY <1>6, CountStepKeeps
  <2>2. Else({"count"}, CountSteps) /\ lot' = lot
    BY <2>1 DEF CountKept
  <2>3. /\ CountSteps \cap ReceiptSteps = {} /\ CountSteps \cap ReturnSteps = {}
        /\ CountSteps \cap ScrapSteps = {}
    BY DEF ReceiptSteps, ReturnSteps, ScrapSteps, CountSteps
  <2>4. /\ {"count"} \in SUBSET Refs /\ {"count"} \cap Grns = {}
        /\ "return" \notin {"count"} /\ "rma" \notin {"count"} /\ "scrap" \notin {"count"}
    BY CountAssumption, DocumentsAssumption
  <2>. QED BY <1>6, <2>1, <2>2, <2>3, <2>4, ReceivingStays, ReturnStays, ScrapStays, ScanStays
           DEF CountKept
<1>7. ASSUME NEW s \in Requests, Die(s), UNCHANGED <<receivingVars, return, note, count, expiryVars>>
      PROVE  DInv'
  <2>1. BooksInv' /\ SlotsInv' /\ Else({}, {}) /\ lot' = lot
    BY <1>7, DieKeeps
  <2>. QED BY <1>7, <2>1, ReceivingStays, ReturnStays, ScrapStays, CountStays, ScanStays
<1>8. ASSUME ExpiryStep, UNCHANGED <<requestVars, receivingVars, return, note, count>>
      PROVE  DInv'
  <2>1. ScanKept
    BY <1>8, ExpiryStepKeeps
  <2>2. request' = request /\ left' = left
    BY <1>8 DEF requestVars
  <2>3. SlotsInv'
    BY <2>2 DEF SlotsInv
  <2>4. Else(Lots, {})
    BY <2>1, <2>2 DEF ScanKept, Else
  <2>5. Lots \cap Grns = {} /\ \A ref \in {"return", "rma", "scrap", "count"} : ref \notin Lots
    BY LedgerAssumption, ReceivingAssumption, ReturnedAssumption, ScrapAssumption, CountAssumption
  <2>. QED BY <1>8, <2>1, <2>3, <2>4, <2>5, ReceivingStays, ReturnStays, ScrapStays, CountStays
           DEF ScanKept
<1>. QED BY <1>1, <1>2, <1>3, <1>4, <1>5, <1>6, <1>7, <1>8 DEF Next

LEMMA Invariance == Spec => []DInv
BY DInit, DStep, PTL DEF Spec
----------------------------------------------------------------------------
\* The properties

\* The notes of an order that were not approved have brought nothing.
LEMMA NotesCount ==
    ASSUME BooksInv, ReceivingInv, NEW p \in Pos, NEW i \in Items
    PROVE  SumOf([g \in NotesOf(p) |-> PerItem(moved[g])[i]]) = Total(CameOf(p, i), Grns)
<1>. DEFINE f == [g \in NotesOf(p) |-> PerItem(moved[g])[i]]
<1>1. NotesOf(p) \in SUBSET Grns /\ IsFiniteSet(Grns)
  BY LedgerAssumption, ReceivingAssumption, FiniteSubset DEF NotesOf
<1>2. \A g \in Grns : moved[g] \in RowQty /\ PerItem(moved[g])[i] \in Int
  <2>1. \A g \in Grns : moved[g] \in RowQty
    BY ReceivingAssumption DEF BooksInv, StockTypeOK, RowQty
  <2>. QED BY <2>1, PerItemValue
<1>3. \A g \in Grns : CameOf(p, i)[g] \in Int
  BY <1>2 DEF CameOf
<1>4. Summable(CameOf(p, i), Grns) /\ Summable(CameOf(p, i), NotesOf(p))
  BY <1>1, <1>3, FiniteSubset DEF Summable
<1>5. ASSUME NEW g \in Grns \ NotesOf(p)
      PROVE  CameOf(p, i)[g] = 0
  BY DEF CameOf, NotesOf, GrnExists
<1>6. ASSUME NEW g \in NotesOf(p)
      PROVE  CameOf(p, i)[g] = f[g]
  <2>1. CASE grn[g].status = "APPROVED"
    BY <1>1, <2>1 DEF CameOf, NotesOf
  <2>2. CASE grn[g].status # "APPROVED"
    <3>1. moved[g] = Nothing
      BY <1>1, <2>2, NothingBooked DEF ReceivingInv, BookedOnce
    <3>2. Nothing \in RowQty /\ \A row \in RowsOf(i) : Nothing[row] = 0
      BY DEF Nothing, RowQty, RowsOf
    <3>3. PerItem(moved[g])[i] = 0
      BY <3>1, <3>2, PerItemZero
    <3>. QED BY <1>1, <2>2, <3>3 DEF CameOf
  <2>. QED BY <2>1, <2>2
<1>7. Total(CameOf(p, i), Grns) = Total(CameOf(p, i), NotesOf(p))
  BY <1>1, <1>4, <1>5, TotalOnSubset
<1>8. DOMAIN f = NotesOf(p)
  OBVIOUS
<1>. HIDE DEF f
<1>9. Total(CameOf(p, i), NotesOf(p)) = Total(f, NotesOf(p))
  BY <1>4, <1>6, TotalAgrees
<1>10. SumOf(f) = Total(f, NotesOf(p))
  BY <1>8, SumOfIsTotal
<1>. QED BY <1>7, <1>9, <1>10 DEF f

LEMMA DInvCounts == DInv => OrderCountsReceipts
<1>. SUFFICES ASSUME DInv, NEW p \in Pos, NEW n \in DOMAIN po[p].lines
              PROVE  LET line == po[p].lines[n] IN
                     IF n = PoLine(po[p].lines, line.item)
                     THEN /\ line.received = SumOf([g \in NotesOf(p) |-> PerItem(moved[g])[line.item]])
                          /\ po[p].status = "COMPLETED" => line.received >= line.expected
                     ELSE line.received = 0
  BY DEF OrderCountsReceipts
<1>1. po[p].lines[n].item \in Items
  <2>1. po[p] \in PoDocs
    BY DEF DInv, ReceivingInv, ReceivingTypeOK
  <2>2. po[p].lines \in Seq([item : Items, expected : Nat, received : Nat])
    BY <2>1 DEF PoDocs
  <2>. DEFINE Line == [item : Items, expected : Nat, received : Nat]
  <2>3. po[p].lines[n] \in Line
    <3>1. po[p].lines \in Seq(Line)
      BY <2>2
    <3>. HIDE DEF Line
    <3>. QED BY <3>1
  <2>. QED BY <2>3
<1>2. LineCounts(p, po[p], n)
  BY DEF DInv, ReceivingInv, CountsReceipts
<1>3. SumOf([g \in NotesOf(p) |-> PerItem(moved[g])[po[p].lines[n].item]])
          = Total(CameOf(p, po[p].lines[n].item), Grns)
  BY <1>1, NotesCount DEF DInv
<1>. QED BY <1>2, <1>3 DEF LineCounts

LEMMA DInvTold == DInv => ToldWasBooked
<1>. SUFFICES ASSUME DInv PROVE ToldWasBooked
  OBVIOUS
<1>1. ASSUME NEW ref \in Refs \ {"count"}, NEW i \in Items, told[ref][i] # 0
      PROVE  \E row \in RowsOf(i) : moved[ref][row] # 0
  <2>1. CASE ref \in Grns
    BY <1>1, <2>1 DEF DInv, ReceivingInv
  <2>2. CASE ref = "return"
    BY <1>1, <2>2 DEF DInv, ReturnInv
  <2>3. CASE ref = "scrap"
    BY <1>1, <2>3 DEF DInv, ScrapInv
  <2>4. CASE ref \notin Speaking
    BY <1>1, <2>4 DEF DInv, BooksInv, NoItem
  <2>. QED BY <2>1, <2>2, <2>3, <2>4 DEF Speaking
<1>2. \A i \in Items : told["count"][i] # 0 => \E row \in DOMAIN count.lines : row[1] = i
  BY DEF DInv, CountInv
<1>3. \A l \in Lots, i \in Items : told[l][i] # 0 => lot[l] = "EXPIRED"
  BY DEF DInv, ScanInv
<1>. QED BY <1>1, <1>2, <1>3 DEF ToldWasBooked

LEMMA DInvTypes == DInv => TypeOK
<1>. SUFFICES ASSUME DInv PROVE TypeOK
  OBVIOUS
<1>1. /\ count.status \in CountStatuses
      /\ \A row \in DOMAIN count.lines : row \in Rows /\ count.lines[row] \in LineDocs
  BY CountIs DEF DInv
<1>2. /\ StockTypeOK /\ ReceivingTypeOK /\ return \in ReturnDocs /\ note \in NoteDocs
      /\ overdue \subseteq Lots /\ left \in Nat
  BY DEF DInv, BooksInv, ReceivingInv, ReturnInv, ScrapInv, ScanInv, SlotsInv
<1>. QED BY <1>1, <1>2 DEF TypeOK

\* The shelves, the balances and the documents have the types the schemas give them.
THEOREM DocumentsTypeCorrect == Spec => []TypeOK
BY Invariance, DInvTypes, PTL

\* However receipts, returns, scrap notes, counts and the scan interleave, and wherever a
\* process dies, onHand of every balance is what lies on the shelves, and what lies there
\* is what lay there first and what stock_movements explain.
THEOREM BooksAlwaysAgree == Spec => []BooksAgree
<1>1. DInv => BooksAgree
  BY DEF DInv, BooksInv
<1>. QED BY <1>1, Invariance, PTL

\* No job tells the shop of stock that no committed transaction moved.
THEOREM ToldIsAlwaysBooked == Spec => []ToldWasBooked
BY Invariance, DInvTold, PTL

\* The shop is never told of more of a return than was left on the shelves of it, in
\* whatever order it is inspected, confirmed and cancelled.
THEOREM OnlyGoodIsEverTold == Spec => []OnlyGoodIsTold
<1>1. DInv => OnlyGoodIsTold
  BY DEF DInv, ReturnInv
<1>. QED BY <1>1, Invariance, PTL

\* An order has received what the movements of its approved notes brought, however many
\* are approved at one time, and is COMPLETED only when its counting lines are full.
THEOREM OrdersAlwaysCountReceipts == Spec => []OrderCountsReceipts
BY Invariance, DInvCounts, PTL

\* A note is booked in once, for the task that was made of it, however often it is
\* approved and whatever is edited meanwhile.
THEOREM NotesAreBookedOnce == Spec => []BookedOnce
<1>1. DInv => BookedOnce
  BY DEF DInv, ReceivingInv
<1>. QED BY <1>1, Invariance, PTL

----------------------------------------------------------------------------
(***************************************************************************)
(* PrintJob.  Of the lines on one blank only the first is ever found.  So    *)
(* what was taken of a blank for a job is what its first line held and does  *)
(* not hold any more, whoever scans twice or late; and a line no scan finds  *)
(* is never used up or completed.                                            *)
(***************************************************************************)

\* How much of a blank was used up for a job.
Consumed(j, i) == -Printed(j, i)

\* The line a scan of its blank finds.
First(lines, n) == n = Min(OnBlank(lines, BlankOf[lines[n].sku]))

\* The design of a line has a blank.
Printable(line) ==
    /\ line \in JobLines
    /\ line.sku \in DOMAIN BlankOf
    /\ BlankOf[line.sku] \in Items

LineOK(j, n) ==
    LET line == job[j].lines[n] IN
    /\ Printable(line)
    /\ First(job[j].lines, n) => Consumed(j, BlankOf[line.sku]) = line.reserved - line.remaining
    /\ ~First(job[j].lines, n) => line.status = "PENDING"
    /\ line.status = "COMPLETED" =>
          line.remaining <= 0 /\ line.reserved >= 1 /\ Printed(j, line.sku) >= line.reserved

JobOK(j) ==
    /\ job[j].status \in {"none", "PENDING", "IN_PROGRESS", "COMPLETED"}
    /\ job[j].status = "none" => job[j].lines = <<>> /\ \A i \in Items : Printed(j, i) = 0
    /\ DOMAIN job[j].lines \subseteq DOMAIN Wanted[j]
    /\ \A n \in DOMAIN job[j].lines : LineOK(j, n)
    /\ \A sku \in DOMAIN BlankOf : Printed(j, sku) >= 0
    /\ job[j].status = "COMPLETED" =>
          \A n \in DOMAIN job[j].lines : job[j].lines[n].status = "COMPLETED"

\* The lines the worker is about to make a job of are new, and so is the job.
WorkerOK ==
    \/ worker = Free
    \/ /\ worker = [at |-> worker.at, job |-> worker.job, lines |-> worker.lines]
       /\ worker.at \in {"create", "tell"}
       /\ worker.job \in Jobs
       /\ worker.at = "create" => job[worker.job].status = "none"
       /\ DOMAIN worker.lines \subseteq DOMAIN Wanted[worker.job]
       /\ \A n \in DOMAIN worker.lines :
             LET line == worker.lines[n] IN
             Printable(line) /\ line.status = "PENDING" /\ line.remaining = line.reserved

PrintSteps == {"consume", "complete", "completed.tell"}

\* A request knows a job that exists; one that completes a line knows how many were held
\* for it, and that nothing of them is left.
PrintRequestOK(r) ==
    /\ r.at \in PrintSteps => r.job \in Jobs /\ job[r.job].status # "none"
    /\ r.at = "consume" =>
          r.row \in Rows /\ r.n \in Nat \ {0} /\ OnBlank(job[r.job].lines, r.row[1]) # {}
    /\ r.at = "complete" =>
          /\ r.line \in DOMAIN job[r.job].lines
          /\ First(job[r.job].lines, r.line)
          /\ job[r.job].lines[r.line].remaining <= 0
          /\ r.n = job[r.job].lines[r.line].reserved
          /\ r.n >= 1
          /\ r.row \in Rows
          /\ r.row[1] = job[r.job].lines[r.line].sku
    /\ r.at = "completed.tell" => job[r.job].status = "COMPLETED"

ToldOK ==
    /\ printTold = [reserve |-> printTold.reserve, completed |-> printTold.completed]
    /\ \A j \in printTold.completed : j \in Jobs /\ job[j].status = "COMPLETED"

PInv ==
    /\ LedgerInv
    /\ SlotsInv
    /\ designs \subseteq Items
    /\ ordered \in [Items -> 0..MaxOrders]
    /\ job = [j \in Jobs |-> job[j]]
    /\ \A j \in Jobs : JobOK(j)
    /\ WorkerOK
    /\ \A s \in Requests : PrintRequestOK(request[s])
    /\ ToldOK
    /\ HoldsAreAccounted

----------------------------------------------------------------------------
\* The first line on a blank

LEMMA MinIsLeast ==
    ASSUME NEW T \in SUBSET Nat, T # {}
    PROVE  Min(T) \in T /\ \A m \in T : Min(T) <= m
<1>1. \E n \in T : \A m \in T : n <= m
  BY LeastNat
<1>. QED BY <1>1 DEF Min

\* The places in a message are numbers, and there are finitely many.
LEMMA Places1 ==
    ASSUME NEW j \in Jobs
    PROVE  DOMAIN Wanted[j] \subseteq Nat /\ IsFiniteSet(DOMAIN Wanted[j])
<1>1. Wanted[j] \in Seq([sku : DOMAIN BlankOf, quantity : Nat \ {0}])
  BY PrintAssumption
<1>2. DOMAIN Wanted[j] = 1..Len(Wanted[j]) /\ Len(Wanted[j]) \in Nat
  BY <1>1
<1>3. IsFiniteSet(1..Len(Wanted[j]))
  BY <1>2, FiniteInterval
<1>. QED BY <1>2, <1>3

LEMMA Elements ==
    ASSUME NEW S, NEW s \in Seq(S)
    PROVE  \A n \in DOMAIN s : s[n] \in S
OBVIOUS

LEMMA FoundFirst ==
    ASSUME NEW j \in Jobs, NEW lines, DOMAIN lines \subseteq DOMAIN Wanted[j],
           NEW i, OnBlank(lines, i) # {}
    PROVE  /\ Min(OnBlank(lines, i)) \in DOMAIN lines
           /\ BlankOf[lines[Min(OnBlank(lines, i))].sku] = i
           /\ First(lines, Min(OnBlank(lines, i)))
<1>1. OnBlank(lines, i) \in SUBSET Nat
  BY Places1 DEF OnBlank
<1>2. Min(OnBlank(lines, i)) \in OnBlank(lines, i)
  BY <1>1, MinIsLeast
<1>. QED BY <1>2 DEF OnBlank, First

\* Only one line is the first on its blank.
LEMMA OneFirst ==
    ASSUME NEW lines, NEW n, NEW m, First(lines, n), First(lines, m),
           BlankOf[lines[n].sku] = BlankOf[lines[m].sku]
    PROVE  n = m
BY DEF First

\* Lines of the same designs have the same first ones.
LEMMA SameFirst ==
    ASSUME NEW lines, NEW after, DOMAIN after = DOMAIN lines,
           \A n \in DOMAIN lines : after[n].sku = lines[n].sku
    PROVE  /\ \A i : OnBlank(after, i) = OnBlank(lines, i)
           /\ \A n \in DOMAIN lines : First(after, n) <=> First(lines, n)
<1>1. \A i : OnBlank(after, i) = OnBlank(lines, i)
  BY DEF OnBlank
<1>. QED BY <1>1 DEF First

----------------------------------------------------------------------------
\* What the lines of a job hold

\* A field of the lines has a number on each.
FieldCounted(lines, field) == \A n \in DOMAIN lines : lines[n][field] \in Int

FieldOf(lines, field) == [n \in DOMAIN lines |-> lines[n][field]]

LEMMA PerBlankValue ==
    ASSUME NEW lines, IsFiniteSet(DOMAIN lines), NEW field, FieldCounted(lines, field), NEW i \in Items
    PROVE  /\ Summable(FieldOf(lines, field), OnBlank(lines, i))
           /\ PerBlank(lines, field)[i] = Total(FieldOf(lines, field), OnBlank(lines, i))
           /\ PerBlank(lines, field)[i] \in Int
<1>. DEFINE f == FieldOf(lines, field)
            S == OnBlank(lines, i)
            g == [n \in S |-> lines[n][field]]
<1>1. S \subseteq DOMAIN lines
  BY DEF OnBlank
<1>2. Summable(f, S)
  BY <1>1, FiniteSubset DEF Summable, FieldOf, FieldCounted
<1>3. PerBlank(lines, field)[i] = SumOf(g)
  BY DEF PerBlank
<1>4. DOMAIN g = S /\ \A n \in S : f[n] = g[n]
  BY <1>1 DEF FieldOf
<1>. HIDE DEF f, g, S
<1>5. SumOf(g) = Total(g, S)
  BY <1>4, SumOfIsTotal
<1>6. Total(f, S) = Total(g, S)
  BY <1>2, <1>4, TotalAgrees
<1>7. Total(f, S) \in Int
  BY <1>2, TotalRemove
<1>. QED BY <1>2, <1>3, <1>5, <1>6, <1>7 DEF f, S

\* A line holds less: so does its blank, and no other.
LEMMA PerBlankChanges ==
    ASSUME NEW lines, NEW after, IsFiniteSet(DOMAIN lines), DOMAIN after = DOMAIN lines,
           NEW field, FieldCounted(lines, field), FieldCounted(after, field),
           NEW at \in DOMAIN lines, \A n \in DOMAIN lines : after[n].sku = lines[n].sku,
           \A n \in DOMAIN lines \ {at} : after[n][field] = lines[n][field],
           NEW i \in Items
    PROVE  PerBlank(after, field)[i] = PerBlank(lines, field)[i]
               + (IF BlankOf[lines[at].sku] = i THEN after[at][field] - lines[at][field] ELSE 0)
<1>1. OnBlank(after, i) = OnBlank(lines, i)
  BY SameFirst
<1>2. /\ Summable(FieldOf(lines, field), OnBlank(lines, i))
      /\ PerBlank(lines, field)[i] = Total(FieldOf(lines, field), OnBlank(lines, i))
      /\ PerBlank(lines, field)[i] \in Int
  BY PerBlankValue
<1>3. /\ Summable(FieldOf(after, field), OnBlank(lines, i))
      /\ PerBlank(after, field)[i] = Total(FieldOf(after, field), OnBlank(lines, i))
  BY <1>1, PerBlankValue
<1>4. \A n \in OnBlank(lines, i) \ {at} : FieldOf(lines, field)[n] = FieldOf(after, field)[n]
  BY DEF OnBlank, FieldOf
<1>5. CASE BlankOf[lines[at].sku] = i
  <2>1. at \in OnBlank(lines, i)
    BY <1>5 DEF OnBlank
  <2>2. Total(FieldOf(after, field), OnBlank(lines, i)) = Total(FieldOf(lines, field), OnBlank(lines, i))
            + (FieldOf(after, field)[at] - FieldOf(lines, field)[at])
    BY <1>2, <1>3, <1>4, <2>1, TotalChanges
  <2>3. FieldOf(after, field)[at] = after[at][field] /\ FieldOf(lines, field)[at] = lines[at][field]
    BY DEF FieldOf
  <2>. QED BY <1>2, <1>3, <1>5, <2>2, <2>3
<1>6. CASE BlankOf[lines[at].sku] # i
  <2>1. at \notin OnBlank(lines, i)
    BY <1>6 DEF OnBlank
  <2>2. \A n \in OnBlank(lines, i) : FieldOf(lines, field)[n] = FieldOf(after, field)[n]
    BY <1>4, <2>1
  <2>3. Total(FieldOf(lines, field), OnBlank(lines, i)) = Total(FieldOf(after, field), OnBlank(lines, i))
    BY <1>2, <2>2, TotalAgrees
  <2>. QED BY <1>2, <1>3, <1>6, <2>3
<1>. QED BY <1>5, <1>6

\* New lines still hold all that was held for them.
LEMMA PerBlankOfNew ==
    ASSUME NEW lines, IsFiniteSet(DOMAIN lines), FieldCounted(lines, "reserved"),
           FieldCounted(lines, "remaining"),
           \A n \in DOMAIN lines : lines[n].remaining = lines[n].reserved, NEW i \in Items
    PROVE  PerBlank(lines, "remaining")[i] = PerBlank(lines, "reserved")[i]
<1>1. /\ Summable(FieldOf(lines, "reserved"), OnBlank(lines, i))
      /\ PerBlank(lines, "reserved")[i] = Total(FieldOf(lines, "reserved"), OnBlank(lines, i))
      /\ PerBlank(lines, "remaining")[i] = Total(FieldOf(lines, "remaining"), OnBlank(lines, i))
  BY PerBlankValue
<1>2. \A n \in OnBlank(lines, i) : FieldOf(lines, "reserved")[n] = FieldOf(lines, "remaining")[n]
  BY DEF OnBlank, FieldOf
<1>. QED BY <1>1, <1>2, TotalAgrees

\* No lines hold nothing.
LEMMA PerBlankOfNone ==
    ASSUME NEW field, NEW i \in Items
    PROVE  PerBlank(<<>>, field)[i] = 0
<1>1. DOMAIN <<>> = {}
  OBVIOUS
<1>2. OnBlank(<<>>, i) = {}
  BY <1>1 DEF OnBlank
<1>3. FieldCounted(<<>>, field) /\ IsFiniteSet(DOMAIN <<>>)
  BY <1>1, FiniteEmpty DEF FieldCounted
<1>4. PerBlank(<<>>, field)[i] = Total(FieldOf(<<>>, field), OnBlank(<<>>, i))
  BY <1>3, PerBlankValue
<1>. QED BY <1>2, <1>4, TotalEmpty
----------------------------------------------------------------------------
\* What all jobs hold

LEMMA JobsFinite == IsFiniteSet(Jobs)
BY PrintAssumption, LedgerAssumption, FiniteSubset

\* What each job still holds of a blank.
Holds(i) == [j \in Jobs |-> PerBlank(job[j].lines, "remaining")[i]]

Blank(i) == \E sku \in DOMAIN BlankOf : BlankOf[sku] = i

\* A design is no blank.
LEMMA DesignIsNoBlank ==
    ASSUME NEW sku \in DOMAIN BlankOf
    PROVE  ~Blank(sku) /\ sku \in Items
BY PrintAssumption DEF Blank

LEMMA LinesCount ==
    ASSUME NEW j \in Jobs, JobOK(j)
    PROVE  /\ IsFiniteSet(DOMAIN job[j].lines)
           /\ FieldCounted(job[j].lines, "remaining") /\ FieldCounted(job[j].lines, "reserved")
<1>1. IsFiniteSet(DOMAIN job[j].lines)
  BY Places1, FiniteSubset DEF JobOK
<1>2. \A n \in DOMAIN job[j].lines : job[j].lines[n] \in JobLines
  BY DEF JobOK, LineOK, Printable
<1>3. ASSUME NEW n \in DOMAIN job[j].lines
      PROVE  job[j].lines[n]["remaining"] \in Int /\ job[j].lines[n]["reserved"] \in Int
  <2>1. PICK line \in JobLines : line = job[j].lines[n]
    BY <1>2
  <2>2. line["remaining"] \in Int /\ line["reserved"] \in Int
    BY DEF JobLines
  <2>. QED BY <2>1, <2>2
<1>. QED BY <1>1, <1>3 DEF FieldCounted

JobsCount ==
    \A j \in Jobs : JobOK(j) => /\ IsFiniteSet(DOMAIN job[j].lines)
                                /\ FieldCounted(job[j].lines, "remaining")

LEMMA LinesCountAll == JobsCount
BY LinesCount DEF JobsCount

LEMMA HoldsSummable ==
    ASSUME \A j \in Jobs : JobOK(j), NEW i \in Items
    PROVE  Summable(Holds(i), Jobs)
<1>1. \A j \in Jobs : Holds(i)[j] \in Int
  BY LinesCount, PerBlankValue DEF Holds
<1>. QED BY <1>1, JobsFinite DEF Summable

Accounted ==
    \A i \in Items : Blank(i) => balance[i].reserved = ordered[i] + Total(Holds(i), Jobs)

LEMMA AccountedByJob == HoldsAreAccounted <=> Accounted
<1>1. ASSUME NEW i \in Items
      PROVE  SumOf([j \in Jobs |-> PerBlank(job[j].lines, "remaining")[i]]) = Total(Holds(i), Jobs)
  <2>1. DOMAIN [j \in Jobs |-> PerBlank(job[j].lines, "remaining")[i]] = Jobs
    OBVIOUS
  <2>. QED BY <2>1, SumOfIsTotal DEF Holds
<1>. QED BY <1>1 DEF HoldsAreAccounted, Accounted, Blank

\* One job holds more or less of a blank, and the balance reserves as much more or less.
LEMMA OneJobHolds ==
    ASSUME \A j \in Jobs : JobOK(j), \A j \in Jobs : JobOK(j)',
           HoldsAreAccounted, ordered \in [Items -> Int], ordered' = ordered,
           \A i \in Items : balance[i].reserved \in Int,
           NEW j \in Jobs, \A k \in Jobs \ {j} : job'[k] = job[k],
           NEW more \in ItemQty,
           \A i \in Items : Blank(i) =>
               /\ PerBlank(job'[j].lines, "remaining")[i]
                      = PerBlank(job[j].lines, "remaining")[i] + more[i]
               /\ balance'[i].reserved = balance[i].reserved + more[i]
    PROVE  HoldsAreAccounted'
<1>1. ASSUME NEW i \in Items, Blank(i)
      PROVE  balance'[i].reserved = ordered'[i] + Total(Holds(i)', Jobs)
  <2>1. Summable(Holds(i), Jobs)
    BY HoldsSummable
  <2>2. Summable(Holds(i)', Jobs)
    <3>1. \A k \in Jobs : Holds(i)'[k] \in Int
      <4>1. ASSUME NEW k \in Jobs
            PROVE  PerBlank(job'[k].lines, "remaining")[i] \in Int
        <5>1. JobOK(k)'
          OBVIOUS
        <5>2. JobsCount'
          BY LinesCountAll, PTL
        <5>3. IsFiniteSet(DOMAIN job'[k].lines) /\ FieldCounted(job'[k].lines, "remaining")
          BY <5>1, <5>2 DEF JobsCount, FieldCounted
        <5>. QED BY <5>3, PerBlankValue
      <4>. QED BY <4>1 DEF Holds
    <3>. QED BY <3>1, JobsFinite DEF Summable
  <2>3. \A k \in Jobs \ {j} : Holds(i)[k] = Holds(i)'[k]
    BY DEF Holds
  <2>4. Holds(i)[j] = PerBlank(job[j].lines, "remaining")[i]
        /\ Holds(i)'[j] = PerBlank(job'[j].lines, "remaining")[i]
    BY DEF Holds
  <2>5. Total(Holds(i)', Jobs) = Total(Holds(i), Jobs) + (Holds(i)'[j] - Holds(i)[j])
    BY <2>1, <2>2, <2>3, TotalChanges
  <2>6. /\ Holds(i)[j] \in Int /\ Holds(i)'[j] \in Int /\ more[i] \in Int
        /\ Total(Holds(i), Jobs) \in Int /\ ordered[i] \in Int
    BY <2>1, <2>2, TotalRemove DEF Summable, ItemQty
  <2>7. Total(Holds(i)', Jobs) = Total(Holds(i), Jobs) + more[i]
    BY <1>1, <2>4, <2>5, <2>6
  <2>8. balance[i].reserved = ordered[i] + Total(Holds(i), Jobs)
    BY <1>1, AccountedByJob DEF Accounted
  <2>9. balance'[i].reserved = balance[i].reserved + more[i]
    BY <1>1
  <2>. QED BY <2>6, <2>7, <2>8, <2>9
<1>2. Accounted'
  BY <1>1 DEF Accounted, Blank
<1>. QED BY <1>2, AccountedByJob, PTL

----------------------------------------------------------------------------
\* Booking one row for a job

LEMMA OneRow ==
    ASSUME NEW row \in Rows, NEW n \in Int
    PROVE  /\ At1(row, n) \in RowQty
           /\ Only(row[1], n) \in ItemQty
           /\ \A i \in Items : Only(row[1], n)[i] = PerItem(At1(row, n))[i]
<1>1. At1(row, n) \in RowQty /\ Only(row[1], n) \in ItemQty
  BY DEF At1, Only, RowQty, ItemQty
<1>2. ASSUME NEW i \in Items
      PROVE  Only(row[1], n)[i] = PerItem(At1(row, n))[i]
  <2>1. CASE row[1] = i
    <3>1. row \in RowsOf(i) /\ \A r \in RowsOf(i) \ {row} : At1(row, n)[r] = 0
      BY <2>1 DEF RowsOf, At1
    <3>2. PerItem(At1(row, n))[i] = At1(row, n)[row]
      BY <1>1, <3>1, PerItemOfOne
    <3>. QED BY <2>1, <3>2 DEF At1, Only
  <2>2. CASE row[1] # i
    <3>1. \A r \in RowsOf(i) : At1(row, n)[r] = 0
      BY <2>2 DEF RowsOf, At1
    <3>2. PerItem(At1(row, n))[i] = 0
      BY <1>1, <3>1, PerItemZero
    <3>. QED BY <2>2, <3>2 DEF Only
  <2>. QED BY <2>1, <2>2
<1>. QED BY <1>1, <1>2

LEMMA NoneOfAny == NoItem \in ItemQty /\ \A i \in Items : NoItem[i] = 0
BY DEF NoItem, ItemQty

\* What the item of a row, and no other, is printed or used up and held.
RowBooked(j, row, n) ==
    /\ \A i \in Items : /\ Printed(j, i) \in Int
                        /\ Printed(j, i)' = Printed(j, i) + (IF i = row[1] THEN n ELSE 0)
    /\ \A k \in Jobs \ {j} : moved'[k] = moved[k]
    /\ \A i \in Items : /\ balance[i].reserved \in Int
                        /\ balance'[i].reserved
                               = balance[i].reserved + (IF i = row[1] THEN n ELSE 0)

\* A scan books a row: the books agree, and its item alone moves.
LEMMA BookRow ==
    ASSUME LedgerInv, NEW j \in Jobs, NEW row \in Rows, NEW n \in Int,
           UpsertInventory(At1(row, n)), UpsertBalance(Only(row[1], n), Only(row[1], n), NoItem),
           InsertMovements([x \in {j} |-> At1(row, n)]), lot' = lot, told' = told
    PROVE  LedgerInv' /\ RowBooked(j, row, n)
<1>. DEFINE d == At1(row, n)
            qty == Only(row[1], n)
<1>1. d \in RowQty /\ qty \in ItemQty /\ \A i \in Items : qty[i] = PerItem(d)[i]
  BY OneRow
<1>2. NoItem \in ItemQty
  BY NoneOfAny
<1>3. /\ moved \in [Refs -> RowQty] /\ lot \in [Lots -> {"ACTIVE", "EXPIRED"}]
      /\ balance \in [Items -> [onHand : Int, reserved : Int, expired : Int]]
  BY DEF LedgerInv, StockTypeOK, RowQty
<1>4. j \in Refs
  BY PrintAssumption
<1>5. UpsertInventory(d) /\ UpsertBalance(qty, qty, NoItem) /\ InsertMovements([x \in {j} |-> d])
  OBVIOUS
<1>6. qty = Only(row[1], n)
  OBVIOUS
<1>. HIDE DEF d, qty
<1>7. /\ moved' \in [Refs -> RowQty]
      /\ \A r \in Rows : moved'[j][r] = moved[j][r] + d[r]
      /\ \A other \in Refs \ {j} : moved'[other] = moved[other]
      /\ \A r \in Rows : Total(Column(moved', r), Refs) = Total(Column(moved, r), Refs) + d[r]
  BY <1>1, <1>3, <1>4, <1>5, OneMovement
<1>8. LedgerInv'
  BY <1>1, <1>2, <1>3, <1>5, <1>7, CommitLedger
<1>9. ASSUME NEW i \in Items
      PROVE  /\ Printed(j, i) \in Int
             /\ Printed(j, i)' = Printed(j, i) + (IF i = row[1] THEN n ELSE 0)
             /\ balance[i].reserved \in Int
             /\ balance'[i].reserved = balance[i].reserved + (IF i = row[1] THEN n ELSE 0)
  <2>1. moved[j] \in RowQty /\ moved'[j] \in RowQty
    BY <1>3, <1>4, <1>7
  <2>2. PerItem(moved'[j])[i] = PerItem(moved[j])[i] + PerItem(d)[i] /\ PerItem(moved[j])[i] \in Int
    BY <1>1, <1>7, <2>1, PerItemPlus, PerItemValue
  <2>3. qty[i] = IF i = row[1] THEN n ELSE 0
    BY <1>6 DEF Only
  <2>4. balance[i].reserved \in Int /\ balance'[i].reserved = balance[i].reserved + qty[i]
    BY <1>3, <1>5 DEF UpsertBalance
  <2>. QED BY <1>1, <2>2, <2>3, <2>4 DEF Printed
<1>10. \A k \in Jobs \ {j} : moved'[k] = moved[k]
  BY <1>7, PrintAssumption
<1>. QED BY <1>8, <1>9, <1>10 DEF RowBooked

\* Something is reserved, and nothing moves.
LEMMA ReserveOnly ==
    ASSUME LedgerInv, NEW reserved \in ItemQty, UpsertBalance(NoItem, reserved, NoItem),
           UNCHANGED <<inventory, lot, moved, told>>
    PROVE  /\ LedgerInv'
           /\ \A i \in Items : /\ balance[i].reserved \in Int
                               /\ balance'[i].reserved = balance[i].reserved + reserved[i]
<1>1. /\ inventory \in RowQty /\ lot \in [Lots -> {"ACTIVE", "EXPIRED"}]
      /\ moved \in [Refs -> RowQty]
      /\ balance \in [Items -> [onHand : Int, reserved : Int, expired : Int]]
  BY DEF LedgerInv, StockTypeOK, RowQty
<1>2. Nothing \in RowQty /\ \A row \in Rows : Nothing[row] = 0
  BY DEF Nothing, RowQty
<1>3. NoItem \in ItemQty /\ \A i \in Items : NoItem[i] = 0
  BY NoneOfAny
<1>4. \A i \in Items : NoItem[i] = PerItem(Nothing)[i]
  BY <1>2, <1>3, PerItemZero DEF RowsOf
<1>5. UpsertInventory(Nothing)
  <2>1. inventory = [row \in Rows |-> inventory[row] + Nothing[row]]
    BY <1>1, <1>2 DEF RowQty
  <2>. QED BY <2>1 DEF UpsertInventory
<1>6. \A row \in Rows : Total(Column(moved', row), Refs) = Total(Column(moved, row), Refs) + Nothing[row]
  BY <1>1, <1>2, ColumnSum, TotalRemove
<1>7. LedgerInv'
  BY <1>1, <1>2, <1>3, <1>4, <1>5, <1>6, CommitLedger
<1>8. \A i \in Items : /\ balance[i].reserved \in Int
                       /\ balance'[i].reserved = balance[i].reserved + reserved[i]
  BY <1>1 DEF UpsertBalance
<1>. QED BY <1>7, <1>8

----------------------------------------------------------------------------
\* What a step leaves as it was

LEMMA JobKept ==
    ASSUME NEW j \in Jobs, JobOK(j), job'[j] = job[j], moved'[j] = moved[j]
    PROVE  JobOK(j)'
BY DEF JobOK, LineOK, Consumed, Printed

\* A job once made keeps its lines and what was held for them; less and less remains.
Grew(j) ==
    /\ job'[j].status # "none"
    /\ job[j].status = "COMPLETED" => job'[j].status = "COMPLETED"
    /\ DOMAIN job'[j].lines = DOMAIN job[j].lines
    /\ \A n \in DOMAIN job[j].lines :
          /\ job'[j].lines[n].sku = job[j].lines[n].sku
          /\ job'[j].lines[n].reserved = job[j].lines[n].reserved
          /\ job'[j].lines[n].remaining \in Int
          /\ job'[j].lines[n].remaining <= job[j].lines[n].remaining

LEMMA SameGrew ==
    ASSUME NEW j \in Jobs, JobOK(j), job[j].status # "none", job'[j] = job[j]
    PROVE  Grew(j)
<1>1. \A n \in DOMAIN job[j].lines : job[j].lines[n].remaining \in Int
  BY DEF JobOK, LineOK, Printable, JobLines
<1>. QED BY <1>1 DEF Grew

LEMMA RequestKept ==
    ASSUME NEW r, PrintRequestOK(r), \A j \in Jobs : JobOK(j),
           \A j \in Jobs : job[j].status # "none" => Grew(j)
    PROVE  PrintRequestOK(r)'
<1>1. CASE r.at \notin PrintSteps
  BY <1>1 DEF PrintRequestOK, PrintSteps
<1>2. CASE r.at \in PrintSteps
  <2>1. r.job \in Jobs /\ Grew(r.job)
    BY <1>2 DEF PrintRequestOK
  <2>2. PICK j \in Jobs : j = r.job
    BY <2>1
  <2>3. PICK lines : lines = job[j].lines
    OBVIOUS
  <2>4. PICK after : after = job'[j].lines
    OBVIOUS
  <2>5. /\ DOMAIN after = DOMAIN lines
        /\ \A n \in DOMAIN lines : /\ after[n].sku = lines[n].sku
                                   /\ after[n].reserved = lines[n].reserved
                                   /\ after[n].remaining \in Int
                                   /\ after[n].remaining <= lines[n].remaining
    BY <2>1, <2>2, <2>3, <2>4 DEF Grew
  <2>6. /\ \A i : OnBlank(after, i) = OnBlank(lines, i)
        /\ \A n \in DOMAIN lines : First(after, n) <=> First(lines, n)
    BY <2>5, SameFirst
  <2>7. \A n \in DOMAIN lines : lines[n].remaining \in Int
    BY <2>3 DEF JobOK, LineOK, Printable, JobLines
  <2>8. job'[j].status # "none" /\ (job[j].status = "COMPLETED" => job'[j].status = "COMPLETED")
    BY <2>1, <2>2 DEF Grew
  <2>9. CASE r.at = "consume"
    <3>1. r.row \in Rows /\ r.n \in Nat \ {0} /\ OnBlank(lines, r.row[1]) # {}
      BY <2>2, <2>3, <2>9 DEF PrintRequestOK
    <3>2. OnBlank(after, r.row[1]) # {}
      BY <2>6, <3>1
    <3>. QED BY <2>2, <2>4, <2>8, <2>9, <3>1, <3>2 DEF PrintRequestOK
  <2>10. CASE r.at = "complete"
    <3>1. /\ r.line \in DOMAIN lines /\ First(lines, r.line)
          /\ lines[r.line].remaining <= 0
          /\ r.n = lines[r.line].reserved /\ r.n >= 1
          /\ r.row \in Rows /\ r.row[1] = lines[r.line].sku
      BY <2>2, <2>3, <2>10 DEF PrintRequestOK
    <3>2. /\ r.line \in DOMAIN after /\ First(after, r.line)
          /\ after[r.line].remaining <= 0
          /\ r.n = after[r.line].reserved
          /\ r.row[1] = after[r.line].sku
      <4>1. r.line \in DOMAIN after
        BY <2>5, <3>1
      <4>2. First(after, r.line)
        BY <2>6, <3>1
      <4>3. after[r.line].remaining <= 0
        BY <2>5, <2>7, <3>1
      <4>. QED BY <2>5, <3>1, <4>1, <4>2, <4>3
    <3>. QED BY <2>2, <2>4, <2>8, <2>10, <3>1, <3>2 DEF PrintRequestOK
  <2>11. CASE r.at = "completed.tell"
    <3>1. job[j].status = "COMPLETED"
      BY <2>2, <2>11 DEF PrintRequestOK
    <3>. QED BY <2>2, <2>8, <2>11, <3>1 DEF PrintRequestOK
  <2>. QED BY <1>2, <2>9, <2>10, <2>11 DEF PrintSteps
<1>. QED BY <1>1, <1>2

\* The slot of a step goes on at r; the others are where they were.
LEMMA RequestsKept ==
    ASSUME \A s \in Requests : PrintRequestOK(request[s]), \A j \in Jobs : JobOK(j),
           \A j \in Jobs : job[j].status # "none" => Grew(j),
           NEW s \in Requests, PrintRequestOK(request[s])',
           \A t \in Requests \ {s} : request'[t] = request[t]
    PROVE  \A t \in Requests : PrintRequestOK(request[t])'
<1>1. ASSUME NEW t \in Requests \ {s}
      PROVE  PrintRequestOK(request[t])'
  <2>1. PICK r : r = request[t]
    OBVIOUS
  <2>2. PrintRequestOK(r)
    BY <2>1
  <2>3. PrintRequestOK(r)'
    BY <2>2, RequestKept
  <2>4. request'[t] = r
    BY <2>1
  <2>. QED BY <2>3, <2>4 DEF PrintRequestOK
<1>. QED BY <1>1

LEMMA NoRequestMoves ==
    ASSUME \A s \in Requests : PrintRequestOK(request[s]), \A j \in Jobs : JobOK(j),
           \A j \in Jobs : job[j].status # "none" => Grew(j), request' = request
    PROVE  \A t \in Requests : PrintRequestOK(request[t])'
<1>1. ASSUME NEW t \in Requests
      PROVE  PrintRequestOK(request[t])'
  <2>1. PICK r : r = request[t]
    OBVIOUS
  <2>2. PrintRequestOK(r)'
    BY <2>1, RequestKept
  <2>. QED BY <2>1, <2>2 DEF PrintRequestOK
<1>. QED BY <1>1

LEMMA WorkerKept ==
    ASSUME WorkerOK, worker' = worker,
           \A j \in Jobs : job[j].status = "none" => job'[j].status = "none"
    PROVE  WorkerOK'
BY DEF WorkerOK, Printable

LEMMA ToldKept ==
    ASSUME ToldOK, printTold' = printTold, \A j \in Jobs : job[j].status # "none" => Grew(j)
    PROVE  ToldOK'
BY DEF ToldOK, Grew

\* A step that writes neither stock nor jobs.
LEMMA QuietKeeps ==
    ASSUME PInv, UNCHANGED <<stockVars, job, ordered>>, designs' \subseteq Items,
           SlotsInv', WorkerOK', ToldOK', \A s \in Requests : PrintRequestOK(request[s])'
    PROVE  PInv'
<1>1. LedgerInv'
  BY QuietLedger DEF PInv, stockVars
<1>2. \A j \in Jobs : JobOK(j)'
  BY JobKept DEF PInv, stockVars
<1>3. HoldsAreAccounted'
  BY DEF PInv, HoldsAreAccounted, stockVars
<1>. QED BY <1>1, <1>2, <1>3 DEF PInv

\* So do the jobs that do not change.
LEMMA AllGrew ==
    ASSUME \A j \in Jobs : JobOK(j), job' = job
    PROVE  \A j \in Jobs : job[j].status # "none" => Grew(j)
BY SameGrew

----------------------------------------------------------------------------
\* The worker's steps

LEMMA NewLineOK ==
    ASSUME LedgerInv, NEW line \in [sku : DOMAIN BlankOf, quantity : Nat \ {0}],
           BlankOf[line.sku] # NoBlank
    PROVE  /\ Printable(NewLine(line))
           /\ NewLine(line).status = "PENDING"
           /\ NewLine(line).remaining = NewLine(line).reserved
<1>1. line.sku \in DOMAIN BlankOf /\ BlankOf[line.sku] \in Items /\ line.sku \in Items
  BY PrintAssumption
<1>2. PICK blank \in Items : blank = BlankOf[line.sku]
  BY <1>1
<1>3. Available(blank) \in Int
  <2>1. PICK b \in [onHand : Int, reserved : Int, expired : Int] : b = balance[blank]
    BY DEF LedgerInv, StockTypeOK
  <2>2. b.onHand - b.reserved - b.expired \in Int
    OBVIOUS
  <2>. QED BY <2>1, <2>2 DEF Available
<1>4. PICK held : held = Least(line.quantity, NotBelowZero(Available(BlankOf[line.sku])))
  OBVIOUS
<1>5. held \in Nat
  BY <1>2, <1>3, <1>4 DEF Least, NotBelowZero
<1>6. NewLine(line) = [sku |-> line.sku, quantity |-> line.quantity, reserved |-> held,
                       remaining |-> held, status |-> "PENDING"]
  BY <1>4 DEF NewLine
<1>7. NewLine(line) \in JobLines
  BY <1>1, <1>5, <1>6 DEF JobLines
<1>. QED BY <1>1, <1>6, <1>7 DEF Printable

LEMMA PrintRequestedKeeps ==
    ASSUME PInv, NEW j \in Jobs, PrintRequested(j)
    PROVE  PInv'
<1>1. UNCHANGED <<stockVars, request, left, job, printTold, ordered>> /\ job[j].status = "none"
  BY DEF PrintRequested, requestVars
<1>2. PICK lines : lines = [n \in Resolved(j) |-> NewLine(Wanted[j][n])]
  OBVIOUS
<1>3. worker' = [at |-> "create", job |-> j, lines |-> lines]
  BY <1>2 DEF PrintRequested
<1>4. \A n \in DOMAIN Wanted[j] : Wanted[j][n] \in [sku : DOMAIN BlankOf, quantity : Nat \ {0}]
  <2>1. Wanted[j] \in Seq([sku : DOMAIN BlankOf, quantity : Nat \ {0}])
    BY PrintAssumption
  <2>. QED BY <2>1, Elements
<1>5. DOMAIN lines \subseteq DOMAIN Wanted[j]
  BY <1>2 DEF Resolved
<1>6. ASSUME NEW n \in DOMAIN lines
      PROVE  /\ Printable(lines[n]) /\ lines[n].status = "PENDING"
             /\ lines[n].remaining = lines[n].reserved
  <2>1. PICK line \in [sku : DOMAIN BlankOf, quantity : Nat \ {0}] : line = Wanted[j][n]
    BY <1>4, <1>5
  <2>2. BlankOf[line.sku] # NoBlank
    BY <1>2, <2>1 DEF Resolved
  <2>3. lines[n] = NewLine(line)
    BY <1>2, <2>1
  <2>. QED BY <2>2, <2>3, NewLineOK DEF PInv
<1>7. WorkerOK'
  <2>1. /\ worker'.at = "create" /\ worker'.job = j /\ worker'.lines = lines
        /\ job'[j].status = "none"
    BY <1>1, <1>3
  <2>. QED BY <1>3, <1>5, <1>6, <2>1 DEF WorkerOK, Printable
<1>8. designs' \subseteq Items
  <2>1. \A n \in Resolved(j) : Wanted[j][n].sku \in Items
    BY <1>4, PrintAssumption DEF Resolved
  <2>. QED BY <2>1 DEF PrintRequested, PInv
<1>9. ToldOK'
  BY <1>1, AllGrew, ToldKept DEF PInv
<1>10. \A s \in Requests : PrintRequestOK(request[s])'
  BY <1>1, AllGrew, NoRequestMoves DEF PInv
<1>11. SlotsInv'
  BY <1>1 DEF PInv, SlotsInv
<1>. QED BY <1>1, <1>7, <1>8, <1>9, <1>10, <1>11, QuietKeeps

LEMMA PrintJobTellKeeps ==
    ASSUME PInv, PrintJobTell
    PROVE  PInv'
<1>1. UNCHANGED <<stockVars, request, left, job, designs, ordered>> /\ worker' = Free
  BY DEF PrintJobTell, requestVars
<1>2. ToldOK'
  <2>1. /\ printTold'.completed = printTold.completed
        /\ printTold' = [reserve |-> printTold'.reserve, completed |-> printTold'.completed]
    <3>1. printTold = [reserve |-> printTold.reserve, completed |-> printTold.completed]
      BY DEF PInv, ToldOK
    <3>2. PICK r : printTold' = [printTold EXCEPT !.reserve = r]
      BY DEF PrintJobTell
    <3>. QED BY <3>1, <3>2
  <2>. QED BY <1>1, <2>1 DEF PInv, ToldOK
<1>3. \A s \in Requests : PrintRequestOK(request[s])'
  BY <1>1, AllGrew, NoRequestMoves DEF PInv
<1>4. SlotsInv' /\ WorkerOK' /\ designs' \subseteq Items
  BY <1>1 DEF PInv, SlotsInv, WorkerOK
<1>. QED BY <1>1, <1>2, <1>3, <1>4, QuietKeeps

LEMMA WorkerDiesKeeps ==
    ASSUME PInv, WorkerDies
    PROVE  PInv'
<1>1. UNCHANGED <<stockVars, request, left, job, designs, printTold, ordered>> /\ worker' = Free
  BY DEF WorkerDies, requestVars
<1>2. ToldOK' /\ \A s \in Requests : PrintRequestOK(request[s])'
  BY <1>1, AllGrew, NoRequestMoves, ToldKept DEF PInv
<1>3. SlotsInv' /\ WorkerOK' /\ designs' \subseteq Items
  BY <1>1 DEF PInv, SlotsInv, WorkerOK
<1>. QED BY <1>1, <1>2, <1>3, QuietKeeps

\* New lines are used up by nobody yet.
LEMMA CreatedOK ==
    ASSUME NEW j \in Jobs, JobOK(j), job[j].status = "none", NEW lines,
           DOMAIN lines \subseteq DOMAIN Wanted[j],
           \A n \in DOMAIN lines :
               /\ Printable(lines[n]) /\ lines[n].status = "PENDING"
               /\ lines[n].remaining = lines[n].reserved,
           job'[j] = [status |-> "PENDING", lines |-> lines], moved' = moved
    PROVE  JobOK(j)'
<1>1. job'[j].status = "PENDING" /\ job'[j].lines = lines
  OBVIOUS
<1>2. \A i \in Items : Printed(j, i) = 0 /\ Printed(j, i)' = 0
  BY DEF JobOK, Printed
<1>3. ASSUME NEW n \in DOMAIN lines
      PROVE  LineOK(j, n)'
  <2>1. PICK line : line = lines[n]
    OBVIOUS
  <2>2. /\ Printable(line) /\ line.status = "PENDING" /\ line.remaining = line.reserved
        /\ line.reserved \in Int /\ BlankOf[line.sku] \in Items
    BY <2>1 DEF Printable, JobLines
  <2>3. Consumed(j, BlankOf[line.sku])' = line.reserved - line.remaining
    BY <1>2, <2>2 DEF Consumed
  <2>. QED BY <1>1, <2>1, <2>2, <2>3 DEF LineOK, Printable, Consumed
<1>4. \A sku \in DOMAIN BlankOf : Printed(j, sku)' >= 0
  BY <1>2, DesignIsNoBlank
<1>. QED BY <1>1, <1>3, <1>4 DEF JobOK

LEMMA PrintJobCreateKeeps ==
    ASSUME PInv, PrintJobCreate
    PROVE  PInv'
<1>1. /\ worker.at = "create"
      /\ UNCHANGED <<inventory, lot, moved, told, request, left, designs, printTold, ordered>>
  BY DEF PrintJobCreate, requestVars
<1>2. PICK j \in Jobs : j = worker.job
  BY <1>1 DEF PInv, WorkerOK, Free
<1>3. PICK lines : lines = worker.lines
  OBVIOUS
<1>4. /\ worker = [at |-> "create", job |-> j, lines |-> lines]
      /\ job[j].status = "none"
      /\ DOMAIN lines \subseteq DOMAIN Wanted[j]
      /\ \A n \in DOMAIN lines :
            /\ Printable(lines[n]) /\ lines[n].status = "PENDING"
            /\ lines[n].remaining = lines[n].reserved
  BY <1>1, <1>2, <1>3 DEF PInv, WorkerOK, Free
<1>5. /\ job' = [job EXCEPT ![j] = [status |-> "PENDING", lines |-> lines]]
      /\ worker' = [at |-> "tell", job |-> j, lines |-> lines]
  BY <1>2, <1>3, <1>4 DEF PrintJobCreate
<1>6. /\ job'[j] = [status |-> "PENDING", lines |-> lines]
      /\ \A k \in Jobs \ {j} : job'[k] = job[k]
      /\ job' = [k \in Jobs |-> job'[k]]
  BY <1>5 DEF PInv
<1>7. \A k \in Jobs : JobOK(k)'
  <2>1. JobOK(j)'
    BY <1>1, <1>4, <1>6, CreatedOK DEF PInv
  <2>2. \A k \in Jobs \ {j} : JobOK(k)'
    BY <1>1, <1>6, JobKept DEF PInv
  <2>. QED BY <2>1, <2>2
<1>8. \A k \in Jobs : job[k].status # "none" => Grew(k)
  BY <1>4, <1>6, SameGrew DEF PInv
<1>9. IsFiniteSet(DOMAIN lines) /\ FieldCounted(lines, "reserved") /\ FieldCounted(lines, "remaining")
  <2>1. IsFiniteSet(DOMAIN lines)
    BY <1>4, Places1, FiniteSubset
  <2>2. ASSUME NEW n \in DOMAIN lines
        PROVE  lines[n]["reserved"] \in Int /\ lines[n]["remaining"] \in Int
    <3>1. PICK line \in JobLines : line = lines[n]
      BY <1>4 DEF Printable
    <3>2. line["reserved"] \in Int /\ line["remaining"] \in Int
      BY DEF JobLines
    <3>. QED BY <3>1, <3>2
  <2>. QED BY <2>1, <2>2 DEF FieldCounted
<1>10. Held(lines) \in ItemQty
  <2>1. \A i \in Items : PerBlank(lines, "reserved")[i] \in Int
    BY <1>9, PerBlankValue
  <2>. QED BY <2>1 DEF Held, PerBlank, ItemQty
<1>11. UpsertBalance(NoItem, Held(lines), NoItem)
  BY <1>3 DEF PrintJobCreate
<1>12. /\ LedgerInv'
       /\ \A i \in Items : /\ balance[i].reserved \in Int
                           /\ balance'[i].reserved = balance[i].reserved + Held(lines)[i]
  BY <1>1, <1>10, <1>11, ReserveOnly DEF PInv
<1>13. HoldsAreAccounted'
  <2>1. job[j].lines = <<>> /\ job'[j].lines = lines
    BY <1>4, <1>6 DEF PInv, JobOK
  <2>2. ASSUME NEW i \in Items
        PROVE  PerBlank(job'[j].lines, "remaining")[i]
                   = PerBlank(job[j].lines, "remaining")[i] + Held(lines)[i]
    <3>1. PerBlank(lines, "remaining")[i] = Held(lines)[i]
      BY <1>4, <1>9, PerBlankOfNew DEF Held
    <3>2. PerBlank(<<>>, "remaining")[i] = 0
      BY PerBlankOfNone
    <3>3. Held(lines)[i] \in Int
      BY <1>10 DEF ItemQty
    <3>. QED BY <2>1, <3>1, <3>2, <3>3
  <2>3. ordered \in [Items -> Int]
    BY PrintAssumption DEF PInv
  <2>. QED BY <1>1, <1>6, <1>7, <1>10, <1>12, <2>2, <2>3, OneJobHolds DEF PInv
<1>14. WorkerOK'
  <2>1. worker'.at = "tell" /\ worker'.job = j /\ worker'.lines = lines
    BY <1>5
  <2>. QED BY <1>4, <1>5, <2>1 DEF WorkerOK, Printable
<1>15. ToldOK' /\ \A s \in Requests : PrintRequestOK(request[s])'
  BY <1>1, <1>8, NoRequestMoves, ToldKept DEF PInv
<1>16. SlotsInv' /\ designs' \subseteq Items /\ ordered' \in [Items -> 0..MaxOrders]
  BY <1>1 DEF PInv, SlotsInv
<1>. QED BY <1>6, <1>7, <1>12, <1>13, <1>14, <1>15, <1>16 DEF PInv

\* An order's blanks are its own.
LEMMA OrderReservesKeeps ==
    ASSUME PInv, NEW b \in Items, OrderReserves(b)
    PROVE  PInv'
<1>. DEFINE one == [k \in Items |-> IF k = b THEN 1 ELSE 0]
<1>1. /\ UNCHANGED <<inventory, lot, moved, told, request, left, job, designs, worker, printTold>>
      /\ UpsertBalance(NoItem, one, NoItem)
      /\ ordered' = [ordered EXCEPT ![b] = @ + 1]
      /\ SumOf(ordered) < MaxOrders
  BY DEF OrderReserves, requestVars
<1>2. one \in ItemQty /\ \A k \in Items : one[k] = IF k = b THEN 1 ELSE 0
  BY DEF ItemQty
<1>. HIDE DEF one
<1>3. /\ LedgerInv'
      /\ \A k \in Items : /\ balance[k].reserved \in Int
                          /\ balance'[k].reserved = balance[k].reserved + one[k]
  BY <1>1, <1>2, ReserveOnly DEF PInv
<1>4. ordered \in [Items -> 0..MaxOrders] /\ MaxOrders \in Nat
  BY PrintAssumption DEF PInv
<1>5. ordered[b] + 1 \in 0..MaxOrders
  <2>1. SumOf(ordered) = Total(ordered, Items)
    BY <1>4, SumOfIsTotal
  <2>2. Summable(ordered, Items) /\ IsFiniteSet(Items \ {b})
    BY <1>4, LedgerAssumption, FiniteSubset DEF Summable
  <2>3. Total(ordered, Items) = ordered[b] + Total(ordered, Items \ {b})
    BY <2>2, TotalRemove
  <2>4. Total(ordered, Items \ {b}) \in Nat
    BY <1>4, <2>2, TotalNatural
  <2>. QED BY <1>1, <1>4, <2>1, <2>3, <2>4
<1>6. ordered' \in [Items -> 0..MaxOrders]
  BY <1>1, <1>4, <1>5
<1>7. \A j \in Jobs : JobOK(j)'
  BY <1>1, JobKept DEF PInv
<1>8. HoldsAreAccounted'
  <2>1. ASSUME NEW k \in Items, Blank(k)
        PROVE  balance'[k].reserved = ordered'[k] + Total(Holds(k)', Jobs)
    <3>1. Holds(k)' = Holds(k)
      BY <1>1 DEF Holds
    <3>2. Total(Holds(k), Jobs) \in Int
      BY HoldsSummable, TotalRemove DEF PInv
    <3>3. balance[k].reserved = ordered[k] + Total(Holds(k), Jobs)
      BY <2>1, AccountedByJob DEF PInv, Accounted
    <3>4. ordered[k] \in Int /\ ordered'[k] = ordered[k] + one[k] /\ one[k] \in Int
      BY <1>1, <1>2, <1>4
    <3>. QED BY <1>3, <3>1, <3>2, <3>3, <3>4
  <2>2. Accounted'
    BY <2>1 DEF Accounted, Blank
  <2>. QED BY <2>2, AccountedByJob, PTL
<1>9. ToldOK' /\ \A s \in Requests : PrintRequestOK(request[s])'
  BY <1>1, AllGrew, NoRequestMoves, ToldKept DEF PInv
<1>10. WorkerOK'
  BY <1>1, WorkerKept DEF PInv
<1>11. SlotsInv' /\ designs' \subseteq Items /\ job' = [j \in Jobs |-> job'[j]]
  BY <1>1 DEF PInv, SlotsInv
<1>. QED BY <1>3, <1>6, <1>7, <1>8, <1>9, <1>10, <1>11 DEF PInv

----------------------------------------------------------------------------
\* The printer's steps

LEMMA IdleOK == PrintRequestOK(Idle)
BY DEF PrintRequestOK, PrintSteps, Idle

\* One line has n blanks less to use up.
LessOn(lines, after, at, n) ==
    /\ DOMAIN after = DOMAIN lines
    /\ \A m \in DOMAIN lines \ {at} : after[m] = lines[m]
    /\ after[at] \in JobLines
    /\ after[at].sku = lines[at].sku
    /\ after[at].reserved = lines[at].reserved
    /\ after[at].remaining = lines[at].remaining - n
    /\ after[at].status = IF lines[at].remaining = n THEN "CONSUMED" ELSE lines[at].status

LEMMA ConsumedLineIs ==
    ASSUME NEW lines, NEW at \in DOMAIN lines, lines[at] \in JobLines, NEW n \in Nat
    PROVE  LessOn(lines, ConsumedLine(lines, at, n), at, n)
<1>. DEFINE after == ConsumedLine(lines, at, n)
<1>1. PICK line \in JobLines : line = lines[at]
  OBVIOUS
<1>2. PICK status : status = IF line.remaining = n THEN "CONSUMED" ELSE line.status
  OBVIOUS
<1>3. status \in {"PENDING", "CONSUMED", "COMPLETED"} /\ line.remaining - n \in Int
  BY <1>2 DEF JobLines
<1>4. PICK less : less = [line EXCEPT !.remaining = line.remaining - n]
  OBVIOUS
<1>5. PICK done : done = [less EXCEPT !.status = status]
  OBVIOUS
<1>6. /\ less \in JobLines /\ less.sku = line.sku /\ less.reserved = line.reserved
      /\ less.remaining = line.remaining - n /\ less.status = line.status
  BY <1>3, <1>4 DEF JobLines
<1>7. /\ done \in JobLines /\ done.sku = less.sku /\ done.reserved = less.reserved
      /\ done.remaining = less.remaining /\ done.status = status
  BY <1>3, <1>5, <1>6 DEF JobLines
<1>8. /\ DOMAIN after = DOMAIN lines
      /\ \A m \in DOMAIN lines \ {at} : after[m] = lines[m]
      /\ after[at] = done
  BY <1>1, <1>2, <1>4, <1>5, <1>6 DEF ConsumedLine
<1>. HIDE DEF after
<1>9. LessOn(lines, after, at, n)
  BY <1>1, <1>2, <1>6, <1>7, <1>8 DEF LessOn
<1>. QED BY <1>9 DEF after

\* One line of a job has n blanks less to use up, and the job is the same otherwise.
LessLeft(j, at, n) ==
    /\ DOMAIN job'[j].lines = DOMAIN job[j].lines
    /\ \A m \in DOMAIN job[j].lines : /\ job'[j].lines[m].sku = job[j].lines[m].sku
                                      /\ job'[j].lines[m].reserved = job[j].lines[m].reserved
    /\ \A m \in DOMAIN job[j].lines \ {at} :
           job'[j].lines[m].remaining = job[j].lines[m].remaining
    /\ job'[j].lines[at].remaining = job[j].lines[at].remaining - n
    /\ job'[j].status # "none"
    /\ job[j].status = "COMPLETED" => job'[j].status = "COMPLETED"

\* The job holds that many less of the line's blank, and as many of any other.
HoldsLess(j, at, n) ==
    /\ Grew(j)
    /\ \A i \in Items : PerBlank(job'[j].lines, "remaining")[i]
           = PerBlank(job[j].lines, "remaining")[i]
                 + (IF BlankOf[job[j].lines[at].sku] = i THEN -n ELSE 0)

LEMMA UsedUp ==
    ASSUME NEW j \in Jobs, JobOK(j), JobOK(j)', job[j].status # "none",
           NEW at \in DOMAIN job[j].lines, NEW n \in Nat, LessLeft(j, at, n)
    PROVE  HoldsLess(j, at, n)
<1>1. PICK lines : lines = job[j].lines
  OBVIOUS
<1>2. PICK after : after = job'[j].lines
  OBVIOUS
<1>3. IsFiniteSet(DOMAIN lines) /\ FieldCounted(lines, "remaining")
  BY <1>1, LinesCount
<1>4. JobsCount'
  BY LinesCountAll, PTL
<1>5. FieldCounted(after, "remaining")
  BY <1>2, <1>4 DEF JobsCount, FieldCounted
<1>6. \A m \in DOMAIN lines : lines[m]["remaining"] \in Int /\ after[m]["remaining"] \in Int
  BY <1>1, <1>2, <1>3, <1>5 DEF FieldCounted, LessLeft
<1>7. /\ \A m \in DOMAIN lines \ {at} : after[m]["remaining"] = lines[m]["remaining"]
      /\ after[at]["remaining"] - lines[at]["remaining"] = -n
  BY <1>1, <1>2, <1>6 DEF LessLeft
<1>8. ASSUME NEW i \in Items
      PROVE  PerBlank(after, "remaining")[i] = PerBlank(lines, "remaining")[i]
                 + (IF BlankOf[lines[at].sku] = i THEN after[at]["remaining"] - lines[at]["remaining"]
                    ELSE 0)
  <2>1. /\ DOMAIN after = DOMAIN lines /\ at \in DOMAIN lines
        /\ \A m \in DOMAIN lines : after[m].sku = lines[m].sku
    BY <1>1, <1>2 DEF LessLeft
  <2>. QED BY <1>3, <1>5, <1>7, <2>1, PerBlankChanges
<1>9. \A m \in DOMAIN lines : after[m].remaining \in Int /\ after[m].remaining <= lines[m].remaining
  <2>1. ASSUME NEW m \in DOMAIN lines
        PROVE  after[m].remaining \in Int /\ after[m].remaining <= lines[m].remaining
    <3>1. lines[m].remaining \in Int /\ after[m].remaining \in Int
      BY <1>6
    <3>2. CASE m = at
      BY <1>1, <1>2, <3>1, <3>2 DEF LessLeft
    <3>3. CASE m # at
      BY <1>1, <1>2, <3>1, <3>3 DEF LessLeft
    <3>. QED BY <3>2, <3>3
  <2>. QED BY <2>1
<1>10. Grew(j)
  BY <1>1, <1>2, <1>9 DEF Grew, LessLeft
<1>. QED BY <1>1, <1>2, <1>7, <1>8, <1>10 DEF HoldsLess

LEMMA ConsumedJobOK ==
    ASSUME NEW j \in Jobs, JobOK(j), job[j].status # "none", NEW row \in Rows, NEW n \in Nat \ {0},
           OnBlank(job[j].lines, row[1]) # {}, NEW at, at = Min(OnBlank(job[j].lines, row[1])),
           job'[j].lines = ConsumedLine(job[j].lines, at, n),
           job'[j].status \in {job[j].status, "IN_PROGRESS"},
           job[j].status = "COMPLETED" => job'[j].status = "COMPLETED",
           job'[j].status = "COMPLETED" => job[j].status = "COMPLETED",
           \A i \in Items : /\ Printed(j, i) \in Int
                            /\ Printed(j, i)' = Printed(j, i) + (IF i = row[1] THEN -n ELSE 0)
    PROVE  /\ JobOK(j)'
           /\ Grew(j)
           /\ \A i \in Items : PerBlank(job'[j].lines, "remaining")[i]
                  = PerBlank(job[j].lines, "remaining")[i] + (IF i = row[1] THEN -n ELSE 0)
<1>1. PICK lines : lines = job[j].lines
  OBVIOUS
<1>2. PICK after : after = job'[j].lines
  OBVIOUS
<1>3. DOMAIN lines \subseteq DOMAIN Wanted[j] /\ \A m \in DOMAIN lines : Printable(lines[m])
  BY <1>1 DEF JobOK, LineOK
<1>4. at \in DOMAIN lines /\ BlankOf[lines[at].sku] = row[1] /\ First(lines, at)
  BY <1>1, <1>3, FoundFirst
<1>5. row[1] \in Items /\ row[1] \notin DOMAIN BlankOf
  <2>1. row[1] \in Items
    BY DEF Rows
  <2>. QED BY <1>3, <1>4, <2>1, PrintAssumption DEF Printable
<1>6. /\ DOMAIN after = DOMAIN lines
      /\ \A m \in DOMAIN lines \ {at} : after[m] = lines[m]
      /\ after[at] \in JobLines
      /\ after[at].sku = lines[at].sku
      /\ after[at].reserved = lines[at].reserved
      /\ after[at].remaining = lines[at].remaining - n
      /\ after[at].status = IF lines[at].remaining = n THEN "CONSUMED" ELSE lines[at].status
  <2>1. lines[at] \in JobLines /\ n \in Nat /\ after = ConsumedLine(lines, at, n)
    BY <1>1, <1>2, <1>3, <1>4 DEF Printable
  <2>2. LessOn(lines, ConsumedLine(lines, at, n), at, n)
    BY <1>4, <2>1, ConsumedLineIs
  <2>. QED BY <2>1, <2>2 DEF LessOn
<1>7. \A m \in DOMAIN lines : after[m].sku = lines[m].sku /\ after[m].reserved = lines[m].reserved
  BY <1>6
<1>8. \A m \in DOMAIN lines : First(after, m) <=> First(lines, m)
  BY <1>6, <1>7, SameFirst
<1>9. \A sku \in DOMAIN BlankOf : Printed(j, sku) \in Int /\ Printed(j, sku)' = Printed(j, sku)
  BY <1>5, PrintAssumption
<1>10. ASSUME NEW m \in DOMAIN lines
       PROVE  LineOK(j, m)'
  <2>1. LineOK(j, m)
    BY <1>1 DEF JobOK
  <2>2. PICK line \in JobLines : line = lines[m]
    BY <1>3 DEF Printable
  <2>3. /\ line.sku \in DOMAIN BlankOf /\ BlankOf[line.sku] \in Items
        /\ First(lines, m) => Consumed(j, BlankOf[line.sku]) = line.reserved - line.remaining
        /\ ~First(lines, m) => line.status = "PENDING"
        /\ line.status = "COMPLETED" =>
              line.remaining <= 0 /\ line.reserved >= 1 /\ Printed(j, line.sku) >= line.reserved
        /\ line.remaining \in Int /\ line.reserved \in Int
    BY <1>1, <2>1, <2>2 DEF LineOK, Printable, JobLines
  <2>4. CASE m = at
    <3>1. Printable(after[m])
      BY <1>6, <2>2, <2>3, <2>4 DEF Printable
    <3>2. Consumed(j, row[1]) = line.reserved - line.remaining
      BY <1>4, <2>2, <2>3, <2>4
    <3>3. Consumed(j, row[1])' = after[m].reserved - after[m].remaining
      BY <1>5, <1>6, <2>2, <2>3, <2>4, <3>2 DEF Consumed
    <3>4. First(after, m)
      BY <1>4, <1>8, <2>4
    <3>5. after[m].status = "COMPLETED" =>
              after[m].remaining <= 0 /\ after[m].reserved >= 1 /\ Printed(j, after[m].sku)' >= after[m].reserved
      BY <1>6, <1>9, <2>2, <2>3, <2>4
    <3>. QED BY <1>2, <1>4, <1>6, <2>2, <2>4, <3>1, <3>3, <3>4, <3>5
           DEF LineOK, Printable, Consumed, Printed
  <2>5. CASE m # at
    <3>1. after[m] = line
      BY <1>6, <2>2, <2>5
    <3>2. First(lines, m) => BlankOf[line.sku] # row[1]
      BY <1>4, <2>2, <2>5, OneFirst
    <3>3. First(lines, m) => Consumed(j, BlankOf[line.sku])' = line.reserved - line.remaining
      BY <2>3, <3>2 DEF Consumed
    <3>4. line.status = "COMPLETED" => Printed(j, line.sku)' >= line.reserved
      BY <1>9, <2>3
    <3>. QED BY <1>2, <1>8, <2>2, <2>3, <3>1, <3>3, <3>4 DEF LineOK, Printable, Consumed, Printed
  <2>. QED BY <2>4, <2>5
<1>11. job'[j].status = "COMPLETED" => \A m \in DOMAIN after : after[m].status = "COMPLETED"
  <2>1. ASSUME job[j].status = "COMPLETED", NEW m \in DOMAIN lines
        PROVE  after[m].status = "COMPLETED"
    <3>1. lines[m].status = "COMPLETED" /\ lines[at].status = "COMPLETED" /\ lines[at].remaining <= 0
      BY <1>1, <1>4, <2>1 DEF JobOK, LineOK
    <3>2. lines[at].remaining # n
      BY <3>1
    <3>. QED BY <1>6, <3>1, <3>2
  <2>. QED BY <1>6, <2>1
<1>12. JobOK(j)'
  <2>1. job'[j].status \in {"PENDING", "IN_PROGRESS", "COMPLETED"}
    BY DEF JobOK
  <2>2. \A sku \in DOMAIN BlankOf : Printed(j, sku)' >= 0
    BY <1>9 DEF JobOK
  <2>. QED BY <1>2, <1>3, <1>6, <1>10, <1>11, <2>1, <2>2 DEF JobOK
<1>13. job'[j].status # "none"
  BY DEF JobOK
<1>14. \A m \in DOMAIN lines \ {at} : after[m].remaining = lines[m].remaining
  BY <1>6
<1>15. LessLeft(j, at, n)
  BY <1>1, <1>2, <1>6, <1>7, <1>13, <1>14 DEF LessLeft
<1>16. HoldsLess(j, at, n)
  <2>1. at \in DOMAIN job[j].lines /\ n \in Nat
    BY <1>1, <1>4
  <2>. QED BY <1>12, <1>15, <2>1, UsedUp
<1>17. ASSUME NEW i \in Items
       PROVE  (BlankOf[lines[at].sku] = i) <=> (i = row[1])
  BY <1>4
<1>. QED BY <1>1, <1>12, <1>17, <1>16 DEF HoldsLess

\* The cups of a line that is completed are at least as many as it held.
LEMMA CompletedJobOK ==
    ASSUME NEW j \in Jobs, JobOK(j), job[j].status # "none",
           NEW at \in DOMAIN job[j].lines, First(job[j].lines, at),
           job[j].lines[at].remaining <= 0, NEW n \in Int, n >= 1, n = job[j].lines[at].reserved,
           job'[j].lines = [job[j].lines EXCEPT ![at].status = "COMPLETED"],
           job'[j].status = IF \A m \in DOMAIN job'[j].lines : job'[j].lines[m].status = "COMPLETED"
                            THEN "COMPLETED" ELSE job[j].status,
           \A i \in Items :
               /\ Printed(j, i) \in Int
               /\ Printed(j, i)' = Printed(j, i) + (IF i = job[j].lines[at].sku THEN n ELSE 0)
    PROVE  /\ JobOK(j)'
           /\ Grew(j)
           /\ \A i \in Items : PerBlank(job'[j].lines, "remaining")[i]
                                   = PerBlank(job[j].lines, "remaining")[i]
<1>1. PICK lines : lines = job[j].lines
  OBVIOUS
<1>2. PICK after : after = job'[j].lines
  OBVIOUS
<1>3. DOMAIN lines \subseteq DOMAIN Wanted[j] /\ \A m \in DOMAIN lines : Printable(lines[m])
  BY <1>1 DEF JobOK, LineOK
<1>4. PICK old \in JobLines : old = lines[at]
  BY <1>1, <1>3 DEF Printable
<1>5. PICK sku \in DOMAIN BlankOf : sku = old.sku
  BY <1>1, <1>3, <1>4 DEF Printable
<1>6. PICK new : new = [old EXCEPT !.status = "COMPLETED"]
  OBVIOUS
<1>7. /\ new \in JobLines /\ new.sku = sku /\ new.reserved = n /\ new.remaining = old.remaining
      /\ new.status = "COMPLETED" /\ old.reserved = n /\ old.remaining <= 0 /\ old.remaining \in Int
  BY <1>1, <1>4, <1>5, <1>6 DEF JobLines
<1>8. /\ DOMAIN after = DOMAIN lines
      /\ \A m \in DOMAIN lines \ {at} : after[m] = lines[m]
      /\ after[at] = new
  BY <1>2, <1>1, <1>4, <1>6
<1>9. \A m \in DOMAIN lines : /\ after[m].sku = lines[m].sku /\ after[m].reserved = lines[m].reserved
                              /\ after[m].remaining = lines[m].remaining
  BY <1>4, <1>5, <1>7, <1>8
<1>10. \A m \in DOMAIN lines : First(after, m) <=> First(lines, m)
  BY <1>8, <1>9, SameFirst
<1>11. \A i \in Items : /\ Printed(j, i) \in Int /\ Printed(j, i)' \in Int
                        /\ Printed(j, i)' >= Printed(j, i)
                        /\ i # sku => Printed(j, i)' = Printed(j, i)
                        /\ i = sku => Printed(j, i)' = Printed(j, i) + n
  BY <1>1, <1>4, <1>5
<1>12. \A m \in DOMAIN lines : BlankOf[lines[m].sku] # sku
  BY <1>3, PrintAssumption DEF Printable
<1>13. ASSUME NEW m \in DOMAIN lines
       PROVE  LineOK(j, m)'
  <2>1. LineOK(j, m)
    BY <1>1 DEF JobOK
  <2>2. PICK line \in JobLines : line = lines[m]
    BY <1>3 DEF Printable
  <2>3. /\ line.sku \in DOMAIN BlankOf /\ BlankOf[line.sku] \in Items
        /\ First(lines, m) => Consumed(j, BlankOf[line.sku]) = line.reserved - line.remaining
        /\ ~First(lines, m) => line.status = "PENDING"
        /\ line.status = "COMPLETED" =>
              line.remaining <= 0 /\ line.reserved >= 1 /\ Printed(j, line.sku) >= line.reserved
        /\ line.remaining \in Int /\ line.reserved \in Int
        /\ line.sku \in Items
    BY <1>1, <2>1, <2>2 DEF LineOK, Printable, JobLines
  <2>4. First(lines, m) => Consumed(j, BlankOf[line.sku])' = line.reserved - line.remaining
    BY <1>11, <1>12, <2>2, <2>3 DEF Consumed
  <2>5. CASE m = at
    <3>1. Printable(new)
      BY <1>4, <1>5, <1>7, <2>2, <2>3, <2>5 DEF Printable
    <3>2. First(lines, m)
      BY <1>1, <2>5
    <3>3. Consumed(j, BlankOf[new.sku])' = new.reserved - new.remaining
      BY <1>4, <1>5, <1>7, <2>2, <2>4, <2>5, <3>2
    <3>4. sku \in Items /\ Printed(j, sku) >= 0
      BY <1>4, <1>5, <2>2, <2>3, <2>5 DEF JobOK
    <3>5. new.remaining <= 0 /\ new.reserved >= 1 /\ Printed(j, new.sku)' >= new.reserved
      BY <1>7, <1>11, <3>4
    <3>6. after[m] = new /\ First(after, m)
      BY <1>8, <1>10, <2>5, <3>2
    <3>. QED BY <1>2, <3>1, <3>3, <3>5, <3>6 DEF LineOK, Printable, Consumed, Printed
  <2>6. CASE m # at
    <3>1. after[m] = line
      BY <1>8, <2>2, <2>6
    <3>2. line.status = "COMPLETED" => Printed(j, line.sku)' >= line.reserved
      BY <1>11, <2>3
    <3>. QED BY <1>2, <1>10, <2>2, <2>3, <2>4, <3>1, <3>2 DEF LineOK, Printable, Consumed, Printed
  <2>. QED BY <2>5, <2>6
<1>14. job'[j].status = "COMPLETED" => \A m \in DOMAIN after : after[m].status = "COMPLETED"
  BY <1>2, <1>1, <1>7, <1>8 DEF JobOK
<1>15. job'[j].status \in {"PENDING", "IN_PROGRESS", "COMPLETED"}
  BY DEF JobOK
<1>16. \A k \in DOMAIN BlankOf : Printed(j, k)' >= 0
  BY <1>11, PrintAssumption DEF JobOK
<1>17. JobOK(j)'
  BY <1>2, <1>3, <1>8, <1>13, <1>14, <1>15, <1>16 DEF JobOK
<1>18. job[j].status = "COMPLETED" => job'[j].status = "COMPLETED"
  OBVIOUS
<1>19. PICK zero \in Nat : zero <= 0
  OBVIOUS
<1>20. LessLeft(j, at, zero)
  BY <1>2, <1>1, <1>4, <1>7, <1>8, <1>9, <1>15, <1>18, <1>19 DEF LessLeft
<1>21. HoldsLess(j, at, zero)
  BY <1>17, <1>20, UsedUp
<1>22. \A i \in Items : PerBlank(job[j].lines, "remaining")[i] \in Int
  BY LinesCount, PerBlankValue
<1>23. ASSUME NEW i \in Items
       PROVE  PerBlank(job'[j].lines, "remaining")[i] = PerBlank(job[j].lines, "remaining")[i]
  <2>1. -zero = 0
    BY <1>19
  <2>2. (IF BlankOf[job[j].lines[at].sku] = i THEN -zero ELSE 0) = 0
    BY <2>1, Zenon
  <2>. QED BY <1>22, <1>21, <2>2 DEF HoldsLess
<1>. QED BY <1>17, <1>23, <1>21 DEF HoldsLess

\* A step that only moves its slot.
LEMMA SlotOnly ==
    ASSUME PInv, NEW s \in Requests, SlotsInv',
           \A t \in Requests \ {s} : request'[t] = request[t], PrintRequestOK(request'[s]),
           UNCHANGED <<stockVars, printVars>>
    PROVE  PInv'
<1>1. UNCHANGED <<stockVars, job, designs, worker, printTold, ordered>>
  BY DEF printVars
<1>2. \A j \in Jobs : job[j].status # "none" => Grew(j)
  BY <1>1, AllGrew DEF PInv
<1>3. PrintRequestOK(request[s])'
  BY <1>1 DEF PrintRequestOK
<1>4. \A t \in Requests : PrintRequestOK(request[t])'
  BY <1>2, <1>3, RequestsKept DEF PInv
<1>5. ToldOK' /\ WorkerOK' /\ designs' \subseteq Items
  BY <1>1, <1>2, ToldKept, WorkerKept DEF PInv
<1>. QED BY <1>1, <1>4, <1>5, QuietKeeps

LEMMA ConsumeReadKeeps ==
    ASSUME PInv, NEW s \in Requests, NEW j \in Jobs, NEW row \in Rows, NEW n \in 1..2,
           ConsumeRead(s, j, row, n)
    PROVE  PInv'
<1>1. PICK r : r = [at |-> "consume", job |-> j, row |-> row, n |-> n]
  OBVIOUS
<1>2. /\ Begin(s, r) /\ job[j].status # "none" /\ OnBlank(job[j].lines, row[1]) # {}
      /\ UNCHANGED <<stockVars, printVars>>
  BY <1>1 DEF ConsumeRead
<1>3. SlotsInv' /\ request'[s] = r /\ \A t \in Requests \ {s} : request'[t] = request[t]
  BY <1>2, SlotBegins DEF PInv
<1>4. r.at = "consume" /\ r.job = j /\ r.row = row /\ r.n = n /\ n \in Nat \ {0}
  BY <1>1
<1>5. PrintRequestOK(r)
  BY <1>2, <1>4 DEF PrintRequestOK
<1>. QED BY <1>2, <1>3, <1>5, SlotOnly

LEMMA CompleteReadKeeps ==
    ASSUME PInv, NEW s \in Requests, NEW j \in Jobs, NEW blank \in Items, NEW place \in Places,
           CompleteRead(s, j, blank, place)
    PROVE  PInv'
<1>1. PICK lines : lines = job[j].lines
  OBVIOUS
<1>2. PICK at : at = Min(OnBlank(lines, blank))
  OBVIOUS
<1>3. /\ job[j].status # "none" /\ OnBlank(lines, blank) # {}
      /\ lines[at].remaining <= 0 /\ lines[at].reserved >= 1
      /\ Begin(s, [at |-> "complete", job |-> j, line |-> at,
                   row |-> <<lines[at].sku, place, NoLot>>, n |-> lines[at].reserved])
      /\ UNCHANGED <<stockVars, printVars>>
  BY <1>1, <1>2 DEF CompleteRead, LineAt, Completable
<1>4. DOMAIN lines \subseteq DOMAIN Wanted[j] /\ \A n \in DOMAIN lines : Printable(lines[n])
  BY <1>1 DEF PInv, JobOK, LineOK
<1>5. at \in DOMAIN lines /\ First(lines, at)
  BY <1>2, <1>3, <1>4, FoundFirst
<1>6. lines[at].sku \in Items
  BY <1>4, <1>5, PrintAssumption DEF Printable
<1>7. PICK row : row = <<lines[at].sku, place, NoLot>>
  OBVIOUS
<1>8. row \in Rows /\ row[1] = lines[at].sku
  BY <1>6, <1>7 DEF Rows
<1>9. PICK r : r = [at |-> "complete", job |-> j, line |-> at, row |-> row, n |-> lines[at].reserved]
  OBVIOUS
<1>10. Begin(s, r)
  BY <1>3, <1>7, <1>9
<1>11. SlotsInv' /\ request'[s] = r /\ \A t \in Requests \ {s} : request'[t] = request[t]
  BY <1>10, SlotBegins DEF PInv
<1>12. r.at = "complete" /\ r.job = j /\ r.line = at /\ r.row = row /\ r.n = lines[at].reserved
  BY <1>9
<1>13. PrintRequestOK(r)
  BY <1>1, <1>3, <1>5, <1>8, <1>12 DEF PrintRequestOK
<1>. QED BY <1>3, <1>11, <1>13, SlotOnly

LEMMA PrintDieKeeps ==
    ASSUME PInv, NEW s \in Requests, Die(s), UNCHANGED printVars
    PROVE  PInv'
<1>1. Goto(s, Idle) /\ UNCHANGED <<stockVars, printVars>>
  BY DEF Die, Done
<1>2. SlotsInv' /\ request'[s] = Idle /\ \A t \in Requests \ {s} : request'[t] = request[t]
  BY <1>1, SlotGoesOn DEF PInv
<1>. QED BY <1>1, <1>2, IdleOK, SlotOnly

LEMMA CompletedTellKeeps ==
    ASSUME PInv, NEW s \in Requests, CompletedTell(s)
    PROVE  PInv'
<1>1. PICK r : r = request[s]
  OBVIOUS
<1>2. /\ r.at = "completed.tell" /\ Goto(s, Idle)
      /\ printTold' = [printTold EXCEPT !.completed = @ \cup {r.job}]
      /\ UNCHANGED <<stockVars, job, designs, worker, ordered>>
  BY <1>1 DEF CompletedTell, At, Done
<1>3. SlotsInv' /\ request'[s] = Idle /\ \A t \in Requests \ {s} : request'[t] = request[t]
  BY <1>2, SlotGoesOn DEF PInv
<1>4. r.job \in Jobs /\ job[r.job].status = "COMPLETED"
  <2>1. PrintRequestOK(r)
    BY <1>1 DEF PInv
  <2>. QED BY <1>2, <2>1 DEF PrintRequestOK, PrintSteps
<1>5. \A j \in Jobs : job[j].status # "none" => Grew(j)
  BY <1>2, AllGrew DEF PInv
<1>6. \A t \in Requests : PrintRequestOK(request[t])'
  <2>1. PrintRequestOK(request[s])'
    BY <1>3, IdleOK DEF PrintRequestOK, PrintSteps, Idle
  <2>. QED BY <1>3, <1>5, <2>1, RequestsKept DEF PInv
<1>7. ToldOK'
  <2>1. PICK job1 : job1 = r.job
    OBVIOUS
  <2>2. PICK c : c = printTold.completed
    OBVIOUS
  <2>3. printTold = [reserve |-> printTold.reserve, completed |-> c]
        /\ \A j \in c : j \in Jobs /\ job[j].status = "COMPLETED"
    BY <2>2 DEF PInv, ToldOK
  <2>4. printTold' = [reserve |-> printTold.reserve, completed |-> c \cup {job1}]
    BY <1>2, <2>1, <2>3
  <2>5. /\ printTold'.completed = c \cup {job1}
        /\ printTold' = [reserve |-> printTold'.reserve, completed |-> printTold'.completed]
    BY <2>4
  <2>. QED BY <1>2, <1>4, <2>1, <2>3, <2>5 DEF ToldOK
<1>8. WorkerOK' /\ designs' \subseteq Items
  BY <1>2, WorkerKept DEF PInv
<1>. QED BY <1>2, <1>3, <1>6, <1>7, <1>8, QuietKeeps

\* A job's scan is booked: its blank, or its design, alone moves.
ScanKeeps(s, j, next) ==
    /\ SlotsInv'
    /\ request'[s] = next
    /\ \A t \in Requests \ {s} : request'[t] = request[t]
    /\ job' = [k \in Jobs |-> job'[k]]
    /\ \A k \in Jobs \ {j} : job'[k] = job[k]
    /\ \A k \in Jobs \ {j} : moved'[k] = moved[k]
    /\ UNCHANGED <<designs, worker, printTold, ordered>>

LEMMA ScanCommits ==
    ASSUME PInv, NEW s \in Requests, NEW j \in Jobs, NEW next, ScanKeeps(s, j, next),
           job[j].status # "none", JobOK(j)', Grew(j), PrintRequestOK(next)', LedgerInv',
           NEW more \in ItemQty,
           \A i \in Items : Blank(i) =>
               /\ PerBlank(job'[j].lines, "remaining")[i]
                      = PerBlank(job[j].lines, "remaining")[i] + more[i]
               /\ balance[i].reserved \in Int
               /\ balance'[i].reserved = balance[i].reserved + more[i],
           \A i \in Items : balance[i].reserved \in Int
    PROVE  PInv'
<1>1. \A k \in Jobs : JobOK(k)'
  BY JobKept DEF ScanKeeps, PInv
<1>2. \A k \in Jobs : job[k].status # "none" => Grew(k)
  BY SameGrew DEF ScanKeeps, PInv
<1>3. \A t \in Requests : PrintRequestOK(request[t])'
  <2>1. PrintRequestOK(request[s])'
    BY DEF ScanKeeps, PrintRequestOK
  <2>. QED BY <1>2, <2>1, RequestsKept DEF ScanKeeps, PInv
<1>4. ordered \in [Items -> Int] /\ ordered' = ordered
  BY PrintAssumption DEF PInv, ScanKeeps
<1>5. HoldsAreAccounted'
  BY <1>1, <1>4, OneJobHolds DEF PInv, ScanKeeps
<1>6. \A k \in Jobs : job[k].status = "none" => job'[k].status = "none"
  BY DEF ScanKeeps
<1>7. WorkerOK' /\ ToldOK' /\ designs' \subseteq Items /\ ordered' \in [Items -> 0..MaxOrders]
  BY <1>2, <1>6, WorkerKept, ToldKept DEF PInv, ScanKeeps
<1>. QED BY <1>1, <1>3, <1>5, <1>7 DEF PInv, ScanKeeps

LEMMA ConsumeCommitKeeps ==
    ASSUME PInv, NEW s \in Requests, ConsumeCommit(s)
    PROVE  PInv'
<1>1. PICK r : r = request[s]
  OBVIOUS
<1>2. r.at = "consume" /\ PrintRequestOK(r)
  BY <1>1 DEF ConsumeCommit, At, PInv
<1>3. /\ r.job \in Jobs /\ job[r.job].status # "none" /\ r.row \in Rows /\ r.n \in Nat \ {0}
      /\ OnBlank(job[r.job].lines, r.row[1]) # {}
  BY <1>2 DEF PrintRequestOK, PrintSteps
<1>4. PICK j \in Jobs : j = r.job
  BY <1>3
<1>5. PICK row \in Rows : row = r.row
  BY <1>3
<1>6. PICK n \in Nat \ {0} : n = r.n
  BY <1>3
<1>7. PICK at : at = Min(OnBlank(job[j].lines, row[1]))
  OBVIOUS
<1>8. PICK lines : lines = ConsumedLine(job[j].lines, at, n)
  OBVIOUS
<1>9. PICK status : status = IF lines[at].remaining = 0 /\ job[j].status = "PENDING"
                             THEN "IN_PROGRESS" ELSE job[j].status
  OBVIOUS
<1>10. /\ UpsertInventory(At1(row, -n))
       /\ UpsertBalance(Only(row[1], -n), Only(row[1], -n), NoItem)
       /\ InsertMovements([x \in {j} |-> At1(row, -n)])
       /\ Goto(s, Idle)
       /\ UNCHANGED <<lot, told, designs, worker, printTold, ordered>>
  BY <1>1, <1>4, <1>5, <1>6 DEF ConsumeCommit, Done
<1>11. job' = [job EXCEPT ![j] = [status |-> status, lines |-> lines]]
  BY <1>1, <1>4, <1>5, <1>6, <1>7, <1>8, <1>9 DEF ConsumeCommit, LineAt
<1>12. /\ job'[j].status = status /\ job'[j].lines = lines
       /\ \A k \in Jobs \ {j} : job'[k] = job[k]
       /\ job' = [k \in Jobs |-> job'[k]]
  BY <1>11 DEF PInv
<1>13. PICK less \in Int : less = -n
  OBVIOUS
<1>14. LedgerInv' /\ RowBooked(j, row, less)
  BY <1>10, <1>13, BookRow DEF PInv
<1>15. /\ JobOK(j)' /\ Grew(j)
       /\ \A i \in Items : PerBlank(job'[j].lines, "remaining")[i]
              = PerBlank(job[j].lines, "remaining")[i] + (IF i = row[1] THEN -n ELSE 0)
  <2>1. JobOK(j) /\ job[j].status # "none" /\ OnBlank(job[j].lines, row[1]) # {}
    BY <1>3, <1>4, <1>5 DEF PInv
  <2>2. /\ status \in {job[j].status, "IN_PROGRESS"}
        /\ job[j].status = "COMPLETED" => status = "COMPLETED"
        /\ status = "COMPLETED" => job[j].status = "COMPLETED"
    BY <1>9
  <2>3. \A i \in Items : /\ Printed(j, i) \in Int
                         /\ Printed(j, i)' = Printed(j, i) + (IF i = row[1] THEN -n ELSE 0)
    BY <1>13, <1>14 DEF RowBooked
  <2>. QED BY <1>7, <1>8, <1>12, <2>1, <2>2, <2>3, ConsumedJobOK
<1>16. PICK more : more = Only(row[1], less)
  OBVIOUS
<1>17. more \in ItemQty /\ \A i \in Items : more[i] = IF i = row[1] THEN less ELSE 0
  BY <1>16 DEF Only, ItemQty
<1>18. ScanKeeps(s, j, Idle)
  <2>1. SlotsInv' /\ request'[s] = Idle /\ \A t \in Requests \ {s} : request'[t] = request[t]
    BY <1>10, SlotGoesOn DEF PInv
  <2>. QED BY <1>10, <1>12, <1>14, <2>1 DEF ScanKeeps, RowBooked
<1>19. PrintRequestOK(Idle)'
  BY DEF PrintRequestOK, PrintSteps, Idle
<1>20. \A i \in Items :
           /\ PerBlank(job'[j].lines, "remaining")[i] = PerBlank(job[j].lines, "remaining")[i] + more[i]
           /\ balance[i].reserved \in Int
           /\ balance'[i].reserved = balance[i].reserved + more[i]
  BY <1>13, <1>14, <1>15, <1>17 DEF RowBooked
<1>. QED BY <1>3, <1>4, <1>14, <1>15, <1>17, <1>18, <1>19, <1>20, ScanCommits

LEMMA CompleteCommitKeeps ==
    ASSUME PInv, NEW s \in Requests, CompleteCommit(s)
    PROVE  PInv'
<1>1. PICK r : r = request[s]
  OBVIOUS
<1>2. r.at = "complete" /\ PrintRequestOK(r)
  BY <1>1 DEF CompleteCommit, At, PInv
<1>3. /\ r.job \in Jobs /\ job[r.job].status # "none" /\ r.row \in Rows
      /\ r.line \in DOMAIN job[r.job].lines /\ First(job[r.job].lines, r.line)
      /\ job[r.job].lines[r.line].remaining <= 0
      /\ r.n = job[r.job].lines[r.line].reserved /\ r.n >= 1
      /\ r.row[1] = job[r.job].lines[r.line].sku
  BY <1>2 DEF PrintRequestOK, PrintSteps
<1>4. PICK j \in Jobs : j = r.job
  BY <1>3
<1>5. PICK row \in Rows : row = r.row
  BY <1>3
<1>6. PICK at \in DOMAIN job[j].lines : at = r.line
  BY <1>3, <1>4
<1>7. Printable(job[j].lines[at])
  BY DEF PInv, JobOK, LineOK
<1>8. PICK n \in Int : n = r.n
  BY <1>3, <1>4, <1>6, <1>7 DEF Printable, JobLines
<1>9. PICK lines : lines = [job[j].lines EXCEPT ![at].status = "COMPLETED"]
  OBVIOUS
<1>10. PICK allDone \in BOOLEAN : allDone <=> \A m \in DOMAIN lines : lines[m].status = "COMPLETED"
  OBVIOUS
<1>11. PICK status : status = IF allDone THEN "COMPLETED" ELSE job[j].status
  OBVIOUS
<1>12. PICK next : next = IF allDone THEN [at |-> "completed.tell", job |-> j] ELSE Idle
  OBVIOUS
<1>13. /\ UpsertInventory(At1(row, n))
       /\ UpsertBalance(Only(row[1], n), Only(row[1], n), NoItem)
       /\ InsertMovements([x \in {j} |-> At1(row, n)])
       /\ UNCHANGED <<lot, told, designs, worker, printTold, ordered>>
  BY <1>1, <1>4, <1>5, <1>8 DEF CompleteCommit
<1>14. job' = [job EXCEPT ![j] = [status |-> status, lines |-> lines]]
  BY <1>1, <1>4, <1>6, <1>9, <1>10, <1>11 DEF CompleteCommit
<1>15. Goto(s, next)
  BY <1>1, <1>4, <1>6, <1>9, <1>10, <1>12 DEF CompleteCommit, Done
<1>16. /\ job'[j].status = status /\ job'[j].lines = lines
       /\ \A k \in Jobs \ {j} : job'[k] = job[k]
       /\ job' = [k \in Jobs |-> job'[k]]
  BY <1>14 DEF PInv
<1>17. LedgerInv' /\ RowBooked(j, row, n)
  BY <1>13, BookRow DEF PInv
<1>18. JobOK(j) /\ job[j].status # "none" /\ row[1] = job[j].lines[at].sku /\ n >= 1
  BY <1>3, <1>4, <1>5, <1>6, <1>8 DEF PInv
<1>19. /\ JobOK(j)' /\ Grew(j)
       /\ \A i \in Items : PerBlank(job'[j].lines, "remaining")[i]
                               = PerBlank(job[j].lines, "remaining")[i]
  <2>1. /\ First(job[j].lines, at) /\ job[j].lines[at].remaining <= 0
        /\ n = job[j].lines[at].reserved
    BY <1>3, <1>4, <1>6, <1>8
  <2>2. \A i \in Items :
            /\ Printed(j, i) \in Int
            /\ Printed(j, i)' = Printed(j, i) + (IF i = job[j].lines[at].sku THEN n ELSE 0)
    BY <1>17, <1>18 DEF RowBooked
  <2>3. job'[j].status = IF \A m \in DOMAIN job'[j].lines : job'[j].lines[m].status = "COMPLETED"
                         THEN "COMPLETED" ELSE job[j].status
    BY <1>10, <1>11, <1>16
  <2>4. job'[j].lines = [job[j].lines EXCEPT ![at].status = "COMPLETED"]
    BY <1>9, <1>16
  <2>. QED BY <1>18, <2>1, <2>2, <2>3, <2>4, CompletedJobOK
<1>20. ScanKeeps(s, j, next)
  <2>1. SlotsInv' /\ request'[s] = next /\ \A t \in Requests \ {s} : request'[t] = request[t]
    BY <1>15, SlotGoesOn DEF PInv
  <2>. QED BY <1>13, <1>16, <1>17, <2>1 DEF ScanKeeps, RowBooked
<1>21. PrintRequestOK(next)'
  <2>1. CASE allDone
    <3>1. next.at = "completed.tell" /\ next.job = j /\ job'[j].status = "COMPLETED"
      BY <1>11, <1>12, <1>16, <2>1
    <3>. QED BY <3>1 DEF PrintRequestOK
  <2>2. CASE ~allDone
    BY <1>12, <2>2 DEF PrintRequestOK, PrintSteps, Idle
  <2>. QED BY <2>1, <2>2
<1>22. ASSUME NEW i \in Items, Blank(i)
       PROVE  /\ PerBlank(job'[j].lines, "remaining")[i]
                     = PerBlank(job[j].lines, "remaining")[i] + NoItem[i]
              /\ balance[i].reserved \in Int
              /\ balance'[i].reserved = balance[i].reserved + NoItem[i]
  <2>1. i # row[1]
    BY <1>7, <1>18, <1>22, DesignIsNoBlank DEF Printable
  <2>2. PerBlank(job[j].lines, "remaining")[i] \in Int
    BY <1>18, LinesCount, PerBlankValue
  <2>. QED BY <1>17, <1>19, <2>1, <2>2, NoneOfAny DEF RowBooked
<1>23. NoItem \in ItemQty /\ \A i \in Items : balance[i].reserved \in Int
  BY <1>17, NoneOfAny DEF RowBooked
<1>. QED BY <1>17, <1>18, <1>19, <1>20, <1>21, <1>22, <1>23, ScanCommits

----------------------------------------------------------------------------
\* The invariant and the theorems

LEMMA PInit == PrintingInit => PInv
<1>. SUFFICES ASSUME PrintingInit PROVE PInv
  OBVIOUS
<1>1. /\ job = [j \in Jobs |-> NoJob] /\ designs = {} /\ worker = Free
      /\ printTold = [reserve |-> {}, completed |-> {}] /\ ordered = NoItem
      /\ request = [s \in Requests |-> Idle] /\ left = MaxRequests
      /\ moved = [ref \in Refs |-> Nothing]
      /\ balance = [i \in Items |-> [onHand |-> PerItem(Inventory0)[i], reserved |-> 0, expired |-> 0]]
  BY DEF PrintingInit, PrintInit, RequestInit, StockInit
<1>2. LedgerInv
  BY LedgerStart DEF PrintingInit
<1>3. SlotsInv
  BY <1>1, PrintAssumption DEF SlotsInv
<1>4. ordered \in [Items -> 0..MaxOrders] /\ \A i \in Items : ordered[i] = 0
  BY <1>1, PrintAssumption DEF NoItem
<1>5. \A j \in Jobs : job[j].status = "none" /\ job[j].lines = <<>>
  BY <1>1 DEF NoJob
<1>6. \A j \in Jobs, i \in Items : Printed(j, i) = 0
  <2>1. Nothing \in RowQty /\ \A row \in Rows : Nothing[row] = 0
    BY DEF Nothing, RowQty
  <2>2. \A i \in Items : PerItem(Nothing)[i] = 0
    BY <2>1, PerItemZero DEF RowsOf
  <2>. QED BY <1>1, <2>2, PrintAssumption DEF Printed
<1>7. \A j \in Jobs : JobOK(j)
  <2>1. ASSUME NEW j \in Jobs
        PROVE  JobOK(j)
    <3>1. DOMAIN job[j].lines = {}
      BY <1>5
    <3>. QED BY <1>5, <1>6, <3>1, PrintAssumption DEF JobOK
  <2>. QED BY <2>1
<1>8. \A s \in Requests : PrintRequestOK(request[s])
  BY <1>1, IdleOK
<1>9. HoldsAreAccounted
  <2>1. ASSUME NEW i \in Items, Blank(i)
        PROVE  balance[i].reserved = ordered[i] + Total(Holds(i), Jobs)
    <3>1. \A j \in Jobs : Holds(i)[j] = 0
      BY <1>5, PerBlankOfNone DEF Holds
    <3>2. Total(Holds(i), Jobs) = 0
      BY <3>1, JobsFinite, TotalOfZeros
    <3>. QED BY <1>1, <1>4, <3>2
  <2>. QED BY <2>1, AccountedByJob DEF Accounted
<1>. QED BY <1>1, <1>2, <1>3, <1>4, <1>7, <1>8, <1>9 DEF PInv, WorkerOK, ToldOK

LEMMA PStep == PInv /\ [PrintNext]_printingVars => PInv'
<1>. SUFFICES ASSUME PInv, [PrintNext]_printingVars PROVE PInv'
  OBVIOUS
<1>1. CASE UNCHANGED printingVars
  <2>1. UNCHANGED <<stockVars, request, left, job, designs, worker, printTold, ordered>>
    BY <1>1 DEF printingVars, requestVars, printVars
  <2>2. ToldOK' /\ WorkerOK' /\ \A s \in Requests : PrintRequestOK(request[s])'
    BY <2>1, AllGrew, NoRequestMoves, ToldKept, WorkerKept DEF PInv
  <2>3. SlotsInv' /\ designs' \subseteq Items
    BY <2>1 DEF PInv, SlotsInv
  <2>. QED BY <2>1, <2>2, <2>3, QuietKeeps
<1>2. CASE \E j \in Jobs : PrintRequested(j)
  BY <1>2, PrintRequestedKeeps
<1>3. CASE PrintJobCreate \/ PrintJobTell \/ WorkerDies
  BY <1>3, PrintJobCreateKeeps, PrintJobTellKeeps, WorkerDiesKeeps
<1>4. CASE \E i \in Items : OrderReserves(i)
  BY <1>4, OrderReservesKeeps
<1>5. ASSUME NEW s \in Requests, PrintStep(s)
      PROVE  PInv'
  <2>1. CASE \E j \in Jobs, row \in Rows, n \in 1..2 : ConsumeRead(s, j, row, n)
    BY <2>1, ConsumeReadKeeps
  <2>2. CASE \E j \in Jobs, blank \in Items, place \in Places :
                Shelf[place] = place /\ CompleteRead(s, j, blank, place)
    BY <2>2, CompleteReadKeeps
  <2>3. CASE ConsumeCommit(s)
    BY <2>3, ConsumeCommitKeeps
  <2>4. CASE CompleteCommit(s)
    BY <2>4, CompleteCommitKeeps
  <2>5. CASE CompletedTell(s)
    BY <2>5, CompletedTellKeeps
  <2>6. CASE Die(s) /\ UNCHANGED printVars
    BY <2>6, PrintDieKeeps
  <2>. QED BY <1>5, <2>1, <2>2, <2>3, <2>4, <2>5, <2>6 DEF PrintStep
<1>. QED BY <1>1, <1>2, <1>3, <1>4, <1>5 DEF PrintNext

\* The inductive invariant holds of every state the print jobs reach.
THEOREM PrintInvariance == PrintingSpec => []PInv
BY PInit, PStep, PTL DEF PrintingSpec

LEMMA PInvTypes == PInv => PrintingTypeOK
<1>. SUFFICES ASSUME PInv PROVE PrintingTypeOK
  OBVIOUS
<1>1. \A j \in Jobs : JobOK(j)
  BY DEF PInv
<1>2. \A j \in Jobs : \A n \in DOMAIN job[j].lines : job[j].lines[n] \in JobLines
  BY <1>1 DEF JobOK, LineOK, Printable
<1>3. printTold.completed \subseteq Jobs
  BY DEF PInv, ToldOK
<1>4. PrintTypeOK
  BY <1>1, <1>2, <1>3 DEF PInv, JobOK, PrintTypeOK
<1>. QED BY <1>4 DEF PInv, LedgerInv, PrintingTypeOK

LEMMA PInvCompleted == PInv => CompletedIsPrinted
<1>. SUFFICES ASSUME PInv PROVE CompletedIsPrinted
  OBVIOUS
<1>1. ASSUME NEW j \in Jobs, NEW n \in DOMAIN job[j].lines, job[j].lines[n].status = "COMPLETED"
      PROVE  /\ Printed(j, job[j].lines[n].sku) >= job[j].lines[n].reserved
             /\ Printed(j, job[j].lines[n].sku) >= 1
             /\ -Printed(j, BlankOf[job[j].lines[n].sku]) >= job[j].lines[n].reserved
  <2>1. LineOK(j, n)
    BY DEF PInv, JobOK
  <2>2. PICK line \in JobLines : line = job[j].lines[n]
    BY <2>1 DEF LineOK, Printable
  <2>3. /\ First(job[j].lines, n)
        /\ Consumed(j, BlankOf[line.sku]) = line.reserved - line.remaining
        /\ line.remaining <= 0 /\ line.reserved >= 1 /\ Printed(j, line.sku) >= line.reserved
    BY <1>1, <2>1, <2>2 DEF LineOK
  <2>4. line.remaining \in Int /\ line.reserved \in Int
    BY DEF JobLines
  <2>5. line.reserved - line.remaining >= line.reserved
    BY <2>3, <2>4
  <2>6. line.sku \in Items /\ Printed(j, line.sku) \in Int
    <3>1. line.sku \in Items
      BY DEF JobLines
    <3>2. moved[j] \in RowQty
      BY PrintAssumption DEF PInv, LedgerInv, StockTypeOK, RowQty
    <3>. QED BY <3>1, <3>2, PerItemValue DEF Printed
  <2>7. Printed(j, line.sku) >= 1
    BY <2>3, <2>4, <2>6
  <2>. QED BY <2>2, <2>3, <2>5, <2>7 DEF Consumed
<1>2. ASSUME NEW j \in printTold.completed
      PROVE  /\ job[j].status = "COMPLETED"
             /\ \A n \in Lines(j) : Printed(j, job[j].lines[n].sku) >= 1
  <2>1. j \in Jobs /\ job[j].status = "COMPLETED"
    BY DEF PInv, ToldOK
  <2>2. \A n \in DOMAIN job[j].lines : job[j].lines[n].status = "COMPLETED"
    BY <2>1 DEF PInv, JobOK
  <2>. QED BY <1>1, <2>1, <2>2 DEF Lines
<1>. QED BY <1>1, <1>2 DEF CompletedIsPrinted, Lines

\* The ledger, the jobs and the queues have the types the schemas give them.
THEOREM PrintTypeCorrect == PrintingSpec => []PrintingTypeOK
BY PrintInvariance, PInvTypes, PTL

\* However the worker, the printer's scans and the orders interleave, and wherever a
\* process dies, the balance of a blank reserves what orders asked for and what the jobs
\* still have to use up, and nothing else.
THEOREM HoldsAreAlwaysAccounted == PrintingSpec => []HoldsAreAccounted
<1>1. PInv => HoldsAreAccounted
  BY DEF PInv
<1>. QED BY <1>1, PrintInvariance, PTL

\* A line is COMPLETED only when its cups are booked and its blanks used up, and the shop
\* hears print.completed only of a job that is printed.
THEOREM CompletedIsAlwaysPrinted == PrintingSpec => []CompletedIsPrinted
BY PrintInvariance, PInvCompleted, PTL

\* The printer's scans, too, leave the shelves, the balances and the movements agreeing.
THEOREM PrintBooksAlwaysAgree == PrintingSpec => []BooksAgree
<1>1. PInv => BooksAgree
  BY DEF PInv, LedgerInv
<1>. QED BY <1>1, PrintInvariance, PTL

=============================================================================
