----------------------- MODULE OrderLifecycle_proofs -----------------------
(***************************************************************************)
(* Theorems about OrderLifecycle, for any orders, callers, kinds, amounts  *)
(* paid by hand, numbers of attempts and words of the warehouse.           *)
(*                                                                         *)
(* A handler writes what it decided on a document read steps ago.  That    *)
(* this settles no order that nobody paid rests on two facts: the ledger   *)
(* and the inbox only grow, so what they backed when a handler read they   *)
(* back when it writes; and every handler's copies are backed, as the      *)
(* document itself is.                                                     *)
(***************************************************************************)
EXTENDS OrderLifecycle, TLAPS

\* What a document claims of an order is true of its ledger and inbox.
Backed(d, o) ==
    /\ d.payment \in {"PAID", "REFUND_PENDING"} => Collected(o) >= 99
    /\ d.status = "CLOSED" /\ doc[o].method = "COD" => Collected(o) >= 100
    /\ d.fulfillment = "SAMPLE_PRINTED" => "print.sample" \in inbox[o]
    /\ d.status = "CONFIRMED" =>
           Collected(o) > 0 \/ (doc[o].method = "COD" /\ "stock.reserved" \in inbox[o])

\* Nothing is sent, printed or heard of an order before its checkout.
Fresh(o) ==
    doc[o].status = "none" =>
        /\ \A job \in ShopJobs : sent[o][job] = 0
        /\ printAsked[o] = {}
        /\ inbox[o] = {}

\* What the warehouse said had a cause.
Heard(o) ==
    /\ inbox[o] \cap Picked # {} => sent[o]["order.ready_to_fulfill"] > 0
    /\ "print.full" \in inbox[o] => "full" \in printAsked[o]

\* Only orders with printed items are printed, and they are paid through the gateway.
Prepaid(o) ==
    /\ doc[o].prints => doc[o].method # "COD"
    /\ printAsked[o] # {} => doc[o].prints

PaySteps == {"pay.append", "pay.list", "pay.write", "pay.emit"}

\* What a handler that is about to write has decided follows from what it read and
\* what is in the ledger.
Decided(seen, next, o) ==
    /\ next.status # "none"
    /\ Backed(next, o)
    /\ next.payment = "DEPOSIT_PAID" /\ seen.payment # "DEPOSIT_PAID" /\ ~seen.prints
         => Collected(o) >= 49
    /\ next.fulfillment = "AWAITING_PRINT" /\ seen.fulfillment = "SAMPLE_PRINTED"
         => Collected(o) >= 59

\* What holds of a handler between two of its steps.
RunOK(r) ==
    LET o == r.order IN
    r.at # "idle" =>
      /\ o \in Orders
      /\ doc[o].status # "none"
      /\ r.task \in Messages => r.task \in inbox[o]
      /\ r.at \in Messages => r.task = r.at
      /\ r.at = "reserved.emit" => r.task = "stock.reserved" /\ doc[o].method = "COD"
      /\ r.at \in {"printed.write", "printed.emit"} => r.task = "print.full"
      /\ Backed(r.seen, o)
      /\ r.at \in PaySteps =>
            /\ r.seen.method = doc[o].method
            /\ r.seen.prints = doc[o].prints
            /\ r.seen.status # "none"
            /\ r.task \in Phases \cup {"manual"}
      /\ r.at = "pay" => r.task \in Phases \cup {"manual"}
      /\ r.at = "pay.list" => Collected(o) > 0
      /\ r.at \in {"pay.write", "pay.emit"} => Decided(r.seen, r.next, o)
      /\ r.at = "delivered.append" => Collected(o) + r.due >= 100
      /\ r.at = "delivered.write" /\ doc[o].method = "COD" => Collected(o) >= 100

\* What holds of an order.
OrderOK(o) ==
    /\ Fresh(o)
    /\ Heard(o)
    /\ Prepaid(o)
    /\ Backed(doc[o], o)

IInv ==
    /\ TypeOK
    /\ \A o \in Orders : OrderOK(o)
    /\ \A p \in Callers : RunOK(run[p])
    /\ ReadyIsEarned
    /\ FullRunIsEarned

----------------------------------------------------------------------------
\* Lemmas about the operators

\* The ledger's sum is a number, before a step and after it.
LEMMA CollectedNat ==
    ASSUME ledger \in [Orders -> [TxnIds -> Nat]], NEW o \in Orders
    PROVE  Collected(o) \in Nat
BY DEF Collected, TxnIds, Phases

LEMMA CollectedNatNext ==
    ASSUME ledger' \in [Orders -> [TxnIds -> Nat]], NEW o \in Orders
    PROVE  Collected(o)' \in Nat
BY DEF Collected, TxnIds, Phases

\* What a decision makes of a document it read: statuses it sets are covered by the
\* sum it was made on, and the others are those that were read.
LEMMA DecideFacts ==
    ASSUME NEW d \in Doc, NEW paid \in Nat
    PROVE  LET n == Decide(d, paid) IN
           /\ n \in Doc
           /\ d.status # "none" => n.status # "none"
           /\ n.status = "CLOSED" => d.status = "CLOSED"
           /\ n.payment \in {"PAID", "REFUND_PENDING"} => paid >= 99 \/ n.payment = d.payment
           /\ n.fulfillment = "SAMPLE_PRINTED" => d.fulfillment = "SAMPLE_PRINTED"
           /\ n.fulfillment = "DELIVERED" => d.fulfillment = "DELIVERED"
           /\ n.payment = "DEPOSIT_PAID" /\ d.payment # "DEPOSIT_PAID" /\ ~d.prints => paid >= 49
           /\ n.fulfillment = "AWAITING_PRINT" /\ d.fulfillment = "SAMPLE_PRINTED" => paid >= 59
<1>. DEFINE n == Decide(d, paid)
            f == d.fulfillment
<1>1. CASE d.prints /\ paid >= 99
  <2>1. PICK g : g = IF f = "READY_TO_PICK" THEN "ISSUED" ELSE f
    OBVIOUS
  <2>2. n = [d EXCEPT !.payment = "PAID", !.status = "CONFIRMED", !.fulfillment = g]
    BY <1>1, <2>1 DEF Decide
  <2>3. g \in Fulfillments /\ (g = f \/ g = "ISSUED")
    BY <2>1 DEF Doc, Fulfillments
  <2>4. n \in Doc /\ n.payment = "PAID" /\ n.status = "CONFIRMED" /\ n.fulfillment = g
    BY <2>2, <2>3 DEF Doc, Payments
  <2>. QED BY <2>3, <2>4, <1>1
<1>2. CASE d.prints /\ ~(paid >= 99) /\ paid >= 59
  <2>1. PICK g : g = IF f = "SAMPLE_PRINTED" THEN "AWAITING_PRINT" ELSE f
    OBVIOUS
  <2>2. PICK reopened : reopened = IF d.status = "CANCELLED" THEN "CONFIRMED" ELSE d.status
    OBVIOUS
  <2>3. PICK e : e = [d EXCEPT !.status = IF @ = "CANCELLED" THEN "CONFIRMED" ELSE @]
    OBVIOUS
  <2>4. g \in Fulfillments /\ g # "SAMPLE_PRINTED" /\ (g = f \/ g = "AWAITING_PRINT")
    BY <2>1 DEF Doc, Fulfillments
  <2>5. /\ reopened \in {"none", "PLACED", "CONFIRMED", "CANCELLED", "CLOSED"}
        /\ reopened = d.status \/ reopened = "CONFIRMED"
    BY <2>2 DEF Doc
  <2>6. e \in Doc /\ e.status = reopened
    BY <2>2, <2>3, <2>5 DEF Doc
  <2>7. n = [e EXCEPT !.payment = "PROGRESS_PAID", !.fulfillment = g]
    BY <1>2, <2>1, <2>2, <2>3 DEF Decide
  <2>8. n \in Doc /\ n.payment = "PROGRESS_PAID" /\ n.status = reopened /\ n.fulfillment = g
    BY <2>4, <2>6, <2>7 DEF Doc, Payments
  <2>. QED BY <2>4, <2>5, <2>8, <1>2
<1>3. CASE d.prints /\ ~(paid >= 99) /\ ~(paid >= 59) /\ paid >= 29
  <2>1. PICK g : g = IF f = "NONE" THEN "AWAITING_PRINT" ELSE f
    OBVIOUS
  <2>2. n = [d EXCEPT !.payment = "DEPOSIT_PAID", !.status = "CONFIRMED", !.fulfillment = g]
    BY <1>3, <2>1 DEF Decide
  <2>3. g \in Fulfillments /\ (f = "SAMPLE_PRINTED" => g = f) /\ (g = f \/ g = "AWAITING_PRINT")
    BY <2>1 DEF Doc, Fulfillments
  <2>4. n \in Doc /\ n.payment = "DEPOSIT_PAID" /\ n.status = "CONFIRMED" /\ n.fulfillment = g
    BY <2>2, <2>3 DEF Doc, Payments
  <2>. QED BY <2>3, <2>4, <1>3
<1>4. CASE ~d.prints /\ paid >= 99
  <2>1. n = [d EXCEPT !.payment = "PAID", !.status = "CONFIRMED", !.fulfillment = "ISSUED"]
    BY <1>4 DEF Decide
  <2>2. n \in Doc /\ n.payment = "PAID" /\ n.status = "CONFIRMED" /\ n.fulfillment = "ISSUED"
    BY <2>1 DEF Doc, Payments, Fulfillments
  <2>. QED BY <2>2, <1>4
<1>5. CASE ~d.prints /\ ~(paid >= 99) /\ paid >= 49
  <2>1. n = [d EXCEPT !.payment = "DEPOSIT_PAID", !.status = "CONFIRMED",
                      !.fulfillment = "READY_TO_PICK"]
    BY <1>5 DEF Decide
  <2>2. n \in Doc /\ n.payment = "DEPOSIT_PAID" /\ n.status = "CONFIRMED" /\ n.fulfillment = "READY_TO_PICK"
    BY <2>1 DEF Doc, Payments, Fulfillments
  <2>. QED BY <2>2, <1>5
<1>6. CASE \/ d.prints /\ ~(paid >= 99) /\ ~(paid >= 59) /\ ~(paid >= 29)
           \/ ~d.prints /\ ~(paid >= 99) /\ ~(paid >= 49)
  <2>1. PICK reopened : reopened = IF d.status = "CANCELLED" THEN "CONFIRMED" ELSE d.status
    OBVIOUS
  <2>2. n = [d EXCEPT !.status = reopened]
    BY <1>6, <2>1 DEF Decide
  <2>. QED BY <2>1, <2>2, <1>6 DEF Doc, Methods, Payments, Fulfillments
<1>. QED BY <1>1, <1>2, <1>3, <1>4, <1>5, <1>6

\* The amount of a phase is positive.
LEMMA AmountPositive ==
    ASSUME NEW d, NEW n
    PROVE  Amount(d, n) \in Nat \ {0}
BY DEF Amount

----------------------------------------------------------------------------
\* What grows

\* An order's ledger and inbox only grow, and its kind is settled at its checkout.
Grows(o) ==
    /\ doc'[o].method = doc[o].method
    /\ doc'[o].prints = doc[o].prints
    /\ doc'[o].status # "none"
    /\ Collected(o)' \in Nat /\ Collected(o) \in Nat
    /\ Collected(o)' >= Collected(o)
    /\ inbox[o] \subseteq inbox'[o]

\* What was backed stays backed.
LEMMA BackedStable ==
    ASSUME NEW o \in Orders, Grows(o), NEW d, Backed(d, o)
    PROVE  Backed(d, o)'
BY DEF Backed, Grows

LEMMA DecidedStable ==
    ASSUME NEW o \in Orders, Grows(o), NEW seen, NEW next, Decided(seen, next, o)
    PROVE  Decided(seen, next, o)'
BY BackedStable DEF Decided, Grows

\* What holds of a handler is not disturbed by what others do to its order.
LEMMA RunStable ==
    ASSUME NEW r \in Runs, RunOK(r),
           \A o \in Orders : doc[o].status # "none" => Grows(o)
    PROVE  RunOK(r)'
<1>. SUFFICES ASSUME r.at # "idle"
     PROVE  RunOK(r)'
  BY DEF RunOK
<1>1. PICK o \in Orders : o = r.order
  BY DEF RunOK
<1>2. Grows(o)
  BY <1>1 DEF RunOK
<1>3. Backed(r.seen, o)'
  BY <1>1, <1>2, BackedStable DEF RunOK
<1>4. r.at \in {"pay.write", "pay.emit"} => Decided(r.seen, r.next, o)'
  BY <1>1, <1>2, DecidedStable DEF RunOK
<1>5. r.due \in 0..100
  BY DEF Runs
<1>6. /\ r.at = "delivered.append" => Collected(o)' + r.due >= 100
      /\ r.at = "delivered.write" /\ doc'[o].method = "COD" => Collected(o)' >= 100
  BY <1>1, <1>2, <1>5 DEF RunOK, Grows
<1>. QED BY <1>1, <1>2, <1>3, <1>4, <1>6 DEF RunOK, Grows

\* A step of one handler keeps what holds of all of them.
LEMMA RunsKept ==
    ASSUME run \in [Callers -> Runs], \A q \in Callers : RunOK(run[q]),
           NEW p \in Callers, NEW r \in Runs, run' = [run EXCEPT ![p] = r], RunOK(r)',
           \A o \in Orders : doc[o].status # "none" => Grows(o)
    PROVE  /\ run' \in [Callers -> Runs]
           /\ \A q \in Callers : RunOK(run[q])'
<1>1. run' \in [Callers -> Runs]
  OBVIOUS
<1>2. ASSUME NEW q \in Callers
      PROVE  RunOK(run[q])'
  <2>1. PICK s \in Runs : s = run'[q]
    BY <1>1
  <2>2. RunOK(s)'
    <3>1. CASE q = p
      <4>1. s = r
        BY <2>1, <3>1
      <4>. QED BY <4>1
    <3>2. CASE q # p
      <4>1. s = run[q]
        BY <2>1, <3>2
      <4>2. RunOK(s)
        BY <4>1
      <4>. QED BY <4>2, RunStable
    <3>. QED BY <3>1, <3>2
  <2>. QED BY <2>1, <2>2 DEF RunOK
<1>. QED BY <1>1, <1>2

----------------------------------------------------------------------------
\* The kinds of step

\* What no handler's step but the moves of its own counters changes.
Counted ==
    /\ link' \in [Orders -> [Phases -> {"none", "open", "paid", "cancelled"}]]
    /\ left' \in [Orders -> [Messages \cup {"auto.cancel"} -> 0..MaxAttempts]]
    /\ requests' \in 0..MaxRequests

\* A step that touches nothing the invariant tells of an order.
LEMMA QuietStep ==
    ASSUME IInv, Counted, UNCHANGED <<doc, ledger, sent, printAsked, inbox>>,
           run' \in [Callers -> Runs],
           \A q \in Callers : RunOK(run[q])'
    PROVE  IInv'
<1>1. TypeOK'
  BY DEF IInv, TypeOK, Counted
<1>2. ASSUME NEW o \in Orders
      PROVE  OrderOK(o)'
  <2>1. OrderOK(o)
    BY DEF IInv
  <2>. QED BY <2>1 DEF OrderOK, Fresh, Heard, Prepaid, Backed, Collected
<1>3. ReadyIsEarned'
  BY DEF IInv, ReadyIsEarned, Collected
<1>4. FullRunIsEarned'
  BY DEF IInv, FullRunIsEarned, Collected
<1>. QED BY <1>1, <1>2, <1>3, <1>4 DEF IInv

\* With nothing written, sent or said every order grows.
LEMMA QuietGrows ==
    ASSUME TypeOK, UNCHANGED <<doc, ledger, inbox>>, NEW o \in Orders, doc[o].status # "none"
    PROVE  Grows(o)
<1>1. Collected(o) \in Nat
  BY CollectedNat DEF TypeOK
<1>2. Collected(o)' = Collected(o)
  BY DEF Collected
<1>. QED BY <1>1, <1>2 DEF Grows

\* One handler moves on to r, and nothing the invariant tells of an order changes.
LEMMA QuietMove ==
    ASSUME IInv, Counted, UNCHANGED <<doc, ledger, sent, printAsked, inbox>>,
           NEW p \in Callers, NEW r \in Runs, RunOK(r), run' = [run EXCEPT ![p] = r]
    PROVE  IInv'
<1>1. \A o \in Orders : doc[o].status # "none" => Grows(o)
  BY QuietGrows DEF IInv
<1>2. RunOK(r)'
  BY <1>1, RunStable
<1>3. /\ run' \in [Callers -> Runs]
      /\ \A q \in Callers : RunOK(run[q])'
  BY <1>1, <1>2, RunsKept DEF IInv, TypeOK
<1>. QED BY <1>3, QuietStep

\* One handler writes a document that is backed and moves on to r.
LEMMA DocStep ==
    ASSUME IInv, Counted, UNCHANGED <<ledger, sent, printAsked, inbox>>,
           NEW p \in Callers, NEW r \in Runs, RunOK(r), run' = [run EXCEPT ![p] = r],
           NEW o \in Orders, NEW d \in Doc, doc' = [doc EXCEPT ![o] = d],
           doc[o].status # "none", d.status # "none",
           d.method = doc[o].method, d.prints = doc[o].prints, Backed(d, o)
    PROVE  IInv'
<1>1. doc' \in [Orders -> Doc] /\ doc'[o] = d /\ \A x \in Orders \ {o} : doc'[x] = doc[x]
  BY DEF IInv, TypeOK
<1>2. ASSUME NEW x \in Orders
      PROVE  Collected(x)' = Collected(x) /\ Collected(x) \in Nat
  BY CollectedNat DEF Collected, IInv, TypeOK
<1>3. \A x \in Orders : doc[x].status # "none" => Grows(x)
  BY <1>1, <1>2 DEF Grows
<1>4. RunOK(r)'
  BY <1>3, RunStable
<1>5. /\ run' \in [Callers -> Runs]
      /\ \A q \in Callers : RunOK(run[q])'
  BY <1>3, <1>4, RunsKept DEF IInv, TypeOK
<1>6. TypeOK'
  BY <1>1, <1>5 DEF IInv, TypeOK, Counted
<1>7. \A x \in Orders : doc'[x].method = doc[x].method /\ doc'[x].prints = doc[x].prints
  BY <1>1
<1>8. ASSUME NEW x \in Orders
      PROVE  OrderOK(x)'
  <2>1. OrderOK(x)
    BY DEF IInv
  <2>2. Fresh(x)'
    BY <1>1, <2>1 DEF OrderOK, Fresh
  <2>3. Heard(x)' /\ Prepaid(x)'
    BY <1>7, <2>1 DEF OrderOK, Heard, Prepaid
  <2>4. Backed(doc[x], x)'
    BY <1>1, <1>2, <1>7, <2>1 DEF OrderOK, Backed
  <2>. QED BY <2>2, <2>3, <2>4 DEF OrderOK
<1>9. ReadyIsEarned'
  BY <1>2, <1>7 DEF IInv, ReadyIsEarned
<1>10. FullRunIsEarned'
  BY <1>2 DEF IInv, FullRunIsEarned
<1>. QED BY <1>5, <1>6, <1>8, <1>9, <1>10 DEF IInv

\* One handler adds jobs to the queues, each of them earned, and moves on to r.
LEMMA SendStep ==
    ASSUME IInv, Counted, UNCHANGED <<doc, ledger, inbox>>,
           NEW p \in Callers, NEW r \in Runs, RunOK(r), run' = [run EXCEPT ![p] = r],
           NEW o \in Orders, doc[o].status # "none",
           NEW job \in ShopJobs, sent' = sent \/ sent' = [sent EXCEPT ![o][job] = @ + 1],
           NEW asked \in SUBSET {"sample", "full"},
           printAsked' = [printAsked EXCEPT ![o] = @ \cup asked],
           job = "order.ready_to_fulfill" /\ sent' # sent =>
               IF doc[o].method = "ONLINE" \/ doc[o].prints
               THEN Collected(o) >= 99
               ELSE "stock.reserved" \in inbox[o] \/ Collected(o) >= 49,
           asked # {} => doc[o].prints,
           "full" \in asked => "print.sample" \in inbox[o] /\ Collected(o) >= 59
    PROVE  IInv'
<1>1. /\ sent' \in [Orders -> [ShopJobs -> Nat]]
      /\ \A x \in Orders, j \in ShopJobs : sent'[x][j] >= sent[x][j]
      /\ \A x \in Orders, j \in ShopJobs : sent'[x][j] # sent[x][j] =>
             x = o /\ j = job /\ sent' # sent
  <2>1. sent \in [Orders -> [ShopJobs -> Nat]]
    BY DEF IInv, TypeOK
  <2>2. CASE sent' = sent
    BY <2>1, <2>2
  <2>3. CASE sent' = [sent EXCEPT ![o][job] = @ + 1]
    <3>1. /\ sent'[o] = [sent[o] EXCEPT ![job] = sent[o][job] + 1]
          /\ \A x \in Orders \ {o} : sent'[x] = sent[x]
          /\ sent' \in [Orders -> [ShopJobs -> Nat]]
      BY <2>1, <2>3
    <3>2. \A j \in ShopJobs : IF j = job THEN sent'[o][j] = sent[o][j] + 1 ELSE sent'[o][j] = sent[o][j]
      BY <2>1, <3>1
    <3>3. \A x \in Orders, j \in ShopJobs : sent'[x][j] # sent[x][j] => x = o /\ j = job
      BY <3>1, <3>2
    <3>. QED BY <2>1, <3>1, <3>2, <3>3
  <2>. QED BY <2>2, <2>3
<1>2. /\ printAsked' \in [Orders -> SUBSET {"sample", "full"}]
      /\ printAsked'[o] = printAsked[o] \cup asked
      /\ \A x \in Orders \ {o} : printAsked'[x] = printAsked[x]
  BY DEF IInv, TypeOK
<1>3. \A x \in Orders : doc[x].status # "none" => Grows(x)
  BY QuietGrows DEF IInv
<1>4. RunOK(r)'
  BY <1>3, RunStable
<1>5. /\ run' \in [Callers -> Runs]
      /\ \A q \in Callers : RunOK(run[q])'
  BY <1>3, <1>4, RunsKept DEF IInv, TypeOK
<1>6. TypeOK'
  BY <1>1, <1>2, <1>5 DEF IInv, TypeOK, Counted
<1>7. ASSUME NEW x \in Orders
      PROVE  Collected(x)' = Collected(x)
  BY DEF Collected
<1>8. ASSUME NEW x \in Orders
      PROVE  OrderOK(x)'
  <2>1. OrderOK(x)
    BY DEF IInv
  <2>2. Fresh(x)'
    BY <1>1, <1>2, <2>1 DEF OrderOK, Fresh
  <2>3. sent[x]["order.ready_to_fulfill"] \in Nat /\ sent'[x]["order.ready_to_fulfill"] \in Nat
    BY <1>1 DEF IInv, TypeOK, ShopJobs
  <2>4. sent[x]["order.ready_to_fulfill"] > 0 => sent'[x]["order.ready_to_fulfill"] > 0
    BY <1>1, <2>3 DEF ShopJobs
  <2>5. printAsked[x] \subseteq printAsked'[x]
    BY <1>2
  <2>6. Heard(x)'
    BY <2>1, <2>4, <2>5 DEF OrderOK, Heard
  <2>7. Prepaid(x)'
    BY <1>2, <2>1 DEF OrderOK, Prepaid
  <2>8. Backed(doc[x], x)'
    BY <1>7, <2>1 DEF OrderOK, Backed
  <2>. QED BY <2>2, <2>6, <2>7, <2>8 DEF OrderOK
<1>9. ReadyIsEarned'
  BY <1>1, <1>7 DEF IInv, ReadyIsEarned, ShopJobs
<1>10. FullRunIsEarned'
  BY <1>2, <1>7 DEF IInv, FullRunIsEarned
<1>. QED BY <1>5, <1>6, <1>8, <1>9, <1>10 DEF IInv

\* A new row in the ledger adds to the order's sum.
LEMMA RowAdds ==
    ASSUME IInv, UNCHANGED <<doc, inbox>>,
           NEW o \in Orders, NEW id \in TxnIds, NEW amount \in Nat,
           ledger[o][id] = 0, ledger' = [ledger EXCEPT ![o][id] = amount]
    PROVE  /\ ledger' \in [Orders -> [TxnIds -> Nat]]
           /\ Collected(o)' = Collected(o) + amount
           /\ \A x \in Orders : /\ Collected(x) \in Nat /\ Collected(x)' \in Nat
                                /\ Collected(x)' >= Collected(x)
           /\ \A x \in Orders : doc[x].status # "none" => Grows(x)
<1>1. ledger' \in [Orders -> [TxnIds -> Nat]]
  BY DEF IInv, TypeOK
<1>2. Collected(o)' = Collected(o) + amount
  <2>1. PICK l, k : l = ledger[o] /\ k = ledger'[o]
    OBVIOUS
  <2>2. l \in [TxnIds -> Nat] /\ k = [l EXCEPT ![id] = amount] /\ l[id] = 0
    BY <2>1 DEF IInv, TypeOK
  <2>3. k["D1"] + k["D2"] + k["D3"] + k["manual"] + k["cod"] =
        l["D1"] + l["D2"] + l["D3"] + l["manual"] + l["cod"] + amount
    BY <2>2 DEF TxnIds, Phases
  <2>. QED BY <2>1, <2>3 DEF Collected
<1>3. ASSUME NEW x \in Orders
      PROVE  /\ Collected(x) \in Nat /\ Collected(x)' \in Nat
             /\ Collected(x)' >= Collected(x)
  <2>1. Collected(x) \in Nat /\ Collected(x)' \in Nat
    BY <1>1, CollectedNat, CollectedNatNext DEF IInv, TypeOK
  <2>2. CASE x = o
    BY <1>2, <2>1, <2>2
  <2>3. CASE x # o
    <3>1. ledger'[x] = ledger[x]
      BY <2>3 DEF IInv, TypeOK
    <3>. QED BY <2>1, <3>1 DEF Collected
  <2>. QED BY <2>1, <2>2, <2>3
<1>4. \A x \in Orders : doc[x].status # "none" => Grows(x)
  BY <1>3 DEF Grows
<1>. QED BY <1>1, <1>2, <1>3, <1>4

\* One handler adds a row to the ledger and moves on to r.
LEMMA LedgerStep ==
    ASSUME IInv, Counted, UNCHANGED <<doc, sent, printAsked, inbox>>,
           NEW p \in Callers, NEW r \in Runs, RunOK(r)', run' = [run EXCEPT ![p] = r],
           NEW o \in Orders, NEW id \in TxnIds, NEW amount \in Nat,
           ledger[o][id] = 0, ledger' = [ledger EXCEPT ![o][id] = amount]
    PROVE  IInv'
<1>1. ledger' \in [Orders -> [TxnIds -> Nat]]
  BY RowAdds
<1>2. \A x \in Orders : /\ Collected(x) \in Nat /\ Collected(x)' \in Nat
                        /\ Collected(x)' >= Collected(x)
  BY RowAdds
<1>3. \A x \in Orders : doc[x].status # "none" => Grows(x)
  BY RowAdds
<1>4. /\ run' \in [Callers -> Runs]
      /\ \A q \in Callers : RunOK(run[q])'
  BY <1>3, RunsKept DEF IInv, TypeOK
<1>5. TypeOK'
  BY <1>1, <1>4 DEF IInv, TypeOK, Counted
<1>6. ASSUME NEW x \in Orders
      PROVE  OrderOK(x)'
  <2>1. OrderOK(x)
    BY DEF IInv
  <2>2. Fresh(x)' /\ Heard(x)' /\ Prepaid(x)'
    BY <2>1 DEF OrderOK, Fresh, Heard, Prepaid
  <2>3. Backed(doc[x], x)'
    BY <1>2, <2>1 DEF OrderOK, Backed
  <2>. QED BY <2>2, <2>3 DEF OrderOK
<1>7. ReadyIsEarned'
  BY <1>2 DEF IInv, ReadyIsEarned
<1>8. FullRunIsEarned'
  BY <1>2 DEF IInv, FullRunIsEarned
<1>. QED BY <1>4, <1>5, <1>6, <1>7, <1>8 DEF IInv

----------------------------------------------------------------------------
\* The steps of the handlers

\* A handler that runs has an order that was checked out.
LEMMA BusyFacts ==
    ASSUME IInv, NEW p \in Callers, ~At(p, "idle")
    PROVE  /\ run[p] \in Runs
           /\ RunOK(run[p])
           /\ run[p].order \in Orders
           /\ doc[run[p].order] \in Doc
           /\ doc[run[p].order].status # "none"
           /\ Collected(run[p].order) \in Nat
           /\ OrderOK(run[p].order)
<1>1. run[p] \in Runs /\ RunOK(run[p])
  BY DEF IInv, TypeOK
<1>2. run[p].order \in Orders /\ doc[run[p].order].status # "none"
  BY <1>1 DEF RunOK, At
<1>. QED BY <1>1, <1>2, CollectedNat DEF IInv, TypeOK

\* An idle handler promises nothing.
LEMMA IdleOK == Idle \in Runs /\ RunOK(Idle)
<1>1. NewDoc \in Doc
  BY DEF NewDoc, Doc, Methods, Payments, Fulfillments
<1>2. "cancel" \in Tasks
  BY DEF Tasks
<1>3. Idle \in Runs
  BY <1>1, <1>2 DEF Steps, Idle, Runs
<1>. QED BY <1>3 DEF RunOK, Idle

\* What returning from a handler does.
LEMMA Returned ==
    ASSUME TypeOK, NEW p \in Callers, Return(p)
    PROVE  /\ run' = [run EXCEPT ![p] = Idle]
           /\ left' \in [Orders -> [Messages \cup {"auto.cancel"} -> 0..MaxAttempts]]
<1>1. MaxAttempts \in Nat
  BY LifecycleAssumption
<1>2. left \in [Orders -> [Messages \cup {"auto.cancel"} -> 0..MaxAttempts]]
  BY DEF TypeOK
<1>3. 0 \in 0..MaxAttempts
  BY <1>1
<1>. QED BY <1>2, <1>3 DEF Return

\* The handler goes on to the step at; it is r then.
OnTo(p, at, r) ==
    /\ run' = [run EXCEPT ![p] = r]
    /\ r.at = at /\ r.order = run[p].order /\ r.task = run[p].task
    /\ r.seen = run[p].seen /\ r.next = run[p].next /\ r.due = run[p].due

\* What going on to the next step does.
LEMMA Went ==
    ASSUME TypeOK, NEW p \in Callers, NEW at \in Steps, Goto(p, at)
    PROVE  \E r \in Runs : OnTo(p, at, r)
<1>1. PICK s \in Runs : s = run[p]
  BY DEF TypeOK
<1>2. PICK r : r = [s EXCEPT !.at = at]
  OBVIOUS
<1>3. r \in Runs /\ r.at = at /\ r.order = s.order /\ r.task = s.task
      /\ r.seen = s.seen /\ r.next = s.next /\ r.due = s.due
  BY <1>2 DEF Runs
<1>4. run' = [run EXCEPT ![p] = r]
  BY <1>1, <1>2 DEF Goto
<1>. QED BY <1>1, <1>3, <1>4 DEF OnTo

\* The steps at which nothing but the order and the reading is promised.
Plain == {"cancel", "cancel.write", "cancel.emit", "cancel.refund", "checkout.deadline",
          "return.write", "return.emit"}

LEMMA PlainOK ==
    ASSUME NEW s \in Runs, RunOK(s), s.at # "idle", NEW r \in Runs, r.at \in Plain,
           r.order = s.order, r.task = s.task, Backed(r.seen, s.order)
    PROVE  RunOK(r)
<1>1. r.at \notin Messages \cup PaySteps \cup {"pay", "reserved.emit", "printed.write",
                                   "printed.emit", "delivered.append", "delivered.write"}
  BY DEF Plain, PaySteps, Messages, Verdicts
<1>2. r.order \in Orders /\ doc[r.order].status # "none"
      /\ (r.task \in Messages => r.task \in inbox[r.order])
  BY DEF RunOK
<1>. QED BY <1>1, <1>2 DEF RunOK, PaySteps

LEMMA CheckoutSteps ==
    ASSUME IInv, NEW p \in Callers, ~At(p, "idle"), CheckoutReserve(p) \/ CheckoutDeadline(p)
    PROVE  IInv'
<1>. DEFINE o == run[p].order
<1>1. /\ run[p] \in Runs /\ RunOK(run[p]) /\ o \in Orders
      /\ doc[o].status # "none" /\ Backed(run[p].seen, o)
  BY BusyFacts DEF RunOK, At
<1>2. UNCHANGED <<doc, ledger, inbox, link, printAsked, requests>>
  BY DEF CheckoutReserve, CheckoutDeadline
<1>3. printAsked' = [printAsked EXCEPT ![o] = @ \cup {}]
  BY <1>2 DEF IInv, TypeOK
<1>4. PICK job \in {"stock.reserve_requested", "auto.cancel"} :
          sent' = [sent EXCEPT ![o][job] = @ + 1]
  BY DEF CheckoutReserve, CheckoutDeadline, Send, Order
<1>5. job \in ShopJobs /\ job # "order.ready_to_fulfill"
  BY <1>4 DEF ShopJobs
<1>6. \/ Return(p)
      \/ Goto(p, "checkout.deadline") /\ UNCHANGED left
  BY DEF CheckoutReserve, CheckoutDeadline
<1>7. PICK r \in Runs : RunOK(r) /\ run' = [run EXCEPT ![p] = r]
  <2>1. CASE Return(p)
    BY <2>1, IdleOK, Returned DEF IInv
  <2>2. CASE Goto(p, "checkout.deadline")
    <3>1. PICK r \in Runs : OnTo(p, "checkout.deadline", r)
      BY <2>2, Went DEF IInv, Steps
    <3>2. RunOK(r)
      BY <1>1, <3>1, PlainOK DEF Plain, At, OnTo
    <3>. QED BY <3>1, <3>2 DEF OnTo
  <2>. QED BY <1>6, <2>1, <2>2
<1>8. Counted
  BY <1>2, <1>6, Returned DEF IInv, TypeOK, Counted
<1>9. {} \in SUBSET {"sample", "full"}
  OBVIOUS
<1>. QED BY <1>1, <1>2, <1>3, <1>4, <1>5, <1>7, <1>8, <1>9, SendStep

\* The handler goes on to the step at with a backed copy; it is r then.
ReadTo(p, at, r) ==
    /\ run' = [run EXCEPT ![p] = r]
    /\ r.at = at /\ r.order = run[p].order /\ r.task = run[p].task
    /\ Backed(r.seen, run[p].order)

\* Reading no more than the payment leaves a handler with a backed copy.
LEMMA ReadPayment ==
    ASSUME IInv, NEW p \in Callers, ~At(p, "idle"), NEW at \in Steps,
           run' = [run EXCEPT ![p].at = at, ![p].seen.payment = doc[Order(p)].payment]
    PROVE  \E r \in Runs : ReadTo(p, at, r)
<1>1. PICK s \in Runs, o \in Orders : s = run[p] /\ o = s.order
  BY BusyFacts
<1>2. doc[o] \in Doc /\ Backed(doc[o], o) /\ Backed(s.seen, o) /\ o = Order(p)
  BY <1>1, BusyFacts DEF RunOK, At, OrderOK, Order
<1>3. s.seen \in Doc
  BY DEF Runs
<1>4. PICK d : d = [s.seen EXCEPT !.payment = doc[o].payment]
  OBVIOUS
<1>5. d \in Doc /\ d.payment = doc[o].payment /\ d.status = s.seen.status
      /\ d.fulfillment = s.seen.fulfillment
  BY <1>2, <1>3, <1>4 DEF Doc
<1>6. Backed(d, o)
  BY <1>2, <1>5 DEF Backed
<1>7. PICK r : r = [s EXCEPT !.at = at, !.seen = d]
  OBVIOUS
<1>8. r \in Runs /\ r.at = at /\ r.order = s.order /\ r.task = s.task /\ r.seen = d
  BY <1>5, <1>7 DEF Runs
<1>9. run' = [run EXCEPT ![p] = r]
  BY <1>1, <1>2, <1>4, <1>7
<1>. QED BY <1>1, <1>6, <1>8, <1>9 DEF ReadTo

LEMMA CancelSteps ==
    ASSUME IInv, NEW p \in Callers, ~At(p, "idle"),
           AutoCheck(p) \/ CancelRead(p) \/ CancelWrite(p) \/ CancelEmit(p) \/ CancelRefund(p)
    PROVE  IInv'
<1>1. PICK o \in Orders : o = run[p].order /\ o = Order(p)
  BY BusyFacts DEF Order
<1>2. /\ run[p] \in Runs /\ RunOK(run[p]) /\ doc[o] \in Doc
      /\ doc[o].status # "none" /\ Backed(run[p].seen, o) /\ Backed(doc[o], o)
  BY <1>1, BusyFacts DEF RunOK, At, OrderOK
<1>3. CASE AutoCheck(p)
  <2>1. UNCHANGED <<doc, ledger, link, sent, printAsked, requests, inbox>>
    BY <1>3 DEF AutoCheck
  <2>2. Return(p) \/ (Goto(p, "cancel") /\ UNCHANGED left)
    BY <1>3 DEF AutoCheck
  <2>3. Counted
    BY <2>1, <2>2, Returned DEF IInv, TypeOK, Counted
  <2>4. CASE Return(p)
    BY <2>1, <2>3, <2>4, IdleOK, Returned, QuietMove DEF IInv
  <2>5. CASE Goto(p, "cancel")
    <3>1. PICK r \in Runs : OnTo(p, "cancel", r)
      BY <1>1, <2>5, Went DEF IInv, Steps
    <3>2. RunOK(r)
      BY <1>1, <1>2, <3>1, PlainOK DEF Plain, At, OnTo, ReadTo
    <3>. QED BY <2>1, <2>3, <3>1, <3>2, QuietMove DEF OnTo
  <2>. QED BY <2>2, <2>4, <2>5
<1>4. CASE CancelRead(p)
  <2>1. UNCHANGED <<doc, ledger, link, sent, printAsked, left, requests, inbox>>
    BY <1>4 DEF CancelRead
  <2>2. Counted
    BY <2>1 DEF IInv, TypeOK, Counted
  <2>3. run' = [run EXCEPT ![p].at = "cancel.write", ![p].seen.payment = doc[Order(p)].payment]
    BY <1>4 DEF CancelRead
  <2>4. PICK r \in Runs : ReadTo(p, "cancel.write", r)
    BY <1>1, <2>3, ReadPayment DEF Steps
  <2>5. RunOK(r)
    BY <1>1, <1>2, <2>4, PlainOK DEF Plain, At, OnTo, ReadTo
  <2>. QED BY <2>1, <2>2, <2>4, <2>5, QuietMove DEF ReadTo
<1>5. CASE CancelWrite(p)
  <2>1. UNCHANGED <<ledger, link, sent, printAsked, left, requests, inbox>>
    BY <1>5 DEF CancelWrite
  <2>2. Counted
    BY <2>1 DEF IInv, TypeOK, Counted
  <2>3. PICK r \in Runs : OnTo(p, "cancel.emit", r)
    BY <1>1, <1>5, Went DEF IInv, Steps, CancelWrite
  <2>4. RunOK(r)
    BY <1>1, <1>2, <2>3, PlainOK DEF Plain, At, OnTo, ReadTo
  <2>5. PICK d : d = [doc[o] EXCEPT !.status = "CANCELLED"]
    OBVIOUS
  <2>6. d \in Doc /\ d.status = "CANCELLED" /\ d.payment = doc[o].payment
        /\ d.fulfillment = doc[o].fulfillment /\ d.method = doc[o].method
        /\ d.prints = doc[o].prints
    BY <1>2, <2>5 DEF Doc
  <2>7. Backed(d, o)
    BY <1>2, <2>6 DEF Backed
  <2>8. doc' = [doc EXCEPT ![o] = d]
    BY <1>1, <1>5, <2>5 DEF CancelWrite, Write
  <2>. QED BY <1>2, <2>1, <2>2, <2>3, <2>4, <2>6, <2>7, <2>8, DocStep DEF OnTo
<1>6. CASE CancelEmit(p)
  <2>1. UNCHANGED <<doc, ledger, link, printAsked, left, requests, inbox>>
    BY <1>6 DEF CancelEmit
  <2>2. Counted
    BY <2>1 DEF IInv, TypeOK, Counted
  <2>3. PICK r \in Runs : OnTo(p, "cancel.refund", r)
    BY <1>1, <1>6, Went DEF IInv, Steps, CancelEmit
  <2>4. RunOK(r)
    BY <1>1, <1>2, <2>3, PlainOK DEF Plain, At, OnTo, ReadTo
  <2>5. sent' = [sent EXCEPT ![o]["order.cancelled"] = @ + 1]
    BY <1>1, <1>6 DEF CancelEmit, Send
  <2>6. printAsked' = [printAsked EXCEPT ![o] = @ \cup {}] /\ {} \in SUBSET {"sample", "full"}
    BY <2>1 DEF IInv, TypeOK
  <2>7. "order.cancelled" \in ShopJobs
    BY DEF ShopJobs
  <2>. QED BY <1>2, <2>1, <2>2, <2>3, <2>4, <2>5, <2>6, <2>7, SendStep DEF OnTo
<1>7. CASE CancelRefund(p)
  <2>1. UNCHANGED <<ledger, sent, printAsked, requests, inbox>>
    BY <1>7 DEF CancelRefund
  <2>2. link' \in [Orders -> [Phases -> {"none", "open", "paid", "cancelled"}]]
    <3>1. link \in [Orders -> [Phases -> {"none", "open", "paid", "cancelled"}]]
      BY DEF IInv, TypeOK
    <3>2. PICK l : l = [n \in Phases |-> IF link[o][n] = "open" THEN "cancelled" ELSE link[o][n]]
      OBVIOUS
    <3>3. l \in [Phases -> {"none", "open", "paid", "cancelled"}]
      BY <3>1, <3>2
    <3>4. link' = link \/ link' = [link EXCEPT ![o] = l]
      BY <1>1, <1>7, <3>2 DEF CancelRefund
    <3>. QED BY <3>1, <3>3, <3>4
  <2>3. Counted
    BY <1>7, <2>1, <2>2, Returned DEF IInv, TypeOK, Counted, CancelRefund
  <2>4. run' = [run EXCEPT ![p] = Idle]
    BY <1>7, Returned DEF IInv, CancelRefund
  <2>5. CASE doc' = doc
    BY <2>1, <2>3, <2>4, <2>5, IdleOK, QuietMove
  <2>6. CASE /\ run[p].seen.payment = "PAID"
             /\ Write(o, [doc[o] EXCEPT !.payment = "REFUND_PENDING"])
    <3>1. PICK d : d = [doc[o] EXCEPT !.payment = "REFUND_PENDING"]
      OBVIOUS
    <3>2. d \in Doc /\ d.payment = "REFUND_PENDING" /\ d.status = doc[o].status
          /\ d.fulfillment = doc[o].fulfillment /\ d.method = doc[o].method
          /\ d.prints = doc[o].prints
      BY <1>2, <3>1 DEF Doc, Payments
    <3>3. Backed(d, o)
      BY <1>2, <2>6, <3>2 DEF Backed
    <3>4. doc' = [doc EXCEPT ![o] = d]
      BY <2>6, <3>1 DEF Write
    <3>. QED BY <1>2, <2>1, <2>3, <2>4, <3>2, <3>3, <3>4, IdleOK, DocStep
  <2>. QED BY <1>1, <1>7, <2>5, <2>6 DEF CancelRefund
<1>. QED BY <1>3, <1>4, <1>5, <1>6, <1>7

LEMMA PaymentBooked ==
    ASSUME IInv, NEW p \in Callers, ~At(p, "idle"), PayRead(p) \/ PayAppend(p)
    PROVE  IInv'
<1>1. PICK o \in Orders : o = run[p].order /\ o = Order(p)
  BY BusyFacts DEF Order
<1>2. /\ run[p] \in Runs /\ RunOK(run[p]) /\ doc[o] \in Doc
      /\ doc[o].status # "none" /\ Backed(run[p].seen, o) /\ Backed(doc[o], o)
  BY <1>1, BusyFacts DEF RunOK, At, OrderOK
<1>3. CASE PayRead(p)
  <2>1. UNCHANGED <<doc, ledger, link, sent, printAsked, requests, inbox>>
    BY <1>3 DEF PayRead
  <2>2. \/ Return(p)
        \/ /\ run' = [run EXCEPT ![p].at = "pay.append", ![p].seen = doc[o]]
           /\ UNCHANGED left
    BY <1>1, <1>3 DEF PayRead
  <2>3. Counted
    BY <2>1, <2>2, Returned DEF IInv, TypeOK, Counted
  <2>4. CASE Return(p)
    BY <2>1, <2>3, <2>4, IdleOK, Returned, QuietMove DEF IInv
  <2>5. CASE run' = [run EXCEPT ![p].at = "pay.append", ![p].seen = doc[o]]
    <3>1. PICK r : r = [run[p] EXCEPT !.at = "pay.append", !.seen = doc[o]]
      OBVIOUS
    <3>2. /\ r \in Runs /\ r.at = "pay.append" /\ r.seen = doc[o]
          /\ r.order = o /\ r.task = run[p].task
      BY <1>1, <1>2, <3>1 DEF Runs, Steps
    <3>3. run[p].task \in Phases \cup {"manual"} /\ run[p].task \notin Messages
      BY <1>2, <1>3 DEF RunOK, PayRead, At, Phases, Messages, Verdicts
    <3>4. RunOK(r)
      BY <1>2, <3>2, <3>3 DEF RunOK, Messages, Verdicts
    <3>5. run' = [run EXCEPT ![p] = r]
      BY <2>5, <3>1
    <3>. QED BY <2>1, <2>3, <3>2, <3>4, <3>5, QuietMove
  <2>. QED BY <2>2, <2>4, <2>5
<1>4. CASE PayAppend(p)
  <2>1. UNCHANGED <<doc, link, sent, printAsked, requests, inbox>>
    BY <1>4 DEF PayAppend
  <2>2. PICK id : id = run[p].task
    OBVIOUS
  <2>3. id \in Phases \cup {"manual"} /\ id \in TxnIds /\ id \notin Messages
    BY <1>2, <1>4, <2>2 DEF RunOK, PayAppend, At, TxnIds, PaySteps, Phases, Messages, Verdicts
  <2>4. PICK amount : amount = IF id = "manual" THEN ManualAmount ELSE Amount(doc[o], id)
    OBVIOUS
  <2>5. amount \in Nat /\ amount > 0
    <3>1. ManualAmount \in Nat \ {0}
      BY LifecycleAssumption
    <3>. QED BY <2>4, <3>1, AmountPositive
  <2>6. \/ Return(p) /\ UNCHANGED ledger
        \/ /\ ~(ledger[o][id] > 0)
           /\ ledger' = [ledger EXCEPT ![o][id] = amount]
           /\ Goto(p, "pay.list")
           /\ UNCHANGED left
    BY <1>1, <1>4, <2>2, <2>4 DEF PayAppend
  <2>7. Counted
    BY <2>1, <2>6, Returned DEF IInv, TypeOK, Counted
  <2>8. CASE Return(p) /\ UNCHANGED ledger
    BY <2>1, <2>7, <2>8, IdleOK, Returned, QuietMove DEF IInv
  <2>9. CASE /\ ~(ledger[o][id] > 0)
             /\ ledger' = [ledger EXCEPT ![o][id] = amount]
             /\ Goto(p, "pay.list")
    <3>1. PICK r \in Runs : OnTo(p, "pay.list", r)
      BY <2>9, Went DEF IInv, Steps
    <3>2. PICK s \in Runs : s = run[p]
      BY <1>2
    <3>3. ledger[o][id] = 0
      <4>1. ledger[o][id] \in Nat
        BY <2>3 DEF IInv, TypeOK
      <4>. QED BY <2>9, <4>1
    <3>4. \A x \in Orders : doc[x].status # "none" => Grows(x)
      BY <2>1, <2>3, <2>5, <2>9, <3>3, RowAdds
    <3>5. RunOK(s)'
      BY <1>2, <3>2, <3>4, RunStable
    <3>6. Collected(o)' > 0
      <4>1. /\ ledger' \in [Orders -> [TxnIds -> Nat]]
            /\ ledger'[o][id] > 0
        BY <2>3, <2>5, <2>9 DEF IInv, TypeOK
      <4>. QED BY <2>3, <4>1 DEF Collected, TxnIds, Phases
    <3>7. /\ s.at = "pay.append" /\ r.at = "pay.list" /\ r.order = s.order /\ s.order = o
          /\ r.task = s.task /\ r.seen = s.seen
      BY <1>1, <1>4, <3>1, <3>2 DEF OnTo, PayAppend, At
    <3>8. RunOK(r)'
      BY <3>5, <3>6, <3>7 DEF RunOK, PaySteps, Messages, Verdicts
    <3>. QED BY <2>1, <2>3, <2>5, <2>7, <2>9, <3>1, <3>3, <3>8, LedgerStep DEF OnTo
  <2>. QED BY <2>6, <2>8, <2>9
<1>. QED BY <1>3, <1>4

LEMMA PaymentDecided ==
    ASSUME IInv, NEW p \in Callers, ~At(p, "idle"), PayList(p) \/ PayWrite(p)
    PROVE  IInv'
<1>1. PICK o \in Orders : o = run[p].order /\ o = Order(p)
  BY BusyFacts DEF Order
<1>2. /\ run[p] \in Runs /\ RunOK(run[p]) /\ doc[o] \in Doc
      /\ doc[o].status # "none" /\ Backed(run[p].seen, o) /\ Backed(doc[o], o)
      /\ Collected(o) \in Nat
  BY <1>1, BusyFacts DEF RunOK, At, OrderOK
<1>3. CASE PayList(p)
  <2>1. UNCHANGED <<doc, ledger, link, sent, printAsked, requests, inbox>>
    BY <1>3 DEF PayList
  <2>2. PICK paid \in Nat, seen \in Doc : paid = Collected(o) /\ seen = run[p].seen
    BY <1>2 DEF Runs
  <2>3. PICK n : n = Decide(seen, paid)
    OBVIOUS
  <2>4. \/ Return(p)
        \/ /\ run' = [run EXCEPT ![p].at = "pay.write", ![p].next = n]
           /\ UNCHANGED left
    BY <1>1, <1>3, <2>2, <2>3 DEF PayList
  <2>5. Counted
    BY <2>1, <2>4, Returned DEF IInv, TypeOK, Counted
  <2>6. CASE Return(p)
    BY <2>1, <2>5, <2>6, IdleOK, Returned, QuietMove DEF IInv
  <2>7. CASE run' = [run EXCEPT ![p].at = "pay.write", ![p].next = n]
    <3>1. /\ n \in Doc
          /\ seen.status # "none" => n.status # "none"
          /\ n.status = "CLOSED" => seen.status = "CLOSED"
          /\ n.payment \in {"PAID", "REFUND_PENDING"} => paid >= 99 \/ n.payment = seen.payment
          /\ n.fulfillment = "SAMPLE_PRINTED" => seen.fulfillment = "SAMPLE_PRINTED"
          /\ n.payment = "DEPOSIT_PAID" /\ seen.payment # "DEPOSIT_PAID" /\ ~seen.prints
               => paid >= 49
          /\ n.fulfillment = "AWAITING_PRINT" /\ seen.fulfillment = "SAMPLE_PRINTED"
               => paid >= 59
      BY <2>3, DecideFacts
    <3>2. Backed(n, o)
      <4>1. Collected(o) > 0
        BY <1>1, <1>2, <1>3 DEF RunOK, PayList, At
      <4>. QED BY <1>2, <2>2, <3>1, <4>1 DEF Backed
    <3>3. seen.status # "none"
      BY <1>2, <1>3, <2>2 DEF RunOK, PayList, At, PaySteps
    <3>4. Decided(seen, n, o)
      BY <2>2, <3>1, <3>2, <3>3 DEF Decided
    <3>5. PICK r : r = [run[p] EXCEPT !.at = "pay.write", !.next = n]
      OBVIOUS
    <3>6. /\ r \in Runs /\ r.at = "pay.write" /\ r.seen = seen /\ r.next = n
          /\ r.order = o /\ r.task = run[p].task
      BY <1>1, <1>2, <2>2, <3>1, <3>5 DEF Runs, Steps
    <3>7. RunOK(r)
      BY <1>1, <1>2, <1>3, <2>2, <3>4, <3>6
         DEF RunOK, PayList, At, PaySteps, Messages, Verdicts
    <3>8. run' = [run EXCEPT ![p] = r]
      BY <2>7, <3>5
    <3>. QED BY <2>1, <2>5, <3>6, <3>7, <3>8, QuietMove
  <2>. QED BY <2>4, <2>6, <2>7
<1>4. CASE PayWrite(p)
  <2>1. UNCHANGED <<ledger, link, sent, printAsked, left, requests, inbox>>
    BY <1>4 DEF PayWrite
  <2>2. Counted
    BY <2>1 DEF IInv, TypeOK, Counted
  <2>3. PICK r \in Runs : OnTo(p, "pay.emit", r)
    BY <1>4, Went DEF IInv, Steps, PayWrite
  <2>4. RunOK(r)
    BY <1>1, <1>2, <1>4, <2>3 DEF RunOK, OnTo, PayWrite, At, PaySteps, Messages, Verdicts
  <2>5. PICK n \in Doc : n = run[p].next
    BY <1>2 DEF Runs
  <2>6. Backed(n, o) /\ n.status # "none"
    BY <1>1, <1>2, <1>4, <2>5 DEF RunOK, PayWrite, At, Decided
  <2>7. PICK d : d = [doc[o] EXCEPT !.payment = n.payment, !.status = n.status,
                                    !.fulfillment = n.fulfillment]
    OBVIOUS
  <2>8. d \in Doc /\ d.status = n.status /\ d.payment = n.payment
        /\ d.fulfillment = n.fulfillment /\ d.method = doc[o].method
        /\ d.prints = doc[o].prints
    BY <1>2, <2>7 DEF Doc
  <2>9. Backed(d, o)
    BY <2>6, <2>8 DEF Backed
  <2>10. doc' = [doc EXCEPT ![o] = d]
    BY <1>1, <1>4, <2>5, <2>7 DEF PayWrite, Write
  <2>. QED BY <1>2, <2>1, <2>2, <2>3, <2>4, <2>6, <2>8, <2>9, <2>10, DocStep DEF OnTo
<1>. QED BY <1>3, <1>4

LEMMA PaymentActedOn ==
    ASSUME IInv, NEW p \in Callers, ~At(p, "idle"), PayEmit(p)
    PROVE  IInv'
<1>1. PICK o \in Orders : o = run[p].order /\ o = Order(p)
  BY BusyFacts DEF Order
<1>2. /\ run[p] \in Runs /\ RunOK(run[p]) /\ doc[o] \in Doc
      /\ doc[o].status # "none" /\ Backed(run[p].seen, o) /\ Prepaid(o)
  BY <1>1, BusyFacts DEF RunOK, At, OrderOK
<1>3. UNCHANGED <<doc, ledger, link, requests, inbox>>
  BY DEF PayEmit
<1>4. Counted
  BY <1>3, Returned DEF IInv, TypeOK, Counted, PayEmit
<1>5. run' = [run EXCEPT ![p] = Idle]
  BY Returned DEF IInv, PayEmit
<1>6. PICK seen \in Doc, next \in Doc : seen = run[p].seen /\ next = run[p].next
  BY <1>2 DEF Runs
<1>7. /\ seen.method = doc[o].method /\ seen.prints = doc[o].prints
      /\ Decided(seen, next, o) /\ Backed(next, o) /\ Backed(seen, o)
  BY <1>1, <1>2, <1>6 DEF RunOK, PayEmit, At, PaySteps, Decided
<1>8. PICK asked : asked = PrintNow(seen, next)
  OBVIOUS
<1>9. /\ asked \in SUBSET {"sample", "full"}
      /\ asked # {} => seen.prints
      /\ "full" \in asked => next.fulfillment = "AWAITING_PRINT" /\ seen.fulfillment = "SAMPLE_PRINTED"
  BY <1>8 DEF PrintNow
<1>10. "full" \in asked => "print.sample" \in inbox[o] /\ Collected(o) >= 59
  BY <1>7, <1>9 DEF Decided, Backed
<1>11. printAsked' = [printAsked EXCEPT ![o] = @ \cup asked]
  BY <1>1, <1>6, <1>8 DEF PayEmit
<1>12. /\ \/ sent' = sent
          \/ sent' = [sent EXCEPT ![o]["order.ready_to_fulfill"] = @ + 1]
       /\ sent' # sent => Ready(seen, next)
  BY <1>1, <1>6 DEF PayEmit, Send
<1>13. Ready(seen, next) =>
          IF doc[o].method = "ONLINE" \/ doc[o].prints
          THEN Collected(o) >= 99
          ELSE "stock.reserved" \in inbox[o] \/ Collected(o) >= 49
  <2>1. next.payment = "PAID" => Collected(o) >= 99
    BY <1>7 DEF Backed
  <2>2. doc[o].prints => doc[o].method # "COD"
    BY <1>2 DEF Prepaid
  <2>3. doc[o].method \in {"COD", "ONLINE"} /\ Collected(o) \in Nat
    BY <1>1, <1>2, BusyFacts DEF Doc, Methods
  <2>. QED BY <1>7, <2>1, <2>2, <2>3 DEF Ready, Decided
<1>14. "order.ready_to_fulfill" \in ShopJobs
  BY DEF ShopJobs
<1>15. asked # {} => doc[o].prints
  BY <1>7, <1>9
<1>. QED BY <1>2, <1>3, <1>4, <1>5, <1>9, <1>10, <1>11, <1>12, <1>13, <1>14, <1>15, IdleOK, SendStep

\* A parcel that came back had been sent to be picked: an ONLINE order was paid.
LEMMA ReturnedWasPaid ==
    ASSUME IInv, NEW o \in Orders, doc[o].method = "ONLINE",
           "shipment.returned" \in inbox[o]
    PROVE  Collected(o) >= 99
<1>1. "shipment.returned" \in Picked
  BY DEF Picked
<1>2. sent[o]["order.ready_to_fulfill"] > 0
  BY <1>1 DEF IInv, OrderOK, Heard
<1>. QED BY <1>2 DEF IInv, ReadyIsEarned

LEMMA StockAndPrintSteps ==
    ASSUME IInv, NEW p \in Callers, ~At(p, "idle"),
           \/ ReservedWrite(p) \/ ReservedEmit(p) \/ Reached(p)
           \/ PrintedRead(p) \/ PrintedWrite(p) \/ PrintedEmit(p)
    PROVE  IInv'
<1>1. PICK o \in Orders : o = run[p].order /\ o = Order(p)
  BY BusyFacts DEF Order
<1>2. /\ run[p] \in Runs /\ RunOK(run[p]) /\ doc[o] \in Doc
      /\ doc[o].status # "none" /\ Backed(run[p].seen, o) /\ Backed(doc[o], o)
      /\ OrderOK(o)
  BY <1>1, BusyFacts DEF RunOK, At, OrderOK
<1>3. \A x \in Orders : printAsked' = printAsked =>
          printAsked' = [printAsked EXCEPT ![x] = @ \cup {}]
  BY DEF IInv, TypeOK
<1>4. {} \in SUBSET {"sample", "full"} /\ "order.ready_to_fulfill" \in ShopJobs
  BY DEF ShopJobs
<1>5. CASE ReservedWrite(p)
  <2>1. UNCHANGED <<ledger, link, sent, printAsked, requests, inbox>>
    BY <1>5 DEF ReservedWrite
  <2>2. Counted
    BY <1>5, <2>1, Returned DEF IInv, TypeOK, Counted, ReservedWrite
  <2>3. CASE doc[o].method = "COD"
    <3>1. PICK r \in Runs : OnTo(p, "reserved.emit", r)
      BY <1>1, <1>5, <2>3, Went DEF IInv, Steps, ReservedWrite
    <3>2. run[p].task = "stock.reserved"
      BY <1>2, <1>5 DEF RunOK, ReservedWrite, At, Messages, Verdicts
    <3>3. RunOK(r)
      BY <1>1, <1>2, <1>5, <2>3, <3>1, <3>2
         DEF RunOK, OnTo, ReservedWrite, At, PaySteps, Messages, Verdicts
    <3>4. PICK d : d = [doc[o] EXCEPT !.status = "CONFIRMED", !.fulfillment = "READY_TO_PICK"]
      OBVIOUS
    <3>5. d \in Doc /\ d.status = "CONFIRMED" /\ d.payment = doc[o].payment
          /\ d.fulfillment = "READY_TO_PICK" /\ d.method = doc[o].method
          /\ d.prints = doc[o].prints
      BY <1>2, <3>4 DEF Doc, Fulfillments
    <3>6. Backed(d, o)
      <4>1. "stock.reserved" \in inbox[o]
        BY <1>1, <1>2, <3>2, <1>5 DEF RunOK, ReservedWrite, At, Messages, Verdicts
      <4>. QED BY <1>2, <2>3, <3>5, <4>1 DEF Backed
    <3>7. doc' = [doc EXCEPT ![o] = d]
      BY <1>1, <1>5, <2>3, <3>4 DEF ReservedWrite, Write
    <3>. QED BY <1>2, <2>1, <2>2, <3>1, <3>3, <3>5, <3>6, <3>7, DocStep DEF OnTo
  <2>4. CASE doc[o].method # "COD"
    <3>1. run' = [run EXCEPT ![p] = Idle] /\ doc' = doc
      BY <1>1, <1>5, <2>4, Returned DEF IInv, ReservedWrite
    <3>. QED BY <2>1, <2>2, <3>1, IdleOK, QuietMove
  <2>. QED BY <2>3, <2>4
<1>6. CASE ReservedEmit(p)
  <2>1. UNCHANGED <<doc, ledger, link, printAsked, requests, inbox>>
    BY <1>6 DEF ReservedEmit
  <2>2. Counted /\ run' = [run EXCEPT ![p] = Idle]
    BY <1>6, <2>1, Returned DEF IInv, TypeOK, Counted, ReservedEmit
  <2>3. sent' = [sent EXCEPT ![o]["order.ready_to_fulfill"] = @ + 1]
    BY <1>1, <1>6 DEF ReservedEmit, Send
  <2>4. "stock.reserved" \in inbox[o] /\ doc[o].method = "COD"
    BY <1>1, <1>2, <1>6 DEF RunOK, ReservedEmit, At, Messages, Verdicts
  <2>5. ~(doc[o].method = "ONLINE" \/ doc[o].prints)
    BY <1>2, <2>4 DEF OrderOK, Prepaid
  <2>. QED BY <1>2, <1>3, <1>4, <2>1, <2>2, <2>3, <2>4, <2>5, IdleOK, SendStep
<1>7. CASE Reached(p)
  <2>1. UNCHANGED <<ledger, link, sent, printAsked, requests, inbox>>
    BY <1>7 DEF Reached
  <2>2. Counted /\ run' = [run EXCEPT ![p] = Idle]
    BY <1>7, <2>1, Returned DEF IInv, TypeOK, Counted, Reached
  <2>3. PICK m \in {"goods.issued", "print.sample", "shipment.shipped"} : m = run[p].at
    BY <1>7 DEF Reached, ReachedBy
  <2>4. PICK f : f = ReachedBy[m]
    OBVIOUS
  <2>5. f \in Fulfillments /\ (f = "SAMPLE_PRINTED" => m = "print.sample")
    BY <2>3, <2>4 DEF ReachedBy, Fulfillments
  <2>6. m \in inbox[o]
    <3>1. run[p].at \in Messages
      BY <2>3 DEF Messages
    <3>. QED BY <1>1, <1>2, <2>3, <3>1 DEF RunOK, At
  <2>7. PICK d : d = [doc[o] EXCEPT !.fulfillment = f]
    OBVIOUS
  <2>8. d \in Doc /\ d.status = doc[o].status /\ d.payment = doc[o].payment
        /\ d.fulfillment = f /\ d.method = doc[o].method /\ d.prints = doc[o].prints
    BY <1>2, <2>5, <2>7 DEF Doc
  <2>9. Backed(d, o)
    BY <1>2, <2>5, <2>6, <2>8 DEF Backed
  <2>10. doc' = [doc EXCEPT ![o] = d]
    BY <1>1, <1>7, <2>3, <2>4, <2>7 DEF Reached, Write
  <2>. QED BY <1>2, <2>1, <2>2, <2>8, <2>9, <2>10, IdleOK, DocStep
<1>8. CASE PrintedRead(p)
  <2>1. UNCHANGED <<doc, ledger, link, sent, printAsked, left, requests, inbox>>
    BY <1>8 DEF PrintedRead
  <2>2. Counted
    BY <2>1 DEF IInv, TypeOK, Counted
  <2>3. run' = [run EXCEPT ![p].at = "printed.write", ![p].seen.payment = doc[Order(p)].payment]
    BY <1>8 DEF PrintedRead
  <2>4. PICK r \in Runs : ReadTo(p, "printed.write", r)
    BY <2>3, ReadPayment DEF Steps
  <2>5. run[p].task = "print.full"
    BY <1>2, <1>8 DEF RunOK, PrintedRead, At, Messages
  <2>6. RunOK(r)
    BY <1>1, <1>2, <2>4, <2>5, <1>8 DEF RunOK, ReadTo, PrintedRead, At, PaySteps, Messages, Verdicts
  <2>. QED BY <2>1, <2>2, <2>4, <2>6, QuietMove DEF ReadTo
<1>9. CASE PrintedWrite(p)
  <2>1. UNCHANGED <<ledger, link, sent, printAsked, left, requests, inbox>>
    BY <1>9 DEF PrintedWrite
  <2>2. Counted
    BY <2>1 DEF IInv, TypeOK, Counted
  <2>3. PICK r \in Runs : OnTo(p, "printed.emit", r)
    BY <1>9, Went DEF IInv, Steps, PrintedWrite
  <2>4. RunOK(r)
    BY <1>1, <1>2, <1>9, <2>3 DEF RunOK, OnTo, PrintedWrite, At, PaySteps, Messages, Verdicts
  <2>5. PICK d : d = [doc[o] EXCEPT !.fulfillment = "READY_TO_PICK"]
    OBVIOUS
  <2>6. d \in Doc /\ d.status = doc[o].status /\ d.payment = doc[o].payment
        /\ d.fulfillment = "READY_TO_PICK" /\ d.method = doc[o].method
        /\ d.prints = doc[o].prints
    BY <1>2, <2>5 DEF Doc, Fulfillments
  <2>7. Backed(d, o)
    BY <1>2, <2>6 DEF Backed
  <2>8. doc' = [doc EXCEPT ![o] = d]
    BY <1>1, <1>9, <2>5 DEF PrintedWrite, Write
  <2>. QED BY <1>2, <2>1, <2>2, <2>3, <2>4, <2>6, <2>7, <2>8, DocStep DEF OnTo
<1>10. CASE PrintedEmit(p)
  <2>1. UNCHANGED <<doc, ledger, link, printAsked, requests, inbox>>
    BY <1>10 DEF PrintedEmit
  <2>2. Counted /\ run' = [run EXCEPT ![p] = Idle]
    BY <1>10, <2>1, Returned DEF IInv, TypeOK, Counted, PrintedEmit
  <2>3. /\ \/ sent' = sent
           \/ sent' = [sent EXCEPT ![o]["order.ready_to_fulfill"] = @ + 1]
        /\ sent' # sent => doc[o].method = "COD" \/ run[p].seen.payment = "PAID"
    BY <1>1, <1>10 DEF PrintedEmit, Send
  <2>4. doc[o].method # "COD"
    <3>1. "print.full" \in inbox[o]
      BY <1>1, <1>2, <1>10 DEF RunOK, PrintedEmit, At, Messages
    <3>2. printAsked[o] # {}
      BY <1>2, <3>1 DEF OrderOK, Heard
    <3>. QED BY <1>2, <3>2 DEF OrderOK, Prepaid
  <2>5. sent' # sent => Collected(o) >= 99
    BY <1>2, <2>3, <2>4 DEF Backed
  <2>6. doc[o].method = "ONLINE"
    BY <1>2, <2>4 DEF Doc, Methods
  <2>. QED BY <1>2, <1>3, <1>4, <2>1, <2>2, <2>3, <2>5, <2>6, IdleOK, SendStep
<1>. QED BY <1>5, <1>6, <1>7, <1>8, <1>9, <1>10

LEMMA DeliveredSteps ==
    ASSUME IInv, NEW p \in Callers, ~At(p, "idle"),
           \/ DeliveredList(p) \/ DeliveredAppend(p) \/ DeliveredWrite(p) \/ ReturnedWrite(p)
    PROVE  IInv'
<1>1. PICK o \in Orders : o = run[p].order /\ o = Order(p)
  BY BusyFacts DEF Order
<1>2. /\ run[p] \in Runs /\ RunOK(run[p]) /\ doc[o] \in Doc
      /\ doc[o].status # "none" /\ Backed(run[p].seen, o) /\ Backed(doc[o], o)
      /\ Collected(o) \in Nat
  BY <1>1, BusyFacts DEF RunOK, At, OrderOK
<1>3. CASE DeliveredList(p)
  <2>1. UNCHANGED <<doc, ledger, link, sent, printAsked, left, requests, inbox>>
    BY <1>3 DEF DeliveredList
  <2>2. Counted
    BY <2>1 DEF IInv, TypeOK, Counted
  <2>3. PICK paid \in Nat : paid = Collected(o)
    BY <1>2
  <2>4. CASE doc[o].method = "COD" /\ paid < 100
    <3>0. PICK due \in 0..100 : due = 100 - paid
      BY <2>4
    <3>1. PICK r : r = [run[p] EXCEPT !.at = "delivered.append", !.due = due]
      OBVIOUS
    <3>2. /\ r \in Runs /\ r.at = "delivered.append" /\ r.due = due
          /\ r.order = o /\ r.task = run[p].task /\ r.seen = run[p].seen
      BY <1>1, <1>2, <3>1 DEF Runs, Steps
    <3>5. Collected(o) + due >= 100
      BY <2>3, <3>0
    <3>3. RunOK(r)
      BY <1>1, <1>2, <1>3, <3>2, <3>5
         DEF RunOK, DeliveredList, At, PaySteps, Messages, Verdicts
    <3>4. run' = [run EXCEPT ![p] = r]
      BY <1>1, <1>3, <2>3, <2>4, <3>0, <3>1 DEF DeliveredList
    <3>. QED BY <2>1, <2>2, <3>2, <3>3, <3>4, QuietMove
  <2>5. CASE ~(doc[o].method = "COD" /\ paid < 100)
    <3>1. PICK r \in Runs : OnTo(p, "delivered.write", r)
      BY <1>1, <1>3, <2>3, <2>5, Went DEF IInv, Steps, DeliveredList
    <3>3. doc[o].method = "COD" => Collected(o) >= 100
      BY <2>3, <2>5
    <3>2. RunOK(r)
      BY <1>1, <1>2, <1>3, <3>1, <3>3
         DEF RunOK, OnTo, DeliveredList, At, PaySteps, Messages, Verdicts
    <3>. QED BY <2>1, <2>2, <3>1, <3>2, QuietMove DEF OnTo
  <2>. QED BY <2>4, <2>5
<1>4. CASE DeliveredAppend(p)
  <2>1. UNCHANGED <<doc, link, sent, printAsked, left, requests, inbox>>
    BY <1>4 DEF DeliveredAppend
  <2>2. Counted
    BY <2>1 DEF IInv, TypeOK, Counted
  <2>3. PICK due \in 0..100 : due = run[p].due
    BY <1>2 DEF Runs
  <2>4. Collected(o) + due >= 100
    BY <1>1, <1>2, <1>4, <2>3 DEF RunOK, DeliveredAppend, At
  <2>5. ledger[o]["cod"] = 0 /\ ledger' = [ledger EXCEPT ![o]["cod"] = due]
    BY <1>1, <1>4, <2>3 DEF DeliveredAppend
  <2>6. "cod" \in TxnIds /\ due \in Nat
    BY DEF TxnIds
  <2>7. /\ Collected(o)' = Collected(o) + due
        /\ \A x \in Orders : doc[x].status # "none" => Grows(x)
    BY <2>1, <2>5, <2>6, RowAdds
  <2>8. PICK r \in Runs : OnTo(p, "delivered.write", r)
    BY <1>4, Went DEF IInv, Steps, DeliveredAppend
  <2>9. Backed(r.seen, o)'
    <3>1. Backed(r.seen, o) /\ Grows(o)
      BY <1>2, <2>7, <2>8 DEF OnTo
    <3>. QED BY <3>1, BackedStable
  <2>10. /\ r.task \in Messages => r.task \in inbox'[o]
         /\ doc'[o].status # "none"
         /\ Collected(o)' >= 100
    BY <1>1, <1>2, <1>4, <2>1, <2>4, <2>7, <2>8 DEF RunOK, OnTo, DeliveredAppend, At
  <2>11. r.at = "delivered.write" /\ r.order = o
    BY <1>1, <2>8 DEF OnTo
  <2>12. RunOK(r)'
    BY <2>9, <2>10, <2>11 DEF RunOK, PaySteps, Messages, Verdicts
  <2>. QED BY <2>1, <2>2, <2>5, <2>6, <2>8, <2>12, LedgerStep DEF OnTo
<1>5. CASE DeliveredWrite(p)
  <2>1. UNCHANGED <<ledger, link, sent, printAsked, requests, inbox>>
    BY <1>5 DEF DeliveredWrite
  <2>2. Counted /\ run' = [run EXCEPT ![p] = Idle]
    BY <1>5, <2>1, Returned DEF IInv, TypeOK, Counted, DeliveredWrite
  <2>3. doc[o].method = "COD" => Collected(o) >= 100
    BY <1>1, <1>2, <1>5 DEF RunOK, DeliveredWrite, At
  <2>4. PICK y : y = IF doc[o].method = "COD" THEN "PAID" ELSE doc[o].payment
    OBVIOUS
  <2>5. y \in Payments /\ (y = doc[o].payment \/ (y = "PAID" /\ doc[o].method = "COD"))
    BY <1>2, <2>4 DEF Doc, Payments
  <2>6. PICK d : d = [doc[o] EXCEPT !.fulfillment = "DELIVERED", !.status = "CLOSED", !.payment = y]
    OBVIOUS
  <2>7. d \in Doc /\ d.status = "CLOSED" /\ d.payment = y
        /\ d.fulfillment = "DELIVERED" /\ d.method = doc[o].method
        /\ d.prints = doc[o].prints
    BY <1>2, <2>5, <2>6 DEF Doc, Fulfillments
  <2>8. Backed(d, o)
    BY <1>2, <2>3, <2>5, <2>7 DEF Backed
  <2>9. doc' = [doc EXCEPT ![o] = d]
    BY <1>1, <1>5, <2>4, <2>6 DEF DeliveredWrite, Write
  <2>. QED BY <1>2, <2>1, <2>2, <2>7, <2>8, <2>9, IdleOK, DocStep
<1>6. CASE ReturnedWrite(p)
  <2>1. UNCHANGED <<ledger, link, sent, printAsked, requests, inbox>>
    BY <1>6 DEF ReturnedWrite
  <2>2. Counted /\ run' = [run EXCEPT ![p] = Idle]
    BY <1>6, <2>1, Returned DEF IInv, TypeOK, Counted, ReturnedWrite
  <2>3. "shipment.returned" \in inbox[o]
    BY <1>1, <1>2, <1>6 DEF RunOK, ReturnedWrite, At, Messages
  <2>4. doc[o].method = "ONLINE" => Collected(o) >= 99
    BY <2>3, ReturnedWasPaid
  <2>5. PICK y : y = IF doc[o].method = "ONLINE" THEN "REFUND_PENDING" ELSE doc[o].payment
    OBVIOUS
  <2>6. y \in Payments /\ (y = doc[o].payment \/ (y = "REFUND_PENDING" /\ doc[o].method = "ONLINE"))
    BY <1>2, <2>5 DEF Doc, Payments
  <2>7. PICK d : d = [doc[o] EXCEPT !.fulfillment = "RETURNED", !.status = "CANCELLED", !.payment = y]
    OBVIOUS
  <2>8. d \in Doc /\ d.status = "CANCELLED" /\ d.payment = y
        /\ d.fulfillment = "RETURNED" /\ d.method = doc[o].method
        /\ d.prints = doc[o].prints
    BY <1>2, <2>6, <2>7 DEF Doc, Fulfillments
  <2>9. Backed(d, o)
    BY <1>2, <2>4, <2>6, <2>8 DEF Backed
  <2>10. doc' = [doc EXCEPT ![o] = d]
    BY <1>1, <1>6, <2>5, <2>7 DEF ReturnedWrite, Write
  <2>. QED BY <1>2, <2>1, <2>2, <2>8, <2>9, <2>10, IdleOK, DocStep
<1>. QED BY <1>3, <1>4, <1>5, <1>6

LEMMA ReturnSteps ==
    ASSUME IInv, NEW p \in Callers, ~At(p, "idle"),
           ReturnRead(p) \/ ReturnWrite(p) \/ ReturnEmit(p)
    PROVE  IInv'
<1>1. PICK o \in Orders : o = run[p].order /\ o = Order(p)
  BY BusyFacts DEF Order
<1>2. /\ run[p] \in Runs /\ RunOK(run[p]) /\ doc[o] \in Doc
      /\ doc[o].status # "none" /\ Backed(run[p].seen, o) /\ Backed(doc[o], o)
  BY <1>1, BusyFacts DEF RunOK, At, OrderOK
<1>3. CASE ReturnRead(p)
  <2>1. UNCHANGED <<doc, ledger, link, sent, printAsked, left, requests, inbox>>
    BY <1>3 DEF ReturnRead
  <2>2. Counted
    BY <2>1 DEF IInv, TypeOK, Counted
  <2>3. PICK r \in Runs : OnTo(p, "return.write", r)
    BY <1>3, Went DEF IInv, Steps, ReturnRead
  <2>4. RunOK(r)
    BY <1>1, <1>2, <2>3, PlainOK DEF Plain, At, OnTo
  <2>. QED BY <2>1, <2>2, <2>3, <2>4, QuietMove DEF OnTo
<1>4. CASE ReturnWrite(p)
  <2>1. UNCHANGED <<ledger, link, sent, printAsked, left, requests, inbox>>
    BY <1>4 DEF ReturnWrite
  <2>2. Counted
    BY <2>1 DEF IInv, TypeOK, Counted
  <2>3. PICK r \in Runs : OnTo(p, "return.emit", r)
    BY <1>4, Went DEF IInv, Steps, ReturnWrite
  <2>4. RunOK(r)
    BY <1>1, <1>2, <2>3, PlainOK DEF Plain, At, OnTo
  <2>5. PICK d : d = [doc[o] EXCEPT !.fulfillment = "RETURNED"]
    OBVIOUS
  <2>6. d \in Doc /\ d.status = doc[o].status /\ d.payment = doc[o].payment
        /\ d.fulfillment = "RETURNED" /\ d.method = doc[o].method
        /\ d.prints = doc[o].prints
    BY <1>2, <2>5 DEF Doc, Fulfillments
  <2>7. Backed(d, o)
    BY <1>2, <2>6 DEF Backed
  <2>8. doc' = [doc EXCEPT ![o] = d]
    BY <1>1, <1>4, <2>5 DEF ReturnWrite, Write
  <2>. QED BY <1>2, <2>1, <2>2, <2>3, <2>4, <2>6, <2>7, <2>8, DocStep DEF OnTo
<1>5. CASE ReturnEmit(p)
  <2>1. UNCHANGED <<doc, ledger, link, printAsked, requests, inbox>>
    BY <1>5 DEF ReturnEmit
  <2>2. Counted /\ run' = [run EXCEPT ![p] = Idle]
    BY <1>5, <2>1, Returned DEF IInv, TypeOK, Counted, ReturnEmit
  <2>3. sent' = [sent EXCEPT ![o]["order.returned"] = @ + 1]
    BY <1>1, <1>5 DEF ReturnEmit, Send
  <2>4. printAsked' = [printAsked EXCEPT ![o] = @ \cup {}] /\ {} \in SUBSET {"sample", "full"}
    BY <2>1 DEF IInv, TypeOK
  <2>5. "order.returned" \in ShopJobs
    BY DEF ShopJobs
  <2>. QED BY <1>2, <2>1, <2>2, <2>3, <2>4, <2>5, IdleOK, SendStep
<1>. QED BY <1>3, <1>4, <1>5

LEMMA HandlersKeep ==
    ASSUME IInv, NEW p \in Callers, HandlerStep(p) \/ Fail(p)
    PROVE  IInv'
<1>1. CASE HandlerStep(p)
  BY <1>1, CheckoutSteps, CancelSteps, PaymentBooked, PaymentDecided, PaymentActedOn,
     StockAndPrintSteps, DeliveredSteps, ReturnSteps DEF HandlerStep
<1>2. CASE Fail(p)
  <2>1. UNCHANGED <<doc, ledger, link, sent, printAsked, left, requests, inbox>>
    BY <1>2 DEF Fail
  <2>2. Counted
    BY <2>1 DEF IInv, TypeOK, Counted
  <2>3. run' = [run EXCEPT ![p] = Idle]
    BY <1>2 DEF Fail
  <2>. QED BY <2>1, <2>2, <2>3, IdleOK, QuietMove
<1>. QED BY <1>1, <1>2

----------------------------------------------------------------------------
\* What starts from outside

\* A handler starts at the step of its task, on a copy that claims nothing.
LEMMA Started ==
    ASSUME TypeOK, NEW p \in Callers, NEW o \in Orders, NEW task \in Tasks, Start(p, o, task)
    PROVE  \E r \in Runs :
               /\ run' = [run EXCEPT ![p] = r]
               /\ r.at = Entry(task) /\ r.order = o /\ r.task = task /\ r.seen = NewDoc
<1>1. Entry(task) \in Steps
  BY DEF Entry, Steps, Tasks, Messages, Verdicts, Phases
<1>2. PICK r : r = [Idle EXCEPT !.at = Entry(task), !.order = o, !.task = task]
  OBVIOUS
<1>3. r \in Runs /\ r.at = Entry(task) /\ r.order = o /\ r.task = task /\ r.seen = NewDoc
  <2>1. Idle \in Runs /\ Idle.seen = NewDoc
    BY IdleOK DEF Idle
  <2>. QED BY <1>1, <1>2, <2>1 DEF Runs
<1>4. run' = [run EXCEPT ![p] = r]
  BY <1>2 DEF Start
<1>. QED BY <1>3, <1>4

\* A handler that starts promises only what its cause makes true.
LEMMA StartOK ==
    ASSUME NEW o \in Orders, doc[o].status # "none", NEW task \in Tasks,
           task \in Messages => task \in inbox[o],
           NEW r \in Runs, r.at = Entry(task), r.order = o, r.task = task, r.seen = NewDoc
    PROVE  RunOK(r)
<1>1. Backed(r.seen, o)
  BY DEF Backed, NewDoc
<1>2. /\ r.at \in Messages => r.task = r.at
      /\ r.at \notin PaySteps \cup {"reserved.emit", "printed.write", "printed.emit",
                                    "delivered.append", "delivered.write"}
      /\ r.at = "pay" => r.task \in Phases \cup {"manual"}
  BY DEF Entry, PaySteps, Tasks, Messages, Verdicts, Phases
<1>. QED BY <1>1, <1>2 DEF RunOK, PaySteps

LEMMA RequestKeeps ==
    ASSUME IInv, NEW o \in Orders, NEW p \in Requests,
           NEW task \in Phases \cup {"manual", "cancel", "return"}, Request(p, o, task)
    PROVE  IInv'
<1>1. UNCHANGED <<doc, ledger, link, sent, printAsked, left, inbox>>
  BY DEF Request
<1>2. Counted
  <2>1. MaxRequests \in Nat
    BY LifecycleAssumption
  <2>2. requests \in 0..MaxRequests /\ requests < MaxRequests /\ requests' = requests + 1
    BY DEF Request, IInv, TypeOK
  <2>3. requests' \in 0..MaxRequests
    BY <2>1, <2>2
  <2>. QED BY <1>1, <2>3 DEF IInv, TypeOK, Counted
<1>3. p \in Callers /\ task \in Tasks /\ task \notin Messages
  BY DEF Callers, Tasks, Phases, Messages, Verdicts
<1>4. PICK r \in Runs :
          /\ run' = [run EXCEPT ![p] = r]
          /\ r.at = Entry(task) /\ r.order = o /\ r.task = task /\ r.seen = NewDoc
  BY <1>3, Started DEF Request, IInv
<1>5. RunOK(r)
  BY <1>3, <1>4, StartOK DEF Request
<1>. QED BY <1>1, <1>2, <1>3, <1>4, <1>5, QuietMove

LEMMA LinkKeeps ==
    ASSUME IInv, NEW o \in Orders, NEW n \in Phases, CreateLink(o, n) \/ PayLink(o, n)
    PROVE  IInv'
<1>1. UNCHANGED <<doc, ledger, sent, printAsked, left, run, requests, inbox>>
  BY DEF CreateLink, PayLink
<1>2. link' \in [Orders -> [Phases -> {"none", "open", "paid", "cancelled"}]]
  <2>1. link \in [Orders -> [Phases -> {"none", "open", "paid", "cancelled"}]]
    BY DEF IInv, TypeOK
  <2>2. PICK l \in {"open", "paid"} : link' = [link EXCEPT ![o][n] = l]
    BY DEF CreateLink, PayLink
  <2>. QED BY <2>1, <2>2
<1>3. Counted
  BY <1>1, <1>2 DEF IInv, TypeOK, Counted
<1>4. \A x \in Orders : doc[x].status # "none" => Grows(x)
  BY <1>1, QuietGrows DEF IInv
<1>5. run' \in [Callers -> Runs]
  BY <1>1 DEF IInv, TypeOK
<1>6. ASSUME NEW q \in Callers
      PROVE  RunOK(run[q])'
  <2>1. PICK s \in Runs : s = run[q] /\ s = run'[q]
    BY <1>1 DEF IInv, TypeOK
  <2>2. RunOK(s)'
    BY <1>4, <2>1, RunStable DEF IInv
  <2>. QED BY <2>1, <2>2 DEF RunOK
<1>. QED BY <1>1, <1>3, <1>5, <1>6, QuietStep

LEMMA DeliverKeeps ==
    ASSUME IInv, NEW o \in Orders, NEW p \in Callers,
           NEW m \in Messages \cup {"auto.cancel"}, Deliver(p, o, m),
           doc[o].status # "none", m \in Messages => m \in inbox[o]
    PROVE  IInv'
<1>1. UNCHANGED <<doc, ledger, link, sent, printAsked, requests, inbox>>
  BY DEF Deliver
<1>2. left' \in [Orders -> [Messages \cup {"auto.cancel"} -> 0..MaxAttempts]]
  <2>1. MaxAttempts \in Nat
    BY LifecycleAssumption
  <2>2. left \in [Orders -> [Messages \cup {"auto.cancel"} -> 0..MaxAttempts]]
    BY DEF IInv, TypeOK
  <2>3. left[o][m] \in 0..MaxAttempts /\ left[o][m] > 0
    BY <2>2 DEF Deliver
  <2>4. PICK n : n = left[o][m] - 1
    OBVIOUS
  <2>5. n \in 0..MaxAttempts
    BY <2>1, <2>3, <2>4
  <2>6. left' = [left EXCEPT ![o][m] = n]
    BY <2>4 DEF Deliver
  <2>. QED BY <2>2, <2>5, <2>6
<1>3. Counted
  BY <1>1, <1>2 DEF IInv, TypeOK, Counted
<1>4. m \in Tasks
  BY DEF Tasks
<1>5. PICK r \in Runs :
          /\ run' = [run EXCEPT ![p] = r]
          /\ r.at = Entry(m) /\ r.order = o /\ r.task = m /\ r.seen = NewDoc
  BY <1>4, Started DEF Deliver, IInv
<1>6. RunOK(r)
  BY <1>4, <1>5, StartOK
<1>. QED BY <1>1, <1>3, <1>5, <1>6, QuietMove

\* An order that something was sent or said about was checked out.
LEMMA HeardWasPlaced ==
    ASSUME IInv, NEW o \in Orders,
           (\E job \in ShopJobs : sent[o][job] > 0) \/ printAsked[o] # {} \/ inbox[o] # {}
    PROVE  doc[o].status # "none"
BY DEF IInv, OrderOK, Fresh

LEMMA CheckoutKeeps ==
    ASSUME IInv, NEW o \in Orders, NEW p \in Requests, NEW kind \in Kinds[o],
           Checkout(p, o, kind)
    PROVE  IInv'
<1>1. UNCHANGED <<ledger, link, sent, printAsked, left, inbox>>
  BY DEF Checkout
<1>2. kind \in Methods \X BOOLEAN
  <2>1. Kinds \in [Orders -> SUBSET ({"COD", "ONLINE"} \X BOOLEAN)]
    BY LifecycleAssumption
  <2>. QED BY <2>1 DEF Methods
<1>3. PICK method \in Methods, prints \in BOOLEAN : kind = <<method, prints>>
  BY <1>2
<1>4. ~(method = "COD" /\ prints)
  BY <1>3 DEF Checkout
<1>5. PICK d : d = [NewDoc EXCEPT !.method = method, !.prints = prints, !.status = "PLACED"]
  OBVIOUS
<1>6. d \in Doc /\ d.status = "PLACED" /\ d.payment = "UNPAID"
      /\ d.fulfillment = "NONE" /\ d.method = method /\ d.prints = prints
  BY <1>5 DEF NewDoc, Doc, Payments, Fulfillments
<1>7. doc' = [doc EXCEPT ![o] = d]
  BY <1>3, <1>5 DEF Checkout, Write
<1>8. /\ doc' \in [Orders -> Doc] /\ doc'[o] = d
      /\ \A x \in Orders \ {o} : doc'[x] = doc[x]
  BY <1>6, <1>7 DEF IInv, TypeOK
<1>9. ASSUME NEW x \in Orders
      PROVE  Collected(x)' = Collected(x) /\ Collected(x) \in Nat
  BY <1>1, CollectedNat DEF Collected, IInv, TypeOK
<1>10. doc[o].status = "none"
  BY DEF Checkout
<1>11. \A x \in Orders : doc[x].status # "none" => Grows(x)
  BY <1>1, <1>8, <1>9, <1>10 DEF Grows
<1>12. Counted
  <2>1. MaxRequests \in Nat
    BY LifecycleAssumption
  <2>2. requests \in 0..MaxRequests /\ requests < MaxRequests /\ requests' = requests + 1
    BY DEF Checkout, IInv, TypeOK
  <2>3. requests' \in 0..MaxRequests
    BY <2>1, <2>2
  <2>. QED BY <1>1, <2>3 DEF IInv, TypeOK, Counted
<1>13. p \in Callers /\ "checkout" \in Tasks /\ Entry("checkout") = "checkout"
  BY DEF Callers, Tasks, Entry, Phases
<1>14. PICK r \in Runs :
          /\ run' = [run EXCEPT ![p] = r]
          /\ r.at = Entry("checkout") /\ r.order = o /\ r.task = "checkout" /\ r.seen = NewDoc
  BY <1>13, Started DEF Checkout, IInv
<1>15. RunOK(r)'
  <2>1. Backed(r.seen, o)'
    BY <1>14 DEF Backed, NewDoc
  <2>2. r.at = "checkout" /\ r.task \notin Messages /\ doc'[o].status # "none"
    BY <1>6, <1>8, <1>13, <1>14 DEF Messages, Verdicts
  <2>. QED BY <1>14, <2>1, <2>2 DEF RunOK, PaySteps, Messages, Verdicts
<1>16. /\ run' \in [Callers -> Runs]
       /\ \A q \in Callers : RunOK(run[q])'
  BY <1>11, <1>13, <1>14, <1>15, RunsKept DEF IInv, TypeOK
<1>17. TypeOK'
  BY <1>1, <1>8, <1>12, <1>16 DEF IInv, TypeOK, Counted
<1>18. Fresh(o) /\ \A job \in ShopJobs : sent[o][job] = 0 /\ printAsked[o] = {} /\ inbox[o] = {}
  BY <1>10 DEF IInv, OrderOK, Fresh, ShopJobs
<1>19. ASSUME NEW x \in Orders
       PROVE  OrderOK(x)'
  <2>1. CASE x = o
    <3>1. Fresh(o)' /\ Heard(o)'
      BY <1>1, <1>6, <1>8, <1>18 DEF Fresh, Heard, ShopJobs
    <3>2. Prepaid(o)'
      BY <1>1, <1>4, <1>6, <1>8, <1>18 DEF Prepaid, ShopJobs
    <3>3. Backed(doc[o], o)'
      BY <1>6, <1>8 DEF Backed
    <3>. QED BY <2>1, <3>1, <3>2, <3>3 DEF OrderOK
  <2>2. CASE x # o
    <3>1. OrderOK(x) /\ doc'[x] = doc[x]
      BY <1>8, <2>2 DEF IInv
    <3>2. Fresh(x)' /\ Heard(x)' /\ Prepaid(x)'
      BY <1>1, <3>1 DEF OrderOK, Fresh, Heard, Prepaid
    <3>3. Backed(doc[x], x)'
      BY <1>1, <1>9, <3>1 DEF OrderOK, Backed
    <3>. QED BY <3>2, <3>3 DEF OrderOK
  <2>. QED BY <2>1, <2>2
<1>20. ReadyIsEarned'
  <2>1. sent[o]["order.ready_to_fulfill"] = 0
    BY <1>18 DEF ShopJobs
  <2>. QED BY <1>1, <1>8, <1>9, <2>1 DEF IInv, ReadyIsEarned
<1>21. FullRunIsEarned'
  BY <1>1, <1>9 DEF IInv, FullRunIsEarned
<1>. QED BY <1>16, <1>17, <1>19, <1>20, <1>21 DEF IInv

\* The warehouse says what had a cause, and nothing else changes.
LEMMA SayingKeeps ==
    ASSUME IInv, UNCHANGED shopVars, NEW o \in Orders, NEW m \in Messages,
           inbox' = [inbox EXCEPT ![o] = @ \cup {m}],
           m \in Verdicts => sent[o]["stock.reserve_requested"] > 0,
           m \in Picked => sent[o]["order.ready_to_fulfill"] > 0,
           m = "print.sample" => "sample" \in printAsked[o],
           m = "print.full" => "full" \in printAsked[o]
    PROVE  IInv'
<1>1. UNCHANGED <<doc, ledger, link, sent, printAsked, left, run, requests>>
  BY DEF shopVars
<1>2. inbox' = [inbox EXCEPT ![o] = @ \cup {m}] /\ m \in Messages
  OBVIOUS
<1>4. /\ inbox' \in [Orders -> SUBSET Messages] /\ inbox'[o] = inbox[o] \cup {m}
      /\ \A x \in Orders \ {o} : inbox'[x] = inbox[x]
  BY <1>2 DEF IInv, TypeOK
<1>5. doc[o].status # "none"
  <2>1. "stock.reserve_requested" \in ShopJobs /\ "order.ready_to_fulfill" \in ShopJobs
    BY DEF ShopJobs
  <2>. QED BY <2>1, HeardWasPlaced DEF Messages, Verdicts, Picked
<1>6. ASSUME NEW x \in Orders
      PROVE  Collected(x)' = Collected(x) /\ Collected(x) \in Nat
  BY <1>1, CollectedNat DEF Collected, IInv, TypeOK
<1>7. \A x \in Orders : doc[x].status # "none" => Grows(x)
  BY <1>1, <1>4, <1>6 DEF Grows
<1>8. ASSUME NEW q \in Callers
      PROVE  RunOK(run[q])'
  <2>1. PICK s \in Runs : s = run[q] /\ s = run'[q]
    BY <1>1 DEF IInv, TypeOK
  <2>2. RunOK(s)'
    BY <1>7, <2>1, RunStable DEF IInv
  <2>. QED BY <2>1, <2>2 DEF RunOK
<1>9. TypeOK'
  BY <1>1, <1>4 DEF IInv, TypeOK
<1>10. ASSUME NEW x \in Orders
       PROVE  OrderOK(x)'
  <2>1. OrderOK(x)
    BY DEF IInv
  <2>2. Fresh(x)'
    BY <1>1, <1>4, <1>5, <2>1 DEF OrderOK, Fresh
  <2>3. Heard(x)'
    BY <1>1, <1>4, <2>1 DEF OrderOK, Heard
  <2>4. Prepaid(x)'
    BY <1>1, <2>1 DEF OrderOK, Prepaid
  <2>5. Backed(doc[x], x)'
    BY <1>1, <1>4, <1>6, <2>1 DEF OrderOK, Backed
  <2>. QED BY <2>2, <2>3, <2>4, <2>5 DEF OrderOK
<1>11. ReadyIsEarned'
  BY <1>1, <1>4, <1>6 DEF IInv, ReadyIsEarned
<1>12. FullRunIsEarned'
  BY <1>1, <1>4, <1>6 DEF IInv, FullRunIsEarned
<1>. QED BY <1>8, <1>9, <1>10, <1>11, <1>12 DEF IInv

LEMMA WarehouseKeeps ==
    ASSUME IInv, NEW o \in Orders, WarehouseSays(o)
    PROVE  IInv'
<1>1. PICK m \in Sayable(o) : inbox' = [inbox EXCEPT ![o] = @ \cup {m}]
  BY DEF WarehouseSays
<1>2. m \in Messages
  BY <1>1, SaidAssumption DEF Sayable
<1>. QED BY <1>1, <1>2, SayingKeeps DEF WarehouseSays, Sayable

LEMMA OutsideKeeps ==
    ASSUME IInv, NEW o \in Orders, Outside(o) \/ WarehouseSays(o) \/ AutoCancel(o)
    PROVE  IInv'
<1>1. ASSUME NEW p \in Consumers, NEW m \in Messages, Receive(p, o, m)
      PROVE  IInv'
  <2>1. p \in Callers /\ m \in inbox[o] /\ Deliver(p, o, m)
    BY <1>1 DEF Receive, Callers
  <2>2. doc[o].status # "none"
    BY <2>1, HeardWasPlaced
  <2>. QED BY <2>1, <2>2, DeliverKeeps
<1>2. CASE AutoCancel(o)
  <2>1. "auto" \in Callers /\ "auto.cancel" \notin Messages
    BY DEF Callers, Consumers, Messages, Verdicts
  <2>2. doc[o].status # "none"
    <3>1. "auto.cancel" \in ShopJobs
      BY DEF ShopJobs
    <3>. QED BY <1>2, <3>1, HeardWasPlaced DEF AutoCancel
  <2>. QED BY <1>2, <2>1, <2>2, DeliverKeeps DEF AutoCancel
<1>. QED BY <1>1, <1>2, CheckoutKeeps, RequestKeeps, LinkKeeps, WarehouseKeeps DEF Outside

----------------------------------------------------------------------------
\* What a module that composes this one needs besides

\* A handler only ever adds jobs.
LEMMA OnlySends ==
    ASSUME IInv, NEW p \in Callers, HandlerStep(p) \/ Fail(p)
    PROVE  \A o \in Orders, job \in ShopJobs :
               sent[o][job] \in Nat /\ sent'[o][job] \in Nat /\ sent'[o][job] >= sent[o][job]
<1>1. \/ sent' = sent
      \/ \E job \in ShopJobs : sent' = [sent EXCEPT ![run[p].order][job] = @ + 1]
  <2>1. \/ sent' = sent
        \/ Send(Order(p), "stock.reserve_requested") \/ Send(Order(p), "auto.cancel")
        \/ Send(Order(p), "order.cancelled") \/ Send(Order(p), "order.ready_to_fulfill")
        \/ Send(Order(p), "order.returned")
    BY DEF HandlerStep, Fail, CheckoutReserve, CheckoutDeadline, AutoCheck, CancelRead,
           CancelWrite, CancelEmit, CancelRefund, PayRead, PayAppend, PayList, PayWrite, PayEmit,
           ReservedWrite, ReservedEmit, Reached, PrintedRead, PrintedWrite, PrintedEmit,
           DeliveredList, DeliveredAppend, DeliveredWrite, ReturnedWrite, ReturnRead,
           ReturnWrite, ReturnEmit
  <2>. QED BY <2>1 DEF Send, Order, ShopJobs
<1>2. sent \in [Orders -> [ShopJobs -> Nat]]
  BY DEF IInv, TypeOK
<1>3. ASSUME NEW job \in ShopJobs, sent' = [sent EXCEPT ![run[p].order][job] = @ + 1],
             NEW o \in Orders, NEW k \in ShopJobs
      PROVE  sent'[o][k] = sent[o][k] \/ sent'[o][k] = sent[o][k] + 1
  BY <1>2, <1>3
<1>4. \A o \in Orders, k \in ShopJobs : sent'[o][k] = sent[o][k] \/ sent'[o][k] = sent[o][k] + 1
  BY <1>1, <1>3
<1>. QED BY <1>2, <1>4

\* auto.cancel is started by the queue that holds its job.
LEMMA AutoStartKeeps ==
    ASSUME IInv, NEW o \in Orders, doc[o].status # "none", AutoCancelStart(o), inbox' = inbox
    PROVE  IInv'
<1>1. UNCHANGED <<doc, ledger, link, sent, printAsked, left, requests, inbox>>
  BY DEF AutoCancelStart
<1>2. Counted
  BY <1>1 DEF IInv, TypeOK, Counted
<1>3. "auto" \in Callers /\ "auto.cancel" \in Tasks /\ "auto.cancel" \notin Messages
  BY DEF Callers, Consumers, Tasks, Messages, Verdicts
<1>4. PICK r \in Runs :
          /\ run' = [run EXCEPT !["auto"] = r]
          /\ r.at = Entry("auto.cancel") /\ r.order = o /\ r.task = "auto.cancel"
          /\ r.seen = NewDoc
  BY <1>3, Started DEF AutoCancelStart, IInv
<1>5. RunOK(r)
  BY <1>3, <1>4, StartOK
<1>. QED BY <1>1, <1>2, <1>3, <1>4, <1>5, QuietMove

\* The queue takes the job away from a handler.
LEMMA ForgottenKeeps ==
    ASSUME IInv, NEW p \in Callers, run' = [run EXCEPT ![p] = Idle],
           UNCHANGED <<doc, ledger, link, sent, printAsked, left, requests, inbox>>
    PROVE  IInv'
<1>1. Counted
  BY DEF IInv, TypeOK, Counted
<1>. QED BY <1>1, IdleOK, QuietMove

----------------------------------------------------------------------------
\* The theorems

LEMMA InitInv == Init => IInv
<1>. SUFFICES ASSUME Init
     PROVE  IInv
  OBVIOUS
<1>1. NewDoc \in Doc
  BY DEF NewDoc, Doc, Methods, Payments, Fulfillments
<1>2. TypeOK
  <2>1. MaxAttempts \in Nat /\ MaxRequests \in Nat
    BY LifecycleAssumption
  <2>2. requests \in 0..MaxRequests /\ MaxAttempts \in 0..MaxAttempts
    BY <2>1 DEF Init
  <2>3. run \in [Callers -> Runs]
    BY IdleOK DEF Init
  <2>4. /\ doc \in [Orders -> Doc]
        /\ ledger \in [Orders -> [TxnIds -> Nat]]
        /\ link \in [Orders -> [Phases -> {"none", "open", "paid", "cancelled"}]]
        /\ sent \in [Orders -> [ShopJobs -> Nat]]
        /\ printAsked \in [Orders -> SUBSET {"sample", "full"}]
        /\ inbox \in [Orders -> SUBSET Messages]
    BY <1>1 DEF Init
  <2>5. left \in [Orders -> [Messages \cup {"auto.cancel"} -> 0..MaxAttempts]]
    BY <2>2 DEF Init
  <2>. QED BY <2>2, <2>3, <2>4, <2>5 DEF TypeOK
<1>3. ASSUME NEW o \in Orders
      PROVE  OrderOK(o)
  <2>1. doc[o] = NewDoc /\ printAsked[o] = {} /\ inbox[o] = {}
        /\ \A job \in ShopJobs : sent[o][job] = 0
    BY DEF Init
  <2>2. doc[o].payment = "UNPAID" /\ doc[o].status = "none" /\ doc[o].fulfillment = "NONE"
        /\ doc[o].prints = FALSE
    BY <2>1 DEF NewDoc
  <2>. QED BY <2>1, <2>2 DEF OrderOK, Fresh, Heard, Prepaid, Backed
<1>4. ASSUME NEW p \in Callers
      PROVE  RunOK(run[p])
  BY DEF Init, RunOK, Idle
<1>5. ReadyIsEarned
  BY DEF Init, ReadyIsEarned, ShopJobs
<1>6. FullRunIsEarned
  BY DEF Init, FullRunIsEarned
<1>. QED BY <1>2, <1>3, <1>4, <1>5, <1>6 DEF IInv

LEMMA StutterKeeps == IInv /\ UNCHANGED vars => IInv'
<1>. SUFFICES ASSUME IInv, UNCHANGED vars
     PROVE  IInv'
  OBVIOUS
<1>1. UNCHANGED <<doc, ledger, link, sent, printAsked, left, run, requests, inbox>>
  BY DEF vars, shopVars
<1>2. Counted
  BY <1>1 DEF IInv, TypeOK, Counted
<1>3. \A x \in Orders : doc[x].status # "none" => Grows(x)
  BY <1>1, QuietGrows DEF IInv
<1>4. run' \in [Callers -> Runs]
  BY <1>1 DEF IInv, TypeOK
<1>5. ASSUME NEW q \in Callers
      PROVE  RunOK(run[q])'
  <2>1. PICK s \in Runs : s = run[q] /\ s = run'[q]
    BY <1>1 DEF IInv, TypeOK
  <2>2. RunOK(s)'
    BY <1>3, <2>1, RunStable DEF IInv
  <2>. QED BY <2>1, <2>2 DEF RunOK
<1>. QED BY <1>1, <1>2, <1>4, <1>5, QuietStep

LEMMA NextInv == IInv /\ [Next]_vars => IInv'
BY HandlersKeep, OutsideKeeps, StutterKeeps DEF Next, ShopNext

LEMMA Invariance == Spec => []IInv
BY InitInv, NextInv, PTL DEF Spec

\* The documents, ledgers, links, queues and handlers keep the shape the code
\* gives them, in every order of the steps of OrderService, PaymentService and
\* their consumers.
THEOREM TypeCorrect == Spec => []TypeOK
<1>1. IInv => TypeOK
  BY DEF IInv
<1>. QED BY <1>1, Invariance, PTL

\* An order is PAID, or due a refund, only if its ledger holds all but a per cent
\* of its total, although onPaymentSuccess, cancelOrder and onReturned decide on a
\* document they read steps before they write.
THEOREM PaidIsAlwaysBacked == Spec => []PaidIsBacked
<1>1. IInv => PaidIsBacked
  BY DEF IInv, OrderOK, Backed, PaidIsBacked
<1>. QED BY <1>1, Invariance, PTL

\* order.ready_to_fulfill goes out for no order that did not earn it: in full for
\* an ONLINE or printed order, by the reservation or half the price for a COD order.
THEOREM ReadyIsAlwaysEarned == Spec => []ReadyIsEarned
<1>1. IInv => ReadyIsEarned
  BY DEF IInv
<1>. QED BY <1>1, Invariance, PTL

\* The full run is printed for no order whose sample was not seen, or whose second
\* instalment is not in the ledger.
THEOREM FullRunIsAlwaysEarned == Spec => []FullRunIsEarned
<1>1. IInv => FullRunIsEarned
  BY DEF IInv
<1>. QED BY <1>1, Invariance, PTL

\* onDelivered closes no COD order whose price is not collected, however often it
\* is tried and wherever it dies.
THEOREM CodClosedIsAlwaysCollected == Spec => []CodClosedIsCollected
<1>1. IInv => CodClosedIsCollected
  BY DEF IInv, OrderOK, Backed, CodClosedIsCollected
<1>. QED BY <1>1, Invariance, PTL

=============================================================================
