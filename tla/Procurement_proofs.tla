-------------------------- MODULE Procurement_proofs -------------------------
(***************************************************************************)
(* Theorems about Procurement, for any items, options, handlers, workers,   *)
(* suppliers and requests.                                                  *)
(***************************************************************************)
EXTENDS Procurement, Sums

----------------------------------------------------------------------------
\* Barcodes

Digits == 0..9
Twelve == [1..12 -> Digits]

\* The first twelve digits of a barcode, and what they weigh.
First12(n) == <<2, 0>> \o [k \in 1..10 |-> (n \div Tens[k]) % 10]
Weight(k) == IF k % 2 = 1 THEN 1 ELSE 3
Weighted(d) == [k \in 1..12 |-> d[k] * Weight(k)]

LEMMA Concatenated ==
    ASSUME NEW S, NEW s \in Seq(S), NEW t \in Seq(S)
    PROVE  s \o t \in Seq(S) /\ Len(s \o t) = Len(s) + Len(t)
OBVIOUS

LEMMA DigitsOf ==
    ASSUME NEW n \in Nat
    PROVE  First12(n) \in Twelve
<1>. DEFINE tail == [k \in 1..10 |-> (n \div Tens[k]) % 10]
<1>1. \A k \in 1..10 : (n \div Tens[k]) % 10 \in Digits
  <2>1. ASSUME NEW k \in 1..10
        PROVE  Tens[k] \in Nat \ {0}
    BY DEF Tens
  <2>2. ASSUME NEW p \in Nat \ {0}
        PROVE  (n \div p) % 10 \in Digits
    <3>1. n \div p \in Int
      OBVIOUS
    <3>2. \A m \in Int : m % 10 \in 0..9
      OBVIOUS
    <3>. QED BY <3>1, <3>2 DEF Digits
  <2>. QED BY <2>1, <2>2
<1>2. tail \in Seq(Digits) /\ Len(tail) = 10
  BY <1>1
<1>3. <<2, 0>> \in Seq(Digits) /\ Len(<<2, 0>>) = 2
  BY DEF Digits
<1>. HIDE DEF tail
<1>4. <<2, 0>> \o tail \in Seq(Digits)
  BY <1>2, <1>3, Concatenated
<1>5. Len(<<2, 0>> \o tail) = Len(<<2, 0>>) + Len(tail)
  BY <1>2, <1>3, Concatenated
<1>6. Len(<<2, 0>> \o tail) = 12
  BY <1>2, <1>3, <1>5
<1>7. \A s \in Seq(Digits), m \in Nat : Len(s) = m => s \in [1..m -> Digits]
  OBVIOUS
<1>8. <<2, 0>> \o tail \in [1..12 -> Digits]
  BY <1>4, <1>6, <1>7
<1>. QED BY <1>8 DEF First12, tail, Twelve

LEMMA Ean13Is == \A n : Ean13(n) = Append(First12(n), CheckDigit(First12(n)))
BY DEF Ean13, First12

LEMMA FoldIsTotal ==
    ASSUME NEW s
    PROVE  FoldSeq(+, 0, s) = Total(s, DOMAIN s)
BY DEF FoldSeq, FoldFunction, FoldFunctionOnSet, MapThenFoldSet, Total, Fold, Solves, Pick1

\* The weighted sum of the digits, which the check digit makes up to a multiple of ten.
Weigh(d) == Total(Weighted(d), 1..12)

LEMMA TwelveFinite == IsFiniteSet(1..12) /\ IsFiniteSet(1..13)
<1>. 1 \in Int /\ 12 \in Int /\ 13 \in Int
  OBVIOUS
<1>. QED BY FiniteInterval

LEMMA WeighedDigits ==
    ASSUME NEW d \in Twelve
    PROVE  /\ Summable(Weighted(d), 1..12)
           /\ Weigh(d) \in Nat
           /\ CheckDigit(d) = (10 - (Weigh(d) % 10)) % 10
<1>1. IsFiniteSet(1..12)
  BY TwelveFinite
<1>2. \A k \in 1..12 : Weighted(d)[k] \in Nat
  <2>1. ASSUME NEW k \in 1..12
        PROVE  Weighted(d)[k] \in Nat
    <3>1. d[k] \in Digits
      BY DEF Twelve
    <3>2. Weighted(d)[k] = IF k % 2 = 1 THEN d[k] * 1 ELSE d[k] * 3
      BY DEF Weighted, Weight
    <3>. QED BY <3>1, <3>2 DEF Digits
  <2>. QED BY <2>1
<1>3. Summable(Weighted(d), 1..12)
  <2>1. \A k \in 1..12 : Weighted(d)[k] \in Int
    BY <1>2
  <2>. QED BY <1>1, <2>1 DEF Summable
<1>4. Weigh(d) \in Nat
  BY <1>1, <1>2, TotalNatural DEF Weigh
<1>5. FoldSeq(+, 0, Weighted(d)) = Weigh(d)
  <2>1. DOMAIN Weighted(d) = 1..12
    BY DEF Weighted
  <2>. QED BY <2>1, FoldIsTotal DEF Weigh
<1>6. CheckDigit(d) = (10 - (FoldSeq(+, 0, Weighted(d)) % 10)) % 10
  BY DEF CheckDigit, Weighted, Weight
<1>. QED BY <1>3, <1>4, <1>5, <1>6

\* Two numbers that differ in one digit have different check digits.
LEMMA OneDigitShows ==
    ASSUME NEW c \in Twelve, NEW d \in Twelve,
           NEW k \in 1..12, c[k] # d[k], \A m \in (1..12) \ {k} : c[m] = d[m]
    PROVE  CheckDigit(c) # CheckDigit(d)
<1>1. \A m \in (1..12) \ {k} : Weighted(c)[m] = Weighted(d)[m]
  BY DEF Weighted
<1>2. Weigh(d) = Weigh(c) + (Weighted(d)[k] - Weighted(c)[k])
  <2>1. Summable(Weighted(c), 1..12) /\ Summable(Weighted(d), 1..12)
    BY WeighedDigits
  <2>. QED BY <1>1, <2>1, TotalChanges DEF Weigh
<1>3. c[k] \in 0..9 /\ d[k] \in 0..9
  BY DEF Digits, Twelve
<1>4. PICK x \in Nat : x = Weigh(c)
  BY WeighedDigits
<1>5. PICK y \in Nat : y = Weigh(d)
  BY WeighedDigits
<1>6. PICK a \in 0..9 : a = c[k]
  BY <1>3
<1>7. PICK b \in 0..9 : b = d[k]
  BY <1>3
<1>8. y = x + (b - a) \/ y = x + (3 * b - 3 * a)
  <2>1. \/ Weighted(c)[k] = a /\ Weighted(d)[k] = b
        \/ Weighted(c)[k] = 3 * a /\ Weighted(d)[k] = 3 * b
    BY <1>6, <1>7 DEF Weighted, Weight
  <2>. QED BY <1>2, <1>4, <1>5, <2>1
<1>9. a # b
  BY <1>6, <1>7
<1>10. (10 - (x % 10)) % 10 # (10 - (y % 10)) % 10
  BY <1>8, <1>9
<1>. QED BY <1>4, <1>5, <1>10, WeighedDigits

LEMMA Appended ==
    ASSUME NEW S, NEW m \in Nat, NEW s \in [1..m -> S], NEW x \in S
    PROVE  Append(s, x) = [k \in 1..(m + 1) |-> IF k = m + 1 THEN x ELSE s[k]]
<1>. DEFINE t == Append(s, x)
<1>1. s \in Seq(S) /\ Len(s) = m
  OBVIOUS
<1>2. t \in Seq(S) /\ Len(t) = m + 1 /\ t[m + 1] = x
  BY <1>1
<1>3. \A k \in 1..m : t[k] = s[k]
  BY <1>1
<1>. HIDE DEF t
<1>4. t = [k \in 1..(m + 1) |-> t[k]]
  BY <1>2
<1>5. \A k \in 1..(m + 1) : t[k] = IF k = m + 1 THEN x ELSE s[k]
  BY <1>2, <1>3
<1>6. t = [k \in 1..(m + 1) |-> IF k = m + 1 THEN x ELSE s[k]]
  BY <1>4, <1>5
<1>. QED BY <1>6 DEF t

LEMMA Ean13Digits ==
    ASSUME NEW n \in Nat
    PROVE  /\ Ean13(n) = [k \in 1..13 |-> Ean13(n)[k]]
           /\ \A k \in 1..12 : Ean13(n)[k] = First12(n)[k]
           /\ Ean13(n)[13] = CheckDigit(First12(n))
<1>. DEFINE s == First12(n)
            x == CheckDigit(s)
            D == Digits \cup {x}
<1>1. s \in [1..12 -> Digits]
  BY DigitsOf DEF Twelve
<1>2. PICK m \in Nat : m = 12
  OBVIOUS
<1>3. s \in [1..m -> D] /\ x \in D
  BY <1>1, <1>2
<1>. HIDE DEF s, x, D
<1>4. Append(s, x) = [k \in 1..(m + 1) |-> IF k = m + 1 THEN x ELSE s[k]]
  BY <1>3, Appended
<1>5. Append(s, x) = [k \in 1..13 |-> IF k = 13 THEN x ELSE s[k]]
  BY <1>2, <1>4
<1>6. Ean13(n) = Append(s, x)
  BY Ean13Is DEF s, x
<1>. QED BY <1>5, <1>6 DEF s, x

\* Two barcodes never differ in one digit alone.
LEMMA TwoDigitsDiffer ==
    ASSUME NEW n \in Nat, NEW m \in Nat, Ean13(n) # Ean13(m)
    PROVE  Cardinality({k \in 1..13 : Ean13(n)[k] # Ean13(m)[k]}) > 1
<1>. DEFINE c == Ean13(n)
            d == Ean13(m)
            D == {k \in 1..13 : c[k] # d[k]}
<1>1. /\ c = [k \in 1..13 |-> c[k]] /\ d = [k \in 1..13 |-> d[k]]
      /\ \A k \in 1..12 : c[k] = First12(n)[k] /\ d[k] = First12(m)[k]
      /\ c[13] = CheckDigit(First12(n)) /\ d[13] = CheckDigit(First12(m))
  BY Ean13Digits
<1>2. First12(n) \in Twelve /\ First12(m) \in Twelve
  BY DigitsOf
<1>3. D # {}
  <2>. HIDE DEF c, d
  <2>1. c # d
    BY DEF c, d
  <2>. QED BY <1>1, <2>1
<1>4. ASSUME NEW k, D = {k}
      PROVE  FALSE
  <2>1. k \in 1..13 /\ c[k] # d[k] /\ \A j \in (1..13) \ {k} : c[j] = d[j]
    BY <1>4
  <2>. HIDE DEF c, d, D
  <2>2. CASE k = 13
    <3>1. \A j \in 1..12 : First12(n)[j] = First12(m)[j]
      BY <1>1, <2>1, <2>2
    <3>2. First12(n) = First12(m)
      BY <1>2, <3>1 DEF Twelve
    <3>. QED BY <1>1, <2>1, <2>2, <3>2
  <2>3. CASE k \in 1..12
    <3>1. First12(n)[k] # First12(m)[k] /\ \A j \in (1..12) \ {k} : First12(n)[j] = First12(m)[j]
      BY <1>1, <2>1, <2>3
    <3>2. CheckDigit(First12(n)) # CheckDigit(First12(m))
      BY <1>2, <2>3, <3>1, OneDigitShows
    <3>. QED BY <1>1, <2>1, <2>3, <3>2
  <2>. QED BY <2>1, <2>2, <2>3
<1>5. IsFiniteSet(D)
  BY TwelveFinite, FiniteSubset
<1>. HIDE DEF D
<1>6. Cardinality(D) \in Nat /\ Cardinality(D) # 0 /\ Cardinality(D) # 1
  BY <1>3, <1>4, <1>5, FS_CardinalityType, FS_EmptySet, FS_Singleton
<1>7. Cardinality(D) > 1
  BY <1>6
<1>. QED BY <1>7 DEF D

----------------------------------------------------------------------------
\* The drafts of the shop

\* A worker that still has to tell the managers is the only one at its sku, which is
\* marked and was not told of.
SyncInv ==
    /\ told \in Seq(marks)
    /\ syncing = [w \in Workers |-> syncing[w]]
    /\ \A w \in Workers :
          \/ syncing[w] = Waits
          \/ syncing[w] = [at |-> syncing[w].at, sku |-> syncing[w].sku] /\ syncing[w].at # "idle"
    /\ \A w \in Workers : At(w, "tell") =>
          syncing[w].sku \in marks /\ \A n \in DOMAIN told : told[n] # syncing[w].sku
    /\ \A v, w \in Workers : At(v, "tell") /\ At(w, "tell") /\ syncing[v].sku = syncing[w].sku => v = w

SyncAction ==
    /\ \A sku \in marks' \ marks : sku \in DOMAIN variants'
    /\ told' # told => Last(told') \in marks /\ Last(told') \notin Range(told)

\* One worker moves to a step that is not its last, or away from it: nothing is marked.
WorkerMoves(w) ==
    /\ UNCHANGED <<marks, told>>
    /\ syncing' = [syncing EXCEPT ![w] = syncing'[w]]
    /\ \/ syncing'[w] = Waits
       \/ /\ syncing'[w] = [at |-> syncing'[w].at, sku |-> syncing'[w].sku]
          /\ syncing'[w].at \notin {"idle", "tell"}

LEMMA MovesKeeps ==
    ASSUME SyncInv, NEW w \in Workers, WorkerMoves(w)
    PROVE  SyncInv' /\ SyncAction
<1>1. \A v \in Workers : syncing'[v] = IF v = w THEN syncing'[w] ELSE syncing[v]
  BY DEF SyncInv, WorkerMoves
<1>2. syncing'[w].at # "tell"
  BY DEF WorkerMoves, Waits
<1>3. syncing' = [v \in Workers |-> syncing'[v]]
  BY DEF SyncInv, WorkerMoves
<1>4. SyncInv'
  BY <1>1, <1>2, <1>3 DEF SyncInv, WorkerMoves, At
<1>. QED BY <1>4 DEF SyncAction, WorkerMoves

LEMMA SyncQuiet ==
    ASSUME SyncInv, UNCHANGED <<marks, told, syncing>>
    PROVE  SyncInv' /\ SyncAction
BY DEF SyncInv, At, SyncAction

LEMMA SyncCommitKeeps ==
    ASSUME SyncInv, NEW w \in Workers, SyncCommit(w)
    PROVE  SyncInv' /\ SyncAction
<1>. DEFINE sku == syncing[w].sku
<1>1. syncing[w] = [at |-> "commit", sku |-> sku]
  BY DEF SyncInv, SyncCommit, At, Waits
<1>2. CASE sku \in marks
  <2>1. WorkerMoves(w)
    BY <1>2 DEF SyncCommit, EndJob, WorkerMoves, SyncInv
  <2>. QED BY <2>1, MovesKeeps
<1>3. CASE sku \notin marks
  <2>1. /\ marks' = marks \cup {sku} /\ variants' = Added(sku, Slug(sku)) /\ UNCHANGED told
        /\ syncing' = [syncing EXCEPT ![w].at = "tell"]
    BY <1>3 DEF SyncCommit, Goto
  <2>2. syncing'[w] = [at |-> "tell", sku |-> sku] /\ \A v \in Workers \ {w} : syncing'[v] = syncing[v]
    BY <1>1, <2>1 DEF SyncInv
  <2>3. syncing' = [v \in Workers |-> syncing'[v]]
    BY <2>1 DEF SyncInv
  <2>4. told \in Seq(marks) /\ \A n \in DOMAIN told : told[n] \in marks
    BY DEF SyncInv
  <2>5. told' \in Seq(marks')
    BY <2>1, <2>4
  <2>6. \A v \in Workers \ {w} : At(v, "tell") => syncing[v].sku # sku
    BY <1>3 DEF SyncInv
  <2>. HIDE DEF sku
  <2>7. (\A v \in Workers : At(v, "tell") =>
          syncing[v].sku \in marks /\ \A n \in DOMAIN told : told[n] # syncing[v].sku)'
    <3>1. ASSUME NEW v \in Workers, At(v, "tell")'
          PROVE  syncing'[v].sku \in marks' /\ \A n \in DOMAIN told' : told'[n] # syncing'[v].sku
      <4>1. CASE v = w
        BY <1>3, <2>1, <2>2, <2>4, <4>1
      <4>2. CASE v # w
        BY <2>1, <2>2, <3>1, <4>2 DEF SyncInv, At
      <4>. QED BY <4>1, <4>2
    <3>. QED BY <3>1
  <2>8. (\A u, v \in Workers : At(u, "tell") /\ At(v, "tell") /\ syncing[u].sku = syncing[v].sku => u = v)'
    BY <2>2, <2>6 DEF SyncInv, At
  <2>9. (\A v \in Workers :
          \/ syncing[v] = Waits
          \/ syncing[v] = [at |-> syncing[v].at, sku |-> syncing[v].sku] /\ syncing[v].at # "idle")'
    BY <2>2 DEF SyncInv
  <2>10. SyncInv'
    BY <2>3, <2>5, <2>7, <2>8, <2>9 DEF SyncInv
  <2>11. SyncAction
    BY <2>1 DEF SyncAction, Added
  <2>. QED BY <2>10, <2>11
<1>. QED BY <1>2, <1>3

LEMMA SyncTellKeeps ==
    ASSUME SyncInv, NEW w \in Workers, SyncTell(w)
    PROVE  SyncInv' /\ SyncAction
<1>. DEFINE sku == syncing[w].sku
<1>1. /\ At(w, "tell") /\ told' = Append(told, sku) /\ UNCHANGED marks
      /\ syncing' = [syncing EXCEPT ![w] = Waits]
  BY DEF SyncTell, EndJob
<1>2. sku \in marks /\ \A n \in DOMAIN told : told[n] # sku
  BY <1>1 DEF SyncInv
<1>3. syncing'[w] = Waits /\ \A v \in Workers \ {w} : syncing'[v] = syncing[v]
  BY <1>1 DEF SyncInv
<1>4. syncing' = [v \in Workers |-> syncing'[v]]
  BY <1>1 DEF SyncInv
<1>5. told \in Seq(marks)
  BY DEF SyncInv
<1>6. \A v \in Workers \ {w} : At(v, "tell") => syncing[v].sku # sku
  BY <1>1 DEF SyncInv
<1>. HIDE DEF sku
<1>7. /\ told' \in Seq(marks') /\ Last(told') = sku
      /\ \A n \in DOMAIN told' : told'[n] = sku \/ (n \in DOMAIN told /\ told'[n] = told[n])
  <2>1. told' \in Seq(marks') /\ Len(told') = Len(told) + 1 /\ told'[Len(told) + 1] = sku
    BY <1>1, <1>2, <1>5
  <2>2. \A n \in DOMAIN told' : told'[n] = sku \/ (n \in DOMAIN told /\ told'[n] = told[n])
    BY <1>1, <1>2, <1>5
  <2>. QED BY <2>1, <2>2 DEF Last
<1>8. (\A v \in Workers : At(v, "tell") =>
          syncing[v].sku \in marks /\ \A n \in DOMAIN told : told[n] # syncing[v].sku)'
  <2>1. ASSUME NEW v \in Workers, At(v, "tell")'
        PROVE  syncing'[v].sku \in marks' /\ \A n \in DOMAIN told' : told'[n] # syncing'[v].sku
    <3>1. v # w
      BY <1>3, <2>1 DEF At, Waits
    <3>2. At(v, "tell") /\ syncing'[v] = syncing[v]
      BY <1>3, <2>1, <3>1 DEF At
    <3>. QED BY <1>1, <1>6, <1>7, <3>1, <3>2 DEF SyncInv
  <2>. QED BY <2>1
<1>9. (\A u, v \in Workers : At(u, "tell") /\ At(v, "tell") /\ syncing[u].sku = syncing[v].sku => u = v)'
  BY <1>3 DEF SyncInv, At, Waits
<1>10. SyncInv'
  BY <1>3, <1>4, <1>7, <1>8, <1>9 DEF SyncInv
<1>11. SyncAction
  BY <1>1, <1>2, <1>7 DEF SyncAction, Range
<1>. QED BY <1>10, <1>11

LEMMA SyncStepKeeps ==
    ASSUME SyncInv, NEW STATE queued, SyncStep(queued)
    PROVE  SyncInv' /\ SyncAction
<1>1. PICK w \in Workers :
         \/ \E sku \in queued : SyncBegin(w, sku)
         \/ SyncProduct(w) \/ SyncCreate(w) \/ SyncCommit(w) \/ SyncTell(w) \/ SyncDies(w)
  BY DEF SyncStep
<1>2. syncing[w] = Waits \/ syncing[w] = [at |-> syncing[w].at, sku |-> syncing[w].sku]
  BY DEF SyncInv
<1>3. \A next : syncing' = [syncing EXCEPT ![w] = next] => syncing'[w] = next
  BY DEF SyncInv
<1>4. ASSUME NEW at \in {"commit", "create"}, Goto(w, at), ~At(w, "idle")
      PROVE  syncing'[w] = [at |-> at, sku |-> syncing[w].sku] /\ syncing' = [syncing EXCEPT ![w] = syncing'[w]]
  <2>1. syncing[w] = [at |-> syncing[w].at, sku |-> syncing[w].sku]
    BY <1>2, <1>4 DEF At, Waits
  <2>2. syncing' = [syncing EXCEPT ![w] = [syncing[w] EXCEPT !.at = at]]
    BY <1>4 DEF Goto
  <2>3. [syncing[w] EXCEPT !.at = at] = [at |-> at, sku |-> syncing[w].sku]
    BY <2>1
  <2>. QED BY <2>2, <2>3 DEF SyncInv
<1>5. ASSUME EndJob(w)
      PROVE  syncing'[w] = Waits /\ syncing' = [syncing EXCEPT ![w] = syncing'[w]]
  BY <1>5 DEF EndJob, SyncInv
<1>6. CASE \E sku \in queued : SyncBegin(w, sku)
  <2>1. WorkerMoves(w)
    BY <1>6 DEF SyncBegin, WorkerMoves, SyncInv
  <2>. QED BY <2>1, MovesKeeps
<1>7. CASE SyncProduct(w)
  <2>1. ~At(w, "idle") /\ UNCHANGED <<marks, told>> /\ (Goto(w, "commit") \/ Goto(w, "create"))
    BY <1>7 DEF SyncProduct, At
  <2>2. WorkerMoves(w)
    BY <1>4, <2>1 DEF WorkerMoves
  <2>. QED BY <2>2, MovesKeeps
<1>8. CASE SyncCreate(w)
  <2>1. ~At(w, "idle") /\ UNCHANGED <<marks, told>> /\ (Goto(w, "commit") \/ EndJob(w))
    BY <1>8 DEF SyncCreate, At
  <2>2. WorkerMoves(w)
    BY <1>4, <1>5, <2>1 DEF WorkerMoves
  <2>. QED BY <2>2, MovesKeeps
<1>9. CASE SyncDies(w)
  <2>1. WorkerMoves(w)
    BY <1>5, <1>9 DEF SyncDies, WorkerMoves
  <2>. QED BY <2>1, MovesKeeps
<1>. QED BY <1>1, <1>6, <1>7, <1>8, <1>9, SyncCommitKeeps, SyncTellKeeps

LEMMA CatalogKeeps ==
    ASSUME SyncInv, NEW STATE skus, CatalogStep(skus)
    PROVE  SyncInv' /\ SyncAction
<1>1. UNCHANGED <<marks, told, syncing>>
  BY DEF CatalogStep, CreateProduct, CreateVariant, RenameVariant
<1>. QED BY <1>1, SyncQuiet

----------------------------------------------------------------------------
\* Handlers

OrderJobs == [kind : {"order"}, at : {"item", "quote", "count", "insert", "conflict"},
              since : Nat, tries : Nat, number : Nat,
              supplier : Suppliers, item : Items, qty : Quantities, unit : Units, priced : BOOLEAN]
OrderDocs == [number : Nat, supplier : Suppliers, item : Items, qty : Quantities, unit : Units]

\* Each try that was lost was lost to an order made since: before a try there are as many
\* as were lost, and a number that was counted is of an order after them.
InTime(job) ==
    /\ job.at \in {"item", "quote", "count"} => Len(orders) >= job.since + job.tries
    /\ job.at = "insert" => job.number <= Len(orders) + 1 /\ job.number > job.since + job.tries
    /\ job.at = "conflict" => Len(orders) >= job.since + MaxPoNumberRetries

OrdersInv ==
    /\ orders \in Seq(OrderDocs)
    /\ \A n \in DOMAIN orders : orders[n].number = n

HandlerShape(t) ==
    /\ t = [job |-> t.job, open |-> t.open, stale |-> t.stale, writes |-> t.writes]
    /\ t.open \in BOOLEAN /\ t.stale \in BOOLEAN
    /\ t.open => t.job.kind = "create"

HandlerOK(t) ==
    /\ HandlerShape(t)
    /\ t.job.kind = "order" => t.job \in OrderJobs /\ InTime(t.job)

HandlersInv ==
    /\ tx = [s \in Sessions |-> tx[s]]
    /\ \A s \in Sessions : HandlerOK(tx[s])

----------------------------------------------------------------------------
\* Items

IsDoc(doc) ==
    doc = [sku |-> doc.sku, barcode |-> doc.barcode, unit |-> doc.unit, size |-> doc.size,
           deleted |-> doc.deleted]

MadeItems == {i \in Items : Made(i)}

Keys == {Counter} \cup {Registered(c) : c \in Codes} \cup {Item(i) : i \in Items}

\* What a transaction will write: the next number, its barcode, and an item of that
\* barcode; while it is not stale, all three are still to be had.
CreateOK(t) ==
    LET n == t.writes[Counter]
        i == t.writes[Registered(Ean13(n))] IN
    /\ n \in 1..Cardinality(Items) /\ i \in Items
    /\ DOMAIN t.writes = {Counter, Registered(Ean13(n)), Item(i)}
    /\ IsDoc(t.writes[Item(i)]) /\ t.writes[Item(i)].barcode = Ean13(n)
    /\ ~t.stale => db[Counter] = n - 1 /\ db[Registered(Ean13(n))] = NoOwner /\ ~Made(i)

\* As many numbers are used as there are items, and a code and its item know each other.
RegisterInv ==
    /\ db = [x \in Keys |-> db[x]]
    /\ db[Counter] = Cardinality(MadeItems)
    /\ \A i \in Items : Made(i) =>
          /\ IsDoc(db[Item(i)])
          /\ db[Item(i)].barcode \in Codes
          /\ db[Registered(db[Item(i)].barcode)] = i
    /\ \A c \in Codes : db[Registered(c)] \in Items =>
          Made(db[Registered(c)]) /\ db[Item(db[Registered(c)])].barcode = c

ItemsInv == RegisterInv /\ \A s \in Sessions : tx[s].open => CreateOK(tx[s])

PInv == OrdersInv /\ HandlersInv /\ ItemsInv /\ SyncInv

----------------------------------------------------------------------------
\* Orders

LEMMA InTimeStays ==
    ASSUME NEW job \in OrderJobs, InTime(job),
           orders \in Seq(OrderDocs), orders' \in Seq(OrderDocs), Len(orders) <= Len(orders')
    PROVE  InTime(job)'
<1>. DEFINE a == Len(orders)  b == Len(orders')
<1>1. a \in Nat /\ b \in Nat /\ a <= b
  OBVIOUS
<1>2. job.since \in Nat /\ job.tries \in Nat /\ job.number \in Nat
  BY DEF OrderJobs
<1>. HIDE DEF a, b
<1>3. /\ job.at \in {"item", "quote", "count"} => a >= job.since + job.tries
      /\ job.at = "insert" => job.number <= a + 1 /\ job.number > job.since + job.tries
      /\ job.at = "conflict" => a >= job.since + MaxPoNumberRetries
  BY DEF InTime, a
<1>4. /\ job.at \in {"item", "quote", "count"} => b >= job.since + job.tries
      /\ job.at = "insert" => job.number <= b + 1 /\ job.number > job.since + job.tries
      /\ job.at = "conflict" => b >= job.since + MaxPoNumberRetries
  BY <1>1, <1>2, <1>3 DEF MaxPoNumberRetries
<1>. QED BY <1>4 DEF InTime, b

\* One handler goes on, and orders are only added.
LEMMA OneHandler ==
    ASSUME HandlersInv, OrdersInv, OrdersInv', Len(orders) <= Len(orders'),
           NEW s \in Sessions, tx' = [tx EXCEPT ![s] = tx'[s]], HandlerOK(tx[s])'
    PROVE  HandlersInv'
<1>1. tx' = [t \in Sessions |-> tx'[t]] /\ \A t \in Sessions \ {s} : tx'[t] = tx[t]
  BY DEF HandlersInv
<1>2. ASSUME NEW t \in Sessions \ {s}
      PROVE  HandlerOK(tx[t])'
  <2>1. tx'[t] = tx[t] /\ HandlerOK(tx[t])
    BY <1>1 DEF HandlersInv
  <2>2. ASSUME tx[t].job.kind = "order"
        PROVE  InTime(tx[t].job)'
    <3>1. tx[t].job \in OrderJobs /\ InTime(tx[t].job)
      BY <2>1, <2>2 DEF HandlerOK
    <3>2. PICK job \in OrderJobs : job = tx[t].job
      BY <3>1
    <3>3. InTime(job)'
      BY <3>1, <3>2, InTimeStays DEF OrdersInv
    <3>. QED BY <2>1, <3>2, <3>3 DEF InTime
  <2>. QED BY <2>1, <2>2 DEF HandlerOK, HandlerShape
<1>. QED BY <1>1, <1>2 DEF HandlersInv

LEMMA OrdersQuiet == OrdersInv /\ UNCHANGED orders => OrdersInv' /\ Len(orders) <= Len(orders')
<1>. SUFFICES ASSUME OrdersInv, UNCHANGED orders
              PROVE  OrdersInv' /\ Len(orders) <= Len(orders')
  OBVIOUS
<1>1. Len(orders) \in Nat
  BY DEF OrdersInv
<1>. QED BY <1>1 DEF OrdersInv

LEMMA WithJob ==
    ASSUME NEW t, t = [job |-> t.job, open |-> t.open, stale |-> t.stale, writes |-> t.writes], NEW job
    PROVE  [t EXCEPT !.job = job] = [job |-> job, open |-> t.open, stale |-> t.stale, writes |-> t.writes]
OBVIOUS

LEMMA NoTxWithJob ==
    ASSUME NEW job
    PROVE  [NoTx EXCEPT !.job = job] = [job |-> job, open |-> FALSE, stale |-> FALSE, writes |-> <<>>]
<1>1. PICK t : t = NoTx
  OBVIOUS
<1>2. /\ t = [job |-> t.job, open |-> t.open, stale |-> t.stale, writes |-> t.writes]
      /\ t.open = FALSE /\ t.stale = FALSE /\ t.writes = <<>>
  BY <1>1 DEF NoTx
<1>3. [t EXCEPT !.job = job] = [job |-> job, open |-> t.open, stale |-> t.stale, writes |-> t.writes]
  BY <1>2, WithJob
<1>. QED BY <1>1, <1>2, <1>3

LEMMA ShapeOf ==
    ASSUME NEW t, NEW job, NEW writes, NEW open \in BOOLEAN, NEW stale \in BOOLEAN,
           t = [job |-> job, open |-> open, stale |-> stale, writes |-> writes],
           open => job.kind = "create"
    PROVE  HandlerShape(t) /\ t.job = job /\ t.open = open /\ t.stale = stale /\ t.writes = writes
BY DEF HandlerShape

\* A handler that is free, or that was given a job of its own.
LEMMA FreeIsOK ==
    /\ HandlerOK(NoTx)
    /\ \A job : job.kind \in {"create", "resize", "status"} => HandlerOK([NoTx EXCEPT !.job = job])
<1>1. HandlerOK(NoTx)
  BY DEF HandlerOK, HandlerShape, NoTx, NoJob
<1>2. ASSUME NEW job, job.kind \in {"create", "resize", "status"}
      PROVE  HandlerOK([NoTx EXCEPT !.job = job])
  <2>1. PICK t : t = [NoTx EXCEPT !.job = job]
    OBVIOUS
  <2>2. t = [job |-> job, open |-> FALSE, stale |-> FALSE, writes |-> <<>>]
    BY <2>1, NoTxWithJob
  <2>3. HandlerOK(t)
    BY <1>2, <2>2 DEF HandlerOK, HandlerShape
  <2>. QED BY <2>1, <2>3
<1>. QED BY <1>1, <1>2

\* The steps after which a handler is free.
LEMMA HandlerEnds ==
    ASSUME HandlersInv, OrdersInv, OrdersInv', Len(orders) <= Len(orders'),
           NEW s \in Sessions, tx' = [tx EXCEPT ![s] = NoTx]
    PROVE  HandlersInv'
<1>1. tx'[s] = NoTx /\ tx' = [tx EXCEPT ![s] = tx'[s]]
  BY DEF HandlersInv
<1>2. HandlerOK(tx[s])'
  <2>1. PICK t : t = NoTx
    OBVIOUS
  <2>2. HandlerShape(t) /\ t.job.kind # "order"
    BY <2>1 DEF HandlerShape, NoTx, NoJob
  <2>. QED BY <1>1, <2>1, <2>2 DEF HandlerOK, HandlerShape
<1>. QED BY <1>1, <1>2, OneHandler

LEMMA HandlerBegins ==
    ASSUME HandlersInv, OrdersInv, UNCHANGED orders,
           NEW s \in Sessions, NEW STATE job, job.kind \in {"create", "resize", "status"},
           ReadOutside(s, job)
    PROVE  HandlersInv'
<1>1. tx'[s] = [job |-> job, open |-> FALSE, stale |-> FALSE, writes |-> <<>>]
      /\ tx' = [tx EXCEPT ![s] = tx'[s]]
  BY NoTxWithJob DEF HandlersInv, ReadOutside
<1>2. HandlerOK(tx[s])'
  <2>1. PICK t : t = tx'[s]
    OBVIOUS
  <2>2. PICK given : given = job
    OBVIOUS
  <2>3. t = [job |-> given, open |-> FALSE, stale |-> FALSE, writes |-> <<>>]
    BY <1>1, <2>1, <2>2
  <2>4. HandlerShape(t) /\ t.job = given
    BY <2>3, ShapeOf
  <2>5. t.job.kind # "order"
    BY <2>2, <2>4
  <2>. QED BY <2>1, <2>4, <2>5 DEF HandlerOK, HandlerShape
<1>. QED BY <1>1, <1>2, OneHandler, OrdersQuiet

\* An order that is being made goes on to its next step.
LEMMA OrderGoesOn ==
    ASSUME HandlersInv, OrdersInv, UNCHANGED orders, NEW s \in Sessions,
           NEW job \in OrderJobs, InTime(job), IsReady(s), tx' = [tx EXCEPT ![s].job = job]
    PROVE  HandlersInv'
<1>1. tx[s] = [job |-> tx[s].job, open |-> tx[s].open, stale |-> tx[s].stale, writes |-> tx[s].writes]
      /\ tx[s].open = FALSE /\ tx[s].stale \in BOOLEAN
  BY DEF HandlersInv, HandlerOK, HandlerShape, IsReady
<1>2. tx'[s] = [tx[s] EXCEPT !.job = job] /\ tx' = [tx EXCEPT ![s] = tx'[s]]
  BY DEF HandlersInv
<1>3. tx'[s] = [job |-> job, open |-> FALSE, stale |-> tx[s].stale, writes |-> tx[s].writes]
  <2>1. PICK t : t = tx[s]
    OBVIOUS
  <2>2. [t EXCEPT !.job = job] = [job |-> job, open |-> t.open, stale |-> t.stale, writes |-> t.writes]
    BY <1>1, <2>1, WithJob
  <2>. QED BY <1>1, <1>2, <2>1, <2>2
<1>4. InTime(job)'
  BY DEF InTime
<1>5. HandlerOK(tx[s])'
  <2>1. PICK t, stale, writes : t = tx'[s] /\ stale = tx[s].stale /\ writes = tx[s].writes
    OBVIOUS
  <2>2. t = [job |-> job, open |-> FALSE, stale |-> stale, writes |-> writes] /\ stale \in BOOLEAN
    BY <1>1, <1>3, <2>1
  <2>3. HandlerShape(t) /\ t.job = job
    BY <2>2, ShapeOf
  <2>. QED BY <1>4, <2>1, <2>3 DEF HandlerOK, HandlerShape, InTime
<1>. QED BY <1>2, <1>5, OneHandler, OrdersQuiet

LEMMA OrderIsBegun ==
    ASSUME HandlersInv, OrdersInv, UNCHANGED orders,
           NEW s \in Sessions, NEW job \in OrderJobs, InTime(job), ReadOutside(s, job)
    PROVE  HandlersInv'
<1>1. tx'[s] = [job |-> job, open |-> FALSE, stale |-> FALSE, writes |-> <<>>]
      /\ tx' = [tx EXCEPT ![s] = tx'[s]]
  BY NoTxWithJob DEF HandlersInv, ReadOutside
<1>2. HandlerOK(tx[s])'
  <2>1. PICK t : t = tx'[s]
    OBVIOUS
  <2>2. HandlerShape(t) /\ t.job = job
    BY <1>1, <2>1, ShapeOf
  <2>. QED BY <2>1, <2>2 DEF HandlerOK, HandlerShape, InTime
<1>. QED BY <1>1, <1>2, OneHandler, OrdersQuiet

OrdersKept == OrdersInv' /\ HandlersInv'

\* What a handler that makes an order holds.
LEMMA OrderAt ==
    ASSUME HandlersInv, NEW s \in Sessions, IsReady(s), tx[s].job.kind = "order"
    PROVE  tx[s].job \in OrderJobs /\ InTime(tx[s].job)
BY DEF HandlersInv, HandlerOK

LEMMA OrderBeginKeeps ==
    ASSUME OrdersInv, HandlersInv, NEW s \in Sessions, OrderBegin(s)
    PROVE  OrdersKept
<1>1. PICK form \in OrderForm :
         ReadOutside(s, [kind |-> "order", at |-> "item", since |-> Len(orders), tries |-> 0, number |-> 0,
                         supplier |-> form.supplier, item |-> form.item, qty |-> form.qty,
                         unit |-> form.unit, priced |-> form.priced])
  BY DEF OrderBegin
<1>2. UNCHANGED orders
  BY DEF OrderBegin, purchaseVars
<1>3. PICK n : n = Len(orders) /\ n \in Nat
  BY DEF OrdersInv
<1>4. PICK job : job = [kind |-> "order", at |-> "item", since |-> n, tries |-> 0, number |-> 0,
                        supplier |-> form.supplier, item |-> form.item, qty |-> form.qty,
                        unit |-> form.unit, priced |-> form.priced]
  OBVIOUS
<1>5. job \in OrderJobs
  BY <1>3, <1>4 DEF OrderJobs, OrderForm
<1>6. job.at = "item" /\ job.since = n /\ job.tries = 0
  BY <1>4
<1>7. InTime(job)
  BY <1>3, <1>6 DEF InTime
<1>8. ReadOutside(s, job)
  BY <1>1, <1>3, <1>4
<1>. QED BY <1>2, <1>5, <1>7, <1>8, OrderIsBegun, OrdersQuiet DEF OrdersKept

\* The steps of an order before its insert.
LEMMA OrderReadsKeep ==
    ASSUME OrdersInv, HandlersInv, NEW s \in Sessions, OrderItem(s) \/ OrderQuote(s) \/ OrderCount(s)
    PROVE  OrdersKept
<1>1. IsReady(s) /\ tx[s].job.kind = "order"
  BY DEF OrderItem, OrderQuote, OrderCount, Ordering
<1>2. PICK job \in OrderJobs : job = tx[s].job /\ InTime(job)
  BY <1>1, OrderAt
<1>3. PICK n : n = Len(orders) /\ n \in Nat
  BY DEF OrdersInv
<1>4. job.since \in Nat /\ job.tries \in Nat
  BY DEF OrderJobs
<1>5. ASSUME NEW next \in OrderJobs, InTime(next), GoOn(s, next)
      PROVE  OrdersKept
  BY <1>1, <1>5, OrderGoesOn, OrdersQuiet DEF GoOn, purchaseVars, OrdersKept
<1>6. ASSUME Refuse(s)
      PROVE  OrdersKept
  BY <1>6, HandlerEnds, OrdersQuiet DEF Refuse, purchaseVars, OrdersKept
<1>7. CASE OrderItem(s)
  <2>1. PICK next : next = [job EXCEPT !.at = "quote"]
    OBVIOUS
  <2>2. next \in OrderJobs /\ next.at = "quote" /\ next.since = job.since /\ next.tries = job.tries
    BY <2>1 DEF OrderJobs
  <2>3. job.at = "item"
    BY <1>2, <1>7 DEF OrderItem, Ordering
  <2>4. InTime(next)
    BY <1>2, <2>2, <2>3 DEF InTime
  <2>5. GoOn(s, next) \/ Refuse(s)
    BY <1>2, <1>7, <2>1 DEF OrderItem
  <2>. QED BY <1>5, <1>6, <2>2, <2>4, <2>5
<1>8. CASE OrderQuote(s)
  <2>1. PICK next : next = [job EXCEPT !.at = "count"]
    OBVIOUS
  <2>2. next \in OrderJobs /\ next.at = "count" /\ next.since = job.since /\ next.tries = job.tries
    BY <2>1 DEF OrderJobs
  <2>3. job.at = "quote"
    BY <1>2, <1>8 DEF OrderQuote, Ordering
  <2>4. InTime(next)
    BY <1>2, <2>2, <2>3 DEF InTime
  <2>5. GoOn(s, next) \/ Refuse(s)
    BY <1>2, <1>8, <2>1 DEF OrderQuote
  <2>. QED BY <1>5, <1>6, <2>2, <2>4, <2>5
<1>9. CASE OrderCount(s)
  <2>1. PICK next : next = [job EXCEPT !.at = "insert", !.number = n + 1]
    OBVIOUS
  <2>2. /\ next \in OrderJobs /\ next.at = "insert"
        /\ next.since = job.since /\ next.tries = job.tries /\ next.number = n + 1
    <3>1. PICK number \in Nat : number = n + 1
      BY <1>3
    <3>2. next = [job EXCEPT !.at = "insert", !.number = number]
      BY <2>1, <3>1
    <3>. QED BY <3>1, <3>2 DEF OrderJobs
  <2>3. n >= job.since + job.tries
    BY <1>2, <1>3, <1>9 DEF OrderCount, Ordering, InTime
  <2>4. InTime(next)
    BY <1>3, <1>4, <2>2, <2>3 DEF InTime
  <2>5. GoOn(s, next)
    BY <1>2, <1>3, <1>9, <2>1 DEF OrderCount
  <2>. QED BY <1>5, <2>2, <2>4, <2>5
<1>. QED BY <1>7, <1>8, <1>9

\* A number that is not taken is the next one, for all before it are.
LEMMA OrderInsertKeeps ==
    ASSUME OrdersInv, HandlersInv, NEW s \in Sessions, OrderInsert(s)
    PROVE  OrdersKept
<1>1. IsReady(s) /\ tx[s].job.kind = "order"
  BY DEF OrderInsert, Ordering
<1>2. PICK job \in OrderJobs : job = tx[s].job /\ InTime(job)
  BY <1>1, OrderAt
<1>3. PICK n : n = Len(orders) /\ n \in Nat /\ DOMAIN orders = 1..n
  BY DEF OrdersInv
<1>4. job.since \in Nat /\ job.tries \in Nat /\ job.number \in Nat
  BY DEF OrderJobs
<1>5. job.number <= n + 1 /\ job.number > job.since + job.tries
  BY <1>2, <1>3 DEF InTime, OrderInsert, Ordering
<1>6. CASE ~IsTaken(job.number)
  <2>1. PICK doc : doc = [number |-> job.number, supplier |-> job.supplier,
                          item |-> job.item, qty |-> job.qty, unit |-> job.unit]
    OBVIOUS
  <2>2. doc \in OrderDocs /\ doc.number = job.number
    BY <2>1 DEF OrderJobs, OrderDocs
  <2>3. orders' = Append(orders, doc) /\ tx' = [tx EXCEPT ![s] = NoTx]
    BY <1>2, <1>6, <2>1 DEF OrderInsert
  <2>4. job.number = n + 1
    <3>1. job.number \notin 1..n
      BY <1>3, <1>6 DEF IsTaken, OrdersInv
    <3>. QED BY <1>3, <1>4, <1>5, <3>1
  <2>5. orders' \in Seq(OrderDocs) /\ Len(orders') = n + 1 /\ DOMAIN orders' = 1..(n + 1)
    BY <1>3, <2>2, <2>3 DEF OrdersInv
  <2>6. \A m \in 1..(n + 1) : orders'[m] = IF m = n + 1 THEN doc ELSE orders[m]
    BY <1>3, <2>2, <2>3 DEF OrdersInv
  <2>7. ASSUME NEW m \in 1..(n + 1)
        PROVE  orders'[m].number = m
    <3>1. CASE m = n + 1
      BY <2>2, <2>4, <2>6, <3>1
    <3>2. CASE m # n + 1
      <4>1. m \in 1..n
        BY <1>3, <3>2
      <4>. QED BY <1>3, <2>6, <3>2, <4>1 DEF OrdersInv
    <3>. QED BY <3>1, <3>2
  <2>8. OrdersInv'
    BY <2>5, <2>7 DEF OrdersInv
  <2>9. Len(orders) <= Len(orders')
    BY <1>3, <2>5
  <2>. QED BY <2>3, <2>8, <2>9, HandlerEnds DEF OrdersKept
<1>7. CASE IsTaken(job.number)
  <2>1. job.number <= n
    BY <1>3, <1>7 DEF IsTaken, OrdersInv
  <2>2. PICK at \in {"count", "conflict"} :
           at = IF job.tries + 1 < MaxPoNumberRetries THEN "count" ELSE "conflict"
    OBVIOUS
  <2>3. PICK next : next = [job EXCEPT !.tries = @ + 1, !.at = at]
    OBVIOUS
  <2>4. /\ next \in OrderJobs /\ next.at = at
        /\ next.since = job.since /\ next.tries = job.tries + 1
    <3>1. PICK tries \in Nat : tries = job.tries + 1
      BY <1>4
    <3>2. next = [job EXCEPT !.tries = tries, !.at = at]
      BY <2>3, <3>1
    <3>. QED BY <2>2, <3>1, <3>2 DEF OrderJobs
  <2>5. InTime(next)
    BY <1>3, <1>4, <1>5, <2>1, <2>2, <2>4 DEF InTime, MaxPoNumberRetries
  <2>6. GoOn(s, next)
    BY <1>2, <1>7, <2>2, <2>3 DEF OrderInsert
  <2>. QED BY <1>1, <2>4, <2>5, <2>6, OrderGoesOn, OrdersQuiet DEF GoOn, purchaseVars, OrdersKept
<1>. QED BY <1>6, <1>7

\* Nothing moves that the orders or the handlers look at.
LEMMA NothingTakenUp ==
    ASSUME OrdersInv, HandlersInv, UNCHANGED <<tx, orders>>
    PROVE  HandlersInv'
BY DEF HandlersInv, HandlerOK, HandlerShape, InTime

LEMMA Staled ==
    ASSUME NEW t, t = [job |-> t.job, open |-> t.open, stale |-> t.stale, writes |-> t.writes], NEW stale
    PROVE  [t EXCEPT !.stale = stale] = [job |-> t.job, open |-> t.open, stale |-> stale, writes |-> t.writes]
OBVIOUS

LEMMA PurchaseKeepsOrders ==
    ASSUME OrdersInv, HandlersInv, PurchaseStep
    PROVE  OrdersKept
<1>1. CASE UNCHANGED <<tx, orders>>
  BY <1>1, OrdersQuiet, NothingTakenUp DEF OrdersKept
<1>2. CASE \E c \in Suppliers : CreateSupplier(c) \/ DeleteSupplier(c)
  BY <1>1, <1>2 DEF CreateSupplier, DeleteSupplier
<1>3. CASE \E c \in Suppliers, i \in Items :
              UpsertQuote(i, c) \/ \E other \in Suppliers : UpdateQuote(i, c, other)
  BY <1>1, <1>3 DEF UpsertQuote, UpdateQuote
<1>4. ASSUME NEW s \in Sessions, NEW c \in Suppliers, StatusRead(s, c)
      PROVE  OrdersKept
  <2>1. PICK status : ReadOutside(s, [kind |-> "status", supplier |-> c, status |-> status])
    BY <1>4 DEF StatusRead
  <2>2. UNCHANGED orders
    BY <1>4 DEF StatusRead, purchaseVars
  <2>3. PICK job : job = [kind |-> "status", supplier |-> c, status |-> status]
    OBVIOUS
  <2>4. job.kind = "status" /\ ReadOutside(s, job)
    BY <2>1, <2>3
  <2>. QED BY <2>2, <2>4, HandlerBegins, OrdersQuiet DEF OrdersKept
<1>5. ASSUME NEW s \in Sessions, StatusWrite(s)
      PROVE  OrdersKept
  BY <1>5, HandlerEnds, OrdersQuiet DEF StatusWrite, OrdersKept
<1>6. ASSUME NEW s \in Sessions, OrderGivenUp(s)
      PROVE  OrdersKept
  BY <1>6, HandlerEnds, OrdersQuiet DEF OrderGivenUp, Refuse, purchaseVars, OrdersKept
<1>. QED BY <1>2, <1>3, <1>4, <1>5, <1>6, OrderBeginKeeps, OrderReadsKeep, OrderInsertKeeps DEF PurchaseStep

\* The steps of the items leave the orders alone.
LEMMA ItemsKeepOrders ==
    ASSUME OrdersInv, HandlersInv, NEW STATE ordered, ItemStep(ordered), UNCHANGED orders
    PROVE  OrdersKept
<1>1. CASE UNCHANGED tx
  BY <1>1, OrdersQuiet, NothingTakenUp DEF OrdersKept
<1>2. ASSUME NEW s \in Sessions, CreateRead(s)
      PROVE  OrdersKept
  <2>1. PICK form \in ItemForms : ReadOutside(s, [kind |-> "create", sku |-> BuildSku(form.type, form.chosen)])
    BY <1>2 DEF CreateRead
  <2>2. PICK job : job = [kind |-> "create", sku |-> BuildSku(form.type, form.chosen)]
    OBVIOUS
  <2>3. job.kind = "create" /\ ReadOutside(s, job)
    BY <2>1, <2>2
  <2>. QED BY <2>3, HandlerBegins, OrdersQuiet DEF OrdersKept
<1>3. ASSUME NEW s \in Sessions, NEW i \in Items, ResizeRead(s, i, ordered)
      PROVE  OrdersKept
  <2>1. PICK size : ReadOutside(s, [kind |-> "resize", item |-> i, size |-> size])
    BY <1>3 DEF ResizeRead
  <2>2. PICK job : job = [kind |-> "resize", item |-> i, size |-> size]
    OBVIOUS
  <2>3. job.kind = "resize" /\ ReadOutside(s, job)
    BY <2>1, <2>2
  <2>. QED BY <2>3, HandlerBegins, OrdersQuiet DEF OrdersKept
<1>4. ASSUME NEW s \in Sessions, tx' = [tx EXCEPT ![s] = NoTx]
      PROVE  OrdersKept
  BY <1>4, HandlerEnds, OrdersQuiet DEF OrdersKept
<1>5. ASSUME NEW s \in Sessions, CreateOpen(s)
      PROVE  OrdersKept
  <2>1. PICK writes : tx' = [tx EXCEPT ![s] = [job |-> tx[s].job, open |-> TRUE, stale |-> FALSE, writes |-> writes]]
    BY <1>5 DEF CreateOpen, OpenTx
  <2>2. PICK job : job = tx[s].job /\ job.kind = "create"
    BY <1>5 DEF CreateOpen
  <2>3. PICK t : t = [job |-> job, open |-> TRUE, stale |-> FALSE, writes |-> writes]
    OBVIOUS
  <2>4. HandlerShape(t) /\ t.job = job
    BY <2>2, <2>3, ShapeOf
  <2>5. tx'[s] = t /\ tx' = [tx EXCEPT ![s] = tx'[s]]
    BY <2>1, <2>2, <2>3 DEF HandlersInv
  <2>6. HandlerOK(tx[s])'
    BY <2>2, <2>4, <2>5 DEF HandlerOK, HandlerShape
  <2>. QED BY <2>5, <2>6, OneHandler, OrdersQuiet DEF OrdersKept
<1>6. ASSUME NEW s \in Sessions, RetryTx(s)
      PROVE  OrdersKept
  <2>1. PICK job : job = tx[s].job /\ job.kind = "create"
    BY <1>6 DEF RetryTx, HandlersInv, HandlerOK, HandlerShape
  <2>2. PICK t : t = [job |-> job, open |-> FALSE, stale |-> FALSE, writes |-> <<>>]
    OBVIOUS
  <2>3. HandlerShape(t) /\ t.job = job
    BY <2>2, ShapeOf
  <2>4. tx'[s] = t /\ tx' = [tx EXCEPT ![s] = tx'[s]]
    BY <1>6, <2>1, <2>2, NoTxWithJob DEF RetryTx, HandlersInv
  <2>5. HandlerOK(tx[s])'
    BY <2>1, <2>3, <2>4 DEF HandlerOK, HandlerShape
  <2>. QED BY <2>4, <2>5, OneHandler, OrdersQuiet DEF OrdersKept
<1>7. ASSUME NEW s \in Sessions, CreateCommit(s)
      PROVE  OrdersKept
  <2>1. tx' = [t \in Sessions |->
                 IF t = s THEN NoTx
                 ELSE IF tx[t].open /\ Conflicts(s, t) THEN [tx[t] EXCEPT !.stale = TRUE]
                 ELSE tx[t]]
    BY <1>7 DEF CreateCommit, CommitTx
  <2>2. OrdersInv' /\ Len(orders) <= Len(orders')
    BY OrdersQuiet
  <2>3. ASSUME NEW t \in Sessions
        PROVE  HandlerOK(tx[t])'
    <3>1. CASE t = s
      <4>1. PICK none : none = NoTx
        OBVIOUS
      <4>2. HandlerShape(none) /\ none.job.kind # "order"
        BY <4>1 DEF HandlerShape, NoTx, NoJob
      <4>. QED BY <2>1, <3>1, <4>1, <4>2 DEF HandlerOK, HandlerShape
    <3>2. CASE t # s /\ ~(tx[t].open /\ Conflicts(s, t))
      <4>1. tx'[t] = tx[t] /\ HandlerOK(tx[t])
        BY <2>1, <3>2 DEF HandlersInv
      <4>. QED BY <4>1 DEF HandlerOK, HandlerShape, InTime
    <3>3. CASE t # s /\ tx[t].open /\ Conflicts(s, t)
      <4>1. PICK old : old = tx[t] /\ HandlerShape(old) /\ old.job.kind = "create"
        BY <3>3 DEF HandlersInv, HandlerOK, HandlerShape
      <4>2. PICK new : new = [old EXCEPT !.stale = TRUE]
        OBVIOUS
      <4>3. new = [job |-> old.job, open |-> old.open, stale |-> TRUE, writes |-> old.writes]
        BY <4>1, <4>2, Staled DEF HandlerShape
      <4>4. HandlerShape(new) /\ new.job = old.job
        BY <4>1, <4>3, ShapeOf DEF HandlerShape
      <4>5. tx'[t] = new
        BY <2>1, <3>3, <4>1, <4>2
      <4>. QED BY <4>1, <4>4, <4>5 DEF HandlerOK, HandlerShape
    <3>. QED BY <3>1, <3>2, <3>3
  <2>4. tx' = [t \in Sessions |-> tx'[t]]
    BY <2>1
  <2>. QED BY <2>2, <2>3, <2>4 DEF HandlersInv, OrdersKept
<1>8. CASE (\E o \in DOMAIN OptionForms : CreateOption(o) \/ UpdateOption(o))
           \/ (\E sku \in announcing : Announce(sku)) \/ (\E i \in Items : ChangeItem(i))
  BY <1>1, <1>8 DEF CreateOption, UpdateOption, Announce, ChangeItem, transactionVars
<1>9. ASSUME NEW s \in Sessions, CreateRefused(s) \/ CreateAgain(s) \/ ResizeWrite(s)
      PROVE  OrdersKept
  BY <1>4, <1>6, <1>9 DEF CreateRefused, CreateAgain, ResizeWrite, AbandonTx
<1>. QED BY <1>2, <1>3, <1>5, <1>7, <1>8, <1>9 DEF ItemStep

----------------------------------------------------------------------------
\* What is stored

LEMMA KeysDiffer ==
    /\ \A c, d : Registered(c) = Registered(d) => c = d
    /\ \A i, j : Item(i) = Item(j) => i = j
    /\ \A c : Counter # Registered(c)
    /\ \A i : Counter # Item(i)
    /\ \A c, i : Registered(c) # Item(i)
<1>1. \A c : Registered(c)[1] = "code" /\ Registered(c)[2] = c
  BY DEF Registered
<1>2. \A i : Item(i)[1] = "item" /\ Item(i)[2] = i
  BY DEF Item
<1>3. Counter[1] = "counter"
  BY DEF Counter
<1>4. \A c, d : Registered(c) = Registered(d) => c = d
  BY <1>1
<1>5. \A i, j : Item(i) = Item(j) => i = j
  BY <1>2
<1>6. \A c : Counter # Registered(c)
  BY <1>1, <1>3
<1>7. \A i : Counter # Item(i)
  BY <1>2, <1>3
<1>8. \A c, i : Registered(c) # Item(i)
  BY <1>1, <1>2
<1>. QED BY <1>4, <1>5, <1>6, <1>7, <1>8

LEMMA ItemsCounted ==
    /\ IsFiniteSet(MadeItems) /\ Cardinality(MadeItems) \in Nat
    /\ Cardinality(Items) \in Nat /\ Cardinality(MadeItems) <= Cardinality(Items)
    /\ (\E i \in Items : ~Made(i)) => Cardinality(MadeItems) < Cardinality(Items)
<1>1. MadeItems \in SUBSET Items /\ IsFiniteSet(Items)
  BY ItemAssumption DEF MadeItems
<1>2. /\ IsFiniteSet(MadeItems) /\ Cardinality(MadeItems) <= Cardinality(Items)
      /\ Cardinality(Items) = Cardinality(MadeItems) => Items = MadeItems
  BY <1>1, FS_Subset
<1>3. Cardinality(MadeItems) \in Nat /\ Cardinality(Items) \in Nat
  BY <1>1, <1>2, FS_CardinalityType
<1>4. (\E i \in Items : ~Made(i)) => Cardinality(Items) # Cardinality(MadeItems)
  BY <1>2 DEF MadeItems
<1>. QED BY <1>2, <1>3, <1>4

LEMMA CodeOfNumber ==
    ASSUME NEW n \in 1..(Cardinality(Items) + 1)
    PROVE  Ean13(n) \in Codes /\ Registered(Ean13(n)) \in Keys
BY DEF Codes, Keys

\* A barcode is thirteen digits, so that a document with one is that of an item.
LEMMA CodeIsMade ==
    ASSUME NEW doc, doc.barcode \in Codes
    PROVE  doc # NoItem
<1>1. PICK n \in 1..(Cardinality(Items) + 1) : doc.barcode = Ean13(n)
  BY DEF Codes
<1>2. n \in Nat
  BY ItemsCounted
<1>3. PICK code : code = Ean13(n)
  OBVIOUS
<1>4. DOMAIN code = 1..13
  <2>1. code = [k \in 1..13 |-> code[k]]
    BY <1>2, <1>3, Ean13Digits
  <2>. QED BY <2>1
<1>5. code # <<>>
  <2>1. 1 \in 1..13 /\ DOMAIN <<>> = {}
    OBVIOUS
  <2>. QED BY <1>4, <2>1
<1>6. NoItem.barcode = <<>>
  BY DEF NoItem
<1>. QED BY <1>1, <1>3, <1>5, <1>6

\* A read or a wait: nothing is stored, and no transaction is opened.
LEMMA QuietItems ==
    ASSUME ItemsInv, UNCHANGED db, \A s \in Sessions : tx'[s].open => tx'[s] = tx[s]
    PROVE  ItemsInv'
<1>1. RegisterInv'
  BY DEF ItemsInv, RegisterInv, MadeItems, Made
<1>2. ASSUME NEW s \in Sessions, tx'[s].open
      PROVE  CreateOK(tx[s])'
  <2>1. tx'[s] = tx[s] /\ CreateOK(tx[s])
    BY <1>2 DEF ItemsInv
  <2>. QED BY <2>1 DEF CreateOK, Made
<1>. QED BY <1>1, <1>2 DEF ItemsInv

\* An item is changed where it stands, and keeps its barcode.
LEMMA EditsItem ==
    ASSUME ItemsInv, NEW i \in Items, Made(i), NEW doc, IsDoc(doc), doc.barcode = db[Item(i)].barcode,
           db' = [db EXCEPT ![Item(i)] = doc],
           \A s \in Sessions : tx'[s].open => tx'[s] = tx[s]
    PROVE  ItemsInv'
<1>1. db = [x \in Keys |-> db[x]] /\ Item(i) \in Keys
  BY DEF ItemsInv, RegisterInv, Keys
<1>2. /\ db' = [x \in Keys |-> db'[x]]
      /\ \A x \in Keys : db'[x] = IF x = Item(i) THEN doc ELSE db[x]
  BY <1>1
<1>3. doc # NoItem
  BY CodeIsMade DEF ItemsInv, RegisterInv
<1>4. db'[Counter] = db[Counter] /\ \A c \in Codes : db'[Registered(c)] = db[Registered(c)]
  BY <1>2, KeysDiffer DEF Keys
<1>5. \A j \in Items : db'[Item(j)] = IF j = i THEN doc ELSE db[Item(j)]
  BY <1>2, KeysDiffer DEF Keys
<1>6. \A j \in Items : (Made(j)' <=> Made(j)) /\ db'[Item(j)].barcode = db[Item(j)].barcode
  BY <1>3, <1>5 DEF Made
<1>7. MadeItems' = MadeItems
  BY <1>6 DEF MadeItems
<1>8. RegisterInv'
  <2>1. db'[Counter] = Cardinality(MadeItems')
    BY <1>4, <1>7 DEF ItemsInv, RegisterInv
  <2>2. ASSUME NEW j \in Items, Made(j)'
        PROVE  /\ IsDoc(db'[Item(j)]) /\ db'[Item(j)].barcode \in Codes
               /\ db'[Registered(db'[Item(j)].barcode)] = j
    <3>1. Made(j) /\ db[Item(j)].barcode \in Codes /\ db[Registered(db[Item(j)].barcode)] = j /\ IsDoc(db[Item(j)])
      BY <1>6, <2>2 DEF ItemsInv, RegisterInv
    <3>. QED BY <1>4, <1>5, <1>6, <3>1
  <2>3. ASSUME NEW c \in Codes, db'[Registered(c)] \in Items
        PROVE  Made(db[Registered(c)])' /\ db'[Item(db'[Registered(c)])].barcode = c
    <3>1. PICK j \in Items : j = db[Registered(c)] /\ j = db'[Registered(c)]
      BY <1>4, <2>3
    <3>2. Made(j) /\ db[Item(j)].barcode = c
      BY <3>1 DEF ItemsInv, RegisterInv
    <3>3. Made(j)' /\ db'[Item(j)].barcode = c
      BY <1>6, <3>2
    <3>. QED BY <3>1, <3>3 DEF Made
  <2>. QED BY <1>2, <2>1, <2>2, <2>3 DEF RegisterInv, IsDoc
<1>9. ASSUME NEW s \in Sessions, tx'[s].open
      PROVE  CreateOK(tx[s])'
  <2>1. tx'[s] = tx[s] /\ CreateOK(tx[s])
    BY <1>9 DEF ItemsInv
  <2>2. PICK t : t = tx[s]
    OBVIOUS
  <2>3. t.writes[Counter] \in 1..(Cardinality(Items) + 1)
    BY <2>1, <2>2, ItemsCounted DEF CreateOK
  <2>4. Ean13(t.writes[Counter]) \in Codes
    BY <2>3, CodeOfNumber
  <2>. QED BY <1>4, <1>6, <2>1, <2>2, <2>4 DEF CreateOK
<1>. QED BY <1>8, <1>9 DEF ItemsInv

\* A transaction is opened for an item that is still to be made.
LEMMA OpenKeeps ==
    ASSUME ItemsInv, HandlersInv, NEW s \in Sessions, CreateOpen(s)
    PROVE  ItemsInv'
<1>1. PICK n, sku, job : n = db[Counter] + 1 /\ sku = tx[s].job.sku /\ job = tx[s].job
  OBVIOUS
<1>2. /\ \E i \in Items : ~Made(i)
      /\ db[Registered(Ean13(n))] = NoOwner
      /\ tx' = [tx EXCEPT ![s] = [job |-> job, open |-> TRUE, stale |-> FALSE, writes |-> ItemWrites(sku, n)]]
      /\ UNCHANGED db
  BY <1>1 DEF CreateOpen, OpenTx
<1>3. PICK i \in Items : i = NewId /\ ~Made(i)
  BY <1>2 DEF NewId
<1>4. n \in 1..Cardinality(Items) /\ db[Counter] = n - 1
  BY <1>1, <1>2, ItemsCounted DEF ItemsInv, RegisterInv
<1>5. PICK code : code = Ean13(n)
  OBVIOUS
<1>6. PICK doc : doc = [NoItem EXCEPT !.sku = sku, !.barcode = code, !.unit = CHOOSE u \in Units : TRUE,
                                      !.size = CHOOSE m \in Sizes : TRUE]
  OBVIOUS
<1>7. IsDoc(doc) /\ doc.barcode = code
  BY <1>6 DEF IsDoc, NoItem
<1>8. PICK writes : writes = ItemWrites(sku, n)
  OBVIOUS
<1>9. writes = (Counter ::= n) ++ (Registered(code) ::= i) ++ (Item(i) ::= doc)
  BY <1>3, <1>5, <1>6, <1>8 DEF ItemWrites
<1>10. /\ DOMAIN writes = {Counter, Registered(code), Item(i)}
       /\ writes[Counter] = n /\ writes[Registered(code)] = i /\ writes[Item(i)] = doc
  <2>1. PICK f, g, h : f = (Counter ::= n) /\ g = (Registered(code) ::= i) /\ h = (Item(i) ::= doc)
    OBVIOUS
  <2>2. /\ DOMAIN f = {Counter} /\ f[Counter] = n
        /\ DOMAIN g = {Registered(code)} /\ g[Registered(code)] = i
        /\ DOMAIN h = {Item(i)} /\ h[Item(i)] = doc
    BY <2>1 DEF ::=
  <2>3. PICK v : v = f ++ g
    OBVIOUS
  <2>4. DOMAIN v = {Counter, Registered(code)} /\ v[Counter] = n /\ v[Registered(code)] = i
    BY <2>2, <2>3, KeysDiffer DEF ++
  <2>5. writes = v ++ h
    BY <1>9, <2>1, <2>3
  <2>. QED BY <2>2, <2>4, <2>5, KeysDiffer DEF ++
<1>11. tx'[s] = [job |-> job, open |-> TRUE, stale |-> FALSE, writes |-> writes]
       /\ \A t \in Sessions \ {s} : tx'[t] = tx[t]
  BY <1>2, <1>8 DEF HandlersInv
<1>12. RegisterInv'
  BY <1>2 DEF ItemsInv, RegisterInv, MadeItems, Made
<1>13. ASSUME NEW t \in Sessions, tx'[t].open
       PROVE  CreateOK(tx[t])'
  <2>1. CASE t = s
    <3>1. tx'[s].writes = writes
      BY <1>11
    <3>2. db'[Counter] = n - 1 /\ db'[Registered(code)] = NoOwner /\ ~Made(i)'
      BY <1>2, <1>3, <1>4, <1>5 DEF Made
    <3>. QED BY <1>4, <1>5, <1>7, <1>10, <2>1, <3>1, <3>2 DEF CreateOK
  <2>2. CASE t # s
    <3>1. tx'[t] = tx[t] /\ CreateOK(tx[t])
      BY <1>11, <1>13, <2>2 DEF ItemsInv
    <3>. QED BY <1>2, <3>1 DEF CreateOK, Made
  <2>. QED BY <2>1, <2>2
<1>. QED BY <1>12, <1>13 DEF ItemsInv

\* The item, its barcode and the counter land together, on the numbers they were made from.
LEMMA CommitMakes ==
    ASSUME ItemsInv, NEW s \in Sessions, CommitTx(s)
    PROVE  RegisterInv'
<1>1. PICK w : w = tx[s].writes
  OBVIOUS
<1>2. PICK n, i : n = w[Counter] /\ i = w[Registered(Ean13(n))]
  OBVIOUS
<1>3. PICK code : code = Ean13(n)
  OBVIOUS
<1>4. PICK doc : doc = w[Item(i)]
  OBVIOUS
<1>5. CreateOK(tx[s]) /\ ~tx[s].stale /\ db' = w ++ db
  BY <1>1 DEF CommitTx, ItemsInv
<1>6. /\ n \in 1..Cardinality(Items) /\ i \in Items
      /\ DOMAIN w = {Counter, Registered(code), Item(i)}
      /\ IsDoc(doc) /\ doc.barcode = code
      /\ db[Counter] = n - 1 /\ db[Registered(code)] = NoOwner /\ ~Made(i)
  BY <1>1, <1>2, <1>3, <1>4, <1>5 DEF CreateOK
<1>7. code \in Codes
  BY <1>3, <1>6, ItemsCounted, CodeOfNumber
<1>8. DOMAIN db = Keys /\ DOMAIN w \subseteq Keys
  BY <1>6, <1>7 DEF ItemsInv, RegisterInv, Keys
<1>9. /\ db' = [x \in Keys |-> db'[x]]
      /\ \A x \in Keys : db'[x] = IF x \in DOMAIN w THEN w[x] ELSE db[x]
  BY <1>5, <1>8 DEF ++
<1>10. db'[Counter] = n
  BY <1>2, <1>6, <1>9 DEF Keys
<1>11. \A c \in Codes : db'[Registered(c)] = IF c = code THEN i ELSE db[Registered(c)]
  BY <1>2, <1>3, <1>6, <1>9, KeysDiffer DEF Keys
<1>12. \A j \in Items : db'[Item(j)] = IF j = i THEN doc ELSE db[Item(j)]
  BY <1>4, <1>6, <1>9, KeysDiffer DEF Keys
<1>13. doc # NoItem
  BY <1>6, <1>7, CodeIsMade
<1>14. \A j \in Items : Made(j)' <=> (j = i \/ Made(j))
  BY <1>12, <1>13 DEF Made
<1>15. MadeItems' = MadeItems \cup {i} /\ i \notin MadeItems
  BY <1>6, <1>14 DEF MadeItems
<1>16. db'[Counter] = Cardinality(MadeItems')
  <2>1. Cardinality(MadeItems \cup {i}) = Cardinality(MadeItems) + 1
    BY <1>15, ItemsCounted, FS_AddElement
  <2>2. Cardinality(MadeItems) = n - 1 /\ n \in Int
    BY <1>6, ItemsCounted DEF ItemsInv, RegisterInv
  <2>. QED BY <1>10, <1>15, <2>1, <2>2
<1>17. ASSUME NEW j \in Items, Made(j)'
       PROVE  /\ IsDoc(db'[Item(j)]) /\ db'[Item(j)].barcode \in Codes
              /\ db'[Registered(db'[Item(j)].barcode)] = j
  <2>1. CASE j = i
    BY <1>6, <1>7, <1>11, <1>12, <2>1
  <2>2. CASE j # i
    <3>1. Made(j) /\ db'[Item(j)] = db[Item(j)]
      BY <1>12, <1>14, <1>17, <2>2
    <3>2. PICK c \in Codes : c = db[Item(j)].barcode /\ IsDoc(db[Item(j)]) /\ db[Registered(c)] = j
      BY <3>1 DEF ItemsInv, RegisterInv
    <3>3. c # code
      BY <1>6, <3>2, ItemAssumption
    <3>. QED BY <1>11, <3>1, <3>2, <3>3
  <2>. QED BY <2>1, <2>2
<1>18. ASSUME NEW c \in Codes, db'[Registered(c)] \in Items
       PROVE  Made(db[Registered(c)])' /\ db'[Item(db'[Registered(c)])].barcode = c
  <2>1. PICK j \in Items : j = db'[Registered(c)]
    BY <1>18
  <2>2. Made(j)' /\ db'[Item(j)].barcode = c
    <3>1. CASE c = code
      BY <1>6, <1>11, <1>12, <1>14, <2>1, <3>1
    <3>2. CASE c # code
      <4>1. Made(j) /\ db[Item(j)].barcode = c
        BY <1>11, <2>1, <3>2 DEF ItemsInv, RegisterInv
      <4>. QED BY <1>6, <1>12, <1>14, <4>1
    <3>. QED BY <3>1, <3>2
  <2>. QED BY <2>1, <2>2 DEF Made
<1>. QED BY <1>9, <1>16, <1>17, <1>18 DEF RegisterInv, IsDoc

\* All of them write the counter: the first to commit makes the others stale.
LEMMA CommitKeeps ==
    ASSUME ItemsInv, HandlersInv, NEW s \in Sessions, CommitTx(s)
    PROVE  ItemsInv'
<1>1. tx' = [t \in Sessions |->
                 IF t = s THEN NoTx
                 ELSE IF tx[t].open /\ Conflicts(s, t) THEN [tx[t] EXCEPT !.stale = TRUE]
                 ELSE tx[t]]
  BY DEF CommitTx
<1>2. CreateOK(tx[s])
  BY DEF CommitTx, ItemsInv
<1>3. ASSUME NEW t \in Sessions, tx'[t].open
      PROVE  CreateOK(tx[t])'
  <2>1. t # s
    BY <1>1, <1>3 DEF NoTx
  <2>2. PICK old : old = tx[t] /\ HandlerShape(old)
    BY DEF HandlersInv, HandlerOK
  <2>3. PICK new : new = [old EXCEPT !.stale = TRUE]
    OBVIOUS
  <2>4. new = [job |-> old.job, open |-> old.open, stale |-> TRUE, writes |-> old.writes]
    BY <2>2, <2>3, Staled DEF HandlerShape
  <2>5. old.open
    BY <1>1, <1>3, <2>1, <2>2, <2>3, <2>4
  <2>6. CreateOK(tx[t])
    BY <2>2, <2>5 DEF ItemsInv
  <2>7. Conflicts(s, t)
    BY <1>2, <2>6 DEF Conflicts, CreateOK
  <2>8. tx'[t] = new
    BY <1>1, <2>1, <2>2, <2>3, <2>5, <2>7
  <2>. QED BY <2>2, <2>4, <2>6, <2>8 DEF CreateOK
<1>. QED BY <1>3, CommitMakes DEF ItemsInv

LEMMA ItemStepKeeps ==
    ASSUME ItemsInv, HandlersInv, NEW STATE ordered, ItemStep(ordered)
    PROVE  ItemsInv'
<1>1. ASSUME NEW s \in Sessions, NEW STATE job, ReadOutside(s, job)
      PROVE  ItemsInv'
  <2>1. ~tx'[s].open /\ \A t \in Sessions \ {s} : tx'[t] = tx[t]
    BY <1>1, NoTxWithJob DEF ReadOutside, HandlersInv
  <2>. QED BY <1>1, <2>1, QuietItems DEF ReadOutside
<1>2. ASSUME NEW s \in Sessions, tx' = [tx EXCEPT ![s] = NoTx]
      PROVE  \A t \in Sessions : tx'[t].open => tx'[t] = tx[t]
  BY <1>2 DEF HandlersInv, NoTx
<1>3. CASE UNCHANGED <<db, tx>>
  BY <1>3, QuietItems
<1>4. ASSUME NEW s \in Sessions, CreateRead(s) \/ \E i \in Items : ResizeRead(s, i, ordered)
      PROVE  ItemsInv'
  BY <1>1, <1>4 DEF CreateRead, ResizeRead
<1>5. ASSUME NEW s \in Sessions, AbandonTx(s)
      PROVE  ItemsInv'
  BY <1>2, <1>5, QuietItems DEF AbandonTx
<1>6. ASSUME NEW s \in Sessions, RetryTx(s)
      PROVE  ItemsInv'
  <2>1. ~tx'[s].open /\ \A t \in Sessions \ {s} : tx'[t] = tx[t]
    <3>1. PICK job : job = tx[s].job
      OBVIOUS
    <3>. QED BY <1>6, <3>1, NoTxWithJob DEF RetryTx, HandlersInv
  <2>. QED BY <1>6, <2>1, QuietItems DEF RetryTx
<1>7. ASSUME NEW i \in Items, Live(i), NEW next, IsDoc(next), next.barcode = db[Item(i)].barcode,
             db' = [db EXCEPT ![Item(i)] = next],
             \A s \in Sessions : tx'[s].open => tx'[s] = tx[s]
      PROVE  ItemsInv'
  BY <1>7, EditsItem DEF Live
<1>8. ASSUME NEW i \in Items, Live(i)
      PROVE  IsDoc(db[Item(i)])
  BY <1>8 DEF Live, ItemsInv, RegisterInv
<1>9. ASSUME NEW s \in Sessions, ResizeWrite(s)
      PROVE  ItemsInv'
  <2>1. PICK i, size : i = tx[s].job.item /\ size = tx[s].job.size
    OBVIOUS
  <2>2. \A t \in Sessions : tx'[t].open => tx'[t] = tx[t]
    BY <1>2, <1>9 DEF ResizeWrite
  <2>3. CASE ~Live(i)
    BY <1>9, <2>1, <2>2, <2>3, QuietItems DEF ResizeWrite
  <2>4. CASE Live(i)
    <3>1. db' = [db EXCEPT ![Item(i)].size = size]
      BY <1>9, <2>1, <2>4 DEF ResizeWrite
    <3>2. CASE i \notin Items
      <4>1. Item(i) \notin Keys
        BY <3>2, KeysDiffer DEF Keys
      <4>2. db' = db
        BY <3>1, <4>1 DEF ItemsInv, RegisterInv
      <4>. QED BY <2>2, <4>2, QuietItems
    <3>. SUFFICES ASSUME i \in Items
                  PROVE  ItemsInv'
      BY <3>2
    <3>3. PICK old : old = db[Item(i)] /\ IsDoc(old)
      BY <1>8, <2>4
    <3>4. PICK next : next = [old EXCEPT !.size = size]
      OBVIOUS
    <3>5. IsDoc(next) /\ next.barcode = old.barcode
      BY <3>3, <3>4 DEF IsDoc
    <3>6. db' = [db EXCEPT ![Item(i)] = next]
      BY <3>1, <3>3, <3>4
    <3>. QED BY <1>7, <2>2, <2>4, <3>3, <3>5, <3>6
  <2>. QED BY <2>3, <2>4
<1>10. ASSUME NEW i \in Items, ChangeItem(i)
       PROVE  ItemsInv'
  <2>1. Live(i) /\ UNCHANGED tx
    BY <1>10 DEF ChangeItem
  <2>2. PICK old : old = db[Item(i)] /\ IsDoc(old)
    BY <1>8, <2>1
  <2>3. CASE \E unit \in Units : db' = [db EXCEPT ![Item(i)].unit = unit]
    <3>1. PICK unit \in Units : db' = [db EXCEPT ![Item(i)].unit = unit]
      BY <2>3
    <3>2. PICK next : next = [old EXCEPT !.unit = unit]
      OBVIOUS
    <3>3. IsDoc(next) /\ next.barcode = old.barcode
      BY <2>2, <3>2 DEF IsDoc
    <3>4. db' = [db EXCEPT ![Item(i)] = next]
      BY <2>2, <3>1, <3>2
    <3>. QED BY <1>7, <2>1, <2>2, <3>3, <3>4
  <2>4. CASE db' = [db EXCEPT ![Item(i)].deleted = TRUE]
    <3>1. PICK gone, next : gone = TRUE /\ next = [old EXCEPT !.deleted = gone]
      OBVIOUS
    <3>2. IsDoc(next) /\ next.barcode = old.barcode
      BY <2>2, <3>1 DEF IsDoc
    <3>3. db' = [db EXCEPT ![Item(i)] = next]
      BY <2>2, <2>4, <3>1
    <3>. QED BY <1>7, <2>1, <2>2, <3>2, <3>3
  <2>. QED BY <1>10, <2>3, <2>4 DEF ChangeItem
<1>11. CASE (\E o \in DOMAIN OptionForms : CreateOption(o) \/ UpdateOption(o))
            \/ (\E sku \in announcing : Announce(sku))
  BY <1>3, <1>11 DEF CreateOption, UpdateOption, Announce, transactionVars
<1>12. ASSUME NEW s \in Sessions,
              CreateOpen(s) \/ CreateRefused(s) \/ CreateCommit(s) \/ CreateAgain(s)
       PROVE  ItemsInv'
  BY <1>5, <1>6, <1>12, OpenKeeps, CommitKeeps DEF CreateRefused, CreateCommit, CreateAgain
<1>. QED BY <1>4, <1>9, <1>10, <1>11, <1>12 DEF ItemStep

\* The makers of orders and the suppliers leave the items alone.
LEMMA PurchaseKeepsItems ==
    ASSUME ItemsInv, HandlersInv, PurchaseStep
    PROVE  ItemsInv'
<1>1. UNCHANGED db
  BY DEF PurchaseStep, CreateSupplier, DeleteSupplier, UpsertQuote, UpdateQuote, StatusRead, StatusWrite,
         OrderBegin, OrderItem, OrderQuote, OrderCount, OrderInsert, OrderGivenUp, GoOn, Refuse,
         ItemsUnchanged, ReadOutside
<1>2. CASE UNCHANGED tx
  BY <1>1, <1>2, QuietItems
<1>3. ASSUME NEW s \in Sessions, NEW STATE job, ReadOutside(s, job)
      PROVE  ItemsInv'
  <2>1. ~tx'[s].open /\ \A t \in Sessions \ {s} : tx'[t] = tx[t]
    BY <1>3, NoTxWithJob DEF ReadOutside, HandlersInv
  <2>. QED BY <1>1, <2>1, QuietItems
<1>4. ASSUME NEW s \in Sessions, tx' = [tx EXCEPT ![s] = NoTx]
      PROVE  ItemsInv'
  <2>1. \A t \in Sessions : tx'[t].open => tx'[t] = tx[t]
    BY <1>4 DEF HandlersInv, NoTx
  <2>. QED BY <1>1, <2>1, QuietItems
<1>5. ASSUME NEW s \in Sessions, IsReady(s), NEW STATE job, tx' = [tx EXCEPT ![s].job = job]
      PROVE  ItemsInv'
  <2>1. PICK t, given : t = tx[s] /\ given = job
    OBVIOUS
  <2>2. HandlerShape(t) /\ ~t.open
    BY <1>5, <2>1 DEF HandlersInv, HandlerOK, IsReady
  <2>3. [t EXCEPT !.job = given] = [job |-> given, open |-> t.open, stale |-> t.stale, writes |-> t.writes]
    BY <2>2, WithJob DEF HandlerShape
  <2>4. tx'[s] = [t EXCEPT !.job = given] /\ \A u \in Sessions \ {s} : tx'[u] = tx[u]
    BY <1>5, <2>1 DEF HandlersInv
  <2>5. ~tx'[s].open
    BY <2>2, <2>3, <2>4
  <2>. QED BY <1>1, <2>4, <2>5, QuietItems
<1>6. CASE \E c \in Suppliers : CreateSupplier(c) \/ DeleteSupplier(c)
  BY <1>2, <1>6 DEF CreateSupplier, DeleteSupplier
<1>7. CASE \E c \in Suppliers, i \in Items :
              UpsertQuote(i, c) \/ \E other \in Suppliers : UpdateQuote(i, c, other)
  BY <1>2, <1>7 DEF UpsertQuote, UpdateQuote
<1>8. ASSUME NEW s \in Sessions, OrderBegin(s) \/ \E c \in Suppliers : StatusRead(s, c)
      PROVE  ItemsInv'
  BY <1>3, <1>8 DEF OrderBegin, StatusRead
<1>9. ASSUME NEW s \in Sessions, StatusWrite(s) \/ OrderGivenUp(s)
      PROVE  ItemsInv'
  BY <1>4, <1>9 DEF StatusWrite, OrderGivenUp, Refuse
<1>10. ASSUME NEW s \in Sessions, OrderItem(s) \/ OrderQuote(s) \/ OrderCount(s) \/ OrderInsert(s)
       PROVE  ItemsInv'
  BY <1>4, <1>5, <1>10 DEF OrderItem, OrderQuote, OrderCount, OrderInsert, Ordering, GoOn, Refuse
<1>. QED BY <1>6, <1>7, <1>8, <1>9, <1>10 DEF PurchaseStep

----------------------------------------------------------------------------
\* Theorems

LEMMA InitOK == Init => PInv
<1>. SUFFICES ASSUME Init
              PROVE  PInv
  OBVIOUS
<1>1. OrdersInv
  BY DEF Init, PurchaseInit, OrdersInv
<1>2. tx = [s \in Sessions |-> NoTx]
  BY DEF Init, ItemInit
<1>3. HandlersInv
  BY <1>2, FreeIsOK DEF HandlersInv
<1>4. \A s \in Sessions : ~tx[s].open
  BY <1>2 DEF NoTx
<1>5. RegisterInv
  <2>1. PICK register \in Registers :
           db = (Counter ::= 0)
                ++ [x \in {Registered(c) : c \in Codes} |->
                      IF x[2] \in DOMAIN register THEN register[x[2]] ELSE NoOwner]
                ++ [x \in {Item(i) : i \in Items} |-> NoItem]
    BY DEF Init, ItemInit
  <2>2. PICK f, g, h : /\ f = (Counter ::= 0)
                       /\ g = [x \in {Registered(c) : c \in Codes} |->
                                 IF x[2] \in DOMAIN register THEN register[x[2]] ELSE NoOwner]
                       /\ h = [x \in {Item(i) : i \in Items} |-> NoItem]
    OBVIOUS
  <2>3. PICK v : v = f ++ g
    OBVIOUS
  <2>4. db = v ++ h
    BY <2>1, <2>2, <2>3
  <2>5. DOMAIN f = {Counter} /\ f[Counter] = 0
    BY <2>2 DEF ::=
  <2>6. /\ DOMAIN g = {Registered(c) : c \in Codes}
        /\ \A c \in Codes : g[Registered(c)] = IF c \in DOMAIN register THEN register[c] ELSE NoOwner
    BY <2>2 DEF Registered
  <2>7. DOMAIN h = {Item(i) : i \in Items} /\ \A i \in Items : h[Item(i)] = NoItem
    BY <2>2
  <2>8. v = [x \in {Counter} \cup {Registered(c) : c \in Codes} |-> IF x \in DOMAIN f THEN f[x] ELSE g[x]]
    BY <2>3, <2>5, <2>6 DEF ++
  <2>9. v[Counter] = 0 /\ \A c \in Codes : v[Registered(c)] = g[Registered(c)]
    BY <2>5, <2>8, KeysDiffer
  <2>10. db = [x \in Keys |-> IF x \in DOMAIN v THEN v[x] ELSE h[x]]
    BY <2>4, <2>7, <2>8 DEF ++, Keys
  <2>11. db[Counter] = 0 /\ \A c \in Codes : db[Registered(c)] = g[Registered(c)]
    BY <2>8, <2>9, <2>10 DEF Keys
  <2>12. \A i \in Items : db[Item(i)] = NoItem
    BY <2>7, <2>8, <2>10, KeysDiffer DEF Keys
  <2>13. MadeItems = {}
    BY <2>12 DEF MadeItems, Made
  <2>14. ASSUME NEW c \in Codes
         PROVE  db[Registered(c)] \notin Items
    <3>1. CASE c \in DOMAIN register
      <4>1. register[c] \in OldItems
        BY <3>1 DEF OldItems, Range
      <4>. QED BY <2>6, <2>11, <3>1, <4>1, ItemAssumption
    <3>2. CASE c \notin DOMAIN register
      BY <2>6, <2>11, <3>2, ItemAssumption
    <3>. QED BY <3>1, <3>2
  <2>15. db[Counter] = Cardinality(MadeItems)
    BY <2>11, <2>13, FS_EmptySet
  <2>16. \A i \in Items : ~Made(i)
    BY <2>12 DEF Made
  <2>. QED BY <2>10, <2>14, <2>15, <2>16 DEF RegisterInv
<1>6. SyncInv
  BY DEF Init, SyncInit, SyncInv, At, Waits
<1>. QED BY <1>1, <1>3, <1>4, <1>5, <1>6 DEF PInv, ItemsInv

LEMMA StepOK == PInv /\ [Next]_vars => PInv' /\ (SyncAction \/ UNCHANGED syncVars)
<1>. SUFFICES ASSUME PInv, [Next]_vars
              PROVE  PInv' /\ (SyncAction \/ UNCHANGED syncVars)
  OBVIOUS
<1>1. CASE UNCHANGED vars
  <2>1. UNCHANGED <<db, tx, orders>> /\ UNCHANGED syncVars /\ UNCHANGED <<marks, told, syncing>>
    BY <1>1 DEF vars, itemVars, transactionVars, purchaseVars, syncVars
  <2>. QED BY <2>1, OrdersQuiet, NothingTakenUp, QuietItems, SyncQuiet DEF PInv
<1>2. CASE Warehouse
  <2>1. ItemStep(OrderedItems) /\ UNCHANGED orders /\ UNCHANGED syncVars /\ UNCHANGED <<marks, told, syncing>>
    BY <1>2 DEF Warehouse, purchaseVars, syncVars
  <2>. QED BY <2>1, ItemsKeepOrders, ItemStepKeeps, SyncQuiet DEF PInv, OrdersKept
<1>3. CASE Purchase
  <2>1. PurchaseStep /\ UNCHANGED syncVars /\ UNCHANGED <<marks, told, syncing>>
    BY <1>3 DEF Purchase, syncVars
  <2>. QED BY <2>1, PurchaseKeepsOrders, PurchaseKeepsItems, SyncQuiet DEF PInv, OrdersKept
<1>4. CASE Sync
  <2>1. SyncStep(jobs) /\ UNCHANGED <<db, tx, orders>>
    BY <1>4 DEF Sync, itemVars, transactionVars, purchaseVars
  <2>. QED BY <2>1, OrdersQuiet, NothingTakenUp, QuietItems, SyncStepKeeps DEF PInv
<1>5. CASE Catalog
  <2>1. CatalogStep(Skus) /\ UNCHANGED <<db, tx, orders>>
    BY <1>5 DEF Catalog, purchaseVars
  <2>. QED BY <2>1, OrdersQuiet, NothingTakenUp, QuietItems, CatalogKeeps DEF PInv
<1>. QED BY <1>1, <1>2, <1>3, <1>4, <1>5 DEF Next

LEMMA Invariance == Spec => []PInv
<1>1. PInv /\ [Next]_vars => PInv'
  BY StepOK
<1>. QED BY <1>1, InitOK, PTL DEF Spec

\* A barcode and its item know each other, and no two barcodes in use differ in one digit
\* alone, whatever items are made, changed or refused at once: generateAndReservePrimaryBarcode
\* takes number and code in the transaction of the item, and computeEan13CheckDigit gives
\* neighbouring digits weights that are no multiple of ten apart.
THEOREM BarcodesAgree == Spec => []CodesAgree
<1>1. PInv => CodesAgree
  <2>. SUFFICES ASSUME PInv
                PROVE  CodesAgree
    OBVIOUS
  <2>1. RegisterInv
    BY DEF PInv, ItemsInv
  <2>2. ASSUME NEW c \in Codes, NEW d \in Codes, c # d
        PROVE  Cardinality({k \in 1..13 : c[k] # d[k]}) > 1
    <3>1. PICK n, m \in 1..(Cardinality(Items) + 1) : c = Ean13(n) /\ d = Ean13(m)
      BY DEF Codes
    <3>2. n \in Nat /\ m \in Nat
      BY ItemsCounted
    <3>. QED BY <2>2, <3>1, <3>2, TwoDigitsDiffer
  <2>. QED BY <2>1, <2>2 DEF RegisterInv, CodesAgree
<1>. QED BY <1>1, Invariance, PTL

\* An order is refused for want of a number only after three others were made while it
\* was, and the numbers leave no gap: generatePoNumber counts the orders, and the three
\* tries of createPurchaseOrder are each lost to an order that stands.
THEOREM RefusalsAreEarned == Spec => []RefusedWhenOutrun
<1>1. PInv => RefusedWhenOutrun
  <2>. SUFFICES ASSUME PInv
                PROVE  RefusedWhenOutrun
    OBVIOUS
  <2>1. ASSUME NEW s \in Sessions, Ordering(s, "conflict")
        PROVE  Len(orders) >= tx[s].job.since + MaxPoNumberRetries
    BY <2>1, OrderAt DEF PInv, Ordering, InTime
  <2>. QED BY <2>1 DEF PInv, OrdersInv, RefusedWhenOutrun
<1>. QED BY <1>1, Invariance, PTL

\* However often warehouse_item.created is delivered, and to however many workers, the job
\* is marked in the step that leaves the shop with the variant, and managers are told once
\* of an item: createProductVariantFromWms marks and drafts in one transaction.
THEOREM SyncedOnce == Spec => SyncIsOnce
<1>1. PInv /\ [Next]_vars => [SyncAction]_syncVars
  BY StepOK
<1>2. Spec => [][SyncAction]_syncVars
  BY <1>1, Invariance, PTL DEF Spec
<1>3. SyncAction <=> /\ \A sku \in marks' \ marks : sku \in DOMAIN variants'
                     /\ told' # told => Last(told') \in marks /\ Last(told') \notin Range(told)
  BY DEF SyncAction
<1>. QED BY <1>2, <1>3, PTL DEF SyncIsOnce

=============================================================================
