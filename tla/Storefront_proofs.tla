-------------------------- MODULE Storefront_proofs --------------------------
(***************************************************************************)
(* Theorems about Storefront, for any SKUs, tabs, requests and changes of   *)
(* the stock.                                                               *)
(*                                                                         *)
(* The cart: a request asks first and saves later, so what is settled of a  *)
(* SKU is what was asked for without what is still on the way.  It never    *)
(* gets less; so a copy that was within it when it was read is within it    *)
(* when it is saved, over whatever was saved meanwhile.                     *)
(*                                                                         *)
(* The counter: a change more adds to the sum since every earlier moment,   *)
(* and from the newest moment nothing has come yet; the clamp picks between *)
(* the moment whose sum the copy was and that newest one.                   *)
(***************************************************************************)
EXTENDS Storefront, Sums

----------------------------------------------------------------------------
\* The cart

CallOK(call) ==
    /\ call.op \in {"add", "set", "direct", "drop", "checkout"}
    /\ call.op = "add" => call.sku \in Skus /\ call.qty \in Nat
    /\ call.op \in {"set", "direct"} => call.sku \in Skus
    /\ call.op = "drop" => call.skus \in SUBSET Skus
    /\ call.op = "checkout" => call.named \in Lines

\* What a request in progress will add, to the cart or to an order of its own.
Coming(r, sku) ==
    IF r.at = "idle" THEN 0
    ELSE IF r.call.op = "add" /\ r.call.sku = sku THEN r.call.qty
    ELSE IF r.call.op = "direct" /\ r.call.sku = sku THEN 1
    ELSE 0

ComingOf(sku) == [h \in Actors |-> Coming(handler[h], sku)]
Settled(sku) == asked[sku] - Total(ComingOf(sku), Actors)

Within(lines) == lines \in Lines /\ \A sku \in Skus : lines[sku] <= Settled(sku)

RequestOK(r) ==
    \/ r = Idle
    \/ r.at = "find" /\ r = [at |-> "find", call |-> r.call] /\ CallOK(r.call)
    \/ r.at = "create" /\ CallOK(r.call)
    \/ /\ r.at = "save" /\ CallOK(r.call)
       /\ r.call.op # "direct" => r.cart \in DOMAIN carts /\ Within(r.lines)

\* The worker has only lines to add that it still has to put back, of an order that failed.
Restores ==
    /\ restoring \in Lines
    /\ order.status # "CANCELLED" => restoring = Empty
    /\ handler[Worker] # Idle =>
          /\ handler[Worker].call.op = "add" /\ handler[Worker].call.sku \in Skus
          /\ restoring[handler[Worker].call.sku] > 0

CartInv ==
    /\ carts \in Seq(Lines)
    /\ handler = [h \in Actors |-> handler[h]]
    /\ \A h \in Actors : RequestOK(handler[h])
    /\ order \in [status : {"none", "PLACED", "CANCELLED"}, named : Lines, line : Lines]
    /\ Restores
    /\ asked \in Lines
    /\ requests \in 0..MaxAsked
    /\ \A n \in DOMAIN carts : Within(carts[n])
    /\ Within(order.line)
    /\ Within(Empty)

LEMMA ActorsFinite == IsFiniteSet(Actors)
BY CartAssumption, FiniteWithOne DEF Actors

LEMMA ComingIsNatural ==
    ASSUME NEW r, RequestOK(r), NEW sku
    PROVE  Coming(r, sku) \in Nat
BY DEF RequestOK, CallOK, Coming, Idle

LEMMA ComingSummable ==
    ASSUME CartInv
    PROVE  \A sku \in Skus : /\ Summable(ComingOf(sku), Actors)
                             /\ Total(ComingOf(sku), Actors) \in Int
                             /\ Settled(sku) \in Int
<1>1. ASSUME NEW sku \in Skus
      PROVE  Summable(ComingOf(sku), Actors)
  BY <1>1, ActorsFinite, ComingIsNatural DEF Summable, ComingOf, CartInv
<1>2. \A sku \in Skus : Total(ComingOf(sku), Actors) \in Int
  BY <1>1, TotalRemove
<1>3. \A sku \in Skus : asked[sku] \in Nat
  BY DEF CartInv, Lines
<1>. QED BY <1>1, <1>2, <1>3 DEF Settled

\* One request goes on: what is settled changes by what that one adds, and what was asked.
LEMMA OneRequest ==
    ASSUME CartInv, NEW h \in Actors,
           \A k \in Actors \ {h} : handler'[k] = handler[k],
           \A sku \in Skus : Coming(handler'[h], sku) \in Nat,
           asked' \in Lines
    PROVE  \A sku \in Skus :
              /\ Settled(sku)' \in Int
              /\ Settled(sku)' = Settled(sku) + (asked'[sku] - asked[sku])
                              + (Coming(handler[h], sku) - Coming(handler'[h], sku))
<1>. SUFFICES ASSUME NEW sku \in Skus
              PROVE  /\ Settled(sku)' \in Int
                     /\ Settled(sku)' = Settled(sku) + (asked'[sku] - asked[sku])
                              + (Coming(handler[h], sku) - Coming(handler'[h], sku))
  OBVIOUS
<1>. DEFINE f == ComingOf(sku)
            g == [k \in Actors |-> Coming(handler'[k], sku)]
<1>1. Summable(f, Actors)
  BY ComingSummable
<1>2. Coming(handler'[h], sku) \in Nat /\ Coming(handler[h], sku) \in Nat
  BY ComingIsNatural DEF CartInv
<1>4. g[h] = Coming(handler'[h], sku) /\ f[h] = Coming(handler[h], sku)
  BY DEF ComingOf
<1>5. \A k \in Actors \ {h} : f[k] = g[k]
  BY DEF ComingOf
<1>6. Summable(g, Actors)
  BY <1>1, <1>2, <1>4, <1>5 DEF Summable
<1>7. Total(g, Actors) = Total(f, Actors) + (g[h] - f[h])
  <2>. HIDE DEF f, g
  <2>. QED BY <1>1, <1>5, <1>6, TotalChanges
<1>8. ComingOf(sku)' = g
  BY DEF ComingOf
<1>9. Settled(sku)' = asked'[sku] - Total(g, Actors)
  BY <1>8 DEF Settled
<1>10. Settled(sku) = asked[sku] - Total(f, Actors)
  BY DEF Settled
<1>11. asked[sku] \in Int /\ asked'[sku] \in Int /\ Total(f, Actors) \in Int
  BY ComingSummable DEF CartInv, Lines
<1>12. f[h] \in Int /\ g[h] \in Int
  BY <1>2, <1>4
<1>. HIDE DEF f, g
<1>. QED BY <1>4, <1>7, <1>9, <1>10, <1>11, <1>12

\* More is settled than before.
Grows == \A sku \in Skus : Settled(sku)' \in Int /\ Settled(sku) <= Settled(sku)'

\* Lines that will be within what is settled.
WillBeWithin(lines) == lines \in Lines /\ \A sku \in Skus : lines[sku] <= Settled(sku)'

LEMMA WithinStays ==
    ASSUME CartInv, Grows, NEW lines, Within(lines)
    PROVE  WillBeWithin(lines)
<1>1. \A sku \in Skus : lines[sku] \in Int /\ Settled(sku) \in Int
  BY ComingSummable DEF Within, Lines
<1>2. lines \in Lines /\ \A sku \in Skus : lines[sku] <= Settled(sku)
  BY DEF Within
<1>3. \A sku \in Skus : lines[sku] <= Settled(sku)'
  BY <1>1, <1>2 DEF Grows
<1>. QED BY <1>2, <1>3 DEF WillBeWithin

\* A step of one request after which no less is settled: the others know what they knew.
OnlyOne(h) ==
    /\ handler' = [k \in Actors |-> handler'[k]]
    /\ \A k \in Actors \ {h} : handler'[k] = handler[k]
    /\ asked' \in Lines
    /\ \A sku \in Skus :
          /\ Coming(handler'[h], sku) \in Nat
          /\ asked[sku] - Coming(handler[h], sku) <= asked'[sku] - Coming(handler'[h], sku)

LEMMA OthersStay ==
    ASSUME CartInv, NEW h \in Actors, OnlyOne(h),
           carts' \in Seq(Lines), DOMAIN carts \subseteq DOMAIN carts'
    PROVE  /\ \A lines : Within(lines) => WillBeWithin(lines)
           /\ \A k \in Actors \ {h} : RequestOK(handler[k])'
           /\ Within(Empty)'
<1>1. Grows
  <2>1. \A sku \in Skus :
              /\ Settled(sku)' \in Int
              /\ Settled(sku)' = Settled(sku) + (asked'[sku] - asked[sku])
                              + (Coming(handler[h], sku) - Coming(handler'[h], sku))
    BY OneRequest DEF OnlyOne
  <2>2. ASSUME NEW sku \in Skus
        PROVE  Settled(sku) <= Settled(sku)'
    <3>1. Settled(sku) \in Int /\ asked[sku] \in Int /\ asked'[sku] \in Int
          /\ Coming(handler[h], sku) \in Int /\ Coming(handler'[h], sku) \in Int
      BY ComingSummable, ComingIsNatural DEF CartInv, OnlyOne, Lines
    <3>2. asked[sku] - Coming(handler[h], sku) <= asked'[sku] - Coming(handler'[h], sku)
      BY DEF OnlyOne
    <3>. QED BY <2>1, <3>1, <3>2
  <2>. QED BY <2>1, <2>2 DEF Grows
<1>2. \A lines : Within(lines) => WillBeWithin(lines)
  BY <1>1, WithinStays
<1>3. ASSUME NEW k \in Actors \ {h}
      PROVE  RequestOK(handler[k])'
  <2>1. handler'[k] = handler[k] /\ RequestOK(handler[k])
    BY DEF CartInv, OnlyOne
  <2>2. CASE handler[k] = Idle \/ handler[k].at # "save"
    BY <2>1, <2>2 DEF RequestOK
  <2>3. CASE handler[k].at = "save" /\ handler[k].call.op = "direct"
    BY <2>1, <2>3 DEF RequestOK
  <2>4. CASE handler[k].at = "save" /\ handler[k].call.op # "direct" /\ handler[k] # Idle
    <3>1. Within(handler[k].lines) /\ handler[k].cart \in DOMAIN carts'
      BY <2>1, <2>4 DEF RequestOK
    <3>2. WillBeWithin(handler[k].lines)
      BY <1>2, <3>1
    <3>3. Within(handler[k].lines)'
      BY <2>1, <3>2 DEF Within, WillBeWithin
    <3>. QED BY <2>1, <2>4, <3>1, <3>3 DEF RequestOK
  <2>. QED BY <2>2, <2>3, <2>4
<1>4. Within(Empty)'
  <2>1. WillBeWithin(Empty)
    BY <1>2 DEF CartInv
  <2>. QED BY <2>1 DEF Within, WillBeWithin
<1>. QED BY <1>2, <1>3, <1>4

\* The invariant after such a step, from what the step itself wrote.
LEMMA CartKept ==
    ASSUME CartInv, NEW h \in Actors, OnlyOne(h),
           carts' \in Seq(Lines), DOMAIN carts \subseteq DOMAIN carts',
           order' \in [status : {"none", "PLACED", "CANCELLED"}, named : Lines, line : Lines],
           Restores', requests' \in 0..MaxAsked,
           (\A lines : Within(lines) => WillBeWithin(lines)) =>
              /\ \A n \in DOMAIN carts' : WillBeWithin(carts'[n])
              /\ WillBeWithin(order'.line)
              /\ RequestOK(handler[h])'
    PROVE  CartInv'
<1>1. /\ \A lines : Within(lines) => WillBeWithin(lines)
      /\ \A k \in Actors \ {h} : RequestOK(handler[k])'
      /\ Within(Empty)'
  BY OthersStay
<1>2. /\ \A n \in DOMAIN carts' : WillBeWithin(carts'[n])
      /\ WillBeWithin(order'.line)
      /\ RequestOK(handler[h])'
  BY <1>1
<1>3. (\A n \in DOMAIN carts : Within(carts[n]))' /\ Within(order.line)'
  BY <1>2 DEF Within, WillBeWithin
<1>4. (\A k \in Actors : RequestOK(handler[k]))'
  BY <1>1, <1>2
<1>. QED BY <1>1, <1>3, <1>4 DEF CartInv, OnlyOne

\* Another request goes on, which may place the order.
LEMMA WorkerStays ==
    ASSUME CartInv, NEW h \in Actors, h # Worker,
           \A k \in Actors \ {h} : handler'[k] = handler[k],
           UNCHANGED restoring, order' = order \/ order = NoOrder
    PROVE  Restores'
<1>1. handler'[Worker] = handler[Worker]
  BY DEF Actors
<1>2. order = NoOrder => restoring = Empty
  BY DEF CartInv, Restores, NoOrder
<1>. QED BY <1>1, <1>2 DEF CartInv, Restores

\* The worker itself goes on with the same call.
LEMMA WorkerGoesOn ==
    ASSUME CartInv, NEW h \in Actors, handler[h] # Idle, handler'[h].call = handler[h].call,
           \A k \in Actors \ {h} : handler'[k] = handler[k],
           UNCHANGED <<restoring, order>>
    PROVE  Restores'
<1>1. CASE h = Worker
  BY <1>1 DEF CartInv, Restores
<1>2. CASE h # Worker
  BY <1>2, WorkerStays
<1>. QED BY <1>1, <1>2

----------------------------------------------------------------------------
\* The steps of a request

\* A request that is idle is Idle.
LEMMA IdleIs ==
    ASSUME CartInv, NEW h \in Actors
    PROVE  At(h, "idle") => handler[h] = Idle
BY DEF CartInv, RequestOK, At

\* A request goes on and nothing was asked: OnlyOne.
LEMMA GoesOn ==
    ASSUME CartInv, NEW h \in Actors, NEW STATE next, Goes(h, next), UNCHANGED asked,
           \A sku \in Skus : Coming(next, sku) \in Nat /\ Coming(next, sku) <= Coming(handler[h], sku)
    PROVE  OnlyOne(h) /\ handler'[h] = next
<1>1. handler'[h] = next /\ \A k \in Actors \ {h} : handler'[k] = handler[k]
  BY DEF Goes, CartInv
<1>2. handler' = [k \in Actors |-> handler'[k]]
  BY DEF Goes, CartInv
<1>3. asked' \in Lines
  BY DEF CartInv
<1>4. \A sku \in Skus : asked[sku] \in Int /\ Coming(handler[h], sku) \in Int
  BY ComingIsNatural DEF CartInv, Lines
<1>5. ASSUME NEW sku \in Skus
      PROVE  /\ Coming(handler'[h], sku) \in Nat
             /\ asked[sku] - Coming(handler[h], sku) <= asked'[sku] - Coming(handler'[h], sku)
  BY <1>1, <1>4
<1>. QED BY <1>1, <1>2, <1>3, <1>5 DEF OnlyOne

LEMMA AskKeeps ==
    ASSUME CartInv, NEW h \in Handlers, NEW call \in Calls, NEW STATE sellable, Ask(h, call, sellable)
    PROVE  CartInv'
<1>. DEFINE next == [at |-> IF call.op = "direct" THEN "save" ELSE "find", call |-> call]
<1>1. h \in Actors /\ handler[h] = Idle
  BY IdleIs DEF Ask, Actors
<1>2. CallOK(call)
  <2>1. call.op = "checkout" => call.named \in [Skus -> 0..MaxNamed]
    BY DEF Calls
  <2>2. 0..MaxNamed \subseteq Nat
    BY CartAssumption
  <2>3. call.op = "checkout" => call.named \in Lines
    BY <2>1, <2>2 DEF Lines
  <2>. QED BY <2>3 DEF Calls, CallOK
<1>3. handler'[h] = next /\ (\A k \in Actors \ {h} : handler'[k] = handler[k])
      /\ handler' = [k \in Actors |-> handler'[k]]
  BY <1>1 DEF Ask, Goes, CartInv
<1>4. call.op = "add" => call.qty = 1
  BY DEF Calls
<1>5. asked' \in Lines
  BY <1>2 DEF Ask, CartInv, Lines, CallOK
<1>6. ASSUME NEW sku \in Skus
      PROVE  /\ Coming(handler'[h], sku) \in Nat
             /\ asked[sku] - Coming(handler[h], sku) <= asked'[sku] - Coming(handler'[h], sku)
  <2>1. Coming(handler[h], sku) = 0
    BY <1>1 DEF Coming, Idle
  <2>2. Coming(handler'[h], sku) = IF call.op \in {"add", "direct"} /\ call.sku = sku THEN 1 ELSE 0
    BY <1>3, <1>4 DEF Coming
  <2>3. asked'[sku] = IF call.op \in {"add", "direct"} /\ call.sku = sku THEN asked[sku] + 1 ELSE asked[sku]
    BY <1>2 DEF Ask, CartInv, Lines, CallOK
  <2>4. asked[sku] \in Int
    BY DEF CartInv, Lines
  <2>. QED BY <2>1, <2>2, <2>3, <2>4
<1>7. OnlyOne(h)
  BY <1>3, <1>5, <1>6 DEF OnlyOne
<1>8. RequestOK(handler[h])'
  BY <1>2, <1>3 DEF RequestOK
<1>9. requests' \in 0..MaxAsked
  BY CartAssumption DEF Ask, CartInv
<1>10. UNCHANGED <<carts, order, restoring>>
  BY DEF Ask
<1>11. Restores'
  <2>1. h # Worker
    BY CartAssumption
  <2>. QED BY <1>1, <1>3, <1>10, <2>1, WorkerStays
<1>. QED BY <1>1, <1>7, <1>8, <1>9, <1>10, <1>11, CartKept DEF CartInv

LEMMA FindKeeps ==
    ASSUME CartInv, NEW h \in Actors, FindActive(h)
    PROVE  CartInv'
<1>. DEFINE call == handler[h].call
            next == IF carts = <<>> THEN [handler[h] EXCEPT !.at = "create"]
                    ELSE [at |-> "save", call |-> call, cart |-> 1, lines |-> carts[1]]
<1>1. handler[h] = [at |-> "find", call |-> call] /\ CallOK(call)
  BY DEF FindActive, At, CartInv, RequestOK, Idle
<1>2. next.at = (IF carts = <<>> THEN "create" ELSE "save") /\ next.call = call
  BY <1>1
<1>3. \A sku \in Skus : Coming(next, sku) = Coming(handler[h], sku)
  <2>. HIDE DEF next
  <2>. QED BY <1>1, <1>2 DEF Coming
<1>4. \A sku \in Skus : Coming(handler[h], sku) \in Nat
  BY ComingIsNatural DEF CartInv
<1>5. OnlyOne(h) /\ handler'[h] = next
  <2>1. Goes(h, next) /\ UNCHANGED asked
    BY DEF FindActive
  <2>. HIDE DEF next
  <2>. QED BY <1>3, <1>4, <2>1, GoesOn
<1>6. ASSUME \A lines : Within(lines) => WillBeWithin(lines)
      PROVE  RequestOK(handler[h])'
  <2>1. CASE carts = <<>>
    BY <1>1, <1>2, <1>5, <2>1 DEF RequestOK
  <2>2. CASE carts # <<>>
    <3>1. 1 \in DOMAIN carts
      BY <2>2 DEF CartInv
    <3>2. WillBeWithin(carts[1])
      BY <1>6, <3>1 DEF CartInv
    <3>3. handler'[h] = [at |-> "save", call |-> call, cart |-> 1, lines |-> carts[1]]
      BY <1>5, <2>2
    <3>4. carts' = carts
      BY DEF FindActive
    <3>. QED BY <1>1, <3>1, <3>2, <3>3, <3>4 DEF RequestOK, Within, WillBeWithin
  <2>. QED BY <2>1, <2>2
<1>7. UNCHANGED <<carts, order, restoring, requests>>
  BY DEF FindActive
<1>8. ASSUME \A lines : Within(lines) => WillBeWithin(lines)
      PROVE  (\A n \in DOMAIN carts' : WillBeWithin(carts'[n])) /\ WillBeWithin(order'.line)
  BY <1>7, <1>8 DEF CartInv
<1>9. Restores'
  <2>1. handler[h] # Idle /\ handler'[h].call = handler[h].call
    BY <1>1, <1>2, <1>5 DEF Idle
  <2>. QED BY <1>5, <1>7, <2>1, WorkerGoesOn DEF OnlyOne
<1>. QED BY <1>5, <1>6, <1>7, <1>8, <1>9, CartKept DEF CartInv

LEMMA CreateKeeps ==
    ASSUME CartInv, NEW h \in Actors, CreateActive(h)
    PROVE  CartInv'
<1>. DEFINE call == handler[h].call
            next == [at |-> "save", call |-> call, cart |-> Len(carts) + 1, lines |-> Empty]
<1>1. handler[h].at = "create" /\ CallOK(call)
  BY DEF CreateActive, At, CartInv, RequestOK, Idle
<1>2. \A sku \in Skus : Coming(next, sku) = Coming(handler[h], sku)
  BY <1>1 DEF Coming
<1>3. \A sku \in Skus : Coming(handler[h], sku) \in Nat
  BY ComingIsNatural DEF CartInv
<1>4. OnlyOne(h) /\ handler'[h] = next
  <2>1. Goes(h, next) /\ UNCHANGED asked
    BY DEF CreateActive
  <2>. HIDE DEF next
  <2>. QED BY <1>2, <1>3, <2>1, GoesOn
<1>5. Empty \in Lines
  BY DEF Empty, Lines
<1>6. /\ carts' \in Seq(Lines) /\ DOMAIN carts \subseteq DOMAIN carts'
      /\ Len(carts) + 1 \in DOMAIN carts'
      /\ \A n \in DOMAIN carts' : carts'[n] = Empty \/ (n \in DOMAIN carts /\ carts'[n] = carts[n])
  BY <1>5 DEF CreateActive, CartInv
<1>7. ASSUME \A lines : Within(lines) => WillBeWithin(lines)
      PROVE  /\ \A n \in DOMAIN carts' : WillBeWithin(carts'[n])
             /\ WillBeWithin(order'.line)
             /\ RequestOK(handler[h])'
  <2>1. WillBeWithin(Empty) /\ \A n \in DOMAIN carts : WillBeWithin(carts[n])
    BY <1>7 DEF CartInv
  <2>2. \A n \in DOMAIN carts' : WillBeWithin(carts'[n])
    BY <1>6, <2>1
  <2>3. WillBeWithin(order'.line)
    BY <1>7 DEF CreateActive, CartInv
  <2>4. RequestOK(handler[h])'
    BY <1>1, <1>4, <1>6, <2>1 DEF RequestOK, Within, WillBeWithin
  <2>. QED BY <2>2, <2>3, <2>4
<1>8. UNCHANGED <<order, restoring, requests>>
  BY DEF CreateActive
<1>9. Restores'
  <2>1. handler[h] # Idle /\ handler'[h].call = handler[h].call
    BY <1>1, <1>4 DEF Idle
  <2>. QED BY <1>4, <1>8, <2>1, WorkerGoesOn DEF OnlyOne
<1>. QED BY <1>4, <1>6, <1>7, <1>8, <1>9, CartKept DEF CartInv

\* What a request saves is within what is settled once it is saved.
LEMMA SavedIsWithin ==
    ASSUME CartInv, NEW h \in Actors, SaveCart(h),
           ~(handler[h].call.op = "set" /\ handler[h].lines[handler[h].call.sku] = 0),
           NEW STATE now
    PROVE  WillBeWithin(Saved(handler[h].lines, handler[h].call, now))
<1>. DEFINE call == handler[h].call
            lines == handler[h].lines
            new == Saved(lines, call, now)
<1>1. /\ handler[h].at = "save" /\ CallOK(call) /\ call.op \in {"add", "set", "drop"}
      /\ lines \in Lines /\ \A sku \in Skus : lines[sku] <= Settled(sku)
  BY DEF SaveCart, At, CartInv, RequestOK, Within, Idle
<1>2. handler'[h] = Idle /\ (\A k \in Actors \ {h} : handler'[k] = handler[k]) /\ UNCHANGED asked
  BY DEF SaveCart, Goes, CartInv
<1>3. ASSUME NEW sku \in Skus
      PROVE  /\ Settled(sku) \in Int /\ Settled(sku)' \in Int
             /\ Settled(sku)' = Settled(sku) + (IF call.op = "add" /\ sku = call.sku THEN call.qty ELSE 0)
  <2>1. Coming(handler'[h], sku) = 0
    BY <1>2 DEF Coming, Idle
  <2>2. Coming(handler[h], sku) = IF call.op = "add" /\ sku = call.sku THEN call.qty ELSE 0
    BY <1>1 DEF Coming
  <2>3. \A x \in Skus : Coming(handler'[h], x) \in Nat
    BY <1>2 DEF Coming, Idle
  <2>4. asked[sku] \in Int /\ asked'[sku] = asked[sku] /\ asked' \in Lines
    BY <1>2 DEF CartInv, Lines
  <2>5. /\ Settled(sku)' \in Int
        /\ Settled(sku)' = Settled(sku) + (asked'[sku] - asked[sku])
                              + (Coming(handler[h], sku) - Coming(handler'[h], sku))
    BY <1>2, <2>3, <2>4, OneRequest
  <2>6. Settled(sku) \in Int /\ Coming(handler[h], sku) \in Int
    BY ComingSummable, ComingIsNatural DEF CartInv
  <2>. QED BY <2>1, <2>2, <2>4, <2>5, <2>6
<1>4. ASSUME NEW sku \in Skus
      PROVE  new[sku] \in Nat /\ new[sku] <= Settled(sku)'
  <2>1. lines[sku] \in Nat /\ lines[sku] <= Settled(sku)
    BY <1>1 DEF Lines
  <2>2. CASE call.op = "add" /\ sku = call.sku
    <3>1. new[sku] = lines[sku] + call.qty /\ call.qty \in Nat
      BY <1>1, <2>2 DEF Saved, CallOK
    <3>. QED BY <1>3, <2>1, <2>2, <3>1
  <2>3. CASE call.op = "set" /\ sku = call.sku
    <3>1. new[sku] = 1 /\ lines[sku] # 0
      BY <2>3 DEF Saved
    <3>. QED BY <1>3, <2>1, <2>3, <3>1
  <2>4. CASE call.op = "drop" /\ sku \in call.skus
    <3>1. new[sku] = 0
      BY <2>4 DEF Saved
    <3>. QED BY <1>3, <2>1, <2>4, <3>1
  <2>5. CASE ~(call.op \in {"add", "set"} /\ sku = call.sku) /\ ~(call.op = "drop" /\ sku \in call.skus)
    <3>1. new[sku] = lines[sku]
      BY <2>5 DEF Saved
    <3>. QED BY <1>3, <2>1, <2>5, <3>1
  <2>. QED BY <1>1, <2>2, <2>3, <2>4, <2>5
<1>5. new = [sku \in Skus |-> new[sku]]
  BY DEF Saved
<1>. HIDE DEF new
<1>6. WillBeWithin(new)
  BY <1>4, <1>5 DEF WillBeWithin, Lines
<1>. QED BY <1>6 DEF new

\* A request that ends without anything asked.
LEMMA EndsHere ==
    ASSUME CartInv, NEW h \in Actors, Goes(h, Idle), UNCHANGED asked
    PROVE  OnlyOne(h) /\ handler'[h] = Idle /\ RequestOK(handler[h])'
<1>1. \A sku \in Skus : Coming(Idle, sku) = 0 /\ Coming(handler[h], sku) \in Nat
  <2>1. \A sku \in Skus : Coming(handler[h], sku) \in Nat
    BY ComingIsNatural DEF CartInv
  <2>. QED BY <2>1 DEF Coming, Idle
<1>2. \A sku \in Skus : Coming(Idle, sku) \in Nat /\ Coming(Idle, sku) <= Coming(handler[h], sku)
  BY <1>1
<1>3. OnlyOne(h) /\ handler'[h] = Idle
  BY <1>2, GoesOn
<1>. QED BY <1>3 DEF RequestOK, Idle

LEMMA SaveKeeps ==
    ASSUME CartInv, NEW h \in Actors, SaveCart(h)
    PROVE  CartInv'
<1>. DEFINE call == handler[h].call
            lines == handler[h].lines
            at == handler[h].cart
            new == Saved(lines, call, carts[at])
            refused == call.op = "set" /\ lines[call.sku] = 0
<1>1. OnlyOne(h) /\ RequestOK(handler[h])'
  BY EndsHere DEF SaveCart
<1>2. at \in DOMAIN carts
  BY DEF SaveCart, At, CartInv, RequestOK, Idle
<1>3. carts' = IF refused THEN carts ELSE [carts EXCEPT ![at] = new]
  BY DEF SaveCart
<1>4. ~refused => WillBeWithin(new)
  BY SavedIsWithin
<1>5. carts' \in Seq(Lines) /\ DOMAIN carts' = DOMAIN carts
  <2>1. ~refused => new \in Lines
    BY <1>4 DEF WillBeWithin
  <2>2. carts \in Seq(Lines)
    BY DEF CartInv
  <2>. HIDE DEF new, refused, at
  <2>. QED BY <1>2, <1>3, <2>1, <2>2
<1>6. ASSUME \A m : Within(m) => WillBeWithin(m)
      PROVE  (\A n \in DOMAIN carts' : WillBeWithin(carts'[n])) /\ WillBeWithin(order'.line)
  <2>1. \A n \in DOMAIN carts : WillBeWithin(carts[n])
    BY <1>6 DEF CartInv
  <2>2. \A n \in DOMAIN carts' : carts'[n] = carts[n] \/ (~refused /\ carts'[n] = new)
    <3>1. carts \in Seq(Lines)
      BY DEF CartInv
    <3>. HIDE DEF new, refused, at
    <3>. QED BY <1>2, <1>3, <1>5, <3>1
  <2>3. \A n \in DOMAIN carts' : WillBeWithin(carts'[n])
    <3>. HIDE DEF new, refused, at
    <3>. QED BY <1>4, <1>5, <2>1, <2>2
  <2>4. WillBeWithin(order'.line)
    BY <1>6 DEF SaveCart, CartInv
  <2>. QED BY <2>3, <2>4
<1>7. UNCHANGED <<order, requests>>
  BY DEF SaveCart
<1>8. Restores'
  <2>1. handler'[h] = Idle
    BY EndsHere DEF SaveCart
  <2>2. CASE h = Worker
    <3>1. handler[h] # Idle
      BY DEF SaveCart, At, Idle
    <3>2. call.sku \in Skus /\ restoring[call.sku] > 0 /\ restoring \in Lines
      BY <2>2, <3>1 DEF CartInv, Restores
    <3>3. restoring' = [restoring EXCEPT ![call.sku] = @ - 1]
      BY <2>2 DEF SaveCart
    <3>4. restoring' \in Lines
      BY <3>2, <3>3 DEF Lines
    <3>5. restoring # Empty
      BY <3>2 DEF Empty
    <3>. QED BY <1>7, <2>1, <2>2, <3>4, <3>5 DEF CartInv, Restores
  <2>3. CASE h # Worker
    <3>1. UNCHANGED restoring
      BY <2>3 DEF SaveCart
    <3>. QED BY <1>1, <1>7, <2>3, <3>1, WorkerStays DEF OnlyOne
  <2>. QED BY <2>2, <2>3
<1>. HIDE DEF new, refused, at
<1>. QED BY <1>1, <1>5, <1>6, <1>7, <1>8, CartKept DEF CartInv

\* A request that is not of the kind the worker makes.
LEMMA NotWorker ==
    ASSUME CartInv, NEW h \in Actors, handler[h].at = "save",
           handler[h].call.op \in {"checkout", "direct"}
    PROVE  h # Worker
BY DEF CartInv, Restores, Idle

LEMMA PlaceOrderKeeps ==
    ASSUME CartInv, NEW h \in Actors, PlaceOrder(h)
    PROVE  CartInv'
<1>. DEFINE call == handler[h].call
            lines == handler[h].lines
            named == Named(call, lines)
            dropped == {sku \in Skus : call.named = Empty \/ call.named[sku] > 0}
            next == [at |-> "find", call |-> [op |-> "drop", skus |-> dropped]]
<1>1. handler[h].at = "save" /\ CallOK(call) /\ call.op = "checkout" /\ Within(lines)
  BY DEF PlaceOrder, At, CartInv, RequestOK, Idle
<1>2. UNCHANGED <<carts, restoring, asked, requests>>
  BY DEF PlaceOrder
<1>3. h # Worker
  BY <1>1, NotWorker
<1>4. CASE Goes(h, Idle) /\ UNCHANGED order
  <2>1. OnlyOne(h) /\ RequestOK(handler[h])'
    BY <1>2, <1>4, EndsHere
  <2>2. (\A m : Within(m) => WillBeWithin(m))
           => (\A n \in DOMAIN carts' : WillBeWithin(carts'[n])) /\ WillBeWithin(order'.line)
    BY <1>2, <1>4 DEF CartInv
  <2>3. Restores'
    BY <1>2, <1>3, <1>4, <2>1, WorkerStays DEF OnlyOne
  <2>. QED BY <1>2, <1>4, <2>1, <2>2, <2>3, CartKept DEF CartInv
<1>5. CASE order = NoOrder /\ order' = [status |-> "PLACED", named |-> named, line |-> lines] /\ Goes(h, next)
  <2>1. \A sku \in Skus : Coming(next, sku) = 0 /\ Coming(handler[h], sku) \in Nat
    <3>1. \A sku \in Skus : Coming(handler[h], sku) \in Nat
      BY ComingIsNatural DEF CartInv
    <3>. QED BY <3>1 DEF Coming
  <2>2. OnlyOne(h) /\ handler'[h] = next
    <3>1. \A sku \in Skus : Coming(next, sku) \in Nat /\ Coming(next, sku) <= Coming(handler[h], sku)
      BY <2>1
    <3>. HIDE DEF next
    <3>. QED BY <1>2, <1>5, <3>1, GoesOn
  <2>3. CallOK(next.call)
    BY DEF CallOK
  <2>4. RequestOK(handler[h])'
    BY <2>2, <2>3 DEF RequestOK
  <2>5. ASSUME \A m : Within(m) => WillBeWithin(m)
        PROVE  (\A n \in DOMAIN carts' : WillBeWithin(carts'[n])) /\ WillBeWithin(order'.line)
    <3>1. WillBeWithin(lines) /\ \A n \in DOMAIN carts : WillBeWithin(carts[n])
      BY <1>1, <2>5 DEF CartInv
    <3>. QED BY <1>2, <1>5, <3>1
  <2>6. named \in Lines /\ lines \in Lines
    BY <1>1 DEF Named, CallOK, Within, Lines
  <2>7. order' \in [status : {"none", "PLACED", "CANCELLED"}, named : Lines, line : Lines]
    <3>. HIDE DEF named
    <3>. QED BY <1>5, <2>6
  <2>8. Restores'
    BY <1>2, <1>3, <1>5, <2>2, WorkerStays DEF OnlyOne
  <2>. QED BY <1>2, <2>2, <2>4, <2>5, <2>7, <2>8, CartKept DEF CartInv
<1>. QED BY <1>4, <1>5 DEF PlaceOrder

LEMMA PlaceDirectKeeps ==
    ASSUME CartInv, NEW h \in Actors, PlaceDirect(h)
    PROVE  CartInv'
<1>0. handler[h].at = "save" /\ handler[h].call.op = "direct" /\ handler[h].call.sku \in Skus
  BY DEF PlaceDirect, At, CartInv, RequestOK, Idle, CallOK
<1>. PICK bought \in Skus : bought = handler[h].call.sku
  BY <1>0
<1>. DEFINE one == [Empty EXCEPT ![bought] = 1]
<1>1. handler[h].at = "save" /\ handler[h].call.op = "direct" /\ handler[h].call.sku = bought
  BY <1>0
<1>2. UNCHANGED <<carts, restoring, asked, requests>> /\ Goes(h, Idle)
      /\ order' = IF order = NoOrder THEN [status |-> "PLACED", named |-> one, line |-> one] ELSE order
  BY DEF PlaceDirect
<1>3. OnlyOne(h) /\ handler'[h] = Idle /\ RequestOK(handler[h])'
  BY <1>2, EndsHere
<1>4. one \in Lines /\ one[bought] = 1 /\ \A sku \in Skus \ {bought} : one[sku] = 0
  BY <1>1 DEF Empty, Lines
<1>5. 1 <= Settled(bought)'
  <2>1. Coming(handler[h], bought) = 1 /\ Coming(handler'[h], bought) = 0
    BY <1>1, <1>3 DEF Coming, Idle
  <2>2. /\ Settled(bought)' \in Int
        /\ Settled(bought)' = Settled(bought) + (asked'[bought] - asked[bought])
                              + (Coming(handler[h], bought) - Coming(handler'[h], bought))
    <3>1. \A sku \in Skus :
              /\ Settled(sku)' \in Int
              /\ Settled(sku)' = Settled(sku) + (asked'[sku] - asked[sku])
                              + (Coming(handler[h], sku) - Coming(handler'[h], sku))
      BY <1>3, OneRequest DEF OnlyOne
    <3>. QED BY <1>1, <3>1
  <2>3. Settled(bought) \in Int /\ asked[bought] \in Int /\ asked'[bought] = asked[bought]
    BY <1>1, <1>2, ComingSummable DEF CartInv, Lines
  <2>4. 0 <= Settled(bought)
    BY <1>1 DEF CartInv, Within, Empty
  <2>. QED BY <2>1, <2>2, <2>3, <2>4
<1>6. ASSUME \A m : Within(m) => WillBeWithin(m)
      PROVE  (\A n \in DOMAIN carts' : WillBeWithin(carts'[n])) /\ WillBeWithin(order'.line)
  <2>1. WillBeWithin(order.line) /\ WillBeWithin(Empty) /\ \A n \in DOMAIN carts : WillBeWithin(carts[n])
    BY <1>6 DEF CartInv
  <2>2. \A sku \in Skus : 0 <= Settled(sku)'
    BY <2>1 DEF WillBeWithin, Empty
  <2>3. WillBeWithin(one)
    <3>1. \A sku \in Skus : one[sku] <= Settled(sku)'
      <4>. HIDE DEF one
      <4>. QED BY <1>4, <1>5, <2>2
    <3>. QED BY <1>4, <3>1 DEF WillBeWithin
  <2>4. order'.line = order.line \/ order'.line = one
    <3>. HIDE DEF one
    <3>. QED BY <1>2
  <2>. QED BY <1>2, <2>1, <2>3, <2>4
<1>7. order' \in [status : {"none", "PLACED", "CANCELLED"}, named : Lines, line : Lines]
  <2>1. order \in [status : {"none", "PLACED", "CANCELLED"}, named : Lines, line : Lines]
    BY DEF CartInv
  <2>. HIDE DEF one
  <2>. QED BY <1>2, <1>4, <2>1
<1>8. Restores'
  <2>1. h # Worker
    BY <1>1, NotWorker
  <2>2. order' = order \/ order = NoOrder
    BY <1>2
  <2>. QED BY <1>2, <1>3, <2>1, <2>2, WorkerStays DEF OnlyOne
<1>. QED BY <1>2, <1>3, <1>6, <1>7, <1>8, CartKept DEF CartInv

\* No request goes on: the order is cancelled, or nothing happens to the cart.
LEMMA ReserveFailedKeeps ==
    ASSUME CartInv, ReserveFailed
    PROVE  CartInv'
<1>1. UNCHANGED <<carts, handler, asked, requests>>
  BY DEF ReserveFailed
<1>2. order' \in [status : {"none", "PLACED", "CANCELLED"}, named : Lines, line : Lines] /\ order'.line = order.line
  BY DEF ReserveFailed, CartInv
<1>3. Restores'
  <2>1. handler[Worker] = Idle
    BY DEF ReserveFailed, CartInv, Restores, Empty
  <2>2. restoring' = order.named /\ order'.status = "CANCELLED" /\ handler' = handler
    BY DEF ReserveFailed, CartInv
  <2>. QED BY <2>1, <2>2 DEF CartInv, Restores
<1>4. \A sku \in Skus : Settled(sku)' = Settled(sku)
  BY <1>1 DEF Settled, ComingOf
<1>5. Within(order.line)' /\ Within(Empty)' /\ (\A n \in DOMAIN carts : Within(carts[n]))'
  BY <1>1, <1>2, <1>4 DEF CartInv, Within
<1>6. ASSUME NEW h \in Actors
      PROVE  RequestOK(handler[h])'
  <2>1. RequestOK(handler[h]) /\ handler'[h] = handler[h] /\ carts' = carts
    BY <1>1 DEF CartInv
  <2>2. Within(handler[h].lines) => Within(handler[h].lines)'
    BY <1>4, <2>1 DEF Within
  <2>. QED BY <2>1, <2>2 DEF RequestOK
<1>. QED BY <1>1, <1>2, <1>3, <1>5, <1>6 DEF CartInv

LEMMA RestoreLineKeeps ==
    ASSUME CartInv, NEW STATE sellable, RestoreLine(sellable)
    PROVE  CartInv'
<1>. DEFINE h == Worker
<1>1. h \in Actors /\ handler[h] = Idle
  BY IdleIs DEF RestoreLine, Actors
<1>2. UNCHANGED <<carts, order, requests>>
  BY DEF RestoreLine
<1>3. CASE restoring' = Empty /\ UNCHANGED <<asked, handler>>
  <2>1. \A sku \in Skus : Settled(sku)' = Settled(sku)
    BY <1>3 DEF Settled, ComingOf
  <2>2. \A k \in Actors : RequestOK(handler[k])'
    <3>1. ASSUME NEW k \in Actors
          PROVE  RequestOK(handler[k])'
      <4>1. RequestOK(handler[k]) /\ handler'[k] = handler[k] /\ carts' = carts
        BY <1>2, <1>3 DEF CartInv
      <4>2. Within(handler[k].lines) => Within(handler[k].lines)'
        BY <2>1, <4>1 DEF Within
      <4>. QED BY <4>1, <4>2 DEF RequestOK
    <3>. QED BY <3>1
  <2>3. Restores'
    BY <1>1, <1>2, <1>3 DEF CartInv, Restores, Empty, Lines
  <2>. QED BY <1>2, <1>3, <2>1, <2>2, <2>3 DEF CartInv, Within
<1>4. ASSUME NEW sku \in Skus, restoring[sku] > 0,
             asked' = [asked EXCEPT ![sku] = @ + order.line[sku]],
             Goes(h, [at |-> "find",
                      call |-> [op |-> "add", sku |-> sku, qty |-> order.line[sku]]]),
             UNCHANGED restoring
      PROVE  CartInv'
  <2>. DEFINE back == order.line[sku]
              call == [op |-> "add", sku |-> sku, qty |-> back]
              next == [at |-> "find", call |-> call]
  <2>1. sku \in Skus /\ back \in Nat
    BY <1>4 DEF CartInv, Lines
  <2>2. CallOK(call)
    BY <2>1 DEF CallOK
  <2>3. handler'[h] = next /\ (\A k \in Actors \ {h} : handler'[k] = handler[k])
        /\ handler' = [k \in Actors |-> handler'[k]]
    BY <1>1, <1>4 DEF Goes, CartInv
  <2>4. asked' \in Lines
    BY <1>4, <2>1 DEF CartInv, Lines
  <2>5. ASSUME NEW x \in Skus
        PROVE  /\ Coming(handler'[h], x) \in Nat
               /\ asked[x] - Coming(handler[h], x) <= asked'[x] - Coming(handler'[h], x)
    <3>1. Coming(handler[h], x) = 0
      BY <1>1 DEF Coming, Idle
    <3>2. Coming(handler'[h], x) = IF sku = x THEN back ELSE 0
      BY <2>3 DEF Coming
    <3>3. asked'[x] = IF sku = x THEN asked[x] + back ELSE asked[x]
      BY <1>4, <2>1 DEF CartInv, Lines
    <3>4. asked[x] \in Int
      BY DEF CartInv, Lines
    <3>. HIDE DEF back
    <3>. QED BY <2>1, <3>1, <3>2, <3>3, <3>4
  <2>6. OnlyOne(h)
    BY <2>3, <2>4, <2>5 DEF OnlyOne
  <2>7. RequestOK(handler[h])'
    BY <2>2, <2>3 DEF RequestOK
  <2>8. (\A m : Within(m) => WillBeWithin(m))
           => (\A n \in DOMAIN carts' : WillBeWithin(carts'[n])) /\ WillBeWithin(order'.line)
    BY <1>2 DEF CartInv
  <2>9. Restores'
    <3>1. handler'[Worker].call.op = "add" /\ handler'[Worker].call.sku = sku
      BY <2>3
    <3>. QED BY <1>2, <1>4, <3>1 DEF CartInv, Restores
  <2>. QED BY <1>1, <1>2, <1>4, <2>6, <2>7, <2>8, <2>9, CartKept DEF CartInv
<1>. QED BY <1>3, <1>4 DEF RestoreLine

LEMMA RestoreAgainKeeps ==
    ASSUME CartInv, RestoreAgain
    PROVE  CartInv'
<1>1. Worker \in Actors
  BY DEF Actors
<1>2. OnlyOne(Worker) /\ RequestOK(handler[Worker])' /\ handler'[Worker] = Idle
  BY <1>1, EndsHere DEF RestoreAgain
<1>3. UNCHANGED <<carts, order, asked>> /\ Restores'
  BY <1>2 DEF RestoreAgain, CartInv, Restores
<1>4. requests' \in 0..MaxAsked
  BY CartAssumption DEF RestoreAgain, CartInv
<1>5. (\A m : Within(m) => WillBeWithin(m))
         => (\A n \in DOMAIN carts' : WillBeWithin(carts'[n])) /\ WillBeWithin(order'.line)
  BY <1>3 DEF CartInv
<1>. QED BY <1>1, <1>2, <1>3, <1>4, <1>5, CartKept DEF CartInv

LEMMA CartStepKeeps ==
    ASSUME CartInv, NEW STATE sellable, CartStep(sellable)
    PROVE  CartInv'
<1>1. ASSUME NEW h \in Handlers, NEW call \in Calls, Ask(h, call, sellable)
      PROVE  CartInv'
  BY <1>1, AskKeeps
<1>2. ASSUME NEW h \in Actors,
             FindActive(h) \/ CreateActive(h) \/ SaveCart(h) \/ PlaceOrder(h) \/ PlaceDirect(h)
      PROVE  CartInv'
  BY <1>2, FindKeeps, CreateKeeps, SaveKeeps, PlaceOrderKeeps, PlaceDirectKeeps
<1>. QED BY <1>1, <1>2, ReserveFailedKeeps, RestoreLineKeeps, RestoreAgainKeeps DEF CartStep

LEMMA CartQuiet == CartInv /\ UNCHANGED cartVars => CartInv'
<1>. SUFFICES ASSUME CartInv, UNCHANGED cartVars
              PROVE  CartInv'
  OBVIOUS
<1>1. UNCHANGED <<carts, handler, order, restoring, asked, requests>>
  BY DEF cartVars
<1>2. \A sku \in Skus : Settled(sku)' = Settled(sku)
  BY <1>1 DEF Settled, ComingOf
<1>3. ASSUME NEW k \in Actors
      PROVE  RequestOK(handler[k])'
  <2>1. RequestOK(handler[k]) /\ handler'[k] = handler[k] /\ carts' = carts
    BY <1>1 DEF CartInv
  <2>2. Within(handler[k].lines) => Within(handler[k].lines)'
    BY <1>2, <2>1 DEF Within
  <2>. QED BY <2>1, <2>2 DEF RequestOK
<1>. QED BY <1>1, <1>2, <1>3 DEF CartInv, Within, Restores

LEMMA CartStart == CartInit => CartInv
<1>. SUFFICES ASSUME CartInit
              PROVE  CartInv
  OBVIOUS
<1>1. ASSUME NEW sku \in Skus
      PROVE  Settled(sku) = 0
  <2>1. \A h \in Actors : ComingOf(sku)[h] = 0
    BY DEF CartInit, ComingOf, Coming, Idle
  <2>2. Total(ComingOf(sku), Actors) = 0
    BY <2>1, ActorsFinite, TotalOfZeros
  <2>3. asked[sku] = 0
    BY DEF CartInit, Empty
  <2>. QED BY <2>2, <2>3 DEF Settled
<1>2. Empty \in Lines /\ \A sku \in Skus : Empty[sku] = 0
  BY DEF Empty, Lines
<1>3. Within(Empty)
  BY <1>1, <1>2 DEF Within
<1>4. carts \in Seq(Lines) /\ DOMAIN carts = {}
  BY DEF CartInit
<1>5. order.line = Empty /\ order \in [status : {"none", "PLACED", "CANCELLED"}, named : Lines, line : Lines]
  BY <1>2 DEF CartInit, NoOrder
<1>6. requests \in 0..MaxAsked
  BY CartAssumption DEF CartInit
<1>7. \A h \in Actors : RequestOK(handler[h])
  BY DEF CartInit, RequestOK
<1>8. Restores
  BY <1>2 DEF CartInit, Restores, Actors
<1>. QED BY <1>2, <1>3, <1>4, <1>5, <1>6, <1>7, <1>8 DEF CartInv, CartInit

\* What the carts and the order hold was asked for, and is not on the way.
LEMMA SettledWasAsked == CartInv => NeverMoreThanAsked
<1>. SUFFICES ASSUME CartInv, NEW sku \in Skus
              PROVE  /\ \A n \in DOMAIN carts : carts[n][sku] <= asked[sku]
                     /\ order.named[sku] * order.line[sku] <= order.named[sku] * asked[sku]
  BY DEF NeverMoreThanAsked
<1>1. Settled(sku) <= asked[sku] /\ Settled(sku) \in Int /\ asked[sku] \in Int
  <2>1. \A h \in Actors : ComingOf(sku)[h] \in Nat
    BY ComingIsNatural DEF ComingOf, CartInv
  <2>2. Total(ComingOf(sku), Actors) \in Nat
    BY <2>1, ActorsFinite, TotalNatural
  <2>3. asked[sku] \in Int
    BY DEF CartInv, Lines
  <2>. QED BY <2>2, <2>3 DEF Settled
<1>2. \A lines : Within(lines) => lines[sku] \in Int /\ lines[sku] <= Settled(sku)
  BY DEF Within, Lines
<1>3. \A lines : Within(lines) => lines[sku] <= asked[sku]
  BY <1>1, <1>2
<1>4. order.line[sku] <= asked[sku] /\ order.line[sku] \in Nat /\ asked[sku] \in Nat
      /\ order.named[sku] \in Nat
  BY <1>3 DEF CartInv, Lines
<1>5. \A times, few, many \in Nat : few <= many => times * few <= times * many
  OBVIOUS
<1>. QED BY <1>3, <1>4, <1>5 DEF CartInv

----------------------------------------------------------------------------
\* The counter

CounterInv ==
    /\ CounterTypeOK
    /\ processed \in Seq(Nat)
    /\ variant.status = "none" => variant = NoVariant
    /\ CopySinceFloor

\* The changes that came after the first m, by when they did.
Late(m) == [n \in (m + 1)..Len(processed) |-> Change(processed[n])]

LEMMA SumOfIsTotal ==
    ASSUME NEW f
    PROVE  SumOf(f) = Total(f, DOMAIN f)
BY DEF SumOf, MapThenSumSet, MapThenFoldSet, Total, Fold, Solves, Pick1

LEMMA SinceIsTotal ==
    ASSUME NEW m
    PROVE  SumSince(m) = Total(Late(m), (m + 1)..Len(processed))
<1>1. SumSince(m) = SumOf(Late(m))
  BY DEF SumSince, Late
<1>2. DOMAIN Late(m) = (m + 1)..Len(processed)
  BY DEF Late
<1>. QED BY <1>1, <1>2, SumOfIsTotal

\* The changes are numbers, and those of the jobs that were processed were told.
LEMMA ChangeIsInt ==
    ASSUME CounterInv
    PROVE  /\ changes \in Seq(Int) /\ Len(changes) \in Nat
           /\ \A job \in Jobs : job \in Nat /\ Change(job) \in Int
           /\ \A n \in DOMAIN processed : processed[n] \in Jobs
<1>1. changes \in Seq(Int) /\ Len(changes) \in Nat
  BY CounterAssumption DEF CounterInv, CounterTypeOK, Deltas
<1>2. \A job \in Jobs : job \in Nat /\ Change(job) \in Int
  BY <1>1 DEF Jobs, Change, Created
<1>3. \A n \in DOMAIN processed : processed[n] \in Jobs
  BY DEF CounterInv, CounterTypeOK, Range
<1>. QED BY <1>1, <1>2, <1>3

LEMMA LateSummable ==
    ASSUME CounterInv, NEW m \in Nat
    PROVE  /\ Summable(Late(m), (m + 1)..Len(processed))
           /\ SumSince(m) \in Int
<1>1. Len(processed) \in Nat /\ DOMAIN processed = 1..Len(processed)
  BY DEF CounterInv
<1>2. IsFiniteSet((m + 1)..Len(processed))
  BY <1>1, FiniteInterval
<1>3. \A n \in (m + 1)..Len(processed) : Late(m)[n] \in Int
  <2>1. \A n \in (m + 1)..Len(processed) : n \in DOMAIN processed
    BY <1>1
  <2>. QED BY <2>1, ChangeIsInt DEF Late
<1>4. Summable(Late(m), (m + 1)..Len(processed))
  BY <1>2, <1>3 DEF Summable
<1>. QED BY <1>4, SinceIsTotal, TotalRemove

\* What was processed stays as it came.
LEMMA LateStays ==
    ASSUME CounterInv, UNCHANGED processed,
           \A job \in Jobs \ {Created} : changes'[job] = changes[job]
    PROVE  \A m \in Nat : SumSince(m)' = SumSince(m)
<1>1. ASSUME NEW m \in Nat
      PROVE  Late(m)' = Late(m)
  <2>1. Len(processed) \in Nat /\ DOMAIN processed = 1..Len(processed)
    BY DEF CounterInv
  <2>2. \A n \in (m + 1)..Len(processed) : processed[n] \in Jobs
    BY <2>1, ChangeIsInt
  <2>3. \A n \in (m + 1)..Len(processed) : Change(processed[n])' = Change(processed[n])
    BY <2>2 DEF Change
  <2>. QED BY <2>3 DEF Late
<1>2. \A m : SumSince(m)' = Total(Late(m)', ((m + 1)..Len(processed))')
  BY SumOfIsTotal DEF SumSince, Late
<1>. QED BY <1>1, <1>2, SinceIsTotal

\* A change more comes: the sum since every earlier moment grows by it, and since now
\* nothing came.
LEMMA LateGrows ==
    ASSUME CounterInv, NEW job \in Jobs, processed' = Append(processed, job),
           UNCHANGED changes
    PROVE  /\ \A m \in 0..Len(processed) : SumSince(m)' = SumSince(m) + Change(job)
           /\ \A m \in Nat : m = Len(processed) + 1 => SumSince(m)' = 0
<1>. PICK last \in Nat : last = Len(processed) + 1
  BY DEF CounterInv
<1>1. /\ Len(processed) \in Nat /\ Len(processed) = last - 1 /\ DOMAIN processed = 1..Len(processed)
      /\ Len(processed') = last /\ processed'[last] = job
      /\ \A n \in 1..Len(processed) : processed'[n] = processed[n]
  BY ChangeIsInt DEF CounterInv
<1>2. \A m : SumSince(m)' = Total(Late(m)', ((m + 1)..Len(processed))')
  BY SumOfIsTotal DEF SumSince, Late
<1>3. Change(job) \in Int
  BY ChangeIsInt
<1>4. ASSUME NEW m \in 0..Len(processed)
      PROVE  SumSince(m)' = SumSince(m) + Change(job)
  <2>. DEFINE before == (m + 1)..Len(processed)
              after == (m + 1)..last
  <2>. PICK f : f = Late(m)
    OBVIOUS
  <2>. PICK g : g = Late(m)'
    OBVIOUS
  <2>1. g = [n \in after |-> Change(processed'[n])]
    BY <1>1 DEF Late, Change
  <2>2. f = [n \in before |-> Change(processed[n])]
    BY DEF Late
  <2>3. last \in after /\ after \ {last} = before /\ g[last] = Change(job)
    BY <1>1, <2>1
  <2>4. \A n \in before : n \in 1..Len(processed) /\ n \in after
    BY <1>1
  <2>5. \A n \in before : f[n] = g[n]
    BY <1>1, <2>1, <2>2, <2>4
  <2>6. Summable(f, before) /\ Total(f, before) = SumSince(m) /\ SumSince(m) \in Int
    BY LateSummable, SinceIsTotal
  <2>7. Total(g, before) = Total(f, before)
    <3>. HIDE DEF before, after
    <3>. QED BY <2>5, <2>6, TotalAgrees
  <2>8. Summable(g, after)
    <3>1. after = before \cup {last}
      BY <2>3
    <3>2. IsFiniteSet(after)
      BY <2>6, <3>1, FiniteWithOne DEF Summable
    <3>3. \A n \in before : g[n] \in Int
      BY <2>5, <2>6 DEF Summable
    <3>4. \A n \in after : g[n] \in Int
      BY <1>3, <2>3, <3>1, <3>3
    <3>. QED BY <3>2, <3>4 DEF Summable
  <2>9. Total(g, after) = g[last] + Total(g, after \ {last})
    <3>. HIDE DEF before, after
    <3>. QED BY <2>3, <2>8, TotalRemove
  <2>10. SumSince(m)' = Total(g, after)
    BY <1>1, <1>2
  <2>11. Total(g, after) = Change(job) + SumSince(m)
    <3>. HIDE DEF before, after
    <3>. QED BY <2>3, <2>6, <2>7, <2>9
  <2>12. Change(job) + SumSince(m) = SumSince(m) + Change(job)
    BY <1>3, <2>6
  <2>. QED BY <2>10, <2>11, <2>12
<1>5. SumSince(last)' = 0
  <2>1. (last + 1)..last = {}
    OBVIOUS
  <2>2. SumSince(last)' = Total(Late(last)', {})
    BY <1>1, <1>2, <2>1
  <2>. QED BY <2>2, TotalEmpty
<1>. QED BY <1>4, <1>5

\* Since now, nothing came.
LEMMA NothingSinceNow == CounterInv => SumSince(Len(processed)) = 0
<1>. SUFFICES ASSUME CounterInv
              PROVE  SumSince(Len(processed)) = 0
  OBVIOUS
<1>1. (Len(processed) + 1)..Len(processed) = {}
  BY DEF CounterInv
<1>. QED BY <1>1, SinceIsTotal, TotalEmpty

LEMMA CounterStart == CounterInit => CounterInv
<1>. SUFFICES ASSUME CounterInit
              PROVE  CounterInv
  OBVIOUS
<1>1. changes = <<>> /\ item = FALSE /\ told = {} /\ processed = <<>> /\ variant = NoVariant
  BY DEF CounterInit
<1>2. changes \in Seq(Deltas) /\ processed \in Seq(Nat) /\ Len(processed) = 0 /\ DOMAIN processed = {}
  BY <1>1
<1>3. IsInjective(processed) /\ Range(processed) \subseteq told
  BY <1>2 DEF IsInjective, Range
<1>4. variant \in [status : {"none", "draft", "active"}, availableQty : Nat,
                   createdAt : 0..Len(processed)]
  BY <1>1, <1>2 DEF NoVariant
<1>. QED BY <1>1, <1>2, <1>3, <1>4 DEF CounterInv, CounterTypeOK, CopySinceFloor

\* No job is processed, and the variant stays or only changes its status.
LEMMA NothingCounted ==
    ASSUME CounterInv, UNCHANGED processed,
           changes' \in Seq(Deltas), item' \in BOOLEAN, told \subseteq told', (told \subseteq Jobs)',
           \A job \in Jobs \ {Created} : changes'[job] = changes[job],
           \/ UNCHANGED variant
           \/ /\ variant # NoVariant /\ variant'.status # "none"
              /\ variant' \in [status : {"none", "draft", "active"}, availableQty : Nat,
                               createdAt : 0..Len(processed)]
              /\ variant'.availableQty = variant.availableQty
              /\ variant'.createdAt = variant.createdAt
    PROVE  CounterInv'
<1>1. variant' \in [status : {"none", "draft", "active"}, availableQty : Nat,
                    createdAt : 0..Len(processed)]
      /\ variant'.availableQty = variant.availableQty /\ variant'.createdAt = variant.createdAt
      /\ (variant = NoVariant => variant' = NoVariant)
      /\ (variant'.status = "none" => variant' = NoVariant)
  BY DEF CounterInv, CounterTypeOK
<1>2. CounterTypeOK'
  BY <1>1 DEF CounterInv, CounterTypeOK, Range, IsInjective
<1>3. \A m \in Nat : SumSince(m)' = SumSince(m)
  BY LateStays
<1>4. CopySinceFloor'
  <2>. SUFFICES ASSUME variant' # NoVariant
                PROVE  LET moments == variant'.createdAt .. Len(processed') IN
                       /\ \A m \in moments : SumSince(m)' <= variant'.availableQty
                       /\ \E m \in moments : SumSince(m)' = variant'.availableQty
    BY DEF CopySinceFloor, NoVariant
  <2>. DEFINE moments == variant.createdAt .. Len(processed)
  <2>1. variant # NoVariant
    BY <1>1
  <2>2. moments \subseteq Nat
    BY DEF CounterInv, CounterTypeOK
  <2>3. /\ \A m \in moments : SumSince(m) <= variant.availableQty
        /\ \E m \in moments : SumSince(m) = variant.availableQty
    BY <2>1 DEF CounterInv, CopySinceFloor
  <2>4. variant'.createdAt .. Len(processed') = moments
    BY <1>1
  <2>. HIDE DEF moments
  <2>5. /\ \A m \in moments : SumSince(m)' <= variant'.availableQty
        /\ \E m \in moments : SumSince(m)' = variant'.availableQty
    BY <1>1, <1>3, <2>2, <2>3
  <2>. QED BY <2>4, <2>5
<1>. QED BY <1>1, <1>2, <1>4 DEF CounterInv

\* A job is marked: what is marked stays injective and of jobs that were told.
LEMMA MarkKeepsTypes ==
    ASSUME CounterInv, NEW job \in told, ~IsProcessed(job),
           processed' = Append(processed, job), UNCHANGED told
    PROVE  /\ processed' \in Seq(Nat)
           /\ Len(processed') = Len(processed) + 1
           /\ IsInjective(processed)' /\ (Range(processed) \subseteq told)'
<1>1. job \in Nat
  BY ChangeIsInt DEF CounterInv, CounterTypeOK
<1>2. processed \in Seq(Nat)
  BY DEF CounterInv
<1>3. /\ processed' \in Seq(Nat)
      /\ Len(processed') = Len(processed) + 1
      /\ processed'[Len(processed) + 1] = job
      /\ \A n \in DOMAIN processed : processed'[n] = processed[n]
      /\ DOMAIN processed' = DOMAIN processed \cup {Len(processed) + 1}
      /\ Len(processed) + 1 \notin DOMAIN processed
  BY <1>1, <1>2
<1>4. \A n \in DOMAIN processed : processed[n] # job /\ processed[n] \in told
  BY DEF IsProcessed, CounterInv, CounterTypeOK, Range
<1>5. IsInjective(processed)'
  <2>1. \A a, b \in DOMAIN processed : processed[a] = processed[b] => a = b
    BY DEF CounterInv, CounterTypeOK, IsInjective
  <2>2. \A a, b \in DOMAIN processed' : processed'[a] = processed'[b] => a = b
    <3>. DEFINE p == processed'  m == Len(processed) + 1
    <3>1. /\ p[m] = job /\ DOMAIN p = DOMAIN processed \cup {m}
          /\ \A n \in DOMAIN processed : p[n] = processed[n]
      BY <1>3
    <3>. HIDE DEF p, m
    <3>2. \A a, b \in DOMAIN p : p[a] = p[b] => a = b
      BY <1>4, <2>1, <3>1
    <3>. QED BY <3>2 DEF p
  <2>. QED BY <2>2 DEF IsInjective
<1>6. (Range(processed) \subseteq told)'
  <2>1. \A n \in DOMAIN processed' : processed'[n] \in told
    BY <1>3, <1>4
  <2>. QED BY <2>1 DEF Range
<1>. QED BY <1>3, <1>5, <1>6

\* A job is marked and its change added, to a variant that was there before.
LEMMA CountedOnce ==
    ASSUME CounterInv, NEW job \in told, ~IsProcessed(job),
           processed' = Append(processed, job), UNCHANGED <<changes, item, told>>,
           variant' = Added(Change(job))
    PROVE  CounterInv'
<1>. PICK change \in Int : change = Change(job)
  BY ChangeIsInt DEF CounterInv, CounterTypeOK
<1>1. /\ processed' \in Seq(Nat)
      /\ Len(processed') = Len(processed) + 1
      /\ IsInjective(processed)' /\ (Range(processed) \subseteq told)'
  BY MarkKeepsTypes
<1>2. Len(processed) \in Nat
  BY DEF CounterInv
<1>3. variant \in [status : {"none", "draft", "active"}, availableQty : Nat,
                   createdAt : 0..Len(processed)]
  BY DEF CounterInv, CounterTypeOK
<1>4. PICK sum \in Int : sum = variant.availableQty + change
  BY <1>3
<1>5. /\ variant = NoVariant => variant' = variant
      /\ variant # NoVariant => variant' = [variant EXCEPT !.availableQty = Clamped(sum)]
  BY <1>4 DEF Added
<1>6. Clamped(sum) \in Nat /\ (Clamped(sum) = sum \/ (Clamped(sum) = 0 /\ sum < 0))
  BY DEF Clamped
<1>7. /\ variant'.status = variant.status /\ variant'.createdAt = variant.createdAt
      /\ variant # NoVariant => variant'.availableQty = Clamped(sum)
  BY <1>3, <1>5
<1>8. variant' \in [status : {"none", "draft", "active"}, availableQty : Nat,
                    createdAt : 0..Len(processed')]
  <2>1. variant.createdAt \in 0..Len(processed')
    BY <1>1, <1>2, <1>3
  <2>. QED BY <1>3, <1>5, <1>6, <2>1
<1>9. CounterTypeOK'
  BY <1>1, <1>8 DEF CounterInv, CounterTypeOK, Jobs
<1>10. (variant.status = "none" => variant = NoVariant)'
  BY <1>5, <1>7 DEF CounterInv, NoVariant
<1>11. CopySinceFloor'
  <2>. SUFFICES ASSUME variant # NoVariant
                PROVE  LET moments == variant'.createdAt .. Len(processed') IN
                       /\ \A m \in moments : SumSince(m)' <= variant'.availableQty
                       /\ \E m \in moments : SumSince(m)' = variant'.availableQty
    BY <1>5 DEF CopySinceFloor, NoVariant
  <2>. PICK last \in Nat : last = Len(processed) + 1
    BY <1>2
  <2>. DEFINE moments == variant.createdAt .. Len(processed)
  <2>1. job \in Jobs
    BY DEF CounterInv, CounterTypeOK
  <2>2. /\ \A m \in moments : SumSince(m)' = SumSince(m) + change
        /\ SumSince(last)' = 0
    <3>1. moments \subseteq 0..Len(processed)
      BY <1>2, <1>3
    <3>. QED BY <2>1, <3>1, LateGrows
  <2>3. /\ \A m \in moments : SumSince(m) <= variant.availableQty
        /\ \E m \in moments : SumSince(m) = variant.availableQty
    BY DEF CounterInv, CopySinceFloor
  <2>4. \A m \in moments : SumSince(m) \in Int
    <3>1. moments \subseteq Nat
      BY <1>2, <1>3
    <3>. QED BY <3>1, LateSummable
  <2>5. variant'.createdAt .. Len(processed') = moments \cup {last}
    BY <1>1, <1>2, <1>3, <1>7
  <2>6. variant.availableQty \in Nat
    BY <1>3
  <2>7. PICK q \in Nat : q = variant'.availableQty
    BY <1>6, <1>7
  <2>8. (q = sum \/ (q = 0 /\ sum < 0)) /\ sum = variant.availableQty + change
    BY <1>4, <1>6, <1>7, <2>7
  <2>. HIDE DEF moments
  <2>9. \A m \in moments : SumSince(m)' <= q
    BY <2>2, <2>3, <2>4, <2>6, <2>8
  <2>10. \E m \in moments : SumSince(m)' = sum
    BY <2>2, <2>3, <2>8
  <2>11. \E m \in moments \cup {last} : SumSince(m)' = q
    BY <2>2, <2>8, <2>10
  <2>12. \A m \in moments \cup {last} : SumSince(m)' <= q
    BY <2>2, <2>9
  <2>. QED BY <2>5, <2>7, <2>11, <2>12
<1>. QED BY <1>1, <1>9, <1>10, <1>11 DEF CounterInv

\* A variant is made: nothing came since.
LEMMA StartsAtNothing ==
    ASSUME CounterInv, variant' = [status |-> variant'.status, availableQty |-> 0,
                                   createdAt |-> Len(processed)],
           variant'.status \in {"draft", "active"},
           CounterTypeOK', processed' \in Seq(Nat),
           \/ UNCHANGED <<changes, processed>>
           \/ processed' = Append(processed, Created) /\ UNCHANGED changes /\ Created \in Jobs
    PROVE  CounterInv'
<1>1. Len(processed) \in Nat /\ variant' # NoVariant
  BY DEF CounterInv, NoVariant
<1>2. variant'.createdAt = Len(processed) /\ variant'.availableQty = 0
  OBVIOUS
<1>3. \A m \in Len(processed) .. Len(processed') : SumSince(m)' = 0
  <2>1. CASE UNCHANGED <<changes, processed>>
    <3>1. \A m \in Nat : SumSince(m)' = SumSince(m)
      BY <2>1, LateStays
    <3>2. Len(processed) .. Len(processed') = {Len(processed)}
      BY <1>1, <2>1
    <3>. QED BY <1>1, <3>1, <3>2, NothingSinceNow
  <2>2. CASE processed' = Append(processed, Created) /\ UNCHANGED changes /\ Created \in Jobs
    <3>. PICK len \in Nat : len = Len(processed)
      BY <1>1
    <3>1. /\ \A m \in 0..Len(processed) : SumSince(m)' = SumSince(m) + Change(Created)
          /\ \A m \in Nat : m = Len(processed) + 1 => SumSince(m)' = 0
      BY <2>2, LateGrows
    <3>2. Change(Created) = 0
      BY DEF Change
    <3>3. SumSince(len) = 0
      BY NothingSinceNow DEF SumSince
    <3>4. SumSince(len)' = 0
      BY <1>1, <3>1, <3>2, <3>3
    <3>5. SumSince(len + 1)' = 0
      BY <3>1
    <3>6. Len(processed) .. Len(processed') = {len, len + 1}
      BY <1>1, <2>2
    <3>. QED BY <3>4, <3>5, <3>6
  <2>. QED BY <2>1, <2>2
<1>4. Len(processed) \in Len(processed) .. Len(processed')
  <2>1. Len(processed') = Len(processed) \/ Len(processed') = Len(processed) + 1
    BY <1>1 DEF CounterInv
  <2>. QED BY <1>1, <2>1
<1>5. CopySinceFloor'
  BY <1>2, <1>3, <1>4 DEF CopySinceFloor
<1>. QED BY <1>5 DEF CounterInv

LEMMA CreateKeepsCounter ==
    ASSUME CounterInv, CreateFromWms
    PROVE  CounterInv'
<1>1. /\ Created \in told /\ ~IsProcessed(Created) /\ processed' = Append(processed, Created)
      /\ variant' = IF variant = NoVariant THEN NewVariant("draft") ELSE variant
      /\ UNCHANGED <<changes, item, told>>
  BY DEF CreateFromWms
<1>2. CASE variant = NoVariant
  <2>1. /\ processed' \in Seq(Nat)
        /\ Len(processed') = Len(processed) + 1
        /\ IsInjective(processed)' /\ (Range(processed) \subseteq told)'
    BY <1>1, MarkKeepsTypes
  <2>2. variant' = [status |-> "draft", availableQty |-> 0, createdAt |-> Len(processed)]
    BY <1>1, <1>2 DEF NewVariant
  <2>3. Len(processed) \in 0..Len(processed')
    BY <2>1 DEF CounterInv
  <2>4. CounterTypeOK'
    BY <1>1, <2>1, <2>2, <2>3 DEF CounterInv, CounterTypeOK, Jobs
  <2>5. Created \in Jobs
    BY <1>1 DEF CounterInv, CounterTypeOK
  <2>. QED BY <1>1, <2>1, <2>2, <2>4, <2>5, StartsAtNothing
<1>3. CASE variant # NoVariant
  <2>1. variant \in [status : {"none", "draft", "active"}, availableQty : Nat,
                     createdAt : 0..Len(processed)]
    BY DEF CounterInv, CounterTypeOK
  <2>2. Clamped(variant.availableQty + 0) = variant.availableQty
    BY <2>1 DEF Clamped
  <2>3. variant' = Added(Change(Created))
    BY <1>1, <1>3, <2>1, <2>2 DEF Added, Change
  <2>. QED BY <1>1, <2>3, CountedOnce
<1>. QED BY <1>2, <1>3

LEMMA CounterStepKeeps == CounterInv /\ CounterStep => CounterInv'
<1>. SUFFICES ASSUME CounterInv, CounterStep
              PROVE  CounterInv'
  OBVIOUS
<1>1. /\ variant \in [status : {"none", "draft", "active"}, availableQty : Nat,
                      createdAt : 0..Len(processed)]
      /\ item \in BOOLEAN /\ changes \in Seq(Deltas) /\ told \subseteq Jobs
      /\ (variant.status = "none" => variant = NoVariant)
  BY DEF CounterInv, CounterTypeOK
<1>2. ASSUME CreateItem
      PROVE  CounterInv'
  <2>1. Jobs \subseteq Jobs'
    BY <1>2 DEF CreateItem, Jobs
  <2>. QED BY <1>1, <1>2, <2>1, NothingCounted DEF CreateItem
<1>3. ASSUME NEW delta \in Deltas, Commit(delta)
      PROVE  CounterInv'
  <2>1. changes' = Append(changes, delta) /\ UNCHANGED <<item, told, processed, variant>>
    BY <1>3 DEF Commit
  <2>2. /\ changes' \in Seq(Deltas) /\ DOMAIN changes \subseteq DOMAIN changes'
        /\ \A n \in DOMAIN changes : changes'[n] = changes[n]
    BY <1>1, <2>1
  <2>3. told \subseteq Jobs' /\ \A job \in Jobs \ {Created} : changes'[job] = changes[job]
    BY <1>1, <2>1, <2>2 DEF Jobs
  <2>. QED BY <1>1, <2>1, <2>2, <2>3, NothingCounted
<1>4. ASSUME NEW job \in Jobs, Tell(job)
      PROVE  CounterInv'
  <2>1. Jobs' = Jobs
    BY <1>4 DEF Tell, Jobs
  <2>. QED BY <1>1, <1>4, <2>1, NothingCounted DEF Tell
<1>5. ASSUME CreateVariant
      PROVE  CounterInv'
  <2>1. variant' = [status |-> "active", availableQty |-> 0, createdAt |-> Len(processed)]
    BY <1>5 DEF CreateVariant, NewVariant
  <2>2. Len(processed) \in 0..Len(processed) /\ UNCHANGED <<changes, item, told, processed>>
    BY <1>5 DEF CounterInv, CreateVariant
  <2>3. CounterTypeOK' /\ processed' \in Seq(Nat)
    BY <2>1, <2>2 DEF CounterInv, CounterTypeOK, Jobs, Range, IsInjective
  <2>. QED BY <2>1, <2>2, <2>3, StartsAtNothing
<1>6. ASSUME UpdateVariant
      PROVE  CounterInv'
  <2>1. /\ variant' \in [status : {"none", "draft", "active"}, availableQty : Nat,
                         createdAt : 0..Len(processed)]
        /\ variant'.status # "none" /\ variant'.availableQty = variant.availableQty
        /\ variant'.createdAt = variant.createdAt
    BY <1>1, <1>6 DEF UpdateVariant
  <2>2. Jobs' = Jobs
    BY <1>6 DEF UpdateVariant, Jobs
  <2>. QED BY <1>1, <1>6, <2>1, <2>2, NothingCounted DEF UpdateVariant
<1>7. ASSUME NEW job \in told, ApplyStockDeltaOnce(job)
      PROVE  CounterInv'
  <2>1. Change(job) = changes[job]
    BY <1>7 DEF ApplyStockDeltaOnce, Change
  <2>. QED BY <1>7, <2>1, CountedOnce DEF ApplyStockDeltaOnce
<1>. QED BY <1>2, <1>3, <1>4, <1>5, <1>6, <1>7, CreateKeepsCounter DEF CounterStep

LEMMA CounterQuiet == CounterInv /\ UNCHANGED counterVars => CounterInv'
<1>. SUFFICES ASSUME CounterInv, UNCHANGED counterVars
              PROVE  CounterInv'
  OBVIOUS
<1>1. UNCHANGED <<changes, item, told, processed, variant>>
  BY DEF counterVars
<1>2. changes \in Seq(Deltas) /\ item \in BOOLEAN /\ (told \subseteq Jobs)'
  BY <1>1 DEF CounterInv, CounterTypeOK, Jobs
<1>. QED BY <1>1, <1>2, NothingCounted

----------------------------------------------------------------------------
\* The theorems

SInv == CounterInv /\ CartInv

LEMMA StorefrontInvariance == Spec => []SInv
<1>1. Init => SInv
  BY CounterStart, CartStart DEF Init, SInv
<1>2. SInv /\ [Next]_vars => SInv'
  <2>. SUFFICES ASSUME SInv, [Next]_vars
                PROVE  SInv'
    OBVIOUS
  <2>1. CASE CounterNext
    BY <2>1, CounterStepKeeps, CartQuiet DEF CounterNext, SInv
  <2>2. CASE CartNext
    <3>1. CartStep(variant.status = "active") /\ UNCHANGED counterVars
      BY <2>2 DEF CartNext
    <3>. QED BY <3>1, CartStepKeeps, CounterQuiet DEF SInv
  <2>3. CASE UNCHANGED vars
    BY <2>3, CounterQuiet, CartQuiet DEF vars, SInv
  <2>. QED BY <2>1, <2>2, <2>3 DEF Next
<1>. QED BY <1>1, <1>2, PTL DEF Spec

\* Types: every job is marked once and is one that was told, the copy of the stock and
\* every line is a number of cups, and every request is at a step it can be at.
THEOREM StorefrontTypeCorrect == Spec => []TypeOK
<1>1. SInv => TypeOK
  <2>. SUFFICES ASSUME SInv
                PROVE  TypeOK
    OBVIOUS
  <2>1. \A h \in Actors : handler[h].at \in {"idle", "find", "create", "save"}
    BY DEF SInv, CartInv, RequestOK, Idle
  <2>. QED BY <2>1 DEF SInv, CounterInv, CartInv, Restores, TypeOK, CartTypeOK
<1>. QED BY <1>1, StorefrontInvariance, PTL

\* CatalogRepository.applyStockDeltaOnce: for any number of changes of any size, told in
\* any order or never and delivered in any order and any number of times, the shop's copy
\* is never less than what came since any moment of its life, each change counted once,
\* and it is what came since one of them.
THEOREM CopyCountsOnce == Spec => []CopySinceFloor
<1>. QED BY StorefrontInvariance, PTL DEF SInv, CounterInv

\* CartService, CheckoutService and the worker that restores a failed order: for any tabs,
\* SKUs and requests, in any order and with any worker dying, no cart ever holds more of a
\* SKU than was asked for, and no order more than that as often as its checkout named it.
THEOREM NeverMoreInCart == Spec => []NeverMoreThanAsked
<1>. QED BY SettledWasAsked, StorefrontInvariance, PTL DEF SInv

=============================================================================
