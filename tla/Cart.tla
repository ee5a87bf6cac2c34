-------------------------------- MODULE Cart --------------------------------
(***************************************************************************)
(* CartService and CartRepository, and the two other users of a cart: the    *)
(* checkout that takes lines out of it and the worker that puts those of a    *)
(* failed order back.  Every change reads the lines of the cart, changes the  *)
(* copy and saves it whole, with nothing to tell that it has changed since.   *)
(* One customer; print items never reach a cart, so a line is its SKU.        *)
(***************************************************************************)
EXTENDS Integers, Sequences, FiniteSets

CONSTANTS Skus,
          Handlers,         \* requests in progress, of one customer's tabs
          MaxAsked,         \* bound: the requests there are in all
          MaxNamed          \* bound: how often a checkout names one line

Worker == "worker"          \* the one that restores the lines of a failed order
Actors == Handlers \cup {Worker}

ASSUME CartAssumption ==
    /\ IsFiniteSet(Handlers) /\ Worker \notin Handlers
    /\ MaxAsked \in Nat /\ MaxNamed \in Nat

VARIABLES carts,            \* the ACTIVE carts of the customer, oldest first
          handler,          \* what each request has read
          order,            \* the order placed: how often it has a line, and of how many each
          restoring,        \* how many of each the worker still has to put back
          asked,            \* addItem calls so far, by SKU
          requests          \* requests so far

cartVars == <<carts, handler, order, restoring, asked, requests>>

Empty == [sku \in Skus |-> 0]
Lines == [Skus -> Nat]
Idle == [at |-> "idle"]
NoOrder == [status |-> "none", named |-> Empty, line |-> Empty]

CartInit ==
    /\ carts = <<>>
    /\ handler = [h \in Actors |-> Idle]
    /\ order = NoOrder
    /\ restoring = Empty
    /\ asked = Empty
    /\ requests = 0

At(h, at) == handler[h].at = at
Goes(h, next) == handler' = [handler EXCEPT ![h] = next]

\* addItem, updateItem (to one), removeItem or clearCart, and the two checkouts: of the
\* lines it names, each as often as it does, or of the whole cart if it names none; and
\* of an item bought directly.
Calls == [op : {"add"}, sku : Skus, qty : {1}] \cup [op : {"set", "direct"}, sku : Skus]
         \cup [op : {"drop"}, skus : {Skus} \cup {{sku} : sku \in Skus}]
         \cup [op : {"checkout"}, named : [Skus -> 0..MaxNamed]]

\* A customer asks for something; only a sellable variant can be added.
Ask(h, call, sellable) ==
    /\ requests < MaxAsked
    /\ At(h, "idle")
    /\ call.op \in {"add", "direct"} => sellable
    /\ call.op \in {"checkout", "direct"} => order = NoOrder
    /\ requests' = requests + 1
    /\ asked' = IF call.op \in {"add", "direct"} THEN [asked EXCEPT ![call.sku] = @ + 1] ELSE asked
    /\ Goes(h, [at |-> IF call.op = "direct" THEN "save" ELSE "find", call |-> call])
    /\ UNCHANGED <<carts, order, restoring>>

\* getOrCreateActive finds the oldest cart, and the lines it has now ...
FindActive(h) ==
    /\ At(h, "find")
    /\ Goes(h, IF carts = <<>> THEN [handler[h] EXCEPT !.at = "create"]
               ELSE [at |-> "save", call |-> handler[h].call, cart |-> 1, lines |-> carts[1]])
    /\ UNCHANGED <<carts, order, restoring, asked, requests>>

\* ... or makes one, though another request may have made one by now.
CreateActive(h) ==
    /\ At(h, "create")
    /\ carts' = Append(carts, Empty)
    /\ Goes(h, [at |-> "save", call |-> handler[h].call, cart |-> Len(carts) + 1, lines |-> Empty])
    /\ UNCHANGED <<order, restoring, asked, requests>>

\* Mutated: what is in the cart by now is added to what was read.
SavedOver(lines, call, now) ==
    [sku \in Skus |->
        CASE call.op = "add" /\ sku = call.sku -> lines[sku] + now[sku] + call.qty
          [] call.op = "set" /\ sku = call.sku -> 1
          [] call.op = "drop" /\ sku \in call.skus -> 0
          [] OTHER -> lines[sku]]

\* The lines a request makes of those it has read.
Saved(lines, call, now) ==
    [sku \in Skus |->
        CASE call.op = "add" /\ sku = call.sku -> lines[sku] + call.qty
          [] call.op = "set" /\ sku = call.sku -> 1
          [] call.op = "drop" /\ sku \in call.skus -> 0
          [] OTHER -> lines[sku]]

\* saveCart and clearCart.  updateItem refuses a line that was not there.
SaveCart(h) ==
    LET call == handler[h].call IN
    /\ At(h, "save") /\ call.op \in {"add", "set", "drop"}
    /\ carts' = IF call.op = "set" /\ handler[h].lines[call.sku] = 0 THEN carts
                ELSE [carts EXCEPT ![handler[h].cart] =
                         Saved(handler[h].lines, call, carts[handler[h].cart])]
    /\ Goes(h, Idle)
    /\ restoring' = IF h = Worker THEN [restoring EXCEPT ![call.sku] = @ - 1] ELSE restoring
    /\ UNCHANGED <<order, asked, requests>>

----------------------------------------------------------------------------
\* The lines a checkout is for: of the whole cart, every line there is.
Named(call, lines) ==
    IF call.named # Empty THEN call.named
    ELSE [sku \in Skus |-> IF lines[sku] > 0 THEN 1 ELSE 0]

\* CheckoutService: the order takes the lines that were read, one of its own each time a
\* line is named, all of those it was asked for or none; and then the cart is read again
\* and they are dropped from it, or all that is in it by then.
PlaceOrder(h) ==
    LET call == handler[h].call
        lines == handler[h].lines
        named == Named(call, lines) IN
    /\ At(h, "save") /\ call.op = "checkout"
    /\ IF order = NoOrder /\ lines # Empty /\ (\A sku \in Skus : named[sku] > 0 => lines[sku] > 0)
       THEN /\ order' = [status |-> "PLACED", named |-> named, line |-> lines]
            /\ Goes(h, [at |-> "find",
                        call |-> [op |-> "drop",
                                  skus |-> {sku \in Skus : call.named = Empty \/ call.named[sku] > 0}]])
       ELSE Goes(h, Idle) /\ UNCHANGED order
    /\ UNCHANGED <<carts, restoring, asked, requests>>

\* The same of a directItem, which leaves the cart alone.
PlaceDirect(h) ==
    /\ At(h, "save") /\ handler[h].call.op = "direct"
    /\ order' = IF order = NoOrder
                THEN LET one == [Empty EXCEPT ![handler[h].call.sku] = 1] IN
                     [status |-> "PLACED", named |-> one, line |-> one]
                ELSE order
    /\ Goes(h, Idle)
    /\ UNCHANGED <<carts, restoring, asked, requests>>

\* handleReserveFailed cancels the order and will add its lines again, one by one, a line
\* that was named twice two times.
ReserveFailed ==
    /\ order.status = "PLACED"
    /\ order' = [order EXCEPT !.status = "CANCELLED"]
    /\ restoring' = order.named
    /\ UNCHANGED <<carts, handler, asked, requests>>

\* The worker calls addItem for a line; one that is not sold any more ends it.
RestoreLine(sellable) ==
    /\ At(Worker, "idle")
    /\ \E sku \in Skus :
          /\ restoring[sku] > 0
          /\ IF sellable
             THEN /\ asked' = [asked EXCEPT ![sku] = @ + order.line[sku]]
                  /\ Goes(Worker, [at |-> "find",
                                   call |-> [op |-> "add", sku |-> sku, qty |-> order.line[sku]]])
                  /\ UNCHANGED restoring
             ELSE restoring' = Empty /\ UNCHANGED <<asked, handler>>
    /\ UNCHANGED <<carts, order, requests>>

\* The worker dies on the way: the job is given to another, who begins again.
RestoreAgain ==
    /\ restoring # Empty
    /\ requests < MaxAsked /\ requests' = requests + 1
    /\ restoring' = order.named
    /\ Goes(Worker, Idle)
    /\ UNCHANGED <<carts, order, asked>>

CartStep(sellable) ==
    \/ \E h \in Handlers, call \in Calls : Ask(h, call, sellable)
    \/ \E h \in Actors :
          FindActive(h) \/ CreateActive(h) \/ SaveCart(h) \/ PlaceOrder(h) \/ PlaceDirect(h)
    \/ ReserveFailed \/ RestoreLine(sellable) \/ RestoreAgain

----------------------------------------------------------------------------
CartTypeOK ==
    /\ carts \in Seq(Lines)
    /\ \A h \in Actors : handler[h].at \in {"idle", "find", "create", "save"}
    /\ order \in [status : {"none", "PLACED", "CANCELLED"}, named : Lines, line : Lines]
    /\ restoring \in Lines /\ asked \in Lines /\ requests \in 0..MaxAsked

\* Saves that overwrite each other lose what was asked and bring back what was
\* removed, yet no cart ever holds more of a SKU than was ever asked for, and no order
\* more than that as often as its checkout named the line: once, unless the customer
\* named it again.
NeverMoreThanAsked ==
    \A sku \in Skus :
       /\ \A n \in DOMAIN carts : carts[n][sku] <= asked[sku]
       /\ order.named[sku] * order.line[sku] <= order.named[sku] * asked[sku]
=============================================================================
