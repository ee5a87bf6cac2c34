------------------------- MODULE OrderSaga_proofs -------------------------
(***************************************************************************)
(* Theorems about Reservation and OrderSaga: what the warehouse keeps, and  *)
(* what the two applications guarantee together, for any orders, items and  *)
(* quantities, and any number of requests and of attempts.                  *)
(*                                                                         *)
(* The warehouse's properties rest on one fact about who does what: the    *)
(* steps of reserving and releasing only ever run on ReservationConsumer,  *)
(* one job at a time, so what a handler read before its transaction cannot *)
(* have changed when the transaction runs.                                 *)
(*                                                                         *)
(* Each side keeps the invariant it has on its own; what joins them is     *)
(* that no job is in the queue which the shop did not send, and that a     *)
(* worker only runs the steps of the job it has.  So what the warehouse    *)
(* does and says of an order has its cause in what the shop decided, and   *)
(* what the shop decided on the warehouse's word is in the stock ledger.   *)
(***************************************************************************)
EXTENDS OrderSaga, Sums, TLAPS

Life == INSTANCE OrderLifecycle_proofs WITH inbox <- Inbox, Said <- {}

----------------------------------------------------------------------------
\* The warehouse: Reservation

ReserveSteps == {"reserve.check", "reserve.txn", "reserve.ok", "reserve.failed",
                 "release.check", "release.txn"}

\* Reserving and releasing happen on one worker; a worker at a step has a job.
StepOwner ==
    \A w \in Workers :
        /\ step[w] \in ReserveSteps => w = "ReservationConsumer"
        /\ step[w] # "idle" => active[w] \in Job

IInv ==
    /\ TypeOK
    /\ StepOwner
    /\ NoOversell
    /\ AllOrNothing
    /\ ChecksStillHold
    /\ ReplyTruthful

----------------------------------------------------------------------------
\* Lemmas about the operators

\* A worker is sent to a step of ReserveSteps only if it is ReservationConsumer.
LEMMA EntryStep ==
    ASSUME NEW w \in Workers, NEW name \in JobNames
    PROVE  /\ Entry(w, name) \in Steps
           /\ Entry(w, name) \in ReserveSteps => w = "ReservationConsumer"
           /\ Entry(w, name) \notin {"reserve.txn", "reserve.ok", "release.txn"}
BY DEF Entry, Steps, ReserveSteps

\* No movement at all is the same as no quantity on any item.
LEMMA NoMovement ==
    ASSUME NEW mv \in [Items -> Nat], ~HasMovement(mv)
    PROVE  mv = Nothing
BY DEF HasMovement, Nothing

\* An order that is reserved is seen to be: checkout refuses an empty cart.
LEMMA NeedIsMovement ==
    ASSUME NEW o \in Orders
    PROVE  /\ Need[o] \in [Items -> Nat]
           /\ HasMovement(Need[o])
           /\ Need[o] # Nothing
BY ReservationAssumption DEF HasMovement, Nothing

\* Every job that is handed out, put back or retried is a job.
LEMMA QueueTypeStep ==
    ASSUME QueueTypeOK, QueueNext
    PROVE  QueueTypeOK'
<1>1. ASSUME NEW w \in Workers, Take(w)
      PROVE  QueueTypeOK'
  <2>1. Head(waiting) \in Job /\ Tail(waiting) \in Seq(Job)
    BY <1>1 DEF Take, QueueTypeOK
  <2>2. Head(waiting).name \in JobNames
    BY <2>1 DEF Job
  <2>3. Entry(w, Head(waiting).name) \in Steps
    BY <2>2, EntryStep
  <2>. QED BY <1>1, <2>1, <2>3 DEF Take, QueueTypeOK
<1>2. ASSUME NEW w \in Workers, Complete(w)
      PROVE  QueueTypeOK'
  BY <1>2 DEF Complete, Idle, QueueTypeOK, Steps
<1>3. ASSUME NEW w \in Workers, Retry(w)
      PROVE  QueueTypeOK'
  <2>1. active[w] \in Job
    BY <1>3 DEF Retry, QueueTypeOK
  <2>2. delayed' \in [Job -> Nat]
    <3>1. CASE active[w].attempt < MaxAttempts
      <4>1. NextTry(active[w]) \in Job
        BY <2>1, <3>1, QueueAssumption DEF Job, NextTry
      <4>. QED BY <1>3, <3>1, <4>1 DEF Retry, QueueTypeOK
    <3>2. CASE ~(active[w].attempt < MaxAttempts)
      BY <1>3, <3>2 DEF Retry, QueueTypeOK
    <3>. QED BY <3>1, <3>2
  <2>. QED BY <1>3, <2>2 DEF Retry, Idle, QueueTypeOK, Steps
<1>4. ASSUME NEW j \in Job, Promote(j)
      PROVE  QueueTypeOK'
  BY <1>4 DEF Promote, QueueTypeOK
<1>. QED BY <1>1, <1>2, <1>3, <1>4 DEF QueueNext

\* A worker that is at a step has a job, and the job names an order.
LEMMA ActiveOrder ==
    ASSUME TypeOK, StepOwner, NEW w \in Workers, step[w] # "idle"
    PROVE  active[w] \in Job /\ active[w].order \in Orders
BY DEF StepOwner, Job

\* What a queue step does to the workers: each keeps its job and step, starts
\* the job at the head of the queue, or goes idle.
LEMMA QueueWorkers ==
    ASSUME QueueTypeOK, QueueNext, NEW v \in Workers
    PROVE  \/ active'[v] = active[v] /\ step'[v] = step[v]
           \/ step'[v] = "idle"
           \/ /\ active'[v] \in Job
              /\ step'[v] = Entry(v, active'[v].name)
<1>1. ASSUME NEW w \in Workers, Take(w)
      PROVE  \/ active'[v] = active[v] /\ step'[v] = step[v]
             \/ active'[v] \in Job /\ step'[v] = Entry(v, active'[v].name)
  <2>1. Head(waiting) \in Job
    BY <1>1 DEF Take, QueueTypeOK
  <2>. QED BY <1>1, <2>1 DEF Take, QueueTypeOK
<1>2. ASSUME NEW w \in Workers, Complete(w) \/ Retry(w)
      PROVE  \/ active'[v] = active[v] /\ step'[v] = step[v]
             \/ step'[v] = "idle"
  BY <1>2 DEF Complete, Retry, Idle, QueueTypeOK
<1>3. ASSUME NEW j \in Job, Promote(j)
      PROVE  active'[v] = active[v] /\ step'[v] = step[v]
  BY <1>3 DEF Promote
<1>. QED BY <1>1, <1>2, <1>3 DEF QueueNext

\* A handler's step leaves the queue's types and the ownership of steps alone, if
\* it stays off the reserving steps or its worker is the one that may run them.
LEMMA MoveStep ==
    ASSUME TypeOK, StepOwner, NEW w \in Workers,
           NEW from \in Steps \ {"idle"}, NEW to \in Steps \ {"idle"},
           to \in ReserveSteps => from \in ReserveSteps,
           Move(w, from, to), UNCHANGED <<waiting, delayed>>
    PROVE  QueueTypeOK' /\ StepOwner'
<1>1. w = "ReservationConsumer" \/ to \notin ReserveSteps
  BY DEF Move, StepOwner
<1>2. active[w] \in Job
  BY DEF Move, StepOwner
<1>. QED BY <1>1, <1>2 DEF Move, StepOwner, TypeOK, QueueTypeOK

----------------------------------------------------------------------------
\* The invariant

\* The parts of IInv that speak of the stock and not of who is at which step.
Stock == NoOversell /\ AllOrNothing /\ ReplyTruthful

\* A step that moves a handler and touches nothing else keeps the invariant, if
\* what the handler is about to rely on holds.
LEMMA ReadStep ==
    ASSUME IInv, NEW w \in Workers,
           NEW from \in Steps \ {"idle"}, NEW to \in Steps \ {"idle"},
           to \in ReserveSteps => from \in ReserveSteps,
           to = "reserve.txn" => reserveMv[active[w].order] = Nothing,
           to # "reserve.ok",
           to = "release.txn" => /\ reserveMv[active[w].order] = Need[active[w].order]
                                 /\ releaseMv[active[w].order] = Nothing,
           Move(w, from, to), UNCHANGED <<waiting, delayed, reservationVars>>
    PROVE  IInv'
<1>. USE DEF IInv
<1>1. QueueTypeOK' /\ StepOwner'
  BY MoveStep
<1>2. TypeOK'
  BY <1>1 DEF TypeOK, reservationVars, stockVars, issueVars
<1>3. Stock'
  BY DEF Stock, NoOversell, Available, AllOrNothing, ReplyTruthful,
         reservationVars, stockVars
<1>4. ChecksStillHold'
  BY DEF ChecksStillHold, Move, TypeOK, QueueTypeOK, reservationVars, stockVars
<1>. QED BY <1>1, <1>2, <1>3, <1>4 DEF Stock

\* While ReservationConsumer writes to the ledger of its order, no other worker
\* is at a step that relies on a ledger.
LEMMA SoleReserver ==
    ASSUME IInv, NEW w \in Workers, NEW from \in ReserveSteps,
           NEW to \in Steps \ {"idle"},
           Move(w, from, to),
           NEW v \in Workers \ {w}
    PROVE  step'[v] \notin ReserveSteps
BY DEF IInv, StepOwner, Move, TypeOK, QueueTypeOK

\* Before the first job nothing is reserved, recorded or answered.
LEMMA InitInv == Init => IInv
<1>. SUFFICES ASSUME Init PROVE IInv
  OBVIOUS
<1>. USE DEF Init, QueueInit, ReservationInit
<1>1. Nothing \in [Items -> Nat]
  BY DEF Nothing
<1>2. TypeOK
  <2>1. QueueTypeOK
    BY DEF QueueTypeOK, Steps
  <2>. QED BY <1>1, <2>1, ReservationAssumption DEF TypeOK
<1>3. StepOwner
  BY DEF StepOwner, ReserveSteps
<1>4. NoOversell
  BY ReservationAssumption DEF NoOversell, Nothing
<1>5. AllOrNothing /\ ReplyTruthful
  BY DEF AllOrNothing, ReplyTruthful
<1>6. ChecksStillHold
  BY DEF ChecksStillHold
<1>. QED BY <1>2, <1>3, <1>4, <1>5, <1>6 DEF IInv

\* The queue hands out, retries and drops jobs without touching the stock, and a
\* handler that starts has not read anything yet.
LEMMA QueueInv ==
    ASSUME IInv, QueueNext, UNCHANGED reservationVars
    PROVE  IInv'
<1>. USE DEF IInv
<1>1. QueueTypeOK'
  BY QueueTypeStep DEF TypeOK
<1>2. TypeOK'
  BY <1>1 DEF TypeOK, reservationVars, stockVars, issueVars
<1>3. Stock'
  BY DEF Stock, NoOversell, Available, AllOrNothing, ReplyTruthful,
         reservationVars, stockVars
<1>4. ASSUME NEW v \in Workers
      PROVE  \/ active'[v] = active[v] /\ step'[v] = step[v]
             \/ step'[v] = "idle"
             \/ /\ active'[v] \in Job
                /\ step'[v] \in ReserveSteps => v = "ReservationConsumer"
                /\ step'[v] \notin {"reserve.txn", "reserve.ok", "release.txn"}
  <2>1. ASSUME active'[v] \in Job, step'[v] = Entry(v, active'[v].name)
        PROVE  /\ step'[v] \in ReserveSteps => v = "ReservationConsumer"
               /\ step'[v] \notin {"reserve.txn", "reserve.ok", "release.txn"}
    <3>1. active'[v].name \in JobNames
      BY <2>1 DEF Job
    <3>. QED BY <2>1, <3>1, EntryStep
  <2>. QED BY <2>1, QueueWorkers DEF TypeOK
<1>5. StepOwner'
  BY <1>4 DEF StepOwner, ReserveSteps
<1>6. ChecksStillHold'
  BY <1>4 DEF ChecksStillHold, reservationVars, stockVars
<1>. QED BY <1>2, <1>3, <1>5, <1>6 DEF Stock

\* A job that is only sent changes nothing but the queue.
LEMMA SubmitInv ==
    ASSUME IInv, NEW name \in SubmittedNames, NEW o \in Orders, Submit(name, o)
    PROVE  IInv'
<1>. USE DEF IInv
<1>1. NewJob(name, o) \in Job
  BY QueueAssumption DEF NewJob, Job, SubmittedNames, JobNames
<1>2. QueueTypeOK'
  BY <1>1 DEF Submit, Add, QueueTypeOK, TypeOK
<1>3. TypeOK'
  BY <1>2 DEF Submit, TypeOK, reservationVars, stockVars, issueVars
<1>4. Stock'
  BY DEF Submit, Stock, NoOversell, Available, AllOrNothing, ReplyTruthful,
         reservationVars, stockVars
<1>5. StepOwner' /\ ChecksStillHold'
  BY DEF Submit, StepOwner, ChecksStillHold, reservationVars, stockVars
<1>. QED BY <1>3, <1>4, <1>5 DEF Stock

\* The transaction that reserves: the guard of Enough keeps the sellable stock at
\* or above zero, and the ledger of the order, empty since the check, gets its lines.
LEMMA ReserveCommitInv ==
    ASSUME IInv, NEW w \in Workers, active[w] # NoJob, ReserveCommit(w)
    PROVE  IInv'
<1>. USE DEF IInv
<1>. DEFINE o == active[w].order
<1>1. Move(w, "reserve.txn", "reserve.ok") /\ o \in Orders
  BY ActiveOrder DEF ReserveCommit, Move
<1>2. reserveMv[o] = Nothing /\ Need[o] \in [Items -> Nat]
  BY <1>1, NeedIsMovement DEF ChecksStillHold, Move
<1>3. QueueTypeOK' /\ StepOwner'
  BY <1>1, MoveStep DEF ReserveCommit, Steps, ReserveSteps
<1>4. reserveMv' = [reserveMv EXCEPT ![o] = Need[o]]
  <2>1. [i \in Items |-> reserveMv[o][i] + Need[o][i]] = Need[o]
    BY <1>2 DEF Nothing
  <2>. QED BY <2>1 DEF ReserveCommit
<1>5. TypeOK'
  BY <1>1, <1>2, <1>3, <1>4 DEF ReserveCommit, TypeOK, issueVars
<1>6. NoOversell'
  <2>. SUFFICES ASSUME NEW i \in Items
                PROVE  reserved'[i] <= onHand'[i] - Expired[i]
    BY DEF NoOversell
  <2>1. /\ reserved'[i] = reserved[i] + Need[o][i]
        /\ onHand' = onHand
        /\ Need[o][i] > 0 => onHand[i] - reserved[i] - Expired[i] >= Need[o][i]
    BY DEF ReserveCommit, Enough, Available
  <2>2. reserved[i] <= onHand[i] - Expired[i]
    BY DEF NoOversell
  <2>3. onHand[i] \in Int /\ reserved[i] \in Int /\ Expired[i] \in Int /\ Need[o][i] \in Nat
    BY <1>1, ReservationAssumption DEF TypeOK
  <2>. QED BY <2>1, <2>2, <2>3
<1>7. AllOrNothing'
  <2>1. releaseMv[o] = Nothing
    BY <1>1, <1>2 DEF AllOrNothing
  <2>. QED BY <1>1, <1>4, <2>1 DEF AllOrNothing, ReserveCommit, TypeOK
<1>8. ReplyTruthful'
  BY <1>1, <1>2, <1>4, NeedIsMovement DEF ReplyTruthful, ReserveCommit, TypeOK
<1>9. ChecksStillHold'
  <2>1. \A v \in Workers \ {w} : step'[v] \notin ReserveSteps
    BY <1>1, SoleReserver DEF ReserveSteps, Steps
  <2>2. step'[w] = "reserve.ok" /\ active' = active /\ reserveMv'[o] = Need[o]
    BY <1>1, <1>4 DEF Move, TypeOK, QueueTypeOK
  <2>. QED BY <2>1, <2>2 DEF ChecksStillHold, ReserveSteps
<1>. QED BY <1>3, <1>5, <1>6, <1>7, <1>8, <1>9

\* The transaction that releases: it gives back what the ledger says was taken.
LEMMA ReleaseCommitInv ==
    ASSUME IInv, NEW w \in Workers, active[w] # NoJob, ReleaseCommit(w)
    PROVE  IInv'
<1>. USE DEF IInv
<1>. DEFINE o == active[w].order
<1>1. Move(w, "release.txn", "done") /\ o \in Orders
  BY ActiveOrder DEF ReleaseCommit, Move
<1>2. reserveMv[o] = Need[o] /\ releaseMv[o] = Nothing /\ Need[o] \in [Items -> Nat]
  BY <1>1, NeedIsMovement DEF ChecksStillHold, Move
<1>3. QueueTypeOK' /\ StepOwner'
  BY <1>1, MoveStep DEF ReleaseCommit, Steps, ReserveSteps
<1>4. releaseMv' = [releaseMv EXCEPT ![o] = Need[o]]
  <2>1. [i \in Items |-> releaseMv[o][i] + reserveMv[o][i]] = Need[o]
    BY <1>2 DEF Nothing
  <2>. QED BY <2>1 DEF ReleaseCommit
<1>5. TypeOK'
  BY <1>1, <1>2, <1>3, <1>4 DEF ReleaseCommit, TypeOK, issueVars
<1>6. NoOversell'
  <2>. SUFFICES ASSUME NEW i \in Items
                PROVE  reserved'[i] <= onHand'[i] - Expired[i]
    BY DEF NoOversell
  <2>1. reserved'[i] = reserved[i] - Need[o][i] /\ onHand' = onHand
    BY <1>2 DEF ReleaseCommit
  <2>2. reserved[i] <= onHand[i] - Expired[i]
    BY DEF NoOversell
  <2>3. onHand[i] \in Int /\ reserved[i] \in Int /\ Expired[i] \in Int /\ Need[o][i] \in Nat
    BY <1>1, ReservationAssumption DEF TypeOK
  <2>. QED BY <2>1, <2>2, <2>3
<1>7. AllOrNothing'
  BY <1>1, <1>2, <1>4 DEF AllOrNothing, ReleaseCommit, TypeOK
<1>8. ReplyTruthful'
  BY DEF ReplyTruthful, ReleaseCommit
<1>9. ChecksStillHold'
  <2>1. \A v \in Workers \ {w} : step'[v] \notin ReserveSteps
    BY <1>1, SoleReserver DEF ReserveSteps, Steps
  <2>2. step'[w] = "done"
    BY <1>1 DEF Move, TypeOK, QueueTypeOK
  <2>. QED BY <2>1, <2>2 DEF ChecksStillHold, ReserveSteps
<1>. QED BY <1>3, <1>5, <1>6, <1>7, <1>8, <1>9

\* A reply is sent from a step that knows what it says.
LEMMA ReplyInv ==
    ASSUME IInv, NEW w \in Workers,
           NEW from \in {"reserve.ok", "reserve.failed"}, NEW verdict \in Verdicts,
           verdict = "stock.reserved" => from = "reserve.ok",
           Reply(w, from, verdict)
    PROVE  IInv'
<1>. USE DEF IInv
<1>. DEFINE o == active[w].order
<1>1. Move(w, from, "done") /\ o \in Orders
  BY ActiveOrder DEF Reply, Move
<1>2. QueueTypeOK' /\ StepOwner'
  BY <1>1, MoveStep DEF Reply, Steps, ReserveSteps
<1>3. TypeOK'
  BY <1>1, <1>2 DEF Reply, TypeOK, stockVars, issueVars
<1>4. NoOversell' /\ AllOrNothing'
  BY DEF Reply, NoOversell, AllOrNothing, Available, stockVars
<1>5. ReplyTruthful'
  BY <1>1 DEF Reply, ReplyTruthful, ChecksStillHold, Move, TypeOK, stockVars
<1>6. ChecksStillHold'
  BY <1>1 DEF Reply, ChecksStillHold, Move, TypeOK, QueueTypeOK, stockVars
<1>. QED BY <1>2, <1>3, <1>4, <1>5, <1>6

\* Every step of a handler keeps the invariant, one case per step of the code.
LEMMA HandlerInv ==
    ASSUME IInv, NEW w \in Workers, Handler(w)
    PROVE  IInv'
<1>. USE DEF IInv
<1>. DEFINE o == active[w].order
<1>. USE DEF Steps, ReserveSteps
<1>1. CASE ReserveCheck(w)
  <2>1. o \in Orders
    BY <1>1, ActiveOrder DEF ReserveCheck, Move
  <2>2. ~HasMovement(reserveMv[o]) => reserveMv[o] = Nothing
    BY <2>1, NoMovement DEF TypeOK
  <2>. QED BY <1>1, <2>2, ReadStep DEF ReserveCheck
<1>2. CASE ReserveCommit(w)
  BY <1>2, ReserveCommitInv DEF Handler
<1>3. CASE ReserveAbort(w)
  BY <1>3, ReadStep DEF ReserveAbort
<1>4. CASE EmitReserved(w) \/ EmitReserveFailed(w)
  BY <1>4, ReplyInv DEF EmitReserved, EmitReserveFailed, Verdicts
<1>5. CASE ReleaseCheck(w)
  <2>1. o \in Orders
    BY <1>5, ActiveOrder DEF ReleaseCheck, Move
  <2>2. Releasable(o) => reserveMv[o] = Need[o] /\ releaseMv[o] = Nothing
    <3>1. ~HasMovement(Nothing)
      BY DEF HasMovement, Nothing
    <3>2. ~HasMovement(releaseMv[o]) => releaseMv[o] = Nothing
      BY <2>1, NoMovement DEF TypeOK
    <3>. QED BY <2>1, <3>1, <3>2 DEF Releasable, AllOrNothing
  <2>. QED BY <1>5, <2>2, ReadStep DEF ReleaseCheck
<1>6. CASE ReleaseCommit(w)
  BY <1>6, ReleaseCommitInv DEF Handler
<1>7. CASE IssueCheck(w)
  BY <1>7, ReadStep DEF IssueCheck
<1>8. CASE IssueCreate(w)
  <2>1. Move(w, "issue.create", "done") /\ o \in Orders
    BY <1>8, ActiveOrder DEF IssueCreate, Move
  <2>2. QueueTypeOK' /\ StepOwner'
    BY <1>8, <2>1, MoveStep DEF IssueCreate
  <2>3. IssueLines(o) \in [Items -> Nat]
    BY <2>1, NeedIsMovement DEF IssueLines
  <2>4. TypeOK'
    BY <1>8, <2>1, <2>2, <2>3 DEF IssueCreate, TypeOK, stockVars
  <2>5. Stock'
    BY <1>8 DEF IssueCreate, Stock, NoOversell, AllOrNothing, ReplyTruthful, stockVars
  <2>6. ChecksStillHold'
    BY <1>8, <2>1 DEF IssueCreate, ChecksStillHold, Move, TypeOK, QueueTypeOK, stockVars
  <2>. QED BY <2>2, <2>4, <2>5, <2>6 DEF Stock
<1>. QED BY <1>1, <1>2, <1>3, <1>4, <1>5, <1>6, <1>7, <1>8 DEF Handler

\* Picking takes the same quantity off the shelf and off what is reserved.
LEMMA ConfirmLineInv ==
    ASSUME IInv, NEW o \in Orders, NEW i \in Items, NEW q \in 1..remaining[o][i],
           ConfirmLine(o, i, q)
    PROVE  IInv'
<1>. USE DEF IInv
<1>1. remaining[o][i] \in Nat /\ q \in Nat
  BY DEF TypeOK
<1>2. /\ onHand' \in [Items -> Int] /\ reserved' \in [Items -> Int]
      /\ remaining' \in [Orders -> [Items -> Nat]]
  BY <1>1 DEF ConfirmLine, TypeOK
<1>3. /\ issue' \in [Orders -> {"none", "PENDING", "CONFIRMED"}]
      /\ announcing' \in [Orders -> SUBSET IssueQueues]
  <2>1. CASE HasMovement(remaining'[o])
    BY <2>1 DEF ConfirmLine, TypeOK
  <2>2. CASE ~HasMovement(remaining'[o])
    BY <2>2 DEF ConfirmLine, TypeOK
  <2>. QED BY <2>1, <2>2
<1>4. TypeOK'
  BY <1>2, <1>3 DEF ConfirmLine, TypeOK, QueueTypeOK, queueVars
<1>5. NoOversell'
  <2>. SUFFICES ASSUME NEW k \in Items
                PROVE  reserved'[k] <= onHand'[k] - Expired[k]
    BY DEF NoOversell
  <2>1. reserved[k] <= onHand[k] - Expired[k]
    BY DEF NoOversell
  <2>2. onHand[k] \in Int /\ reserved[k] \in Int /\ Expired[k] \in Int
    BY ReservationAssumption DEF TypeOK
  <2>3. \/ onHand'[k] = onHand[k] /\ reserved'[k] = reserved[k]
        \/ onHand'[k] = onHand[k] - q /\ reserved'[k] = reserved[k] - q
    BY DEF ConfirmLine, TypeOK
  <2>. QED BY <1>1, <2>1, <2>2, <2>3
<1>6. AllOrNothing' /\ ReplyTruthful'
  BY DEF ConfirmLine, AllOrNothing, ReplyTruthful
<1>7. StepOwner' /\ ChecksStillHold'
  BY DEF ConfirmLine, StepOwner, ChecksStillHold, queueVars
<1>. QED BY <1>4, <1>5, <1>6, <1>7

\* What pickers and their requests do keeps the invariant.
LEMMA FloorInv ==
    ASSUME IInv, Floor
    PROVE  IInv'
<1>. USE DEF IInv
<1>. PICK o \in Orders :
        \/ \E i \in Items : \E q \in 1..remaining[o][i] : ConfirmLine(o, i, q)
        \/ \E q \in IssueQueues : Announce(o, q)
        \/ ForgetAnnouncement(o)
  BY DEF Floor
<1>1. CASE \E i \in Items : \E q \in 1..remaining[o][i] : ConfirmLine(o, i, q)
  BY <1>1, ConfirmLineInv
<1>2. CASE \/ \E q \in IssueQueues : Announce(o, q)
           \/ ForgetAnnouncement(o)
  <2>1. UNCHANGED <<queueVars, stockVars, replies, issue, remaining>>
    BY <1>2 DEF Announce, ForgetAnnouncement
  <2>2. /\ announcing' \in [Orders -> SUBSET IssueQueues]
        /\ announced' \in [Orders -> SUBSET IssueQueues]
    <3>1. CASE ForgetAnnouncement(o)
      BY <3>1 DEF ForgetAnnouncement, TypeOK
    <3>2. ASSUME NEW q \in IssueQueues, Announce(o, q)
          PROVE  /\ announcing' \in [Orders -> SUBSET IssueQueues]
                 /\ announced' \in [Orders -> SUBSET IssueQueues]
      <4>1. \A S \in SUBSET IssueQueues :
                S \ {q} \in SUBSET IssueQueues /\ S \cup {q} \in SUBSET IssueQueues
        OBVIOUS
      <4>. QED BY <3>2, <4>1 DEF Announce, TypeOK
    <3>. QED BY <1>2, <3>1, <3>2
  <2>3. TypeOK'
    BY <2>1, <2>2 DEF TypeOK, QueueTypeOK, queueVars, stockVars
  <2>4. Stock' /\ StepOwner' /\ ChecksStillHold'
    BY <2>1 DEF Stock, NoOversell, Available, AllOrNothing, ReplyTruthful, StepOwner,
                ChecksStillHold, queueVars, stockVars
  <2>. QED BY <2>3, <2>4 DEF Stock
<1>. QED BY <1>1, <1>2

\* The invariant is inductive.
LEMMA NextInv == IInv /\ [Next]_vars => IInv'
<1>. SUFFICES ASSUME IInv, [Next]_vars PROVE IInv'
  OBVIOUS
<1>1. CASE \E name \in SubmittedNames, o \in Orders : Submit(name, o)
  BY <1>1, SubmitInv
<1>2. CASE Queue
  BY <1>2, QueueInv DEF Queue
<1>3. CASE \E w \in Workers : Handler(w)
  BY <1>3, HandlerInv
<1>4. CASE Floor
  BY <1>4, FloorInv
<1>5. CASE UNCHANGED vars
  BY <1>5 DEF vars, queueVars, reservationVars, stockVars, issueVars, IInv, TypeOK,
              QueueTypeOK, StepOwner, NoOversell, AllOrNothing, ChecksStillHold,
              ReplyTruthful
<1>. QED BY <1>1, <1>2, <1>3, <1>4, <1>5 DEF Next, WarehouseNext

----------------------------------------------------------------------------
\* The theorems

\* Every reachable state satisfies the inductive invariant.
THEOREM Invariance == Spec => []IInv
BY InitInv, NextInv, PTL DEF Spec

\* Every variable keeps its type: no job, ledger entry or remaining quantity that
\* the code could not hold.
THEOREM TypeCorrect == Spec => []TypeOK
<1>1. IInv => TypeOK
  BY DEF IInv
<1>. QED BY <1>1, Invariance, PTL

\* reserveForOrder never promises stock that is not there, for any orders and
\* quantities, however jobs are retried and whatever the picker does meanwhile.
THEOREM NeverOversold == Spec => []NoOversell
<1>1. IInv => NoOversell
  BY DEF IInv
<1>. QED BY <1>1, Invariance, PTL

\* The ledger of an order is empty or complete, and so is its release.
THEOREM LedgerAllOrNothing == Spec => []AllOrNothing
<1>1. IInv => AllOrNothing
  BY DEF IInv
<1>. QED BY <1>1, Invariance, PTL

\* The idempotency checks made before the transactions are as good as if they
\* were made inside: one ReservationConsumer runs one job at a time.
THEOREM ChecksHold == Spec => []ChecksStillHold
<1>1. IInv => ChecksStillHold
  BY DEF IInv
<1>. QED BY <1>1, Invariance, PTL

\* A stock.reserved reply is never sent for an order that has no reservation.
THEOREM RepliesTruthful == Spec => []ReplyTruthful
<1>1. IInv => ReplyTruthful
  BY DEF IInv
<1>. QED BY <1>1, Invariance, PTL

----------------------------------------------------------------------------
\* The service implements StockPromise

\* What an outsider sees: the sellable stock and the state of each claim.
Free == [i \in Items |-> Available(i)]
Claim == [o \in Orders |->
             IF ~HasMovement(reserveMv[o]) THEN "none"
             ELSE IF ~HasMovement(releaseMv[o]) THEN "held" ELSE "released"]

\* An order without quantities has no movement.
LEMMA NothingIsNoMovement == ~HasMovement(Nothing)
BY DEF HasMovement, Nothing

\* A step that leaves the balances and the ledger alone cannot be seen.
LEMMA StockStutter ==
    ASSUME UNCHANGED stockVars
    PROVE  UNCHANGED <<Free, Claim>>
BY DEF stockVars, Free, Available, Claim, HasMovement

\* The transaction that reserves is StockPromise's Hold.
LEMMA CommitHolds ==
    ASSUME IInv, NEW w \in Workers, active[w] # NoJob, ReserveCommit(w)
    PROVE  Promise!Hold(active[w].order)
<1>. DEFINE o == active[w].order
<1>1. o \in Orders
  BY ActiveOrder DEF IInv, ReserveCommit, Move
<1>2. reserveMv[o] = Nothing /\ Need[o] \in [Items -> Nat] /\ releaseMv[o] = Nothing
  <2>1. reserveMv[o] = Nothing
    BY DEF IInv, ChecksStillHold, ReserveCommit, Move
  <2>. QED BY <1>1, <2>1, NeedIsMovement DEF IInv, AllOrNothing
<1>3. /\ reserveMv' = [reserveMv EXCEPT ![o] = Need[o]]
      /\ releaseMv' = releaseMv /\ onHand' = onHand
  <2>1. [i \in Items |-> reserveMv[o][i] + Need[o][i]] = Need[o]
    BY <1>2 DEF Nothing
  <2>. QED BY <2>1 DEF ReserveCommit
<1>4. Claim[o] = "none"
  BY <1>1, <1>2, NothingIsNoMovement DEF Claim
<1>5. Claim' = [Claim EXCEPT ![o] = "held"]
  <2>1. HasMovement(Need[o])
    BY <1>1, NeedIsMovement
  <2>. SUFFICES ASSUME NEW p \in Orders
                PROVE  Claim'[p] = IF p = o THEN "held" ELSE Claim[p]
    BY DEF Claim
  <2>2. CASE p = o
    BY <1>1, <1>2, <1>3, <2>1, <2>2, NothingIsNoMovement DEF Claim, IInv, TypeOK, HasMovement
  <2>3. CASE p # o
    BY <1>3, <2>3 DEF Claim, IInv, TypeOK, HasMovement
  <2>. QED BY <2>2, <2>3
<1>6. \A i \in Items : Free[i] >= Need[o][i]
  <2>. SUFFICES ASSUME NEW i \in Items
                PROVE  Available(i) >= Need[o][i]
    BY DEF Free
  <2>1. Need[o][i] > 0 => Available(i) >= Need[o][i]
    BY DEF ReserveCommit, Enough
  <2>2. Available(i) >= 0 /\ Available(i) \in Int
    BY ReservationAssumption DEF IInv, TypeOK, NoOversell, Available
  <2>. QED BY <1>2, <2>1, <2>2
<1>7. Free' = [i \in Items |-> Free[i] - Need[o][i]]
  <2>. SUFFICES ASSUME NEW i \in Items
                PROVE  Available(i)' = Available(i) - Need[o][i]
    BY DEF Free
  <2>1. reserved'[i] = reserved[i] + Need[o][i]
    BY DEF ReserveCommit
  <2>2. onHand[i] \in Int /\ reserved[i] \in Int /\ Expired[i] \in Int /\ Need[o][i] \in Int
    BY <1>2, ReservationAssumption DEF IInv, TypeOK
  <2>. QED BY <1>3, <2>1, <2>2 DEF Available
<1>. QED BY <1>1, <1>4, <1>5, <1>6, <1>7 DEF Promise!Hold, Free, Claim

\* The transaction that releases is StockPromise's Release.
LEMMA CommitReleases ==
    ASSUME IInv, NEW w \in Workers, active[w] # NoJob, ReleaseCommit(w)
    PROVE  Promise!Release(active[w].order)
<1>. DEFINE o == active[w].order
<1>1. o \in Orders
  BY ActiveOrder DEF IInv, ReleaseCommit, Move
<1>2. reserveMv[o] = Need[o] /\ Need[o] \in [Items -> Nat] /\ releaseMv[o] = Nothing
  BY <1>1, NeedIsMovement DEF IInv, ChecksStillHold, ReleaseCommit, Move
<1>3. /\ releaseMv' = [releaseMv EXCEPT ![o] = Need[o]]
      /\ reserveMv' = reserveMv /\ onHand' = onHand
  <2>1. [i \in Items |-> releaseMv[o][i] + reserveMv[o][i]] = Need[o]
    BY <1>2 DEF Nothing
  <2>. QED BY <2>1 DEF ReleaseCommit
<1>4. Claim[o] = "held"
  BY <1>1, <1>2, NothingIsNoMovement, NeedIsMovement DEF Claim
<1>5. Claim' = [Claim EXCEPT ![o] = "released"]
  <2>1. HasMovement(Need[o])
    BY <1>1, NeedIsMovement
  <2>. SUFFICES ASSUME NEW p \in Orders
                PROVE  Claim'[p] = IF p = o THEN "released" ELSE Claim[p]
    BY DEF Claim
  <2>2. CASE p = o
    BY <1>1, <1>2, <1>3, <2>1, <2>2 DEF Claim, IInv, TypeOK, HasMovement
  <2>3. CASE p # o
    BY <1>3, <2>3 DEF Claim, IInv, TypeOK, HasMovement
  <2>. QED BY <2>2, <2>3
<1>6. Free' = [i \in Items |-> Free[i] + Need[o][i]]
  <2>. SUFFICES ASSUME NEW i \in Items
                PROVE  Available(i)' = Available(i) + Need[o][i]
    BY DEF Free
  <2>1. reserved'[i] = reserved[i] - Need[o][i]
    BY <1>2 DEF ReleaseCommit
  <2>2. onHand[i] \in Int /\ reserved[i] \in Int /\ Expired[i] \in Int /\ Need[o][i] \in Int
    BY <1>2, ReservationAssumption DEF IInv, TypeOK
  <2>. QED BY <1>3, <2>1, <2>2 DEF Available
<1>. QED BY <1>1, <1>4, <1>5, <1>6 DEF Promise!Release, Free, Claim

\* Picking lowers the balance and the reservation alike: nothing changes outside.
LEMMA PickingStutters ==
    ASSUME IInv, NEW o \in Orders, NEW i \in Items, NEW q \in 1..remaining[o][i],
           ConfirmLine(o, i, q)
    PROVE  UNCHANGED <<Free, Claim>>
<1>1. q \in Int
  BY DEF IInv, TypeOK
<1>2. Free' = Free
  <2>. SUFFICES ASSUME NEW k \in Items
                PROVE  Available(k)' = Available(k)
    BY DEF Free
  <2>1. onHand[k] \in Int /\ reserved[k] \in Int /\ Expired[k] \in Int
    BY ReservationAssumption DEF IInv, TypeOK
  <2>2. \/ onHand'[k] = onHand[k] /\ reserved'[k] = reserved[k]
        \/ onHand'[k] = onHand[k] - q /\ reserved'[k] = reserved[k] - q
    BY DEF ConfirmLine, IInv, TypeOK
  <2>. QED BY <1>1, <2>1, <2>2 DEF Available
<1>3. Claim' = Claim
  BY DEF ConfirmLine, Claim, HasMovement
<1>. QED BY <1>2, <1>3

\* The sellable stock at the start is what is on the shelf and not expired.
LEMMA PromiseInit == Init => Promise!Init
<1>. SUFFICES ASSUME Init PROVE Promise!Init
  OBVIOUS
<1>1. Free = [i \in Items |-> OnHand0[i] - Expired[i]]
  BY ReservationAssumption DEF Init, ReservationInit, Free, Available, Nothing
<1>2. Claim = [o \in Orders |-> "none"]
  BY NothingIsNoMovement DEF Init, ReservationInit, Claim
<1>. QED BY <1>1, <1>2 DEF Promise!Init, Free, Claim

\* Every step of the service is a Hold, a Release or nothing to StockPromise.
LEMMA PromiseStep == IInv /\ [Next]_vars => [Promise!Next]_(Promise!vars)
<1>. SUFFICES ASSUME IInv, [Next]_vars
              PROVE  Promise!Next \/ UNCHANGED <<Free, Claim>>
  BY DEF Promise!vars, Free, Claim
<1>1. CASE UNCHANGED stockVars
  BY <1>1, StockStutter
<1>2. ASSUME NEW w \in Workers, Handler(w)
      PROVE  Promise!Next \/ UNCHANGED stockVars
  <2>1. CASE ReserveCommit(w)
    <3>1. active[w].order \in Orders
      BY <2>1, ActiveOrder DEF IInv, ReserveCommit, Move
    <3>. QED BY <1>2, <2>1, <3>1, CommitHolds DEF Handler, Promise!Next
  <2>2. CASE ReleaseCommit(w)
    <3>1. active[w].order \in Orders
      BY <2>2, ActiveOrder DEF IInv, ReleaseCommit, Move
    <3>. QED BY <1>2, <2>2, <3>1, CommitReleases DEF Handler, Promise!Next
  <2>3. CASE ~ReserveCommit(w) /\ ~ReleaseCommit(w)
    BY <1>2, <2>3 DEF Handler, ReserveCheck, ReserveAbort, EmitReserved, EmitReserveFailed,
                      Reply, ReleaseCheck, IssueCheck, IssueCreate, reservationVars
  <2>. QED BY <2>1, <2>2, <2>3
<1>3. CASE Floor
  <2>. PICK o \in Orders :
          \/ \E i \in Items : \E q \in 1..remaining[o][i] : ConfirmLine(o, i, q)
          \/ \E q \in IssueQueues : Announce(o, q)
          \/ ForgetAnnouncement(o)
    BY <1>3 DEF Floor
  <2>1. CASE \E i \in Items : \E q \in 1..remaining[o][i] : ConfirmLine(o, i, q)
    BY <2>1, PickingStutters
  <2>2. CASE (\E q \in IssueQueues : Announce(o, q)) \/ ForgetAnnouncement(o)
    BY <1>1, <2>2 DEF Announce, ForgetAnnouncement
  <2>. QED BY <2>1, <2>2
<1>4. CASE (\E name \in SubmittedNames, o \in Orders : Submit(name, o)) \/ Queue
  BY <1>1, <1>4 DEF Submit, Queue, reservationVars
<1>5. CASE UNCHANGED vars
  BY <1>1, <1>5 DEF vars, reservationVars
<1>. QED BY <1>1, <1>2, <1>3, <1>4, <1>5 DEF Next, WarehouseNext

\* The reservation service keeps its promise: seen through the sellable stock
\* and the claims of the orders, all it ever does is Hold and Release.
THEOREM Refinement == Spec => KeepsPromise
BY Invariance, PromiseInit, PromiseStep, PTL DEF Spec, KeepsPromise, Promise!Spec

----------------------------------------------------------------------------
\* The balances and the ledger

\* What the goods issue of each order has taken of i, and what the order still
\* has on hold of it.
Taken(i) == [o \in Orders |-> Issued(o, i)]
OnHold(i) == [o \in Orders |-> reserveMv[o][i] - releaseMv[o][i] - Issued(o, i)]

\* BalanceMatchesLedger in terms of Total.
Balanced ==
    \A i \in Items :
        /\ onHand[i] = OnHand0[i] - Total(Taken(i), Orders)
        /\ reserved[i] = Total(OnHold(i), Orders)

\* A goods issue is confirmed when nothing remains of it, and announced after.
PickedFirst ==
    \A o \in Orders :
        /\ issue[o] = "CONFIRMED" => remaining[o] = Nothing
        /\ announced[o] \cup announcing[o] # {} => issue[o] = "CONFIRMED"

BInv == IInv /\ Balanced /\ PickedFirst

\* The sums of the property are those of the invariant.
LEMMA BalancedIsLedger == Balanced => BalanceMatchesLedger
<1>1. ASSUME NEW i \in Items
      PROVE  OrderSum(LAMBDA o : Issued(o, i)) = Total(Taken(i), Orders)
  <2>. DEFINE E(it) == [s \in SUBSET Orders |-> IF s = {} THEN 0
                          ELSE LET x == CHOOSE x \in s : TRUE IN Issued(x, i) + it[s \ {x}]]
              F(it) == [s \in SUBSET Orders |-> IF s = {} THEN 0
                          ELSE LET x == CHOOSE x \in s : TRUE IN Taken(i)[x] + it[s \ {x}]]
  <2>1. \A it : E(it) = F(it)
    BY DEF Taken
  <2>2. (CHOOSE it : it = E(it)) = (CHOOSE it : it = F(it))
    <3>. HIDE DEF E, F
    <3>. QED BY <2>1, Zenon
  <2>. QED BY <2>2 DEF OrderSum, Total, Fold, Solves, Pick1, MapThenSumSet, MapThenFoldSet
<1>2. ASSUME NEW i \in Items
      PROVE  OrderSum(LAMBDA o : reserveMv[o][i] - releaseMv[o][i] - Issued(o, i))
                 = Total(OnHold(i), Orders)
  <2>. DEFINE E(it) == [s \in SUBSET Orders |-> IF s = {} THEN 0
                          ELSE LET x == CHOOSE x \in s : TRUE
                               IN  (reserveMv[x][i] - releaseMv[x][i] - Issued(x, i)) + it[s \ {x}]]
              F(it) == [s \in SUBSET Orders |-> IF s = {} THEN 0
                          ELSE LET x == CHOOSE x \in s : TRUE IN OnHold(i)[x] + it[s \ {x}]]
  <2>1. \A it : E(it) = F(it)
    <3>1. \A s \in SUBSET Orders : s # {} => (CHOOSE x \in s : TRUE) \in Orders
      OBVIOUS
    <3>2. \A o \in Orders : OnHold(i)[o] = reserveMv[o][i] - releaseMv[o][i] - Issued(o, i)
      BY DEF OnHold
    <3>. HIDE DEF OnHold
    <3>. QED BY <3>1, <3>2
  <2>2. (CHOOSE it : it = E(it)) = (CHOOSE it : it = F(it))
    <3>. HIDE DEF E, F
    <3>. QED BY <2>1, Zenon
  <2>. QED BY <2>2 DEF OrderSum, Total, Fold, Solves, Pick1, MapThenSumSet, MapThenFoldSet
<1>. QED BY <1>1, <1>2 DEF Balanced, BalanceMatchesLedger

\* The sums are of numbers.
Numbers == \A i \in Items : Summable(Taken(i), Orders) /\ Summable(OnHold(i), Orders)

LEMMA NumbersHold == IInv => Numbers
<1>. SUFFICES ASSUME IInv PROVE Numbers
  OBVIOUS
<1>1. ASSUME NEW o \in Orders, NEW i \in Items
      PROVE  Issued(o, i) \in Int /\ reserveMv[o][i] \in Int /\ releaseMv[o][i] \in Int
  <2>1. IssueLines(o)[i] \in Nat
    BY NeedIsMovement DEF IssueLines
  <2>2. remaining[o][i] \in Nat /\ reserveMv[o][i] \in Nat /\ releaseMv[o][i] \in Nat
    BY DEF IInv, TypeOK
  <2>. QED BY <2>1, <2>2 DEF Issued
<1>2. ASSUME NEW i \in Items, NEW o \in Orders
      PROVE  Taken(i)[o] \in Int /\ OnHold(i)[o] \in Int
  <2>1. /\ Taken(i)[o] = Issued(o, i)
        /\ OnHold(i)[o] = reserveMv[o][i] - releaseMv[o][i] - Issued(o, i)
    BY DEF Taken, OnHold
  <2>. QED BY <1>1, <2>1
<1>. QED BY <1>2, ReservationAssumption DEF Numbers, Summable

\* A step that leaves the balances, the ledger and what was picked alone.
LEMMA LedgerRests ==
    ASSUME Balanced, UNCHANGED stockVars,
           \A o \in Orders : \A i \in Items : Issued(o, i)' = Issued(o, i)
    PROVE  Balanced'
<1>1. ASSUME NEW i \in Items
      PROVE  Taken(i)' = Taken(i) /\ OnHold(i)' = OnHold(i)
  BY DEF Taken, OnHold, stockVars
<1>. QED BY <1>1 DEF Balanced, stockVars

\* A step that takes e of the shelf for one order, and changes what is on hold
\* for it by d.
LEMMA LedgerMoves ==
    ASSUME Balanced, Numbers, Numbers', TypeOK, NEW o \in Orders,
           NEW e \in [Items -> Int], NEW d \in [Items -> Int],
           \A i \in Items : \A p \in Orders \ {o} :
               Taken(i)'[p] = Taken(i)[p] /\ OnHold(i)'[p] = OnHold(i)[p],
           \A i \in Items :
               /\ Taken(i)'[o] = Taken(i)[o] + e[i]
               /\ OnHold(i)'[o] = OnHold(i)[o] + d[i]
               /\ onHand'[i] = onHand[i] - e[i]
               /\ reserved'[i] = reserved[i] + d[i]
    PROVE  Balanced'
<1>. SUFFICES ASSUME NEW i \in Items
              PROVE  /\ onHand'[i] = OnHand0[i] - Total(Taken(i)', Orders)
                     /\ reserved'[i] = Total(OnHold(i)', Orders)
  BY DEF Balanced
<1>1. /\ Summable(Taken(i), Orders) /\ Summable(Taken(i)', Orders)
      /\ Summable(OnHold(i), Orders) /\ Summable(OnHold(i)', Orders)
  BY DEF Numbers
<1>2. /\ Total(Taken(i), Orders) \in Int /\ Total(OnHold(i), Orders) \in Int
      /\ Taken(i)[o] \in Int /\ OnHold(i)[o] \in Int
      /\ onHand[i] \in Int /\ reserved[i] \in Int /\ OnHand0[i] \in Int
  BY <1>1, TotalRemove, ReservationAssumption DEF Summable, TypeOK
<1>3. Total(Taken(i)', Orders) = Total(Taken(i), Orders) + (Taken(i)'[o] - Taken(i)[o])
  BY <1>1, TotalChanges
<1>4. Total(OnHold(i)', Orders) = Total(OnHold(i), Orders) + (OnHold(i)'[o] - OnHold(i)[o])
  BY <1>1, TotalChanges
<1>5. onHand[i] = OnHand0[i] - Total(Taken(i), Orders) /\ reserved[i] = Total(OnHold(i), Orders)
  BY DEF Balanced
<1>6. Taken(i)'[o] - Taken(i)[o] = e[i] /\ OnHold(i)'[o] - OnHold(i)[o] = d[i]
  BY <1>2
<1>7. onHand'[i] = onHand[i] - e[i] /\ reserved'[i] = reserved[i] + d[i]
      /\ e[i] \in Int /\ d[i] \in Int
  OBVIOUS
<1>. QED BY <1>2, <1>3, <1>4, <1>5, <1>6, <1>7

\* Reserving puts the order's quantities on hold and takes nothing.
LEMMA CommitBalances ==
    ASSUME BInv, Numbers, Numbers', NEW w \in Workers, active[w] # NoJob, ReserveCommit(w)
    PROVE  Balanced'
<1>. DEFINE o == active[w].order
<1>1. o \in Orders /\ Need[o] \in [Items -> Nat]
  BY ActiveOrder, NeedIsMovement DEF BInv, IInv, ReserveCommit, Move
<1>2. Nothing \in [Items -> Int] /\ Need[o] \in [Items -> Int]
  BY <1>1 DEF Nothing
<1>3. ASSUME NEW i \in Items, NEW p \in Orders
      PROVE  Issued(p, i)' = Issued(p, i) /\ Issued(p, i) \in Int
  <2>1. Issued(p, i)' = Issued(p, i)
    BY DEF ReserveCommit, Issued, issueVars
  <2>. QED BY <2>1 DEF Numbers, Summable, Taken
<1>4. ASSUME NEW i \in Items
      PROVE  /\ Taken(i)' = Taken(i)
             /\ onHand'[i] = onHand[i] - Nothing[i]
             /\ reserved'[i] = reserved[i] + Need[o][i]
  <2>1. onHand'[i] = onHand[i] - Nothing[i]
    BY DEF ReserveCommit, Nothing, BInv, IInv, TypeOK
  <2>. QED BY <1>3, <2>1 DEF ReserveCommit, Taken
<1>5. ASSUME NEW i \in Items, NEW p \in Orders
      PROVE  OnHold(i)'[p] = IF p = o THEN OnHold(i)[p] + Need[o][i] ELSE OnHold(i)[p]
  <2>1. reserveMv'[p][i] = IF p = o THEN reserveMv[p][i] + Need[o][i] ELSE reserveMv[p][i]
    BY <1>1 DEF ReserveCommit, BInv, IInv, TypeOK
  <2>2. releaseMv' = releaseMv
    BY DEF ReserveCommit
  <2>3. reserveMv[p][i] \in Int /\ releaseMv[p][i] \in Int /\ Need[o][i] \in Int
    BY <1>1 DEF BInv, IInv, TypeOK
  <2>. QED BY <1>3, <2>1, <2>2, <2>3 DEF OnHold
<1>6. \A i \in Items : Taken(i)'[o] = Taken(i)[o] + Nothing[i]
  BY <1>1, <1>4 DEF Numbers, Summable, Nothing
<1>. QED BY <1>1, <1>2, <1>4, <1>5, <1>6, LedgerMoves DEF BInv, IInv

\* Releasing takes off the hold what the ledger says was put there.
LEMMA ReleaseBalances ==
    ASSUME BInv, Numbers, Numbers', NEW w \in Workers, active[w] # NoJob, ReleaseCommit(w)
    PROVE  Balanced'
<1>. DEFINE o == active[w].order
            back == [i \in Items |-> 0 - reserveMv[o][i]]
<1>1. o \in Orders /\ reserveMv[o] \in [Items -> Nat]
  BY ActiveOrder DEF BInv, IInv, TypeOK, ReleaseCommit, Move
<1>2. Nothing \in [Items -> Int] /\ back \in [Items -> Int]
  BY <1>1 DEF Nothing
<1>3. ASSUME NEW i \in Items, NEW p \in Orders
      PROVE  Issued(p, i)' = Issued(p, i) /\ Issued(p, i) \in Int
  <2>1. Issued(p, i)' = Issued(p, i)
    BY DEF ReleaseCommit, Issued, issueVars
  <2>. QED BY <2>1 DEF Numbers, Summable, Taken
<1>4. ASSUME NEW i \in Items
      PROVE  /\ Taken(i)' = Taken(i)
             /\ onHand'[i] = onHand[i] - Nothing[i]
             /\ reserved'[i] = reserved[i] + back[i]
  <2>1. onHand'[i] = onHand[i] - Nothing[i]
    BY DEF ReleaseCommit, Nothing, BInv, IInv, TypeOK
  <2>2. reserved'[i] = reserved[i] - reserveMv[o][i]
    BY DEF ReleaseCommit
  <2>3. reserved[i] \in Int /\ reserveMv[o][i] \in Int
    BY <1>1 DEF BInv, IInv, TypeOK
  <2>. QED BY <1>3, <2>1, <2>2, <2>3 DEF Taken
<1>5. ASSUME NEW i \in Items, NEW p \in Orders
      PROVE  OnHold(i)'[p] = IF p = o THEN OnHold(i)[p] + back[i] ELSE OnHold(i)[p]
  <2>1. releaseMv'[p][i] = IF p = o THEN releaseMv[p][i] + reserveMv[o][i] ELSE releaseMv[p][i]
    BY <1>1 DEF ReleaseCommit, BInv, IInv, TypeOK
  <2>2. reserveMv' = reserveMv
    BY DEF ReleaseCommit
  <2>3. reserveMv[p][i] \in Int /\ releaseMv[p][i] \in Int /\ reserveMv[o][i] \in Int
    BY <1>1 DEF BInv, IInv, TypeOK
  <2>. QED BY <1>3, <2>1, <2>2, <2>3 DEF OnHold
<1>6. \A i \in Items : Taken(i)'[o] = Taken(i)[o] + Nothing[i]
  BY <1>1, <1>4 DEF Numbers, Summable, Nothing
<1>7. \A i \in Items : \A p \in Orders \ {o} :
          Taken(i)'[p] = Taken(i)[p] /\ OnHold(i)'[p] = OnHold(i)[p]
  BY <1>4, <1>5
<1>8. \A i \in Items :
          /\ Taken(i)'[o] = Taken(i)[o] + Nothing[i]
          /\ OnHold(i)'[o] = OnHold(i)[o] + back[i]
          /\ onHand'[i] = onHand[i] - Nothing[i]
          /\ reserved'[i] = reserved[i] + back[i]
  BY <1>1, <1>4, <1>5, <1>6
<1>. HIDE DEF o, back
<1>. QED BY <1>1, <1>2, <1>7, <1>8, LedgerMoves DEF BInv, IInv

\* Picking takes q of one item off the shelf and off the hold.
LEMMA PickingBalances ==
    ASSUME BInv, Numbers, Numbers', NEW o \in Orders, NEW k \in Items,
           NEW q \in 1..remaining[o][k], ConfirmLine(o, k, q)
    PROVE  Balanced'
<1>. DEFINE e == [i \in Items |-> IF i = k THEN q ELSE 0]
            d == [i \in Items |-> IF i = k THEN 0 - q ELSE 0]
<1>1. q \in Nat /\ \A p \in Orders, i \in Items : remaining[p][i] \in Nat
  BY DEF BInv, IInv, TypeOK
<1>2. e \in [Items -> Int] /\ d \in [Items -> Int]
  BY <1>1
<1>3. ASSUME NEW i \in Items, NEW p \in Orders
      PROVE  /\ Issued(p, i)' = IF p = o /\ i = k THEN Issued(p, i) + q ELSE Issued(p, i)
             /\ Issued(p, i) \in Int
  <2>1. remaining'[p][i] = IF p = o /\ i = k THEN remaining[p][i] - q ELSE remaining[p][i]
    BY DEF ConfirmLine, BInv, IInv, TypeOK
  <2>2. issue[p] = "none" <=> issue'[p] = "none"
    BY DEF ConfirmLine, BInv, IInv, TypeOK
  <2>3. p = o => issue[p] # "none"
    BY DEF ConfirmLine
  <2>4. IssueLines(p)[i] \in Int
    BY NeedIsMovement DEF IssueLines
  <2>5. IssueLines(p)' = IssueLines(p)
    BY DEF IssueLines
  <2>. QED BY <1>1, <2>1, <2>2, <2>3, <2>4, <2>5 DEF Issued
<1>4. ASSUME NEW i \in Items, NEW p \in Orders
      PROVE  /\ Taken(i)'[p] = IF p = o THEN Taken(i)[p] + e[i] ELSE Taken(i)[p]
             /\ OnHold(i)'[p] = IF p = o THEN OnHold(i)[p] + d[i] ELSE OnHold(i)[p]
  <2>1. reserveMv' = reserveMv /\ releaseMv' = releaseMv
    BY DEF ConfirmLine
  <2>2. reserveMv[p][i] \in Int /\ releaseMv[p][i] \in Int
    BY DEF BInv, IInv, TypeOK
  <2>. QED BY <1>1, <1>3, <2>1, <2>2 DEF Taken, OnHold
<1>5. ASSUME NEW i \in Items
      PROVE  onHand'[i] = onHand[i] - e[i] /\ reserved'[i] = reserved[i] + d[i]
  <2>1. /\ onHand'[i] = IF i = k THEN onHand[i] - q ELSE onHand[i]
        /\ reserved'[i] = IF i = k THEN reserved[i] - q ELSE reserved[i]
    BY DEF ConfirmLine, BInv, IInv, TypeOK
  <2>2. onHand[i] \in Int /\ reserved[i] \in Int
    BY DEF BInv, IInv, TypeOK
  <2>. QED BY <1>1, <2>1, <2>2
<1>6. \A i \in Items : \A p \in Orders \ {o} :
          Taken(i)'[p] = Taken(i)[p] /\ OnHold(i)'[p] = OnHold(i)[p]
  BY <1>4
<1>7. \A i \in Items :
          /\ Taken(i)'[o] = Taken(i)[o] + e[i]
          /\ OnHold(i)'[o] = OnHold(i)[o] + d[i]
          /\ onHand'[i] = onHand[i] - e[i]
          /\ reserved'[i] = reserved[i] + d[i]
  BY <1>4, <1>5
<1>. HIDE DEF e, d
<1>. QED BY <1>2, <1>6, <1>7, LedgerMoves DEF BInv, IInv

\* At the start nothing is reserved, recorded or picked.
LEMMA BalanceInit == Init => BInv
<1>. SUFFICES ASSUME Init PROVE BInv
  OBVIOUS
<1>. USE DEF Init, ReservationInit
<1>1. ASSUME NEW i \in Items
      PROVE  Total(Taken(i), Orders) = 0 /\ Total(OnHold(i), Orders) = 0
  <2>1. \A o \in Orders : Issued(o, i) = 0 /\ reserveMv[o][i] = 0 /\ releaseMv[o][i] = 0
    BY DEF Issued, Nothing
  <2>2. ASSUME NEW o \in Orders
        PROVE  Taken(i)[o] = 0 /\ OnHold(i)[o] = 0
    <3>1. Taken(i)[o] = Issued(o, i) /\ OnHold(i)[o] = reserveMv[o][i] - releaseMv[o][i] - Issued(o, i)
      BY DEF Taken, OnHold
    <3>. QED BY <2>1, <3>1
  <2>. QED BY <2>2, TotalOfZeros, ReservationAssumption
<1>2. Balanced
  BY <1>1, ReservationAssumption DEF Balanced, Nothing
<1>3. PickedFirst
  BY DEF PickedFirst
<1>. QED BY <1>2, <1>3, InitInv DEF BInv

\* A step that writes to none of the reservation's collections.
LEMMA BalanceRests ==
    ASSUME BInv, UNCHANGED <<stockVars, issueVars>>
    PROVE  Balanced' /\ PickedFirst'
<1>1. \A o \in Orders : \A i \in Items : Issued(o, i)' = Issued(o, i)
  BY DEF Issued, IssueLines, issueVars
<1>2. Balanced'
  BY <1>1, LedgerRests DEF BInv
<1>. QED BY <1>2 DEF BInv, PickedFirst, issueVars

\* One case per step of a handler.
LEMMA HandlerBalances ==
    ASSUME BInv, Numbers, Numbers', NEW w \in Workers, Handler(w)
    PROVE  Balanced' /\ PickedFirst'
<1>1. CASE ReserveCommit(w)
  <2>1. PickedFirst'
    BY <1>1 DEF ReserveCommit, BInv, PickedFirst, issueVars
  <2>. QED BY <1>1, <2>1, CommitBalances DEF Handler
<1>2. CASE ReleaseCommit(w)
  <2>1. PickedFirst'
    BY <1>2 DEF ReleaseCommit, BInv, PickedFirst, issueVars
  <2>. QED BY <1>2, <2>1, ReleaseBalances DEF Handler
<1>3. CASE IssueCreate(w)
  <2>. DEFINE o == active[w].order
  <2>1. o \in Orders /\ issue[o] = "none" /\ UNCHANGED <<stockVars, announcing, announced>>
    BY <1>3, ActiveOrder DEF IssueCreate, Move, BInv, IInv
  <2>2. issue' = [issue EXCEPT ![o] = "PENDING"] /\ remaining' = [remaining EXCEPT ![o] = IssueLines(o)]
    BY <1>3 DEF IssueCreate
  <2>3. ASSUME NEW p \in Orders
        PROVE  /\ issue'[p] = IF p = o THEN "PENDING" ELSE issue[p]
               /\ remaining'[p] = IF p = o THEN IssueLines(o) ELSE remaining[p]
    BY <2>1, <2>2 DEF BInv, IInv, TypeOK
  <2>4. ASSUME NEW p \in Orders, NEW i \in Items
        PROVE  Issued(p, i)' = Issued(p, i)
    <3>1. IssueLines(p)[i] \in Int /\ IssueLines(p)' = IssueLines(p)
      BY NeedIsMovement DEF IssueLines
    <3>. QED BY <2>1, <2>3, <3>1 DEF Issued
  <2>5. PickedFirst'
    BY <2>1, <2>3 DEF BInv, PickedFirst
  <2>. QED BY <2>1, <2>4, <2>5, LedgerRests DEF BInv
<1>4. CASE UNCHANGED <<stockVars, issueVars>>
  BY <1>4, BalanceRests
<1>5. \/ ReserveCommit(w) \/ ReleaseCommit(w) \/ IssueCreate(w)
      \/ UNCHANGED <<stockVars, issueVars>>
  BY DEF Handler, ReserveCheck, ReserveAbort, EmitReserved, EmitReserveFailed, Reply,
         ReleaseCheck, IssueCheck, reservationVars
<1>. QED BY <1>1, <1>2, <1>3, <1>4, <1>5

\* What pickers and their requests do.
LEMMA FloorBalances ==
    ASSUME BInv, Numbers, Numbers', Floor
    PROVE  Balanced' /\ PickedFirst'
<1>. PICK o \in Orders :
        \/ \E i \in Items : \E q \in 1..remaining[o][i] : ConfirmLine(o, i, q)
        \/ \E q \in IssueQueues : Announce(o, q)
        \/ ForgetAnnouncement(o)
  BY DEF Floor
<1>1. ASSUME NEW i \in Items, NEW q \in 1..remaining[o][i], ConfirmLine(o, i, q)
      PROVE  Balanced' /\ PickedFirst'
  <2>1. /\ \A p \in Orders \ {o} : /\ remaining'[p] = remaining[p] /\ issue'[p] = issue[p]
                                   /\ announcing'[p] = announcing[p]
        /\ announced' = announced
    BY <1>1 DEF ConfirmLine, BInv, IInv, TypeOK
  <2>2. ASSUME HasMovement(remaining'[o])
        PROVE  PickedFirst'
    <3>1. issue[o] = "PENDING" /\ issue' = issue /\ announcing' = announcing
      BY <1>1, <2>2 DEF ConfirmLine
    <3>. QED BY <2>1, <3>1 DEF BInv, PickedFirst
  <2>3. ASSUME ~HasMovement(remaining'[o])
        PROVE  PickedFirst'
    <3>1. remaining'[o] \in [Items -> Nat]
      BY <1>1 DEF ConfirmLine, BInv, IInv, TypeOK
    <3>2. remaining'[o] = Nothing
      BY <2>3, <3>1, NoMovement
    <3>3. issue'[o] = "CONFIRMED"
      BY <1>1, <2>3 DEF ConfirmLine, BInv, IInv, TypeOK
    <3>. QED BY <2>1, <3>2, <3>3 DEF BInv, PickedFirst
  <2>. QED BY <1>1, <2>2, <2>3, PickingBalances
<1>2. CASE (\E q \in IssueQueues : Announce(o, q)) \/ ForgetAnnouncement(o)
  <2>1. UNCHANGED <<stockVars, issue, remaining>>
    BY <1>2 DEF Announce, ForgetAnnouncement
  <2>2. \A p \in Orders : announced'[p] \cup announcing'[p] # {}
                             => announced[p] \cup announcing[p] # {}
    BY <1>2 DEF Announce, ForgetAnnouncement, BInv, IInv, TypeOK
  <2>3. \A p \in Orders : \A i \in Items : Issued(p, i)' = Issued(p, i)
    BY <2>1 DEF Issued, IssueLines
  <2>. QED BY <2>1, <2>2, <2>3, LedgerRests DEF BInv, PickedFirst
<1>. QED BY <1>1, <1>2

\* Once IInv is known to hold before and after, a step keeps the rest of BInv.
LEMMA BalanceNext == BInv /\ Numbers /\ Numbers' /\ IInv' /\ [Next]_vars => BInv'
<1>. SUFFICES ASSUME BInv, Numbers, Numbers', IInv', [Next]_vars
              PROVE  Balanced' /\ PickedFirst'
  BY DEF BInv
<1>1. CASE UNCHANGED <<stockVars, issueVars>>
  BY <1>1, BalanceRests
<1>2. CASE (\E name \in SubmittedNames, o \in Orders : Submit(name, o)) \/ Queue \/ UNCHANGED vars
  BY <1>1, <1>2 DEF Submit, Queue, vars, reservationVars
<1>3. CASE \E w \in Workers : Handler(w)
  BY <1>3, HandlerBalances
<1>4. CASE Floor
  BY <1>4, FloorBalances
<1>. QED BY <1>2, <1>3, <1>4 DEF Next, WarehouseNext

\* The balances are what the movements add up to, and a goods issue is confirmed
\* before it is announced, in every reachable state.
LEMMA BalanceInvariance == Spec => []BInv
<1>1. BInv /\ [Next]_vars => BInv'
  <2>1. BInv => IInv
    BY DEF BInv
  <2>2. IInv /\ [Next]_vars => IInv'
    BY NextInv
  <2>3. BInv /\ [Next]_vars => Numbers /\ Numbers'
    BY <2>1, <2>2, NumbersHold, PTL
  <2>. QED BY <2>1, <2>2, <2>3, BalanceNext
<1>. QED BY <1>1, BalanceInit, PTL DEF Spec

\* stock_balances, kept by $inc in a collection of its own and never recomputed,
\* is what the movements of all orders and the picked lines add up to.
THEOREM BalanceAlwaysMatches == Spec => []BalanceMatchesLedger
<1>1. BInv => BalanceMatchesLedger
  BY BalancedIsLedger DEF BInv
<1>. QED BY <1>1, BalanceInvariance, PTL

\* goods.issued never leaves the warehouse for a goods issue with a line to pick.
THEOREM AnnouncedAfterPicking == Spec => []AnnouncedWhenPicked
<1>1. BInv => AnnouncedWhenPicked
  BY DEF BInv, PickedFirst, AnnouncedWhenPicked
<1>. QED BY <1>1, BalanceInvariance, PTL

----------------------------------------------------------------------------
\* The two applications: OrderSaga

\* The shop sent this job.
WasSent(j) == sent[j.order][j.name] > 0

\* No job is in the queue, delayed or being run that the shop did not send.
QueueWasSent ==
    /\ \A i \in 1..Len(waiting) : WasSent(waiting[i])
    /\ \A j \in Job : delayed[j] > 0 => WasSent(j)

JobsWereSent ==
    /\ QueueWasSent
    /\ \A w \in Workers : active[w] # NoJob => WasSent(active[w])

\* The job a worker must have to be at a step.
JobOf(at) ==
    IF at \in {"reserve.check", "reserve.txn", "reserve.ok", "reserve.failed"}
    THEN {"stock.reserve_requested"}
    ELSE IF at \in {"issue.check", "issue.create"} THEN {"order.ready_to_fulfill"}
    ELSE IF at = "autoCancel.check" THEN {"auto.cancel"}
    ELSE JobNames

\* A worker runs the steps of the job it has.
StepOfJob == \A w \in Workers : step[w] # "idle" => active[w].name \in JobOf(step[w])

\* A goods issue was asked for, and only a goods issue is announced.
IssueWasAsked ==
    \A o \in Orders :
        /\ issue[o] # "none" => sent[o]["order.ready_to_fulfill"] > 0
        /\ announced[o] \cup announcing[o] # {} => issue[o] # "none"

SInv ==
    /\ IInv
    /\ Life!IInv
    /\ JobsWereSent
    /\ StepOfJob
    /\ IssueWasAsked

\* Jobs are added and never forgotten.
SentGrows ==
    \A o \in Orders, job \in JobNames :
        sent[o][job] \in Nat /\ sent'[o][job] \in Nat /\ sent'[o][job] >= sent[o][job]

----------------------------------------------------------------------------
\* The shop's module, seen from here

\* The shop of OrderSaga is the one the theorems of OrderLifecycle are about.
LEMMA SameShop ==
    /\ Shop!Init => Life!Init
    /\ \A p : Shop!HandlerStep(p) => Life!HandlerStep(p)
    /\ \A p : Shop!Fail(p) => Life!Fail(p)
    /\ \A o : Shop!Outside(o) => Life!Outside(o)
    /\ \A o : Shop!AutoCancelStart(o) => Life!AutoCancelStart(o)
    /\ \A o : Shop!Collected(o) = Life!Collected(o)
    /\ Shop!Callers = Life!Callers /\ Shop!Idle = Life!Idle /\ Shop!ShopJobs = JobNames
<1>. USE DEF Shop!Consumers, Life!Consumers, Shop!Callers, Life!Callers, Shop!Methods, Life!Methods,
             Shop!Payments, Life!Payments, Shop!Fulfillments, Life!Fulfillments, Shop!Doc, Life!Doc,
             Shop!Phases, Life!Phases, Shop!TxnIds, Life!TxnIds, Shop!Verdicts, Life!Verdicts,
             Shop!Messages, Life!Messages, Shop!ShopJobs, Life!ShopJobs, Shop!Tasks, Life!Tasks,
             Shop!NewDoc, Life!NewDoc, Shop!Idle, Life!Idle, Shop!Init, Life!Init, Shop!At, Life!At,
             Shop!Order, Life!Order, Shop!Goto, Life!Goto, Shop!Return, Life!Return, Shop!Fail,
             Life!Fail, Shop!Write, Life!Write, Shop!Send, Life!Send, Shop!Entry, Life!Entry,
             Shop!Start, Life!Start, Shop!Deliver, Life!Deliver, Shop!Receive, Life!Receive,
             Shop!AutoCancelStart, Life!AutoCancelStart, Shop!Request, Life!Request, Shop!Checkout,
             Life!Checkout, Shop!CheckoutReserve, Life!CheckoutReserve, Shop!CheckoutDeadline,
             Life!CheckoutDeadline, Shop!AutoCheck, Life!AutoCheck, Shop!Cancellable,
             Life!Cancellable, Shop!CancelRead, Life!CancelRead, Shop!CancelWrite, Life!CancelWrite,
             Shop!CancelEmit, Life!CancelEmit, Shop!CancelRefund, Life!CancelRefund, Shop!Amount,
             Life!Amount, Shop!DuePhase, Life!DuePhase, Shop!CreateLink, Life!CreateLink,
             Shop!PayLink, Life!PayLink, Shop!Collected, Life!Collected, Shop!PayRead, Life!PayRead,
             Shop!PayAppend, Life!PayAppend, Shop!Decide, Life!Decide, Shop!PayList, Life!PayList,
             Shop!PayWrite, Life!PayWrite, Shop!Ready, Life!Ready, Shop!PrintNow, Life!PrintNow,
             Shop!PayEmit, Life!PayEmit, Shop!ReservedWrite, Life!ReservedWrite, Shop!ReservedEmit,
             Life!ReservedEmit, Shop!ReachedBy, Life!ReachedBy, Shop!Reached, Life!Reached,
             Shop!PrintedRead, Life!PrintedRead, Shop!PrintedWrite, Life!PrintedWrite,
             Shop!PrintedEmit, Life!PrintedEmit, Shop!DeliveredList, Life!DeliveredList,
             Shop!DeliveredAppend, Life!DeliveredAppend, Shop!DeliveredWrite, Life!DeliveredWrite,
             Shop!ReturnedWrite, Life!ReturnedWrite, Shop!ReturnRead, Life!ReturnRead,
             Shop!ReturnWrite, Life!ReturnWrite, Shop!ReturnEmit, Life!ReturnEmit, Shop!HandlerStep,
             Life!HandlerStep, Shop!Outside, Life!Outside, JobNames
<1>1. Shop!Init => Life!Init
  BY Zenon
<1>2. ASSUME NEW p, Shop!HandlerStep(p)
      PROVE  Life!HandlerStep(p)
  BY <1>2, Zenon
<1>3. ASSUME NEW p, Shop!Fail(p)
      PROVE  Life!Fail(p)
  BY <1>3, Zenon
<1>4. ASSUME NEW o, Shop!Outside(o)
      PROVE  Life!Outside(o)
  BY <1>4, Zenon
<1>5. ASSUME NEW o, Shop!AutoCancelStart(o)
      PROVE  Life!AutoCancelStart(o)
  BY <1>5, Zenon
<1>6. ASSUME NEW o
      PROVE  Shop!Collected(o) = Life!Collected(o)
  BY Zenon
<1>7. Shop!Callers = Life!Callers /\ Shop!Idle = Life!Idle
  BY Zenon
<1>8. Shop!ShopJobs = JobNames
  OBVIOUS
<1>. QED BY <1>1, <1>2, <1>3, <1>4, <1>5, <1>6, <1>7, <1>8, Zenon

\* What the theorems of OrderLifecycle assume of the constants.
LEMMA ShopAssumptions ==
    /\ MaxAttempts \in Nat \ {0}
    /\ MaxRequests \in Nat
    /\ Kinds \in [Orders -> SUBSET ({"COD", "ONLINE"} \X BOOLEAN)]
    /\ ManualAmount \in Nat \ {0}
    /\ NoOrder \notin Orders
    /\ Requests \cap {"reply", "shipment", "auto"} = {}
    /\ {} \subseteq Life!Messages
BY SagaAssumption, QueueAssumption

\* The shop's handlers, and whatever starts one, keep the shop's invariant.
LEMMA ShopHandlers ==
    ASSUME SInv, NEW p \in Shop!Callers, Shop!HandlerStep(p) \/ Shop!Fail(p)
    PROVE  Life!IInv' /\ SentGrows
<1>1. Life!HandlerStep(p) \/ Life!Fail(p)
  BY SameShop
<1>2. p \in Life!Callers
  BY SameShop
<1>3. Life!IInv'
  BY <1>1, <1>2, ShopAssumptions, Life!HandlersKeep DEF SInv
<1>4. Life!ShopJobs = JobNames
  BY DEF Life!ShopJobs, JobNames
<1>5. SentGrows
  BY <1>1, <1>2, <1>4, ShopAssumptions, Life!OnlySends DEF SInv, SentGrows
<1>. QED BY <1>3, <1>5

\* The shop counts its jobs.
LEMMA SentIsCounted ==
    ASSUME SInv
    PROVE  sent \in [Orders -> [JobNames -> Nat]]
BY DEF SInv, Life!IInv, Life!TypeOK, Life!ShopJobs, JobNames

LEMMA SentRests ==
    ASSUME SInv, sent' = sent
    PROVE  SentGrows
BY SentIsCounted DEF SentGrows

LEMMA ShopStarts ==
    ASSUME SInv, NEW o \in Orders, Shop!Outside(o)
    PROVE  Life!IInv' /\ SentGrows
<1>1. Life!Outside(o)
  BY SameShop
<1>2. Life!IInv'
  BY <1>1, ShopAssumptions, Life!OutsideKeeps DEF SInv
<1>3. sent' = sent
  BY <1>1 DEF Life!Outside, Life!Checkout, Life!Request, Life!CreateLink, Life!PayLink,
              Life!Receive, Life!Deliver
<1>. QED BY <1>2, <1>3, SentRests

----------------------------------------------------------------------------
\* The queue

\* A job that was sent stays so.
LEMMA StaysSent ==
    ASSUME SentGrows, NEW j \in Job, WasSent(j)
    PROVE  WasSent(j)'
<1>1. j.order \in Orders /\ j.name \in JobNames
  BY DEF Job
<1>. QED BY <1>1 DEF WasSent, SentGrows

\* What the workers run, and what was in the queue, is not forgotten.
LEMMA JobsKept ==
    ASSUME SInv, SentGrows, UNCHANGED <<active, step>>, QueueWasSent'
    PROVE  JobsWereSent' /\ StepOfJob'
<1>1. ASSUME NEW w \in Workers, active'[w] # NoJob
      PROVE  WasSent(active[w])'
  <2>1. PICK j \in Job : j = active[w] /\ j = active'[w] /\ WasSent(j)
    BY <1>1 DEF SInv, IInv, TypeOK, QueueTypeOK, JobsWereSent
  <2>2. WasSent(j)'
    BY <2>1, StaysSent
  <2>. QED BY <2>1, <2>2 DEF WasSent
<1>2. StepOfJob'
  BY DEF SInv, StepOfJob
<1>. QED BY <1>1, <1>2 DEF JobsWereSent

LEMMA QueueKept ==
    ASSUME SInv, SentGrows
    PROVE  /\ \A i \in 1..Len(waiting) :
                  sent'[waiting[i].order][waiting[i].name] > 0
           /\ \A j \in Job : delayed[j] > 0 => WasSent(j)'
<1>1. ASSUME NEW i \in 1..Len(waiting)
      PROVE  sent'[waiting[i].order][waiting[i].name] > 0
  <2>1. PICK j \in Job : j = waiting[i] /\ WasSent(j)
    BY DEF SInv, IInv, TypeOK, QueueTypeOK, JobsWereSent, QueueWasSent
  <2>2. WasSent(j)'
    BY <2>1, StaysSent
  <2>. QED BY <2>1, <2>2 DEF WasSent
<1>2. ASSUME NEW j \in Job, delayed[j] > 0
      PROVE  WasSent(j)'
  BY <1>2, StaysSent DEF SInv, JobsWereSent, QueueWasSent
<1>. QED BY <1>1, <1>2

\* What a step of the shop sends is in the queue, and was sent.
LEMMA PostedIsSent ==
    ASSUME SInv, SentGrows, Posted
    PROVE  /\ QueueWasSent'
           /\ waiting' \in Seq(Job)
           /\ delayed' \in [Job -> Nat]
<1>. USE DEF SInv, IInv, TypeOK, QueueTypeOK
<1>1. CASE UNCHANGED <<waiting, delayed>>
  BY <1>1, QueueKept DEF QueueWasSent, WasSent
<1>2. CASE \E o \in Orders, job \in Shop!ShopJobs :
               /\ sent'[o][job] > sent[o][job]
               /\ IF job = "auto.cancel"
                  THEN AddDelayed(job, o) /\ UNCHANGED waiting
                  ELSE Add(job, o) /\ UNCHANGED delayed
  <2>1. PICK o \in Orders, job \in JobNames :
            /\ sent'[o][job] > sent[o][job]
            /\ \/ AddDelayed(job, o) /\ UNCHANGED waiting
               \/ Add(job, o) /\ UNCHANGED delayed
    BY <1>2, SameShop
  <2>2. PICK j \in Job : j = NewJob(job, o)
    <3>1. 1 \in 1..MaxAttempts
      BY QueueAssumption
    <3>2. NewJob(job, o) \in Job
      BY <3>1 DEF NewJob, Job
    <3>. QED BY <3>2
  <2>3. j.order = o /\ j.name = job
    BY <2>2 DEF NewJob
  <2>4. sent'[j.order][j.name] > 0
    BY <2>1, <2>3 DEF SentGrows
  <2>5. CASE AddDelayed(job, o) /\ UNCHANGED waiting
    <3>1. delayed' = [delayed EXCEPT ![j] = @ + 1]
      BY <2>2, <2>5 DEF AddDelayed
    <3>2. \A k \in Job : delayed'[k] > 0 => k = j \/ delayed[k] > 0
      BY <3>1
    <3>. QED BY <2>4, <2>5, <3>1, <3>2, QueueKept DEF QueueWasSent, WasSent
  <2>6. CASE Add(job, o) /\ UNCHANGED delayed
    <3>1. waiting' = Append(waiting, j)
      BY <2>2, <2>6 DEF Add
    <3>2. /\ waiting' \in Seq(Job)
          /\ \A i \in 1..Len(waiting') : waiting'[i] = j \/ (i \in 1..Len(waiting) /\ waiting'[i] = waiting[i])
      BY <3>1
    <3>. QED BY <2>4, <2>6, <3>2, QueueKept DEF QueueWasSent, WasSent
  <2>. QED BY <2>1, <2>5, <2>6
<1>. QED BY <1>1, <1>2 DEF Posted

\* A step of the shop's keeps the invariant of the two.
LEMMA ShopSide ==
    ASSUME SInv, UNCHANGED <<active, step, reservationVars>>, Posted, Life!IInv', SentGrows
    PROVE  SInv'
<1>1. QueueWasSent' /\ waiting' \in Seq(Job) /\ delayed' \in [Job -> Nat]
  BY PostedIsSent
<1>2. JobsWereSent' /\ StepOfJob'
  BY <1>1, JobsKept
<1>3. TypeOK'
  BY <1>1 DEF SInv, IInv, TypeOK, QueueTypeOK, reservationVars, stockVars, issueVars
<1>4. NoOversell' /\ AllOrNothing' /\ ReplyTruthful' /\ StepOwner' /\ ChecksStillHold'
  BY DEF SInv, IInv, NoOversell, Available, AllOrNothing, ReplyTruthful, StepOwner,
         ChecksStillHold, reservationVars, stockVars
<1>5. IssueWasAsked'
  <2>1. "order.ready_to_fulfill" \in JobNames
    BY DEF JobNames
  <2>. QED BY <2>1 DEF SInv, IssueWasAsked, SentGrows, reservationVars, issueVars
<1>. QED BY <1>2, <1>3, <1>4, <1>5 DEF SInv, IInv

\* The job that a handler gets next is the one the handler is for.
LEMMA EntryOfJob ==
    ASSUME NEW w \in Workers, NEW name \in JobNames
    PROVE  name \in JobOf(Entry(w, name))
BY DEF Entry, JobOf, JobNames

\* The queue hands out, puts back and drops what was sent.
LEMMA QueueMoves ==
    ASSUME SInv, QueueNext, sent' = sent
    PROVE  JobsWereSent' /\ StepOfJob'
<1>. USE DEF SInv, IInv, TypeOK, QueueTypeOK
<1>0. /\ \A i \in 1..Len(waiting) : waiting[i] \in Job /\ WasSent(waiting[i])
      /\ \A j \in Job : delayed[j] > 0 => WasSent(j)
      /\ \A v \in Workers : active[v] # NoJob => active[v] \in Job /\ WasSent(active[v])
  BY DEF JobsWereSent, QueueWasSent
<1>1. ASSUME NEW w \in Workers, Take(w)
      PROVE  JobsWereSent' /\ StepOfJob'
  <2>1. PICK j \in Job : j = Head(waiting) /\ WasSent(j)
    BY <1>0, <1>1 DEF Take
  <2>2. j.name \in JobNames
    BY DEF Job
  <2>3. \A v \in Workers : /\ active'[v] = IF v = w THEN j ELSE active[v]
                           /\ step'[v] = IF v = w THEN Entry(w, j.name) ELSE step[v]
    BY <1>1, <2>1 DEF Take
  <2>4. \A i \in 1..Len(waiting') : waiting'[i] = waiting[i + 1] /\ i + 1 \in 1..Len(waiting)
    BY <1>1 DEF Take
  <2>5. QueueWasSent'
    BY <1>0, <1>1, <2>4 DEF Take, QueueWasSent, WasSent
  <2>6. \A v \in Workers : active'[v] # NoJob => WasSent(active[v])'
    BY <1>0, <2>1, <2>3 DEF WasSent
  <2>7. StepOfJob'
    BY <2>2, <2>3, EntryOfJob DEF StepOfJob
  <2>. QED BY <2>5, <2>6, <2>7 DEF JobsWereSent
<1>2. ASSUME NEW w \in Workers, Complete(w) \/ Retry(w)
      PROVE  JobsWereSent' /\ StepOfJob'
  <2>1. \A v \in Workers : /\ active'[v] = IF v = w THEN NoJob ELSE active[v]
                           /\ step'[v] = IF v = w THEN "idle" ELSE step[v]
    BY <1>2 DEF Complete, Retry, Idle
  <2>2. \A v \in Workers : active'[v] # NoJob => WasSent(active[v])'
    BY <1>0, <2>1 DEF WasSent
  <2>3. StepOfJob'
    BY <2>1 DEF StepOfJob
  <2>4. QueueWasSent'
    <3>1. CASE UNCHANGED <<waiting, delayed>>
      BY <1>0, <3>1 DEF QueueWasSent, WasSent
    <3>2. CASE /\ active[w] # NoJob /\ active[w].attempt < MaxAttempts
               /\ delayed' = [delayed EXCEPT ![NextTry(active[w])] = @ + 1]
               /\ UNCHANGED waiting
      <4>1. PICK j \in Job : j = active[w] /\ WasSent(j)
        BY <1>0, <3>2
      <4>2. PICK k : k = NextTry(j)
        OBVIOUS
      <4>3. k.name = j.name /\ k.order = j.order
        BY <4>2 DEF NextTry
      <4>4. WasSent(k)
        BY <4>1, <4>3 DEF WasSent
      <4>5. delayed' = [delayed EXCEPT ![k] = @ + 1]
        BY <3>2, <4>1, <4>2
      <4>6. \A i \in Job : delayed'[i] > 0 => i = k \/ delayed[i] > 0
        BY <4>5
      <4>. QED BY <1>0, <3>2, <4>4, <4>6 DEF QueueWasSent, WasSent
    <3>. QED BY <1>2, <3>1, <3>2 DEF Complete, Retry
  <2>. QED BY <2>2, <2>3, <2>4 DEF JobsWereSent
<1>3. ASSUME NEW j \in Job, Promote(j)
      PROVE  JobsWereSent' /\ StepOfJob'
  <2>1. WasSent(j)
    BY <1>0, <1>3 DEF Promote
  <2>2. \A i \in 1..Len(waiting') : waiting'[i] = j \/ (i \in 1..Len(waiting) /\ waiting'[i] = waiting[i])
    BY <1>3 DEF Promote
  <2>3. \A k \in Job : delayed'[k] > 0 => delayed[k] > 0
    BY <1>3 DEF Promote
  <2>4. QueueWasSent'
    BY <1>0, <2>1, <2>2, <2>3 DEF QueueWasSent, WasSent
  <2>. QED BY <1>3, <2>4, JobsKept, SentRests DEF Promote
<1>. QED BY <1>1, <1>2, <1>3 DEF QueueNext

\* A handler that goes from one step to another of the same job.
LEMMA MoveKept ==
    ASSUME SInv, NEW w \in Workers, NEW from \in Steps \ {"idle"}, NEW to \in Steps \ {"idle"},
           JobOf(from) \subseteq JobOf(to),
           Move(w, from, to), UNCHANGED <<waiting, delayed, sent>>
    PROVE  JobsWereSent' /\ StepOfJob'
<1>1. \A v \in Workers : step'[v] = IF v = w THEN to ELSE step[v]
  BY DEF Move, SInv, IInv, TypeOK, QueueTypeOK
<1>2. StepOfJob'
  BY <1>1 DEF Move, SInv, StepOfJob
<1>3. JobsWereSent'
  BY DEF Move, SInv, JobsWereSent, QueueWasSent, WasSent
<1>. QED BY <1>2, <1>3

----------------------------------------------------------------------------
\* The warehouse

\* What the shop hears stays the same.
LEMMA InboxRests ==
    ASSUME UNCHANGED <<replies, announced>>
    PROVE  Inbox' = Inbox
BY DEF Inbox

LEMMA ShopRests ==
    ASSUME SInv, UNCHANGED shopVars, Inbox' = Inbox
    PROVE  Life!IInv'
<1>1. UNCHANGED Life!vars
  BY DEF Life!vars, Life!shopVars, shopVars
<1>. QED BY <1>1, ShopAssumptions, Life!StutterKeeps DEF SInv

\* A step that leaves the goods issues alone.
LEMMA AskedRests ==
    ASSUME SInv, UNCHANGED <<issueVars, sent>>
    PROVE  IssueWasAsked'
BY DEF SInv, IssueWasAsked, issueVars

\* A handler that moves and touches neither the replies nor the goods issues.
LEMMA QuietHandler ==
    ASSUME SInv, NEW w \in Workers, NEW from \in Steps \ {"idle"}, NEW to \in Steps \ {"idle"},
           JobOf(from) \subseteq JobOf(to),
           Move(w, from, to), UNCHANGED <<waiting, delayed, replies, issueVars, shopVars>>
    PROVE  Life!IInv' /\ JobsWereSent' /\ StepOfJob' /\ IssueWasAsked'
<1>1. Life!IInv'
  BY InboxRests, ShopRests DEF issueVars
<1>2. JobsWereSent' /\ StepOfJob'
  BY MoveKept DEF shopVars
<1>3. IssueWasAsked'
  BY AskedRests DEF shopVars
<1>. QED BY <1>1, <1>2, <1>3

\* The shop hears a verdict on an order it asked about.
LEMMA ReplyHeard ==
    ASSUME SInv, NEW w \in Workers, active[w] # NoJob, UNCHANGED shopVars,
           NEW from \in {"reserve.ok", "reserve.failed"}, NEW verdict \in Verdicts,
           Reply(w, from, verdict)
    PROVE  Life!IInv' /\ JobsWereSent' /\ StepOfJob' /\ IssueWasAsked'
<1>1. Move(w, from, "done") /\ UNCHANGED <<waiting, delayed, issueVars>>
  BY DEF Reply
<1>2. PICK j \in Job : j = active[w] /\ WasSent(j)
  BY DEF SInv, IInv, TypeOK, QueueTypeOK, JobsWereSent
<1>3. j.name = "stock.reserve_requested" /\ j.order \in Orders
  BY <1>1, <1>2 DEF SInv, StepOfJob, Move, JobOf, Job
<1>4. PICK o \in Orders : o = j.order
  BY <1>3
<1>5. sent[o]["stock.reserve_requested"] > 0
  BY <1>2, <1>3, <1>4 DEF WasSent
<1>6. Inbox' = [Inbox EXCEPT ![o] = @ \cup {verdict}]
  <2>1. /\ announced' = announced
        /\ replies' = [replies EXCEPT ![o] = @ \cup {verdict}]
    BY <1>1, <1>2, <1>4 DEF Reply, issueVars
  <2>2. ASSUME NEW x \in Orders
        PROVE  Inbox'[x] = IF x = o THEN Inbox[x] \cup {verdict} ELSE Inbox[x]
    BY <2>1 DEF Inbox, SInv, IInv, TypeOK
  <2>3. Inbox' = [x \in Orders |-> IF x = o THEN Inbox[x] \cup {verdict} ELSE Inbox[x]]
    BY <2>2 DEF Inbox
  <2>. QED BY <2>3 DEF Inbox
<1>7. /\ verdict \in Life!Messages
      /\ verdict \notin Life!Picked \cup {"print.sample", "print.full"}
  BY DEF Verdicts, Life!Messages, Life!Verdicts, Life!Picked
<1>8. UNCHANGED Life!shopVars
  BY DEF Life!shopVars, shopVars
<1>9. Life!IInv'
  BY <1>5, <1>6, <1>7, <1>8, ShopAssumptions, Life!SayingKeeps DEF SInv
<1>10. JobsWereSent' /\ StepOfJob'
  BY <1>1, MoveKept DEF shopVars, JobOf, JobNames, Steps
<1>11. IssueWasAsked'
  BY <1>1, AskedRests DEF shopVars
<1>. QED BY <1>9, <1>10, <1>11

\* A goods issue is created on the shop's word.
LEMMA IssueAsked ==
    ASSUME SInv, NEW w \in Workers, active[w] # NoJob, UNCHANGED shopVars, IssueCreate(w)
    PROVE  Life!IInv' /\ JobsWereSent' /\ StepOfJob' /\ IssueWasAsked'
<1>1. /\ Move(w, "issue.create", "done")
      /\ UNCHANGED <<waiting, delayed, replies, announcing, announced>>
  BY DEF IssueCreate
<1>2. PICK j \in Job : j = active[w] /\ WasSent(j)
  BY DEF SInv, IInv, TypeOK, QueueTypeOK, JobsWereSent
<1>3. j.name = "order.ready_to_fulfill"
  BY <1>1, <1>2 DEF SInv, StepOfJob, Move, JobOf
<1>4. sent[j.order]["order.ready_to_fulfill"] > 0
  BY <1>2, <1>3 DEF WasSent
<1>5. IssueWasAsked'
  <2>1. issue' = [issue EXCEPT ![j.order] = "PENDING"] /\ sent' = sent
    BY <1>2 DEF IssueCreate, shopVars
  <2>2. \A o \in Orders : issue'[o] # issue[o] => o = j.order /\ issue'[o] # "none"
    BY <2>1 DEF SInv, IInv, TypeOK
  <2>. QED BY <1>1, <1>4, <2>1, <2>2 DEF SInv, IssueWasAsked
<1>6. Life!IInv'
  BY <1>1, InboxRests, ShopRests
<1>7. JobsWereSent' /\ StepOfJob'
  BY <1>1, MoveKept DEF shopVars, JobOf, JobNames, Steps
<1>. QED BY <1>5, <1>6, <1>7

\* One case per step of a handler of the warehouse.
LEMMA WarehouseHandlers ==
    ASSUME SInv, NEW w \in Workers, Handler(w), UNCHANGED shopVars
    PROVE  SInv'
<1>1. IInv'
  BY HandlerInv DEF SInv
<1>. SUFFICES Life!IInv' /\ JobsWereSent' /\ StepOfJob' /\ IssueWasAsked'
  BY <1>1 DEF SInv
<1>2. CASE EmitReserved(w) \/ EmitReserveFailed(w)
  BY <1>2, ReplyHeard DEF Handler, EmitReserved, EmitReserveFailed, Verdicts
<1>3. CASE IssueCreate(w)
  BY <1>3, IssueAsked DEF Handler
<1>4. CASE ReserveCheck(w) \/ ReserveCommit(w) \/ ReserveAbort(w)
  <2>1. PICK from \in {"reserve.check", "reserve.txn"},
             to \in {"done", "reserve.failed", "reserve.txn", "reserve.ok"} : Move(w, from, to)
    BY <1>4 DEF ReserveCheck, ReserveCommit, ReserveAbort
  <2>2. JobOf(from) \subseteq JobOf(to) /\ from \in Steps \ {"idle"} /\ to \in Steps \ {"idle"}
    BY DEF JobOf, JobNames, Steps
  <2>3. UNCHANGED <<waiting, delayed, replies, issueVars>>
    BY <1>4 DEF ReserveCheck, ReserveCommit, ReserveAbort, reservationVars
  <2>. QED BY <2>1, <2>2, <2>3, QuietHandler
<1>5. CASE ReleaseCheck(w) \/ ReleaseCommit(w) \/ IssueCheck(w)
  <2>1. PICK from \in {"release.check", "release.txn", "issue.check"},
             to \in {"done", "release.txn", "issue.create"} :
                 Move(w, from, to) /\ (to = "issue.create" => from = "issue.check")
    BY <1>5 DEF ReleaseCheck, ReleaseCommit, IssueCheck
  <2>2. JobOf(from) \subseteq JobOf(to) /\ from \in Steps \ {"idle"} /\ to \in Steps \ {"idle"}
    BY <2>1 DEF JobOf, JobNames, Steps
  <2>3. UNCHANGED <<waiting, delayed, replies, issueVars>>
    BY <1>5 DEF ReleaseCheck, ReleaseCommit, IssueCheck, reservationVars
  <2>. QED BY <2>1, <2>2, <2>3, QuietHandler
<1>. QED BY <1>2, <1>3, <1>4, <1>5 DEF Handler
\* What the shop hears of a goods issue was announced by the floor.
LEMMA AnnouncedIsHeard ==
    ASSUME SInv, UNCHANGED shopVars, NEW o \in Orders, NEW q \in IssueQueues, Announce(o, q)
    PROVE  Life!IInv'
<1>1. /\ replies' = replies
      /\ announced' = [announced EXCEPT ![o] = @ \cup {q}]
      /\ issue[o] # "none"
  BY DEF Announce, SInv, IssueWasAsked
<1>2. CASE q = "SHIPMENT"
  <2>1. sent[o]["order.ready_to_fulfill"] > 0
    BY <1>1 DEF SInv, IssueWasAsked
  <2>2. ASSUME NEW x \in Orders
        PROVE  Inbox'[x] = IF x = o THEN Inbox[x] \cup {"goods.issued"} ELSE Inbox[x]
    <3>1. announced'[x] = IF x = o THEN announced[x] \cup {"SHIPMENT"} ELSE announced[x]
      BY <1>1, <1>2 DEF SInv, IInv, TypeOK
    <3>2. /\ Inbox[x] = replies[x] \cup (IF "SHIPMENT" \in announced[x]
                                         THEN {"goods.issued"} ELSE {})
          /\ Inbox'[x] = replies[x] \cup (IF "SHIPMENT" \in announced'[x]
                                          THEN {"goods.issued"} ELSE {})
      BY <1>1 DEF Inbox
    <3>. QED BY <3>1, <3>2
  <2>3. Inbox' = [x \in Orders |-> IF x = o THEN Inbox[x] \cup {"goods.issued"} ELSE Inbox[x]]
    BY <2>2 DEF Inbox
  <2>4. Inbox' = [Inbox EXCEPT ![o] = @ \cup {"goods.issued"}]
    BY <2>3 DEF Inbox
  <2>5. "goods.issued" \in Life!Messages /\ "goods.issued" \notin Life!Verdicts
    BY DEF Life!Messages, Life!Verdicts
  <2>6. UNCHANGED Life!shopVars
    BY DEF Life!shopVars, shopVars
  <2>7. Life!IInv
    BY DEF SInv
  <2>. QED BY <2>1, <2>4, <2>5, <2>6, <2>7, ShopAssumptions, Life!SayingKeeps
<1>3. CASE q # "SHIPMENT"
  <2>1. \A x \in Orders : "SHIPMENT" \in announced'[x] <=> "SHIPMENT" \in announced[x]
    BY <1>1, <1>3 DEF SInv, IInv, TypeOK
  <2>2. Inbox' = Inbox
    BY <1>1, <2>1 DEF Inbox
  <2>. QED BY <2>2, ShopRests
<1>. QED BY <1>2, <1>3

\* The floor picks and announces what was asked for.
LEMMA FloorKeeps ==
    ASSUME SInv, Floor, UNCHANGED shopVars
    PROVE  SInv'
<1>1. IInv'
  BY FloorInv DEF SInv
<1>2. PICK o \in Orders :
          \/ \E i \in Items : \E q \in 1..remaining[o][i] : ConfirmLine(o, i, q)
          \/ \E q \in IssueQueues : Announce(o, q)
          \/ ForgetAnnouncement(o)
  BY DEF Floor
<1>3. UNCHANGED <<queueVars, sent>>
  BY <1>2 DEF ConfirmLine, Announce, ForgetAnnouncement, shopVars
<1>4. JobsWereSent' /\ StepOfJob'
  BY <1>3 DEF SInv, JobsWereSent, QueueWasSent, WasSent, StepOfJob, queueVars
<1>5. ASSUME NEW i \in Items, NEW q \in 1..remaining[o][i], ConfirmLine(o, i, q)
      PROVE  Life!IInv' /\ IssueWasAsked'
  <2>1. Life!IInv'
    BY <1>5, InboxRests, ShopRests DEF ConfirmLine
  <2>2. issue[o] = "PENDING" /\ announced' = announced
    BY <1>5 DEF ConfirmLine
  <2>3. \/ UNCHANGED <<issue, announcing>>
        \/ /\ issue' = [issue EXCEPT ![o] = "CONFIRMED"]
           /\ announcing' = [announcing EXCEPT ![o] = IssueQueues]
    BY <1>5 DEF ConfirmLine
  <2>4. \A x \in Orders : /\ issue'[x] # "none" <=> issue[x] # "none"
                          /\ x # o => announcing'[x] = announcing[x]
    BY <2>2, <2>3 DEF SInv, IInv, TypeOK
  <2>5. IssueWasAsked'
    BY <1>3, <2>2, <2>4 DEF SInv, IssueWasAsked
  <2>. QED BY <2>1, <2>5
<1>6. ASSUME NEW q \in IssueQueues, Announce(o, q)
      PROVE  Life!IInv' /\ IssueWasAsked'
  <2>1. Life!IInv'
    BY <1>6, AnnouncedIsHeard
  <2>2. /\ issue' = issue
        /\ q \in announcing[o]
        /\ announcing' = [announcing EXCEPT ![o] = @ \ {q}]
        /\ announced' = [announced EXCEPT ![o] = @ \cup {q}]
    BY <1>6 DEF Announce
  <2>3. \A x \in Orders : announced'[x] \cup announcing'[x] # {} =>
                              announced[x] \cup announcing[x] # {}
    BY <2>2 DEF SInv, IInv, TypeOK
  <2>4. IssueWasAsked'
    BY <1>3, <2>2, <2>3 DEF SInv, IssueWasAsked
  <2>. QED BY <2>1, <2>4
<1>7. ASSUME ForgetAnnouncement(o)
      PROVE  Life!IInv' /\ IssueWasAsked'
  <2>1. Life!IInv'
    BY <1>7, InboxRests, ShopRests DEF ForgetAnnouncement
  <2>2. UNCHANGED <<issue, announced>> /\ announcing' = [announcing EXCEPT ![o] = {}]
    BY <1>7 DEF ForgetAnnouncement
  <2>3. \A x \in Orders : announced'[x] \cup announcing'[x] # {} =>
                              announced[x] \cup announcing[x] # {}
    BY <2>2 DEF SInv, IInv, TypeOK
  <2>4. IssueWasAsked'
    BY <1>3, <2>2, <2>3 DEF SInv, IssueWasAsked
  <2>. QED BY <2>1, <2>4
<1>8. Life!IInv' /\ IssueWasAsked'
  BY <1>2, <1>5, <1>6, <1>7
<1>. QED BY <1>1, <1>4, <1>8 DEF SInv

----------------------------------------------------------------------------
\* The delayed cancellation and the retries

\* ReserveConsumer runs the handler of a job that the checkout delayed.
LEMMA AutoCancelBeginsKeeps ==
    ASSUME SInv, NEW w \in Workers, AutoCancelBegins(w)
    PROVE  SInv'
<1>1. /\ active[w] # NoJob
      /\ Move(w, "autoCancel.check", "autoCancel.run")
      /\ Shop!AutoCancelStart(active[w].order)
      /\ UNCHANGED <<waiting, delayed, reservationVars>>
  BY DEF AutoCancelBegins
<1>2. PICK j \in Job : j = active[w] /\ WasSent(j)
  BY <1>1 DEF SInv, IInv, TypeOK, QueueTypeOK, JobsWereSent
<1>3. j.name = "auto.cancel" /\ j.order \in Orders
  BY <1>1, <1>2 DEF SInv, StepOfJob, Move, JobOf, Job
<1>4. PICK o \in Orders : o = j.order
  BY <1>3
<1>5. Life!AutoCancelStart(o)
  BY <1>1, <1>2, <1>4, SameShop
<1>6. sent[o]["auto.cancel"] > 0
  BY <1>2, <1>3, <1>4 DEF WasSent
<1>7. Inbox' = Inbox
  BY <1>1, InboxRests DEF reservationVars, issueVars
<1>8. Life!IInv'
  <2>1. Life!IInv /\ "auto.cancel" \in Life!ShopJobs
    BY DEF SInv, Life!ShopJobs
  <2>2. doc[o].status # "none"
    BY <1>6, <2>1, ShopAssumptions, Life!HeardWasPlaced
  <2>. QED BY <1>5, <1>7, <2>1, <2>2, ShopAssumptions, Life!AutoStartKeeps
<1>9. sent' = sent
  BY <1>5 DEF Life!AutoCancelStart
<1>10. JobsWereSent' /\ StepOfJob'
  BY <1>1, <1>9, MoveKept DEF JobOf, JobNames, Steps
<1>11. IInv'
  BY <1>1, ReadStep DEF SInv, Steps, ReserveSteps
<1>12. IssueWasAsked'
  BY <1>1, <1>9, AskedRests DEF reservationVars
<1>. QED BY <1>8, <1>10, <1>11, <1>12 DEF SInv

LEMMA AutoCancelEndsKeeps ==
    ASSUME SInv, NEW w \in Workers, AutoCancelEnds(w)
    PROVE  SInv'
<1>1. /\ Move(w, "autoCancel.run", "done")
      /\ UNCHANGED <<waiting, delayed, reservationVars, shopVars>>
  BY DEF AutoCancelEnds
<1>2. Life!IInv'
  BY <1>1, InboxRests, ShopRests DEF reservationVars, issueVars
<1>3. JobsWereSent' /\ StepOfJob'
  BY <1>1, MoveKept DEF JobOf, JobNames, Steps, shopVars
<1>4. IInv'
  BY <1>1, ReadStep DEF SInv, Steps, ReserveSteps
<1>5. IssueWasAsked'
  BY <1>1, AskedRests DEF reservationVars, shopVars
<1>. QED BY <1>2, <1>3, <1>4, <1>5 DEF SInv

\* A job is taken, completed, tried again, dropped or promoted.
LEMMA QueueStepKeeps ==
    ASSUME SInv, QueueStep
    PROVE  SInv'
<1>1. /\ QueueNext
      /\ UNCHANGED <<reservationVars, doc, ledger, link, sent, printAsked, left, requests>>
  BY DEF QueueStep, Queue
<1>2. Inbox' = Inbox
  BY <1>1, InboxRests DEF reservationVars, issueVars
<1>3. Life!IInv'
  <2>1. CASE run' = run
    BY <1>1, <1>2, <2>1, ShopRests DEF shopVars
  <2>2. CASE run' = [run EXCEPT !["auto"] = Life!Idle]
    <3>1. "auto" \in Life!Callers
      BY DEF Life!Callers, Life!Consumers
    <3>. QED BY <1>1, <1>2, <2>2, <3>1, ShopAssumptions, Life!ForgottenKeeps DEF SInv
  <2>. QED BY <2>1, <2>2, SameShop DEF QueueStep
<1>4. JobsWereSent' /\ StepOfJob'
  BY <1>1, QueueMoves
<1>5. IInv'
  BY <1>1, QueueInv DEF SInv
<1>6. IssueWasAsked'
  BY <1>1, AskedRests DEF reservationVars
<1>. QED BY <1>3, <1>4, <1>5, <1>6 DEF SInv

----------------------------------------------------------------------------
\* The theorems

LEMMA SagaBegins == SagaInit => SInv
<1>. SUFFICES ASSUME SagaInit PROVE SInv
  OBVIOUS
<1>1. IInv
  BY InitInv DEF SagaInit
<1>2. Life!Init
  BY SameShop DEF SagaInit
<1>3. Life!IInv
  BY <1>2, ShopAssumptions, Life!InitInv
<1>4. JobsWereSent /\ StepOfJob
  BY DEF SagaInit, Init, QueueInit, JobsWereSent, QueueWasSent, StepOfJob
<1>5. IssueWasAsked
  BY DEF SagaInit, Init, ReservationInit, IssueWasAsked
<1>. QED BY <1>1, <1>3, <1>4, <1>5 DEF SInv

LEMMA SagaGoesOn == SInv /\ [SagaNext]_sagaVars => SInv'
<1>. SUFFICES ASSUME SInv, [SagaNext]_sagaVars PROVE SInv'
  OBVIOUS
<1>1. CASE ShopStep
  <2>1. PICK p \in Shop!Callers : Shop!HandlerStep(p) \/ Shop!Fail(p)
    BY <1>1 DEF ShopStep
  <2>2. Life!IInv' /\ SentGrows
    BY <2>1, ShopHandlers
  <2>. QED BY <1>1, <2>2, ShopSide DEF ShopStep
<1>2. CASE ShopStart
  <2>1. PICK o \in Orders : Shop!Outside(o)
    BY <1>2 DEF ShopStart
  <2>2. Life!IInv' /\ SentGrows
    BY <2>1, ShopStarts
  <2>. QED BY <1>2, <2>2, ShopSide DEF ShopStart
<1>3. CASE \E w \in Workers : AutoCancelBegins(w) \/ AutoCancelEnds(w)
  BY <1>3, AutoCancelBeginsKeeps, AutoCancelEndsKeeps
<1>4. CASE QueueStep
  BY <1>4, QueueStepKeeps
<1>5. CASE Warehouse
  BY <1>5, WarehouseHandlers, FloorKeeps DEF Warehouse, WarehouseNext
<1>6. CASE UNCHANGED sagaVars
  <2>1. UNCHANGED <<active, step, reservationVars, waiting, delayed, shopVars>>
    BY <1>6 DEF sagaVars, vars, queueVars
  <2>2. Posted /\ sent' = sent
    BY <2>1 DEF Posted, shopVars
  <2>3. Life!IInv'
    BY <2>1, InboxRests, ShopRests DEF reservationVars, issueVars
  <2>. QED BY <2>1, <2>2, <2>3, ShopSide, SentRests
<1>. QED BY <1>1, <1>2, <1>3, <1>4, <1>5, <1>6 DEF SagaNext

LEMMA SagaInvariance == SagaSpec => []SInv
BY SagaBegins, SagaGoesOn, PTL DEF SagaSpec

\* What a verdict of the warehouse that the shop has heard says of the ledger.
LEMMA HeardIsBooked ==
    ASSUME SInv, NEW o \in Orders, "stock.reserved" \in Inbox[o]
    PROVE  reserveMv[o] = Need[o]
<1>1. "stock.reserved" \in replies[o]
  BY DEF Inbox
<1>. QED BY <1>1 DEF SInv, IInv, ReplyTruthful

\* No goods issue leaves the shelf for an order that is not paid for, or, for COD,
\* neither paid by half nor reserved: whatever is retried, lost or handled twice
\* between OrderService.handlePaymentSucceeded and IssueService.createFromOrder.
THEOREM IssuedIsAlwaysEarned == SagaSpec => []IssuedIsEarned
<1>1. SInv => IssuedIsEarned
  <2>. SUFFICES ASSUME SInv, NEW o \in Orders, issue[o] # "none"
       PROVE  IF doc[o].method = "ONLINE" THEN Shop!Collected(o) >= 99
              ELSE reserveMv[o] = Need[o] \/ Shop!Collected(o) >= 49
    BY DEF IssuedIsEarned
  <2>1. IF doc[o].method = "ONLINE" \/ doc[o].prints
        THEN Life!Collected(o) >= 99
        ELSE "stock.reserved" \in Inbox[o] \/ Life!Collected(o) >= 49
    BY DEF SInv, IssueWasAsked, Life!IInv, Life!ReadyIsEarned
  <2>2. Life!Collected(o) \in Nat
    BY ShopAssumptions, Life!CollectedNat DEF SInv, Life!IInv, Life!TypeOK
  <2>3. Shop!Collected(o) = Life!Collected(o)
    BY SameShop
  <2>. QED BY <2>1, <2>2, <2>3, HeardIsBooked
<1>. QED BY <1>1, SagaInvariance, PTL

\* An order that is CONFIRMED before anything was paid is a COD order, and every
\* line of it is in the stock ledger: ReservationService.reserveForOrder replies
\* only after its transaction, whatever ReserveConsumer and the deadline do.
THEOREM ConfirmedIsAlwaysReserved == SagaSpec => []ConfirmedWasReserved
<1>1. SInv => ConfirmedWasReserved
  <2>. SUFFICES ASSUME SInv, NEW o \in Orders,
                       doc[o].status = "CONFIRMED", Shop!Collected(o) = 0
       PROVE  doc[o].method = "COD" /\ reserveMv[o] = Need[o]
    BY DEF ConfirmedWasReserved
  <2>1. Life!Backed(doc[o], o)
    BY DEF SInv, Life!IInv, Life!OrderOK
  <2>2. Life!Collected(o) = 0
    BY SameShop
  <2>3. doc[o].method = "COD" /\ "stock.reserved" \in Inbox[o]
    BY <2>1, <2>2 DEF Life!Backed
  <2>. QED BY <2>3, HeardIsBooked
<1>. QED BY <1>1, SagaInvariance, PTL

\* Joined to the real shop, whose jobs come late, twice or never, the warehouse
\* promises what it promises to anyone who sends jobs; and the shop, which hears of
\* it through two queues, keeps what it keeps on its own.
THEOREM PartsStaySafe ==
    SagaSpec => [](/\ NoOversell /\ AllOrNothing /\ ReplyTruthful
                   /\ Life!PaidIsBacked /\ Life!ReadyIsEarned /\ Life!CodClosedIsCollected)
<1>1. ASSUME SInv
      PROVE  /\ NoOversell /\ AllOrNothing /\ ReplyTruthful
             /\ Life!PaidIsBacked /\ Life!ReadyIsEarned /\ Life!CodClosedIsCollected
  <2>1. NoOversell /\ AllOrNothing /\ ReplyTruthful
    BY <1>1 DEF SInv, IInv
  <2>2. Life!ReadyIsEarned /\ \A o \in Orders : Life!Backed(doc[o], o)
    BY <1>1 DEF SInv, Life!IInv, Life!OrderOK
  <2>. QED BY <2>1, <2>2 DEF Life!PaidIsBacked, Life!CodClosedIsCollected, Life!Backed
<1>. QED BY <1>1, SagaInvariance, PTL

=============================================================================
