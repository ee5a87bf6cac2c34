---------------------------- MODULE OrderQueue ----------------------------
(***************************************************************************)
(* The BullMQ queue `order-queue` and the four workers that listen on it:  *)
(* ReserveConsumer (e-commerce), ReservationConsumer, OrderReadyConsumer   *)
(* and OrderReturnedConsumer (warehouse).  BullMQ workers compete: a job   *)
(* goes to exactly one of them, whichever is free, whatever its name.  A   *)
(* worker runs one job at a time (the library's default concurrency) and   *)
(* there is one process of each application.                               *)
(*                                                                         *)
(* A handler is a sequence of steps, named by step[w]; the modules that    *)
(* extend this one give the steps.  A handler may throw, or its process    *)
(* die, before or after any of its steps: the job is then retried after a  *)
(* back-off, or dropped when its attempts are used up.                     *)
(***************************************************************************)
EXTENDS Integers, Sequences

CONSTANTS Orders,        \* the orders (their ids)
          MaxAttempts,   \* how often a job is tried before it is dropped
          NoJob          \* what an idle worker is running

JobNames == {"auto.cancel", "stock.reserve_requested", "order.cancelled",
             "order.ready_to_fulfill", "order.returned"}

Job == [name : JobNames, order : Orders, attempt : 1..MaxAttempts]

Workers == {"ReserveConsumer", "ReservationConsumer",
            "OrderReadyConsumer", "OrderReturnedConsumer"}

ASSUME QueueAssumption ==
    /\ MaxAttempts \in Nat \ {0}    \* a job is tried at least once
    /\ NoJob \notin Job             \* being idle is not a job

\* The steps a handler can be at: "idle" with no job, "done" once its process()
\* has returned and BullMQ is about to mark the job completed.
Steps == {"idle", "done", "autoCancel.check", "autoCancel.run",
          "reserve.check", "reserve.txn", "reserve.ok", "reserve.failed",
          "release.check", "release.txn", "issue.check", "issue.create",
          "return.create"}

\* The switch(job.name) of each worker's process(): the first step of the
\* handler, or "done" for a name that falls through to the default branch.
Entry(w, name) ==
    IF w = "ReserveConsumer" /\ name = "auto.cancel" THEN "autoCancel.check"
    ELSE IF w = "ReservationConsumer" /\ name = "stock.reserve_requested" THEN "reserve.check"
    ELSE IF w = "ReservationConsumer" /\ name = "order.cancelled" THEN "release.check"
    ELSE IF w = "OrderReadyConsumer" /\ name = "order.ready_to_fulfill" THEN "issue.check"
    ELSE IF w = "OrderReturnedConsumer" /\ name = "order.returned" THEN "return.create"
    ELSE "done"

\* Does worker w do anything with job j?
Handles(w, j) == Entry(w, j.name) # "done"

VARIABLES waiting,  \* the jobs ready to be taken, first in first out
          delayed,  \* how many copies of each job wait for a back-off or a delay
          active,   \* the job each worker is running, or NoJob
          step      \* the step its handler is at

queueVars == <<waiting, delayed, active, step>>

QueueTypeOK ==
    /\ waiting \in Seq(Job)
    /\ delayed \in [Job -> Nat]
    /\ active \in [Workers -> Job \cup {NoJob}]
    /\ step \in [Workers -> Steps]

QueueInit ==
    /\ waiting = <<>>
    /\ delayed = [j \in Job |-> 0]
    /\ active = [w \in Workers |-> NoJob]
    /\ step = [w \in Workers |-> "idle"]

NewJob(name, o) == [name |-> name, order |-> o, attempt |-> 1]

\* queue.add(name, {orderId: o}); the jobs carry no id of their own, so two
\* calls make two jobs.
Add(name, o) == waiting' = Append(waiting, NewJob(name, o))

\* queue.add(name, {orderId: o}, {delay})
AddDelayed(name, o) ==
    delayed' = [delayed EXCEPT ![NewJob(name, o)] = @ + 1]

\* A free worker is handed the job at the head of the queue.
Take(w) ==
    /\ active[w] = NoJob
    /\ waiting # <<>>
    /\ active' = [active EXCEPT ![w] = Head(waiting)]
    /\ step' = [step EXCEPT ![w] = Entry(w, Head(waiting).name)]
    /\ waiting' = Tail(waiting)
    /\ UNCHANGED delayed

\* The delay of a job runs out.
Promote(j) ==
    /\ delayed[j] > 0
    /\ delayed' = [delayed EXCEPT ![j] = @ - 1]
    /\ waiting' = Append(waiting, j)
    /\ UNCHANGED <<active, step>>

Idle(w) ==
    /\ active' = [active EXCEPT ![w] = NoJob]
    /\ step' = [step EXCEPT ![w] = "idle"]

\* process() returned: the job is completed and will never be handed out again.
Complete(w) ==
    /\ active[w] # NoJob
    /\ step[w] = "done"
    /\ Idle(w)
    /\ UNCHANGED <<waiting, delayed>>

NextTry(j) == [name |-> j.name, order |-> j.order, attempt |-> j.attempt + 1]

\* The handler throws, or its process dies, at whatever step it is.
Retry(w) ==
    /\ active[w] # NoJob
    /\ delayed' = IF active[w].attempt < MaxAttempts
                  THEN [delayed EXCEPT ![NextTry(active[w])] = @ + 1]
                  ELSE delayed
    /\ Idle(w)
    /\ UNCHANGED waiting

\* The handler of worker w moves from one step to the next.
Move(w, from, to) ==
    /\ step[w] = from
    /\ step' = [step EXCEPT ![w] = to]
    /\ UNCHANGED active

QueueNext ==
    \/ \E w \in Workers : Take(w) \/ Complete(w) \/ Retry(w)
    \/ \E j \in Job : Promote(j)

\* The workers poll and the timers fire: every job that can be taken, promoted
\* or completed eventually is.  That a handler throws is never promised.
QueueFairness ==
    /\ \A w \in Workers : WF_queueVars(Take(w)) /\ WF_queueVars(Complete(w))
    /\ \A j \in Job : WF_queueVars(Promote(j))

\* Every worker on the queue handles the jobs it is given: a name that falls
\* through its switch was not meant for anyone else.
NoJobIgnored ==
    [][\A w \in Workers : Complete(w) => Handles(w, active[w])]_queueVars

=============================================================================
