---------------------------- MODULE Transactions ----------------------------
(***************************************************************************)
(* The transactions of MongoDB as the warehouse uses them: withTransaction  *)
(* runs its callback on the snapshot of its first read, every document it   *)
(* writes is its own until it ends, and a callback that met the write of    *)
(* another is run again.  A transaction is the set of documents it writes;  *)
(* it is computed where its snapshot is taken and lands when it commits.    *)
(***************************************************************************)
EXTENDS Naturals

CONSTANT Sessions           \* the handlers that run at once

VARIABLES db,               \* document -> what is committed of it
          tx                \* session -> the handler that runs in it

transactionVars == <<db, tx>>

\* A database once some documents are written, and the write of one.
w ++ d == [x \in DOMAIN w \cup DOMAIN d |-> IF x \in DOMAIN w THEN w[x] ELSE d[x]]
x ::= doc == [y \in {x} |-> doc]

NoJob == [kind |-> "none"]
NoTx == [job |-> NoJob, open |-> FALSE, stale |-> FALSE, writes |-> <<>>]

IsFree(s) == tx[s].job = NoJob
IsReady(s) == ~IsFree(s) /\ ~tx[s].open

\* A handler has read what it needs outside of its transaction.
ReadOutside(s, job) ==
    /\ IsFree(s)
    /\ tx' = [tx EXCEPT ![s] = [NoTx EXCEPT !.job = job]]
    /\ UNCHANGED db

\* A transaction takes its snapshot, and from it everything it will write; a document
\* it only locks is one it writes as it was.
OpenTx(s, job, writes) ==
    /\ IsFree(s) \/ (IsReady(s) /\ tx[s].job = job)
    /\ tx' = [tx EXCEPT ![s] = [job |-> job, open |-> TRUE, stale |-> FALSE, writes |-> writes]]
    /\ UNCHANGED db

Conflicts(s, t) == DOMAIN tx[s].writes \cap DOMAIN tx[t].writes # {}

\* Mutated: the snapshot of the others is not looked at again.
CommitOverwriting(s) ==
    /\ tx[s].open
    /\ db' = tx[s].writes ++ db
    /\ tx' = [tx EXCEPT ![s] = NoTx]

\* The first to commit wins: the others that write a document of it conflict.
CommitTx(s) ==
    /\ tx[s].open /\ ~tx[s].stale
    /\ db' = tx[s].writes ++ db
    /\ tx' = [t \in Sessions |->
                 IF t = s THEN NoTx
                 ELSE IF tx[t].open /\ Conflicts(s, t) THEN [tx[t] EXCEPT !.stale = TRUE]
                 ELSE tx[t]]

\* A conflict: the callback is run again, with what its handler read before.
RetryTx(s) ==
    /\ tx[s].open /\ tx[s].stale
    /\ tx' = [tx EXCEPT ![s] = [NoTx EXCEPT !.job = tx[s].job]]
    /\ UNCHANGED db

\* The handler is refused by a rule it meets, or dies: nothing of it is committed.
AbandonTx(s) ==
    /\ ~IsFree(s)
    /\ tx' = [tx EXCEPT ![s] = NoTx]
    /\ UNCHANGED db
=============================================================================
