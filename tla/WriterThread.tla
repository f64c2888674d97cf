---------------------------- MODULE WriterThread ----------------------------
(***************************************************************************)
(* A bounded queue with a thread of its own that stores what it takes from *)
(* the queue in batches: StatePersistenceWorker (the states of a run) and  *)
(* ControllerWriter (its decisions).  An item is the sequence number of    *)
(* its state.  The rows are what SQLite has committed, so that every       *)
(* reachable value of rows is also what a crash leaves behind.             *)
(***************************************************************************)
EXTENDS Integers, Sequences

CONSTANTS
  Capacity,      \* of the queue: 512
  BatchSize,     \* 100
  Finalises      \* whether the thread completes the row of its run

ASSUME WriterAssumption ==
  /\ {Capacity, BatchSize} \subseteq Nat \ {0}
  /\ Finalises \in BOOLEAN

VARIABLES
  thread,        \* where the thread is
  queue,
  batch,         \* taken and not yet stored
  rows           \* stored

writerVars == <<thread, queue, batch, rows>>

Places == {"none",                   \* not started
           "taking", "storing",      \* queue.get(), append of a full batch
           "storing_last",           \* STOP was taken
           "finalising",
           "stopped", "failed"}      \* "failed" holds _error

STOP == 0

Alive == thread \in {"taking", "storing", "storing_last", "finalising"}

Full == Len(queue) >= Capacity

WriterInit == thread = "none" /\ queue = <<>> /\ batch = <<>> /\ rows = <<>>

\* The thread opens the store and the row of the run, or fails to.
Start(ok) ==
  /\ thread = "none"
  /\ thread' = IF ok THEN "taking" ELSE "failed"
  /\ UNCHANGED <<queue, batch, rows>>

Put(item) ==
  /\ ~Full
  /\ queue' = Append(queue, item)
  /\ UNCHANGED <<thread, batch, rows>>

\* A put has waited in vain: for a thread that has ended, or for a slow one.
PutTimesOut(slow) ==
  /\ Full
  /\ ~Alive \/ slow
  /\ UNCHANGED writerVars

\* What is taken joins the batch; STOP ends the taking.
TakeItem(batchAtStop, afterStop) ==
  /\ thread = "taking"
  /\ queue # <<>>
  /\ queue' = Tail(queue)
  /\ IF Head(queue) = STOP
       THEN thread' = afterStop /\ batch' = batchAtStop
       ELSE /\ batch' = Append(batch, Head(queue))
            /\ thread' = IF Len(batch') >= BatchSize THEN "storing" ELSE "taking"
  /\ UNCHANGED rows

\* Mutant: the incomplete batch is forgotten at STOP.
TakeAndForget == TakeItem(<<>>, "storing_last")

\* Mutant: the loop ends at STOP only when there is a batch to store.
TakeAndStay == TakeItem(batch, IF batch = <<>> THEN "taking" ELSE "storing_last")

Take == TakeItem(batch, "storing_last")

\* A batch is stored in one transaction.
Store ==
  /\ thread \in {"storing", "storing_last"}
  /\ rows' = rows \o batch
  /\ batch' = <<>>
  /\ thread' = CASE thread = "storing" -> "taking"
                 [] thread = "storing_last" /\ Finalises -> "finalising"
                 [] OTHER -> "stopped"
  /\ UNCHANGED queue

\* The row of the run is completed.
Finalise == thread = "finalising" /\ thread' = "stopped" /\ UNCHANGED <<queue, batch, rows>>

\* The transaction is rolled back, or the row cannot be completed: the thread
\* ends with an error, and nothing takes from the queue any more.
Fail ==
  /\ \/ thread \in {"storing", "storing_last"} /\ batch # <<>>
     \/ thread = "finalising"
  /\ thread' = "failed"
  /\ UNCHANGED <<queue, batch, rows>>
=============================================================================
