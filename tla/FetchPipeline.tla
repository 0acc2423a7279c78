---------------------------- MODULE FetchPipeline ----------------------------
(* SyncEngine._fetch_pipeline and the loop of _fetch_and_store that consumes it *)
(* (sync/engine.py): workers that share one iterator and a bounded queue of      *)
(* results, one consumer that stores, a pill of each worker as it ends.          *)
(* A worker runs until it has to wait, so an action is what happens between two  *)
(* waits.                                                                        *)
EXTENDS Naturals, Sequences, FiniteSets

CONSTANTS Items, Concurrency,
          GiveUp,       \* MAX_CONSECUTIVE_DEVICE_ERRORS
          Cancels       \* whether the pass may be cancelled

ASSUME PipelineAssumption == Items \in Nat /\ Concurrency \in Nat \ {0} /\ GiveUp \in Nat \ {0} /\ Cancels \in BOOLEAN

Workers == 1..Concurrency
Pill == 0
Result == [item : 1..Items, retryable : BOOLEAN]
PillResult == [item |-> Pill, retryable |-> FALSE]

VARIABLES
  pending,      \* the shared iterator: the next item
  worker,       \* where each worker waits, and for what
  results,      \* the queue of results, no longer than Concurrency
  pills,        \* finished: the pills that were read
  consecutive,  \* retryable failures in a row
  consumer,     \* the consuming pass: getting, storing, closing the pipeline, or over
  delivered,    \* history: what was handed to the consumer, in its order
  ended,        \* history: how the pass ended
  raced         \* history: the cancellation arrived together with a result

vars == <<pending, worker, results, pills, consecutive, consumer, delivered, ended, raced>>

Waiting(at) == [at |-> at, result |-> PillResult]

Init ==
  /\ pending = 1 /\ worker = [w \in Workers |-> Waiting("new")] /\ results = <<>> /\ pills = 0
  /\ consecutive = 0 /\ consumer = "get" /\ delivered = <<>> /\ ended = "no" /\ raced = FALSE

\* The queue has room for one more.
Room(queue) == Len(queue) < Concurrency

\* Mutants: a worker without an item ends without a pill; the iterator is read and moved on in two steps.
GoesQuietly(w, queue) ==
  /\ results' = queue
  /\ IF pending <= Items
     THEN /\ pending' = pending + 1
          /\ worker' = [worker EXCEPT ![w] = [at |-> "fetch", result |-> [item |-> pending, retryable |-> FALSE]]]
     ELSE UNCHANGED pending /\ worker' = [worker EXCEPT ![w] = Waiting("gone")]
GoesTwice(w, queue) ==
  IF pending <= Items
  THEN /\ pending' \in {pending, pending + 1} /\ results' = queue
       /\ worker' = [worker EXCEPT ![w] = [at |-> "fetch", result |-> [item |-> pending, retryable |-> FALSE]]]
  ELSE /\ UNCHANGED pending
       /\ IF Room(queue)
          THEN results' = Append(queue, PillResult) /\ worker' = [worker EXCEPT ![w] = Waiting("gone")]
          ELSE results' = queue /\ worker' = [worker EXCEPT ![w] = Waiting("pill")]

\* A worker goes on with the next item; without one it puts its pill, which may have to wait.
Goes(w, queue) ==
  IF pending <= Items
  THEN /\ pending' = pending + 1 /\ results' = queue
       /\ worker' = [worker EXCEPT ![w] = [at |-> "fetch", result |-> [item |-> pending, retryable |-> FALSE]]]
  ELSE /\ UNCHANGED pending
       /\ IF Room(queue)
          THEN results' = Append(queue, PillResult) /\ worker' = [worker EXCEPT ![w] = Waiting("gone")]
          ELSE results' = queue /\ worker' = [worker EXCEPT ![w] = Waiting("pill")]

Unchanged == UNCHANGED <<pills, consecutive, consumer, delivered, ended, raced>>

StartWorker(w) == worker[w].at = "new" /\ Goes(w, results) /\ Unchanged

\* The fetch answers, if only with a timeout; the result is put, which may have to wait.
Fetched(w) ==
  /\ worker[w].at = "fetch"
  /\ \E retryable \in BOOLEAN :
       LET result == [worker[w].result EXCEPT !.retryable = retryable]
       IN  IF Room(results) THEN Goes(w, Append(results, result))
           ELSE /\ worker' = [worker EXCEPT ![w] = [at |-> "put", result |-> result]]
                /\ UNCHANGED <<pending, results>>
  /\ Unchanged

\* A put that waited for room.
Put(w) ==
  /\ worker[w].at = "put" /\ Room(results)
  /\ Goes(w, Append(results, worker[w].result)) /\ Unchanged

PutPill(w) ==
  /\ worker[w].at = "pill" /\ Room(results)
  /\ results' = Append(results, PillResult) /\ worker' = [worker EXCEPT ![w] = Waiting("gone")]
  /\ UNCHANGED pending /\ Unchanged

\* What a cancelled worker does: it leaves its wait and puts its pill in the `finally`; one that has
\* not run, or was putting the pill, is gone.
Cancelled == [w \in Workers |-> IF worker[w].at \in {"fetch", "put"} THEN Waiting("pill") ELSE Waiting("gone")]

\* Mutant: the pipeline ends with the first worker that does.
ReadFirstPill ==
  /\ consumer = "get" /\ results # <<>> /\ Head(results) = PillResult
  /\ results' = Tail(results) /\ pills' = pills + 1 /\ consumer' = "over" /\ ended' = "all"
  /\ UNCHANGED <<pending, worker, consecutive, delivered, raced>>

\* The pipeline ends when every worker has; there is nobody left to cancel.
ReadPill ==
  /\ consumer = "get" /\ results # <<>> /\ Head(results) = PillResult
  /\ results' = Tail(results) /\ pills' = pills + 1
  /\ IF pills' = Concurrency THEN consumer' = "over" /\ ended' = "all" ELSE UNCHANGED <<consumer, ended>>
  /\ UNCHANGED <<pending, worker, consecutive, delivered, raced>>

\* A result is stored, unless it is one device error too many: then the consumer returns out of its loop
\* and the pipeline is closed later, by the event loop (`Finalize`).
ReadResult ==
  /\ consumer = "get" /\ results # <<>> /\ Head(results) # PillResult
  /\ results' = Tail(results)
  /\ consecutive' = IF Head(results).retryable THEN consecutive + 1 ELSE 0
  /\ delivered' = Append(delivered, Head(results).item)
  /\ consumer' = IF consecutive' >= GiveUp THEN "giving up" ELSE "store"
  /\ UNCHANGED <<pending, worker, pills, ended, raced>>

\* The shot is stored, or the failure written down.
Stored ==
  /\ consumer = "store" /\ consumer' = "get"
  /\ UNCHANGED <<pending, worker, results, pills, consecutive, delivered, ended, raced>>

\* The pass goes on without the pipeline; the generator is left behind.
GivesUp ==
  /\ consumer = "giving up" /\ consumer' = "abandoned" /\ ended' = "gave up"
  /\ UNCHANGED <<pending, worker, results, pills, consecutive, delivered, raced>>

\* The event loop closes the generator that was left behind.
Finalize ==
  /\ consumer = "abandoned" /\ consumer' = "over" /\ worker' = Cancelled
  /\ UNCHANGED <<pending, results, pills, consecutive, delivered, ended, raced>>

\* The engine is stopped while the pass waits for a result: the generator closes itself first.
CancelWhileGetting ==
  /\ Cancels /\ consumer = "get" /\ consumer' = "closing" /\ worker' = Cancelled
  /\ raced' = (results # <<>>)
  /\ UNCHANGED <<pending, results, pills, consecutive, delivered, ended>>

Closed ==
  /\ consumer = "closing" /\ \A w \in Workers : worker[w].at = "gone"
  /\ consumer' = "over" /\ ended' = "cancelled"
  /\ UNCHANGED <<pending, worker, results, pills, consecutive, delivered, raced>>

\* The engine is stopped while the pass stores.
CancelWhileStoring ==
  /\ Cancels /\ consumer = "store" /\ consumer' = "abandoned" /\ ended' = "cancelled"
  /\ UNCHANGED <<pending, worker, results, pills, consecutive, delivered, raced>>

Work(w) == StartWorker(w) \/ Fetched(w) \/ Put(w) \/ PutPill(w)
Consume == ReadPill \/ ReadResult \/ Stored \/ GivesUp \/ Finalize \/ Closed
Next == (\E w \in Workers : Work(w)) \/ Consume \/ CancelWhileGetting \/ CancelWhileStoring

\* The event loop runs every task that can run, and a fetch answers or times out. Nobody has to cancel.
Spec == Init /\ [][Next]_vars /\ WF_vars(Consume) /\ \A w \in Workers : WF_vars(Work(w))

----------------------------------------------------------------------------

TypeOK ==
  /\ pending \in 1..(Items + 1) /\ results \in Seq(Result \cup {PillResult}) /\ Len(results) <= Concurrency
  /\ worker \in [Workers -> [at : {"new", "fetch", "put", "pill", "gone"}, result : Result \cup {PillResult}]]
  /\ pills \in 0..Concurrency /\ consecutive \in 0..GiveUp
  /\ consumer \in {"get", "store", "giving up", "abandoned", "closing", "over"}
  /\ delivered \in Seq(1..Items) /\ ended \in {"no", "all", "gave up", "cancelled"} /\ raced \in BOOLEAN

\* No shot is lost between the workers and the consumer, and none is handed over twice: the pipeline
\* delivers as ShotDelivery says (`_fetch_pipeline`, the shared iterator).
Delivery == INSTANCE ShotDelivery
Delivers == Delivery!DeliverySpec

\* Every pass ends, whoever waits for whom: the consumer for a result, the workers for room. Only a
\* cancellation in the very turn in which a result arrives may find the queue full.
PassEnds == <>(ended # "no" \/ raced)

\* A pipeline that was read to its end leaves nothing behind: no worker, no result, no item. (One that was
\* given up may: its workers wait for room in a queue that nobody reads.)
NobodyLeft == ended = "all" => /\ \A w \in Workers : worker[w].at = "gone"
                               /\ results = <<>> /\ pending = Items + 1

\* The queue never holds more than it has room for while the pass runs, and nothing is left after it.
PipelineOK == TypeOK /\ NobodyLeft
=============================================================================
