---------------------------- MODULE Transactions ----------------------------
(* Database (db/connection.py): one SQLite connection for every task of the      *)
(* process. Statements queue for the driver's thread; a transaction is BEGIN,    *)
(* some of them, and COMMIT or ROLLBACK, under a lock; a statement outside a     *)
(* transaction takes no lock. A task may be cancelled at any wait: a tool's time *)
(* limit (tools/registry.py), a loop that is stopped (infra/tasks.py).           *)
(* A crash leaves what `file` holds.                                             *)
EXTENDS Naturals, Sequences, FiniteSets, SequencesExt

CONSTANTS Tasks, NoTask,
          Bare,        \* the tasks that run one statement outside a transaction
          Nesting,     \* the tasks that open a transaction inside their own
          MaxGiveUps, MaxErrors

ASSUME TransactionsAssumption ==
  /\ NoTask \notin Tasks /\ Bare \subseteq Tasks /\ Nesting \subseteq Tasks \ Bare
  /\ MaxGiveUps \in Nat /\ MaxErrors \in Nat

InTransactions == Tasks \ Bare

\* A transaction writes two rows, one after the other.
Rows(t) == IF t \in Bare THEN {<<t, "second">>} ELSE {<<t, "first">>, <<t, "second">>}

Waits == {"begin", "first", "second", "commit", "rollback"}

VARIABLES
  file, live,   \* the rows the file holds, and the rows the connection sees
  open,         \* the connection is in a transaction
  driver,       \* the statements waiting for the driver's thread
  lock, queue,  \* the transaction lock
  at,           \* what each task waits for
  answer,       \* what its statement came to
  outcome,      \* what it tells its caller once its transaction is over
  told,         \* what its caller was told
  within,       \* history: a BEGIN met an open transaction
  giveUps, errors

database == <<file, live, open>>
locks == <<lock, queue>>
vars == <<database, driver, locks, at, answer, outcome, told, within, giveUps, errors>>

Init ==
  /\ file = {} /\ live = {} /\ open = FALSE /\ driver = <<>>
  /\ lock = NoTask /\ queue = <<>>
  /\ at = [t \in Tasks |-> "new"] /\ answer = [t \in Tasks |-> "none"]
  /\ outcome = [t \in Tasks |-> "ok"] /\ told = [t \in Tasks |-> "nothing"]
  /\ within = FALSE /\ giveUps = 0 /\ errors = 0

----------------------------------------------------------------------------
(* The driver: one statement at a time, in the order they were sent, whoever still waits for it. *)

\* Each statement is answered for itself: whoever was cancelled while it was under way no longer waits for it.
Answered(t, statement, what) == answer' = [answer EXCEPT ![t] = IF at[t] = statement THEN what ELSE @]

Begun(t) ==
  /\ open' = TRUE /\ within' = (within \/ open) /\ UNCHANGED <<file, live, errors>>
  /\ Answered(t, "begin", IF open THEN "error" ELSE "ok")

\* Outside a transaction a statement is its own.
Written(t, statement) ==
  /\ \/ live' = live \cup {<<t, statement>>} /\ file' = (IF open THEN file ELSE live') /\ UNCHANGED errors
        /\ Answered(t, statement, "ok")
     \/ errors < MaxErrors /\ errors' = errors + 1 /\ UNCHANGED <<live, file>> /\ Answered(t, statement, "error")
  /\ UNCHANGED <<open, within>>

\* A COMMIT that fails (a full disk) leaves the transaction open.
Committed(t) ==
  /\ \/ file' = live /\ open' = FALSE /\ UNCHANGED errors /\ Answered(t, "commit", "ok")
     \/ errors < MaxErrors /\ errors' = errors + 1 /\ UNCHANGED <<file, open>> /\ Answered(t, "commit", "error")
  /\ UNCHANGED <<live, within>>

RolledBack(t) ==
  live' = file /\ open' = FALSE /\ UNCHANGED <<file, within, errors>> /\ Answered(t, "rollback", "ok")

Execute ==
  /\ driver # <<>> /\ driver' = Tail(driver)
  /\ LET t == Head(driver).task  statement == Head(driver).statement
     IN  CASE statement = "begin" -> Begun(t)
           [] statement \in {"first", "second"} -> Written(t, statement)
           [] statement = "commit" -> Committed(t)
           [] statement = "rollback" -> RolledBack(t)
  /\ UNCHANGED <<locks, at, outcome, told, giveUps>>

----------------------------------------------------------------------------
(* The tasks. *)

\* A statement is sent before anything is waited for.
Send(t, statement) ==
  /\ driver' = Append(driver, [task |-> t, statement |-> statement])
  /\ at' = [at EXCEPT ![t] = statement] /\ answer' = [answer EXCEPT ![t] = "none"]
  /\ UNCHANGED <<outcome, told>>

Tell(t, what) ==
  /\ told' = [told EXCEPT ![t] = what] /\ at' = [at EXCEPT ![t] = "done"]
  /\ answer' = [answer EXCEPT ![t] = "none"] /\ UNCHANGED <<driver, outcome>>

Release == IF queue = <<>> THEN lock' = NoTask /\ UNCHANGED queue ELSE lock' = Head(queue) /\ queue' = Tail(queue)

\* `async with self._tx_lock`: the task has the lock, or waits its turn.
Lock(t) ==
  /\ IF lock = NoTask THEN lock' = t /\ UNCHANGED queue ELSE queue' = Append(queue, t) /\ UNCHANGED lock
  /\ at' = [at EXCEPT ![t] = "lock"] /\ UNCHANGED <<driver, answer, outcome, told>>

\* Mutant: a transaction joins the one that is open, whoever opened it.
EnterJoining(t) == IF open THEN Send(t, "first") /\ UNCHANGED locks ELSE Lock(t)

Enter(t) == Lock(t)

Call(t) ==
  /\ at[t] = "new"
  /\ IF t \in Bare THEN Send(t, "second") /\ UNCHANGED locks ELSE Enter(t)
  /\ UNCHANGED <<database, within, giveUps, errors>>

BeginWhenLocked(t) == at[t] = "lock" /\ lock = t /\ Send(t, "begin") /\ UNCHANGED locks

\* The block ends with an exception: the transaction is rolled back.
Undo(t, what) ==
  /\ driver' = Append(driver, [task |-> t, statement |-> "rollback"]) /\ at' = [at EXCEPT ![t] = "rollback"]
  /\ outcome' = [outcome EXCEPT ![t] = what] /\ answer' = [answer EXCEPT ![t] = "none"] /\ UNCHANGED told

\* Mutant: a transaction inside a transaction waits for the lock.
InnerWaits(t) == Lock(t)

\* A transaction inside a transaction of the same task is refused at once.
Inner(t) == Undo(t, "failed") /\ UNCHANGED locks

Over(t) == Release /\ Tell(t, outcome[t])
Fails(t) == Release /\ Tell(t, "failed")

\* Mutant: an error of the last write is not one of the block.
LastAnswered(t) == UNCHANGED locks /\ IF t \in Bare THEN Tell(t, "ok") ELSE Send(t, "commit")

\* The task goes on with the answer.
SecondAnswered(t) ==
  \/ t \in Bare /\ Tell(t, IF answer[t] = "ok" THEN "ok" ELSE "failed") /\ UNCHANGED locks
  \/ t \notin Bare /\ answer[t] = "ok" /\ Send(t, "commit") /\ UNCHANGED locks
  \/ t \notin Bare /\ answer[t] = "error" /\ Undo(t, "failed") /\ UNCHANGED locks

Resume(t) ==
  /\ \/ BeginWhenLocked(t)
     \/ at[t] = "begin" /\ answer[t] = "ok" /\ Send(t, "first") /\ UNCHANGED locks
     \/ at[t] = "begin" /\ answer[t] = "error" /\ Fails(t)
     \/ at[t] = "first" /\ answer[t] = "ok" /\ t \in Nesting /\ Inner(t)
     \/ at[t] = "first" /\ answer[t] = "ok" /\ t \notin Nesting /\ Send(t, "second") /\ UNCHANGED locks
     \/ at[t] = "first" /\ answer[t] = "error" /\ Undo(t, "failed") /\ UNCHANGED locks
     \/ at[t] = "second" /\ answer[t] # "none" /\ SecondAnswered(t)
     \/ at[t] = "commit" /\ answer[t] = "ok" /\ Over(t)
     \/ at[t] = "commit" /\ answer[t] = "error" /\ Fails(t)
     \/ at[t] = "rollback" /\ answer[t] # "none" /\ Over(t)
  /\ UNCHANGED <<database, within, giveUps, errors>>

\* Cancelled between its writes, a task rolls back; while BEGIN, COMMIT or ROLLBACK is under way, it lets go
\* of the lock and the statement is executed all the same.
Cancelled(t) ==
  \/ t \in Bare /\ Tell(t, "given up") /\ UNCHANGED locks
  \/ t \notin Bare /\ at[t] \in {"first", "second"} /\ Undo(t, "given up") /\ UNCHANGED locks
  \/ t \notin Bare /\ at[t] \in {"begin", "commit", "rollback"} /\ Release /\ Tell(t, "given up")
  \/ at[t] = "lock" /\ lock = t /\ Release /\ Tell(t, "given up")
  \/ /\ at[t] = "lock" /\ lock # t /\ UNCHANGED lock /\ Tell(t, "given up")
     /\ \E i \in DOMAIN queue : queue[i] = t /\ queue' = RemoveAt(queue, i)

GiveUp(t) ==
  /\ at[t] \notin {"new", "done"} /\ giveUps < MaxGiveUps /\ giveUps' = giveUps + 1 /\ Cancelled(t)
  /\ UNCHANGED <<database, within, errors>>

Next == Execute \/ \E t \in Tasks : Call(t) \/ Resume(t) \/ GiveUp(t)

\* The driver's thread and the event loop go on.
Spec == Init /\ [][Next]_vars /\ WF_vars(Execute) /\ \A t \in Tasks : WF_vars(Resume(t))

----------------------------------------------------------------------------

TypeOK ==
  /\ live \subseteq UNION {Rows(t) : t \in Tasks} /\ file \subseteq live /\ open \in BOOLEAN
  /\ driver \in Seq([task : Tasks, statement : Waits]) /\ lock \in Tasks \cup {NoTask} /\ queue \in Seq(Tasks)
  /\ at \in [Tasks -> Waits \cup {"new", "lock", "done"}] /\ answer \in [Tasks -> {"none", "ok", "error"}]
  /\ told \in [Tasks -> {"nothing", "ok", "failed", "given up"}] /\ outcome \in [Tasks -> {"ok", "failed", "given up"}]
  /\ \A t \in InTransactions : at[t] \in Waits => lock = t
  /\ giveUps \in 0..MaxGiveUps /\ errors \in 0..MaxErrors

\* What is not yet in the file is of one transaction at most (with the statements of others that take no
\* lock): two transactions never share a COMMIT or a ROLLBACK, whoever is cancelled and whatever fails.
Alone == Cardinality({t \in InTransactions : Rows(t) \cap (live \ file) # {}}) <= 1

\* Nobody waits for a lock that nobody will pass on: it is held by a task that is not over, and whoever else
\* waits for it is in its queue, once.
InTurn ==
  /\ lock = NoTask => queue = <<>>
  /\ lock # NoTask => at[lock] \in Waits \cup {"lock"}
  /\ \A t \in Tasks : at[t] = "lock" /\ lock # t => \E i \in DOMAIN queue : queue[i] = t
  /\ \A i \in DOMAIN queue : at[queue[i]] = "lock" /\ queue[i] # lock
  /\ IsInjective(queue)

\* The database, the lock and the tasks are of their types, transactions are one at a time, and the lock is
\* passed on whoever is cancelled.
OneAtATime == TypeOK /\ Alone /\ InTurn

\* A transaction reaches the file whole, before its caller is told so and never after its caller was told
\* that it failed (`transaction`: "Commits on success, rolls back on any exception").
Atomic == INSTANCE AtomicWrites WITH Transactions <- InTransactions
Whole == Atomic!AtomicWritesSpec

\* Whoever calls is answered: the lock is passed on, and a nested call fails instead of waiting for itself.
Answers == \A t \in Tasks : (at[t] # "new") ~> (at[t] = "done")

\* No BEGIN meets a transaction that is still open (`transaction`: the lock "is the only place the invariant
\* can live"). A task cancelled while its BEGIN is under way breaks it, for good.
BeginAlone == ~within
=============================================================================
