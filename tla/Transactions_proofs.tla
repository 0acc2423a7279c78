------------------------ MODULE Transactions_proofs ------------------------
(***************************************************************************)
(* The properties of Transactions for every set of tasks and any number of *)
(* cancellations and errors.  The inductive invariant has two halves that  *)
(* do not need each other: who holds the lock and who waits for it, and    *)
(* what the statements that are still under way may do to the database.    *)
(***************************************************************************)
EXTENDS Transactions, TLAPS, SequenceTheorems, FiniteSetTheorems

BareRows == {<<t, "second">> : t \in Bare}

\* Where a task may be while a statement of its is under way: one that was cancelled has gone on.
Still(statement) ==
  IF statement \in {"first", "second"} THEN {statement, "rollback", "done"} ELSE {statement, "done"}

\* A transaction that may still change the database: it has begun, and its COMMIT or ROLLBACK is not executed.
Active(t) ==
  /\ t \in InTransactions
  /\ \/ at[t] \in {"first", "second"}
     \/ at[t] = "begin" /\ answer[t] = "ok"
     \/ \E i \in 1..Len(driver) : driver[i].task = t /\ driver[i].statement # "begin"

Dirty(t) == t \in InTransactions /\ Rows(t) \cap (live \ file) # {}

-----------------------------------------------------------------------------
\* The lock is that of the transaction whose statements are sent, and never a bare statement's.
LockInv ==
  /\ lock \in (Tasks \ Bare) \cup {NoTask} /\ queue \in Seq(Tasks)
  /\ \A t \in InTransactions : at[t] \in Waits => lock = t
  /\ \A t \in Bare : at[t] \in {"new", "second", "done"}
  /\ InTurn

Types ==
  /\ live \subseteq UNION {Rows(t) : t \in Tasks} /\ file \subseteq live /\ open \in BOOLEAN
  /\ driver \in Seq([task : Tasks, statement : Waits])
  /\ at \in [Tasks -> Waits \cup {"new", "lock", "done"}] /\ answer \in [Tasks -> {"none", "ok", "error"}]
  /\ told \in [Tasks -> {"nothing", "ok", "failed", "given up"}] /\ outcome \in [Tasks -> {"ok", "failed", "given up"}]
  /\ giveUps \in 0..MaxGiveUps /\ errors \in 0..MaxErrors
  /\ \A t \in Bare : at[t] \in {"new", "second", "done"}

\* A task has one statement under way, or a write it was cancelled in and the ROLLBACK behind it.
Sent ==
  /\ \A i \in 1..Len(driver) :
       /\ at[driver[i].task] \in Still(driver[i].statement)
       /\ answer[driver[i].task] = "none"
       /\ driver[i].task \in Bare => driver[i].statement = "second"
  /\ \A i, j \in 1..Len(driver) : i < j /\ driver[i].task = driver[j].task =>
       driver[i].statement \in {"first", "second"} /\ driver[j].statement = "rollback"

\* The open transaction is one task's.
Owned ==
  /\ \A t \in Tasks : Active(t) => open /\ live \ file \subseteq Rows(t) \cup BareRows
  /\ \A t, u \in Tasks : Active(t) /\ Active(u) => t = u

\* Without a transaction nothing is outside the file; with one, only its rows are.
Clean ==
  /\ ~open => live = file
  /\ \A t, u \in Tasks : Dirty(t) /\ Dirty(u) => t = u

\* What a transaction was told is written is.
Kept ==
  /\ \A t \in InTransactions :
       /\ at[t] = "first" /\ answer[t] = "ok" => <<t, "first">> \in live
       /\ at[t] = "second" => <<t, "first">> \in live
       /\ at[t] = "second" /\ answer[t] = "ok" => <<t, "second">> \in live
  /\ \A i \in 1..Len(driver) : driver[i].statement = "commit" => Rows(driver[i].task) \subseteq live

\* A transaction is in the file from its COMMIT on, and not before.
Stored ==
  \A t \in InTransactions :
    /\ at[t] \notin {"commit", "done"} \/ (at[t] = "commit" /\ answer[t] # "ok") => Rows(t) \cap file = {}
    /\ at[t] = "commit" /\ answer[t] = "ok" => Rows(t) \subseteq file

\* What a task will tell its caller, and what it has told when a statement of its is still under way.
Reported ==
  /\ \A t \in Tasks :
       /\ told[t] = "nothing" <=> at[t] # "done"
       /\ at[t] \notin {"rollback", "done"} => outcome[t] = "ok"
       /\ at[t] = "rollback" => outcome[t] # "ok"
  /\ \A i \in 1..Len(driver) : at[driver[i].task] = "done" => told[driver[i].task] = "given up"

DataInv == Types /\ Sent /\ Owned /\ Clean /\ Kept /\ Stored /\ Reported

IInv == LockInv /\ DataInv

-----------------------------------------------------------------------------
\* The initial states satisfy the invariant.
LEMMA InitInvariant == Init => IInv
<1>. SUFFICES ASSUME Init PROVE IInv
  OBVIOUS
<1>1. LockInv
  BY TransactionsAssumption DEF Init, LockInv, InTurn, InTransactions, Waits, IsInjective
<1>2. Types
  <2>1. driver \in Seq([task : Tasks, statement : Waits]) /\ \A t \in Bare : at[t] \in {"new", "second", "done"}
    BY TransactionsAssumption DEF Init
  <2>2. giveUps \in 0..MaxGiveUps /\ errors \in 0..MaxErrors
    BY TransactionsAssumption DEF Init
  <2>. QED
    BY <2>1, <2>2 DEF Init, Types
<1>3. \A t \in Tasks : ~Active(t) /\ ~Dirty(t)
  BY DEF Init, Active, Dirty, Waits
<1>4. Sent /\ Owned /\ Clean /\ Kept /\ Stored /\ Reported
  BY <1>3, TransactionsAssumption DEF Init, Sent, Owned, Clean, Kept, Stored, Reported, InTransactions
<1>. QED
  BY <1>1, <1>2, <1>4 DEF IInv, DataInv

-----------------------------------------------------------------------------
(* The lock. *)

\* A task that has the lock, or that needs none, goes on.
LEMMA LockKept ==
  ASSUME LockInv, Types, NEW t \in Tasks, NEW s \in Waits \cup {"done"}, at' = [at EXCEPT ![t] = s],
         UNCHANGED locks,
         \/ t \in InTransactions /\ lock = t /\ s \in Waits
         \/ t \in Bare /\ s \in {"second", "done"}
  PROVE  LockInv'
<1>1. /\ lock' = lock /\ queue' = queue /\ lock \in (Tasks \ Bare) \cup {NoTask} /\ queue \in Seq(Tasks)
      /\ \A u \in Tasks : u # t => at'[u] = at[u]
      /\ at'[t] = s
  BY DEF locks, LockInv, Types
<1>2. \A i \in DOMAIN queue : queue[i] \in Tasks /\ queue[i] # t /\ at'[queue[i]] = at[queue[i]]
  <2>. TAKE i \in DOMAIN queue
  <2>1. queue[i] \in Tasks /\ at[queue[i]] = "lock" /\ queue[i] # lock
    BY <1>1 DEF LockInv, InTurn
  <2>2. queue[i] \notin Bare
    BY <2>1 DEF LockInv
  <2>. QED
    BY <1>1, <2>1, <2>2
<1>3. \A u \in InTransactions : at'[u] \in Waits => lock' = u
  BY <1>1 DEF LockInv, InTransactions
<1>4. \A u \in Bare : at'[u] \in {"new", "second", "done"}
  BY <1>1, TransactionsAssumption DEF LockInv, InTransactions
<1>5. InTurn'
  <2>1. lock' # NoTask => at'[lock'] \in Waits \cup {"lock"}
    BY <1>1 DEF LockInv, InTurn, InTransactions
  <2>2. \A u \in Tasks : at'[u] = "lock" /\ lock' # u => \E i \in DOMAIN queue' : queue'[i] = u
    BY <1>1 DEF LockInv, InTurn, Waits
  <2>. QED
    BY <1>1, <1>2, <2>1, <2>2 DEF LockInv, InTurn
<1>. QED
  BY <1>1, <1>3, <1>4, <1>5 DEF LockInv

\* A task that is over passes the lock on to whoever has waited longest.
LEMMA LockPassed ==
  ASSUME LockInv, Types, NEW t \in InTransactions, lock = t, Release, at' = [at EXCEPT ![t] = "done"]
  PROVE  LockInv'
<1>1. /\ lock \in (Tasks \ Bare) \cup {NoTask} /\ queue \in Seq(Tasks) /\ t \in Tasks /\ t \notin Bare
      /\ \A u \in Tasks : u # t => at'[u] = at[u]
      /\ at'[t] = "done" /\ t # NoTask
  BY TransactionsAssumption DEF LockInv, Types, InTransactions
<1>2. \A i \in DOMAIN queue : /\ queue[i] \in Tasks /\ queue[i] # t /\ at[queue[i]] = "lock"
                              /\ at'[queue[i]] = "lock" /\ queue[i] \notin Bare
  BY <1>1 DEF LockInv, InTurn
<1>3. \A u \in InTransactions : at'[u] \notin Waits
  BY <1>1 DEF LockInv, Waits, InTransactions
<1>4. \A u \in Bare : at'[u] \in {"new", "second", "done"}
  BY <1>1, TransactionsAssumption DEF LockInv
<1>5. CASE queue = <<>>
  BY <1>1, <1>3, <1>4, <1>5 DEF LockInv, InTurn, Release, IsInjective
<1>6. CASE queue # <<>>
  <2>1. /\ lock' = queue[1] /\ queue' = Tail(queue) /\ 1 \in DOMAIN queue
    BY <1>1, <1>6 DEF Release
  <2>2. /\ queue' \in Seq(Tasks) /\ DOMAIN queue = 1..Len(queue) /\ DOMAIN queue' = 1..(Len(queue) - 1)
        /\ \A i \in 1..(Len(queue) - 1) : queue'[i] = queue[i + 1]
    BY <1>1, <1>6, <2>1, HeadTailProperties
  <2>3. \A i, j \in DOMAIN queue : queue[i] = queue[j] => i = j
    BY DEF LockInv, InTurn, IsInjective
  <2>4. \A i \in DOMAIN queue' : i + 1 \in DOMAIN queue /\ i + 1 # 1 /\ queue'[i] = queue[i + 1]
    BY <1>1, <2>2
  <2>5. IsInjective(queue')
    <3>. SUFFICES ASSUME NEW i \in DOMAIN queue', NEW j \in DOMAIN queue', queue'[i] = queue'[j] PROVE i = j
      BY DEF IsInjective
    <3>1. i + 1 = j + 1
      BY <2>3, <2>4
    <3>. QED
      BY <1>1, <2>2, <3>1
  <2>6. \A u \in Tasks : at'[u] = "lock" /\ lock' # u => \E i \in DOMAIN queue' : queue'[i] = u
    <3>. SUFFICES ASSUME NEW u \in Tasks, at'[u] = "lock", lock' # u PROVE \E i \in DOMAIN queue' : queue'[i] = u
      OBVIOUS
    <3>1. u # t /\ at[u] = "lock"
      BY <1>1
    <3>2. PICK i \in DOMAIN queue : queue[i] = u
      BY <3>1 DEF LockInv, InTurn
    <3>3. i # 1
      BY <2>1, <3>2
    <3>4. i \in 1..Len(queue) /\ Len(queue) \in Nat
      BY <1>1, <2>2
    <3>5. i - 1 \in 1..(Len(queue) - 1) /\ (i - 1) + 1 = i
      BY <3>3, <3>4
    <3>. QED
      BY <2>2, <3>2, <3>5
  <2>7. \A i \in DOMAIN queue' : at'[queue'[i]] = "lock" /\ queue'[i] # lock'
    BY <1>2, <2>1, <2>3, <2>4
  <2>8. lock' \in Tasks \ Bare /\ at'[lock'] = "lock" /\ lock' # NoTask
    BY <1>2, <2>1, TransactionsAssumption
  <2>9. InTurn'
    BY <2>5, <2>6, <2>7, <2>8 DEF InTurn
  <2>. QED
    BY <1>3, <1>4, <2>2, <2>8, <2>9 DEF LockInv
<1>. QED
  BY <1>5, <1>6

\* A task that calls takes the free lock, or waits behind the others.
LEMMA LockAsked ==
  ASSUME LockInv, Types, NEW t \in InTransactions, at[t] = "new", Lock(t)
  PROVE  LockInv'
<1>1. /\ lock \in (Tasks \ Bare) \cup {NoTask} /\ queue \in Seq(Tasks) /\ t \in Tasks /\ t \notin Bare
      /\ \A u \in Tasks : u # t => at'[u] = at[u]
      /\ at'[t] = "lock" /\ t # NoTask
  BY TransactionsAssumption DEF LockInv, Types, InTransactions, Lock
<1>2. \A i \in DOMAIN queue : /\ queue[i] \in Tasks /\ queue[i] # t
                              /\ at'[queue[i]] = "lock" /\ queue[i] # lock
  BY <1>1 DEF LockInv, InTurn
<1>3. \A u \in Bare : at'[u] \in {"new", "second", "done"}
  BY <1>1, TransactionsAssumption DEF LockInv
<1>4. CASE lock = NoTask
  <2>1. lock' = t /\ queue' = queue /\ queue = <<>>
    BY <1>4 DEF Lock, LockInv, InTurn
  <2>2. \A u \in InTransactions : at'[u] \notin Waits
    BY <1>1, <1>4, TransactionsAssumption DEF LockInv, Waits, InTransactions
  <2>3. \A u \in Tasks : at'[u] = "lock" => u = t
    BY <1>1, <1>4, <2>1, TransactionsAssumption DEF LockInv, InTurn
  <2>. QED
    BY <1>1, <1>3, <2>1, <2>2, <2>3 DEF LockInv, InTurn, IsInjective
<1>5. CASE lock # NoTask
  <2>1. lock' = lock /\ queue' = Append(queue, t)
    BY <1>5 DEF Lock
  <2>2. /\ queue' \in Seq(Tasks) /\ DOMAIN queue = 1..Len(queue) /\ DOMAIN queue' = 1..(Len(queue) + 1)
        /\ \A i \in 1..Len(queue) : queue'[i] = queue[i]
        /\ queue'[Len(queue) + 1] = t /\ Len(queue) \in Nat
    BY <1>1, <2>1, AppendProperties
  <2>3. lock # t /\ at'[lock] = at[lock]
    BY <1>1, <1>5 DEF LockInv, InTurn, Waits
  <2>4. \A u \in InTransactions : at'[u] \in Waits => lock' = u
    BY <1>1, <2>1 DEF LockInv, Waits, InTransactions
  <2>5. \A i \in DOMAIN queue' : at'[queue'[i]] = "lock" /\ queue'[i] # lock'
    BY <1>1, <1>2, <2>1, <2>2, <2>3
  <2>6. \A u \in Tasks : at'[u] = "lock" /\ lock' # u => \E i \in DOMAIN queue' : queue'[i] = u
    <3>. SUFFICES ASSUME NEW u \in Tasks, at'[u] = "lock", lock' # u PROVE \E i \in DOMAIN queue' : queue'[i] = u
      OBVIOUS
    <3>1. CASE u = t
      BY <2>2, <3>1
    <3>2. CASE u # t
      <4>1. PICK i \in DOMAIN queue : queue[i] = u
        BY <1>1, <2>1, <3>2 DEF LockInv, InTurn
      <4>. QED
        BY <2>2, <4>1
    <3>. QED
      BY <3>1, <3>2
  <2>7. IsInjective(queue')
    <3>1. \A i, j \in DOMAIN queue : queue[i] = queue[j] => i = j
      BY DEF LockInv, InTurn, IsInjective
    <3>. QED
      BY <1>2, <2>2, <3>1 DEF IsInjective
  <2>8. InTurn'
    BY <1>5, <2>1, <2>3, <2>5, <2>6, <2>7 DEF InTurn, LockInv
  <2>. QED
    BY <1>1, <1>3, <2>1, <2>2, <2>4, <2>8 DEF LockInv
<1>. QED
  BY <1>4, <1>5

\* What is left of a sequence without one of its entries.
LEMMA RemovedAt ==
  ASSUME NEW S, NEW s \in Seq(S), NEW i \in 1..Len(s)
  PROVE  /\ RemoveAt(s, i) \in Seq(S) /\ Len(RemoveAt(s, i)) = Len(s) - 1
         /\ \A j \in 1..(Len(s) - 1) : RemoveAt(s, i)[j] = IF j < i THEN s[j] ELSE s[j + 1]
<1>. DEFINE before == SubSeq(s, 1, i - 1)
            after == SubSeq(s, i + 1, Len(s))
<1>1. Len(s) \in Nat /\ \A j \in 1..Len(s) : s[j] \in S
  BY ElementOfSeq
<1>2. /\ before \in Seq(S) /\ Len(before) = i - 1
      /\ \A j \in 1..(i - 1) : before[j] = s[j]
  BY <1>1, SubSeqProperties
<1>3. /\ after \in Seq(S) /\ Len(after) = Len(s) - i
      /\ \A j \in 1..(Len(s) - i) : after[j] = s[i + j]
  BY <1>1, SubSeqProperties
<1>4. /\ before \o after \in Seq(S) /\ Len(before \o after) = Len(before) + Len(after)
      /\ \A j \in 1..(Len(before) + Len(after)) :
           (before \o after)[j] = IF j <= Len(before) THEN before[j] ELSE after[j - Len(before)]
  BY <1>2, <1>3, ConcatProperties
<1>5. RemoveAt(s, i) = before \o after
  BY DEF RemoveAt
<1>. HIDE DEF before, after
<1>6. ASSUME NEW j \in 1..(Len(s) - 1)
      PROVE  (before \o after)[j] = IF j < i THEN s[j] ELSE s[j + 1]
  <2>1. CASE j < i
    BY <1>1, <1>2, <1>3, <1>4, <2>1
  <2>2. CASE ~(j < i)
    <3>1. j - (i - 1) \in 1..(Len(s) - i) /\ i + (j - (i - 1)) = j + 1 /\ ~(j <= i - 1)
      BY <1>1, <2>2
    <3>2. j \in 1..(Len(before) + Len(after))
      BY <1>1, <1>2, <1>3
    <3>. QED
      BY <1>2, <1>3, <1>4, <2>2, <3>1, <3>2
  <2>. QED
    BY <2>1, <2>2
<1>7. Len(before \o after) = Len(s) - 1
  BY <1>1, <1>2, <1>3, <1>4
<1>. QED
  BY <1>4, <1>5, <1>6, <1>7

\* A task that is cancelled while it waits leaves the queue; the others keep their places.
LEMMA QueueLeft ==
  ASSUME LockInv, Types, NEW t \in InTransactions, at[t] = "lock", lock # t, UNCHANGED lock,
         NEW k \in DOMAIN queue, queue[k] = t, queue' = RemoveAt(queue, k), at' = [at EXCEPT ![t] = "done"]
  PROVE  LockInv'
<1>1. /\ lock \in (Tasks \ Bare) \cup {NoTask} /\ queue \in Seq(Tasks) /\ t \in Tasks /\ t \notin Bare
      /\ \A u \in Tasks : u # t => at'[u] = at[u]
      /\ at'[t] = "done" /\ t # NoTask /\ lock' = lock
  BY TransactionsAssumption DEF LockInv, Types, InTransactions
<1>2. DOMAIN queue = 1..Len(queue) /\ Len(queue) \in Nat
  BY <1>1, LenProperties
<1>3. /\ queue' \in Seq(Tasks) /\ DOMAIN queue' = 1..(Len(queue) - 1)
      /\ \A j \in 1..(Len(queue) - 1) : queue'[j] = IF j < k THEN queue[j] ELSE queue[j + 1]
  <2>1. /\ RemoveAt(queue, k) \in Seq(Tasks) /\ Len(RemoveAt(queue, k)) = Len(queue) - 1
        /\ \A j \in 1..(Len(queue) - 1) : RemoveAt(queue, k)[j] = IF j < k THEN queue[j] ELSE queue[j + 1]
    BY <1>1, RemovedAt
  <2>. QED
    BY <1>1, <2>1
<1>4. \A i, j \in DOMAIN queue : queue[i] = queue[j] => i = j
  BY DEF LockInv, InTurn, IsInjective
<1>5. \A i \in DOMAIN queue : i # k => /\ queue[i] \in Tasks /\ queue[i] # t
                                       /\ at'[queue[i]] = "lock" /\ queue[i] # lock
  BY <1>1, <1>4 DEF LockInv, InTurn
<1>. DEFINE old(j) == IF j < k THEN j ELSE j + 1
<1>6. \A j \in DOMAIN queue' : old(j) \in DOMAIN queue /\ old(j) # k /\ queue'[j] = queue[old(j)]
  BY <1>1, <1>3
<1>7. \A i, j \in DOMAIN queue' : old(i) = old(j) => i = j
  BY <1>1, <1>3
<1>8. \A i \in DOMAIN queue : i # k => \E j \in DOMAIN queue' : old(j) = i
  <2>. SUFFICES ASSUME NEW i \in DOMAIN queue, i # k PROVE \E j \in DOMAIN queue' : old(j) = i
    OBVIOUS
  <2>1. CASE i < k
    BY <1>1, <1>3, <2>1
  <2>2. CASE i > k
    <3>1. i - 1 \in DOMAIN queue' /\ old(i - 1) = i
      BY <1>1, <1>3, <2>2
    <3>. QED
      BY <3>1
  <2>. QED
    BY <1>1, <2>1, <2>2
<1>. HIDE DEF old
<1>9. IsInjective(queue')
  BY <1>4, <1>6, <1>7 DEF IsInjective
<1>10. \A u \in Tasks : at'[u] = "lock" /\ lock' # u => \E i \in DOMAIN queue' : queue'[i] = u
  <2>. SUFFICES ASSUME NEW u \in Tasks, at'[u] = "lock", lock' # u PROVE \E i \in DOMAIN queue' : queue'[i] = u
    OBVIOUS
  <2>1. u # t /\ at[u] = "lock"
    BY <1>1
  <2>2. PICK i \in DOMAIN queue : queue[i] = u
    BY <1>1, <2>1 DEF LockInv, InTurn
  <2>3. PICK j \in DOMAIN queue' : old(j) = i
    BY <1>8, <2>1, <2>2
  <2>. QED
    BY <1>6, <2>2, <2>3
<1>11. \A i \in DOMAIN queue' : at'[queue'[i]] = "lock" /\ queue'[i] # lock'
  BY <1>1, <1>5, <1>6
<1>12. lock' # NoTask => at'[lock'] \in Waits \cup {"lock"}
  BY <1>1 DEF LockInv, InTurn
<1>13. lock # NoTask
  BY <1>1 DEF LockInv, InTurn
<1>14. InTurn'
  BY <1>1, <1>9, <1>10, <1>11, <1>12, <1>13 DEF InTurn
<1>15. \A u \in InTransactions : at'[u] \in Waits => lock' = u
  BY <1>1 DEF LockInv, Waits, InTransactions
<1>16. \A u \in Bare : at'[u] \in {"new", "second", "done"}
  BY <1>1, TransactionsAssumption DEF LockInv
<1>. QED
  BY <1>1, <1>3, <1>14, <1>15, <1>16 DEF LockInv

-----------------------------------------------------------------------------
(* The driver executes a statement. *)

\* The rows of two transactions are different, and so are those of the statements on their own.
LEMMA RowsApart ==
  /\ \A t, u \in InTransactions : t # u => Rows(t) \cap Rows(u) = {}
  /\ \A t \in InTransactions : Rows(t) \cap BareRows = {}
BY DEF Rows, BareRows, InTransactions

\* What is left of the statements under way: their own order, one place further.
LEMMA TailEntries ==
  ASSUME DataInv, driver # <<>>, driver' = Tail(driver)
  PROVE  /\ driver' \in Seq([task : Tasks, statement : Waits])
         /\ 1 \in 1..Len(driver) /\ Head(driver) = driver[1]
         /\ driver[1].task \in Tasks /\ driver[1].statement \in Waits
         /\ \A i \in 1..Len(driver') : /\ i + 1 \in 1..Len(driver) /\ 1 < i + 1 /\ driver'[i] = driver[i + 1]
                                       /\ driver[i + 1].task \in Tasks /\ driver[i + 1].statement \in Waits
         /\ \A i, j \in 1..Len(driver') : i < j => i + 1 < j + 1
<1>1. driver \in Seq([task : Tasks, statement : Waits]) /\ Len(driver) \in Nat
  <2>1. driver \in Seq([task : Tasks, statement : Waits])
    BY DEF DataInv, Types
  <2>. QED
    BY <2>1, LenProperties
<1>2. /\ driver' \in Seq([task : Tasks, statement : Waits]) /\ Len(driver') = Len(driver) - 1
      /\ \A i \in 1..Len(driver') : driver'[i] = driver[i + 1]
  BY <1>1, HeadTailProperties
<1>3. 1 \in 1..Len(driver) /\ Head(driver) = driver[1]
  BY <1>1
<1>4. \A i \in 1..Len(driver) : driver[i] \in [task : Tasks, statement : Waits]
  BY <1>1, ElementOfSeq
<1>5. \A i \in 1..Len(driver') : i + 1 \in 1..Len(driver) /\ 1 < i + 1
  BY <1>1, <1>2
<1>. QED
  BY <1>1, <1>2, <1>3, <1>4, <1>5

\* The answer goes to whoever still waits for the statement; everything else said of the statements stays.
LEMMA ExecutedSent ==
  ASSUME DataInv, driver # <<>>, driver' = Tail(driver), NEW what \in {"ok", "error"},
         Answered(driver[1].task, driver[1].statement, what), UNCHANGED <<at, outcome, told>>
  PROVE  Sent' /\ Reported' /\ answer' \in [Tasks -> {"none", "ok", "error"}]
<1>. DEFINE t == driver[1].task
            s == driver[1].statement
<1>1. answer' \in [Tasks -> {"none", "ok", "error"}]
  BY DEF DataInv, Types, Answered
<1>2. ASSUME NEW i \in 1..Len(driver') PROVE answer'[driver'[i].task] = "none"
  <2>1. /\ i + 1 \in 1..Len(driver) /\ 1 \in 1..Len(driver) /\ 1 < i + 1 /\ driver'[i] = driver[i + 1]
        /\ driver[i + 1].task \in Tasks /\ t \in Tasks
    BY <1>2, TailEntries
  <2>2. answer[driver[i + 1].task] = "none"
    BY <2>1 DEF DataInv, Sent
  <2>3. CASE driver[i + 1].task = t
    <3>1. s \in {"first", "second"} /\ at[t] \in Still("rollback")
      BY <2>1, <2>3 DEF DataInv, Sent
    <3>. QED
      BY <2>1, <2>2, <2>3, <3>1 DEF Answered, Still, DataInv, Types
  <2>4. CASE driver[i + 1].task # t
    BY <2>1, <2>2, <2>4 DEF Answered, DataInv, Types
  <2>. QED
    BY <2>3, <2>4
<1>3. Sent'
  <2>1. \A i \in 1..Len(driver') : /\ at'[driver'[i].task] \in Still(driver'[i].statement)
                                   /\ driver'[i].task \in Bare => driver'[i].statement = "second"
    BY TailEntries DEF DataInv, Sent
  <2>2. \A i, j \in 1..Len(driver') : i < j /\ driver'[i].task = driver'[j].task =>
          driver'[i].statement \in {"first", "second"} /\ driver'[j].statement = "rollback"
    BY TailEntries DEF DataInv, Sent
  <2>. QED
    BY <1>2, <2>1, <2>2 DEF Sent, Still
<1>4. Reported'
  <2>1. \A i \in 1..Len(driver') : i + 1 \in 1..Len(driver) /\ driver'[i] = driver[i + 1]
    BY TailEntries
  <2>2. /\ \A i \in 1..Len(driver) : at[driver[i].task] = "done" => told[driver[i].task] = "given up"
        /\ at' = at /\ told' = told /\ outcome' = outcome
    BY DEF DataInv, Reported
  <2>3. \A i \in 1..Len(driver') : at'[driver'[i].task] = "done" => told'[driver'[i].task] = "given up"
    BY <2>1, <2>2
  <2>. QED
    BY <2>2, <2>3 DEF DataInv, Reported
<1>. QED
  BY <1>1, <1>3, <1>4

\* Only a BEGIN opens a transaction, and a COMMIT or ROLLBACK that is executed was its last statement.
LEMMA ExecutedActive ==
  ASSUME DataInv, driver # <<>>, driver' = Tail(driver), NEW what \in {"ok", "error"},
         Answered(driver[1].task, driver[1].statement, what), UNCHANGED <<at, outcome, told>>
  PROVE  /\ \A u \in Tasks : Active(u)' => Active(u) \/ (u = driver[1].task /\ driver[1].statement = "begin" /\ what = "ok")
         /\ driver[1].statement \in {"commit", "rollback"} => \A u \in Tasks : Active(u)' => u # driver[1].task
         /\ driver[1].task \in InTransactions /\ driver[1].statement # "begin" => Active(driver[1].task)
<1>. DEFINE t == driver[1].task
            s == driver[1].statement
<1>1. /\ t \in Tasks /\ 1 \in 1..Len(driver)
      /\ \A i \in 1..Len(driver') : /\ i + 1 \in 1..Len(driver) /\ 1 < i + 1 /\ driver'[i] = driver[i + 1]
                                    /\ driver[i + 1].task \in Tasks
  BY TailEntries
<1>2. /\ \A u \in Tasks : u # t => answer'[u] = answer[u]
      /\ answer'[t] = IF at[t] = s THEN what ELSE answer[t]
      /\ at' = at /\ at[t] \in Still(s)
  BY <1>1 DEF Answered, DataInv, Types, Sent
<1>3. ASSUME NEW u \in Tasks, Active(u)'
      PROVE  Active(u) \/ (u = t /\ s = "begin" /\ what = "ok")
  <2>1. u \in InTransactions
    BY <1>3 DEF Active
  <2>2. CASE at'[u] \in {"first", "second"}
    BY <1>2, <2>1, <2>2 DEF Active
  <2>3. CASE at'[u] = "begin" /\ answer'[u] = "ok"
    BY <1>2, <2>1, <2>3 DEF Active, Still
  <2>4. CASE \E i \in 1..Len(driver') : driver'[i].task = u /\ driver'[i].statement # "begin"
    <3>1. PICK i \in 1..Len(driver') : driver'[i].task = u /\ driver'[i].statement # "begin"
      BY <2>4
    <3>2. i + 1 \in 1..Len(driver) /\ driver[i + 1].task = u /\ driver[i + 1].statement # "begin"
      BY <1>1, <3>1
    <3>. QED
      BY <2>1, <3>2 DEF Active
  <2>. QED
    BY <1>3, <2>2, <2>3, <2>4 DEF Active
<1>4. ASSUME s \in {"commit", "rollback"}, NEW u \in Tasks, Active(u)', u = t
      PROVE  FALSE
  <2>1. at'[u] \notin {"first", "second", "begin"}
    BY <1>2, <1>4 DEF Still
  <2>2. PICK i \in 1..Len(driver') : driver'[i].task = u /\ driver'[i].statement # "begin"
    BY <1>4, <2>1 DEF Active
  <2>3. i + 1 \in 1..Len(driver) /\ 1 < i + 1 /\ driver[i + 1].task = t
    BY <1>1, <1>4, <2>2
  <2>4. s \in {"first", "second"}
    BY <1>1, <2>3 DEF DataInv, Sent
  <2>. QED
    BY <1>4, <2>4
<1>5. t \in InTransactions /\ s # "begin" => Active(t)
  BY <1>1 DEF Active
<1>. QED
  BY <1>3, <1>4, <1>5

\* A BEGIN opens a transaction for its task, or meets an open one and opens none.
LEMMA BegunKeeps ==
  ASSUME DataInv, driver # <<>>, driver' = Tail(driver), driver[1].statement = "begin", Begun(driver[1].task),
         UNCHANGED <<at, outcome, told, giveUps>>
  PROVE  DataInv'
<1>. DEFINE t == driver[1].task
            what == IF open THEN "error" ELSE "ok"
<1>1. /\ what \in {"ok", "error"} /\ Answered(t, "begin", what) /\ UNCHANGED <<at, outcome, told>>
      /\ live' = live /\ file' = file /\ open' = TRUE
      /\ errors' = errors /\ giveUps' = giveUps
  BY DEF Begun
<1>2. Sent' /\ Reported' /\ answer' \in [Tasks -> {"none", "ok", "error"}]
  BY <1>1, ExecutedSent
<1>3. \A u \in Tasks : Active(u)' => Active(u) \/ (u = t /\ what = "ok")
  BY <1>1, ExecutedActive
<1>4. t \in Tasks /\ driver' \in Seq([task : Tasks, statement : Waits])
  BY TailEntries
<1>5. Types'
  BY <1>1, <1>2, <1>4 DEF DataInv, Types
<1>6. Owned'
  <2>1. CASE open
    BY <1>1, <1>3, <2>1 DEF DataInv, Owned
  <2>2. CASE ~open
    <3>1. \A u \in Tasks : Active(u)' => u = t
      BY <1>3, <2>2 DEF DataInv, Owned
    <3>. QED
      BY <1>1, <2>2, <3>1 DEF DataInv, Clean, Owned
  <2>. QED
    BY <2>1, <2>2
<1>7. Clean'
  BY <1>1 DEF DataInv, Clean, Dirty
<1>8. \A u \in Tasks : answer'[u] = answer[u] \/ at[u] = "begin"
  BY <1>1, <1>4 DEF Answered, DataInv, Types
<1>9. Kept'
  BY <1>1, <1>8, TailEntries DEF DataInv, Kept, InTransactions
<1>10. Stored'
  BY <1>1, <1>8 DEF DataInv, Stored, InTransactions
<1>. QED
  BY <1>2, <1>5, <1>6, <1>7, <1>9, <1>10 DEF DataInv

\* A write is one of the open transaction's own, or a statement on its own.
LEMMA WrittenKeeps ==
  ASSUME DataInv, driver # <<>>, driver' = Tail(driver), driver[1].statement \in {"first", "second"},
         Written(driver[1].task, driver[1].statement), UNCHANGED <<at, outcome, told, giveUps>>
  PROVE  DataInv'
<1>. DEFINE t == driver[1].task
            s == driver[1].statement
            row == <<t, s>>
<1>1. PICK what \in {"ok", "error"} :
        /\ Answered(t, s, what) /\ open' = open
        /\ what = "ok" => live' = live \cup {row} /\ file' = (IF open THEN file ELSE live') /\ errors' = errors
        /\ what = "error" => live' = live /\ file' = file /\ errors' = errors + 1 /\ errors < MaxErrors
  BY DEF Written
<1>2. Sent' /\ Reported' /\ answer' \in [Tasks -> {"none", "ok", "error"}]
  BY <1>1, ExecutedSent
<1>3. /\ \A u \in Tasks : Active(u)' => Active(u)
      /\ t \in InTransactions => Active(t)
  BY <1>1, ExecutedActive
<1>4. t \in Tasks /\ s \in Waits /\ driver' \in Seq([task : Tasks, statement : Waits]) /\ 1 \in 1..Len(driver)
  BY TailEntries
<1>5. /\ t \in InTransactions => row \in Rows(t)
      /\ t \notin InTransactions => row \in BareRows /\ t \in Bare /\ row \in Rows(t)
  BY <1>4 DEF DataInv, Sent, Rows, BareRows, InTransactions
<1>6. t \in InTransactions => open
  BY <1>3, <1>4 DEF DataInv, Owned
<1>7. Types'
  <2>1. live' \subseteq UNION {Rows(u) : u \in Tasks} /\ file' \subseteq live' /\ open' \in BOOLEAN
    BY <1>1, <1>4, <1>5 DEF DataInv, Types
  <2>2. errors' \in 0..MaxErrors
    <3>1. errors \in 0..MaxErrors /\ MaxErrors \in Nat
      BY TransactionsAssumption DEF DataInv, Types
    <3>. QED
      BY <1>1, <3>1
  <2>. QED
    BY <1>2, <1>4, <2>1, <2>2 DEF DataInv, Types
<1>8. /\ live' \ file' \subseteq (live \ file) \cup {row}
      /\ open \/ live' = file'
      /\ live \subseteq live' /\ file \subseteq file'
      /\ file' \subseteq file \cup BareRows
  BY <1>1, <1>5, <1>6 DEF DataInv, Clean, Types
<1>9. Owned'
  <2>1. ASSUME NEW u \in Tasks, Active(u)'
        PROVE  open' /\ live' \ file' \subseteq Rows(u) \cup BareRows
    <3>1. open /\ live \ file \subseteq Rows(u) \cup BareRows
      BY <1>3, <2>1 DEF DataInv, Owned
    <3>2. row \in Rows(u) \cup BareRows
      BY <1>3, <1>4, <1>5, <2>1 DEF DataInv, Owned
    <3>. QED
      BY <1>1, <1>8, <3>1, <3>2
  <2>. QED
    BY <1>3, <2>1 DEF DataInv, Owned
<1>10. Clean'
  <2>1. ASSUME NEW u \in Tasks, Dirty(u)'
        PROVE  IF t \in InTransactions THEN u = t ELSE Dirty(u)
    <3>1. u \in InTransactions /\ Rows(u) \cap (live' \ file') # {}
      BY <2>1 DEF Dirty, Rows
    <3>2. CASE t \in InTransactions
      <4>1. live \ file \subseteq Rows(t) \cup BareRows
        BY <1>3, <1>4, <3>2 DEF DataInv, Owned
      <4>. QED
        BY <1>5, <1>8, <3>1, <3>2, <4>1, RowsApart
    <3>3. CASE t \notin InTransactions
      BY <1>5, <1>8, <3>1, <3>3, RowsApart DEF Dirty
    <3>. QED
      BY <3>2, <3>3
  <2>. QED
    BY <1>1, <1>8, <2>1 DEF DataInv, Clean
<1>11. \A u \in Tasks : answer'[u] = answer[u] \/ (u = t /\ at[u] = s /\ answer'[u] = what)
  BY <1>1, <1>4 DEF Answered, DataInv, Types
<1>12. Kept'
  <2>1. \A u \in InTransactions :
          /\ at'[u] = "first" /\ answer'[u] = "ok" => <<u, "first">> \in live'
          /\ at'[u] = "second" => <<u, "first">> \in live'
          /\ at'[u] = "second" /\ answer'[u] = "ok" => <<u, "second">> \in live'
    BY <1>1, <1>8, <1>11 DEF DataInv, Kept, InTransactions
  <2>2. \A i \in 1..Len(driver') : driver'[i].statement = "commit" => Rows(driver'[i].task) \subseteq live'
    BY <1>8, TailEntries DEF DataInv, Kept
  <2>. QED
    BY <2>1, <2>2 DEF Kept, Rows
<1>13. Stored'
  <2>1. \A u \in InTransactions : Rows(u) \cap file' = Rows(u) \cap file
    BY <1>8, RowsApart
  <2>. QED
    BY <1>4, <1>8, <1>11, <2>1 DEF DataInv, Stored, InTransactions
<1>. QED
  BY <1>2, <1>7, <1>9, <1>10, <1>12, <1>13 DEF DataInv

\* A COMMIT stores what its transaction wrote, or fails and leaves it all as it was.
LEMMA CommittedKeeps ==
  ASSUME DataInv, driver # <<>>, driver' = Tail(driver), driver[1].statement = "commit",
         Committed(driver[1].task), UNCHANGED <<at, outcome, told, giveUps>>
  PROVE  DataInv'
<1>. DEFINE t == driver[1].task
<1>1. PICK what \in {"ok", "error"} :
        /\ Answered(t, "commit", what) /\ live' = live
        /\ what = "ok" => file' = live /\ open' = FALSE /\ errors' = errors
        /\ what = "error" => file' = file /\ open' = open /\ errors' = errors + 1 /\ errors < MaxErrors
  BY DEF Committed
<1>2. Sent' /\ Reported' /\ answer' \in [Tasks -> {"none", "ok", "error"}]
  BY <1>1, ExecutedSent
<1>3. t \in Tasks /\ driver' \in Seq([task : Tasks, statement : Waits]) /\ 1 \in 1..Len(driver)
  BY TailEntries
<1>4. t \in InTransactions /\ Rows(t) \subseteq live /\ at[t] \in {"commit", "done"} /\ answer[t] = "none"
  BY <1>3 DEF DataInv, Sent, Kept, InTransactions, Still
<1>5. /\ \A u \in Tasks : Active(u)' => Active(u) /\ u # t
      /\ Active(t)
  BY <1>1, <1>4, ExecutedActive
<1>6. /\ live \ file \subseteq Rows(t) \cup BareRows
      /\ \A u \in Tasks : ~Active(u)'
  BY <1>3, <1>5 DEF DataInv, Owned
<1>7. Types'
  <2>1. errors' \in 0..MaxErrors
    <3>1. errors \in 0..MaxErrors /\ MaxErrors \in Nat
      BY TransactionsAssumption DEF DataInv, Types
    <3>. QED
      BY <1>1, <3>1
  <2>2. live' \subseteq UNION {Rows(u) : u \in Tasks} /\ file' \subseteq live' /\ open' \in BOOLEAN
    BY <1>1 DEF DataInv, Types
  <2>. QED
    BY <1>2, <1>3, <2>1, <2>2 DEF DataInv, Types
<1>8. Owned'
  BY <1>6 DEF Owned
<1>9. Clean'
  <2>1. \A u \in Tasks : Dirty(u)' => Dirty(u)
    BY <1>1 DEF Dirty, Rows
  <2>2. ~open' => live' = file'
    BY <1>1 DEF DataInv, Clean
  <2>. QED
    BY <2>1, <2>2 DEF DataInv, Clean
<1>10. \A u \in Tasks : answer'[u] = answer[u] \/ (u = t /\ at[u] = "commit" /\ answer'[u] = what)
  BY <1>1, <1>3 DEF Answered, DataInv, Types
<1>11. Kept'
  <2>1. \A u \in InTransactions :
          /\ at'[u] = "first" /\ answer'[u] = "ok" => <<u, "first">> \in live'
          /\ at'[u] = "second" => <<u, "first">> \in live'
          /\ at'[u] = "second" /\ answer'[u] = "ok" => <<u, "second">> \in live'
    BY <1>1, <1>10 DEF DataInv, Kept, InTransactions
  <2>2. \A i \in 1..Len(driver') : i + 1 \in 1..Len(driver) /\ driver'[i] = driver[i + 1]
    BY TailEntries
  <2>3. \A i \in 1..Len(driver') : driver'[i].statement = "commit" => Rows(driver'[i].task) \subseteq live'
    BY <1>1, <2>2 DEF DataInv, Kept
  <2>. QED
    BY <2>1, <2>3 DEF Kept, Rows
<1>12. Stored'
  <2>1. \A u \in InTransactions : u # t => Rows(u) \cap live \subseteq file
    BY <1>4, <1>6, RowsApart
  <2>2. \A u \in InTransactions : u # t => Rows(u) \cap file' = Rows(u) \cap file
    BY <1>1, <2>1 DEF DataInv, Types
  <2>3. file \subseteq file'
    BY <1>1 DEF DataInv, Types
  <2>4. at[t] = "commit" => Rows(t) \cap file = {}
    BY <1>4 DEF DataInv, Stored
  <2>5. ASSUME NEW u \in InTransactions
        PROVE  /\ at'[u] \notin {"commit", "done"} \/ (at'[u] = "commit" /\ answer'[u] # "ok") => Rows(u) \cap file' = {}
               /\ at'[u] = "commit" /\ answer'[u] = "ok" => Rows(u) \subseteq file'
    <3>1. CASE u # t
      BY <1>10, <2>2, <2>3, <3>1 DEF DataInv, Stored, InTransactions
    <3>2. CASE u = t
      <4>1. at[t] = "commit" => answer'[t] = what
        BY <1>1, <1>3 DEF Answered, DataInv, Types
      <4>. QED
        BY <1>1, <1>4, <2>4, <3>2, <4>1
    <3>. QED
      BY <3>1, <3>2
  <2>. QED
    BY <2>5 DEF Stored, Rows
<1>. QED
  BY <1>2, <1>7, <1>8, <1>9, <1>11, <1>12 DEF DataInv

\* A ROLLBACK takes back what is not in the file, and its task is the only one that has anything there.
LEMMA RolledBackKeeps ==
  ASSUME DataInv, driver # <<>>, driver' = Tail(driver), driver[1].statement = "rollback",
         RolledBack(driver[1].task), UNCHANGED <<at, outcome, told, giveUps>>
  PROVE  DataInv'
<1>. DEFINE t == driver[1].task
<1>1. /\ Answered(t, "rollback", "ok") /\ live' = file /\ file' = file /\ open' = FALSE /\ errors' = errors
      /\ UNCHANGED <<at, outcome, told, giveUps>>
  BY DEF RolledBack
<1>2. Sent' /\ Reported' /\ answer' \in [Tasks -> {"none", "ok", "error"}]
  BY <1>1, ExecutedSent
<1>3. t \in Tasks /\ driver' \in Seq([task : Tasks, statement : Waits]) /\ 1 \in 1..Len(driver)
  BY TailEntries
<1>4. t \in InTransactions /\ at[t] \in {"rollback", "done"}
  BY <1>3 DEF DataInv, Sent, InTransactions, Still
<1>5. /\ \A u \in Tasks : Active(u)' => Active(u) /\ u # t
      /\ Active(t)
  BY <1>1, <1>4, ExecutedActive
<1>6. \A u \in Tasks : Active(u) => u = t
  BY <1>3, <1>5 DEF DataInv, Owned
<1>7. Types'
  BY <1>1, <1>2, <1>3 DEF DataInv, Types
<1>8. Owned' /\ Clean'
  BY <1>1, <1>5, <1>6 DEF Owned, Clean, Dirty
<1>9. \A u \in Tasks : answer'[u] = answer[u] \/ at[u] = "rollback"
  BY <1>1, <1>3 DEF Answered, DataInv, Types
<1>10. Kept'
  <2>1. \A u \in InTransactions : at'[u] \notin {"first", "second"}
    BY <1>1, <1>4, <1>6 DEF Active, InTransactions
  <2>2. ASSUME NEW i \in 1..Len(driver'), driver'[i].statement = "commit"
        PROVE  FALSE
    <3>1. /\ i + 1 \in 1..Len(driver) /\ 1 < i + 1 /\ driver[i + 1].task \in Tasks
          /\ driver[i + 1].statement = "commit"
      BY <2>2, TailEntries
    <3>2. driver[i + 1].task \in InTransactions
      BY <3>1 DEF DataInv, Sent, InTransactions
    <3>3. driver[i + 1].task = t
      BY <1>6, <3>1, <3>2 DEF Active
    <3>. QED
      BY <1>3, <3>1, <3>3 DEF DataInv, Sent
  <2>. QED
    BY <2>1, <2>2 DEF Kept
<1>11. Stored'
  BY <1>1, <1>9 DEF DataInv, Stored, InTransactions
<1>. QED
  BY <1>2, <1>7, <1>8, <1>10, <1>11 DEF DataInv

\* Whatever the driver executes keeps the invariant.
LEMMA ExecuteKeeps ==
  ASSUME IInv, Execute
  PROVE  IInv'
<1>1. /\ DataInv /\ driver # <<>> /\ driver' = Tail(driver) /\ UNCHANGED <<at, outcome, told, giveUps>>
      /\ lock' = lock /\ queue' = queue
  BY DEF IInv, Execute, locks
<1>2. LockInv'
  BY <1>1 DEF IInv, LockInv, InTurn
<1>3. Head(driver) = driver[1] /\ driver[1].statement \in Waits
  BY <1>1, TailEntries
<1>4. CASE driver[1].statement = "begin"
  <2>1. Begun(driver[1].task)
    BY <1>3, <1>4 DEF Execute
  <2>. QED
    BY <1>1, <1>2, <1>4, <2>1, BegunKeeps DEF IInv
<1>5. CASE driver[1].statement \in {"first", "second"}
  <2>1. Written(driver[1].task, driver[1].statement)
    BY <1>3, <1>5 DEF Execute
  <2>. QED
    BY <1>1, <1>2, <1>5, <2>1, WrittenKeeps DEF IInv
<1>6. CASE driver[1].statement = "commit"
  <2>1. Committed(driver[1].task)
    BY <1>3, <1>6 DEF Execute
  <2>. QED
    BY <1>1, <1>2, <1>6, <2>1, CommittedKeeps DEF IInv
<1>7. CASE driver[1].statement = "rollback"
  <2>1. RolledBack(driver[1].task)
    BY <1>3, <1>7 DEF Execute
  <2>. QED
    BY <1>1, <1>2, <1>7, <2>1, RolledBackKeeps DEF IInv
<1>. QED
  BY <1>3, <1>4, <1>5, <1>6, <1>7 DEF Waits

-----------------------------------------------------------------------------
(* The tasks go on. *)

\* One statement more under way, behind the others.
LEMMA SentEntries ==
  ASSUME Types, NEW t \in Tasks, NEW s \in Waits, driver' = Append(driver, [task |-> t, statement |-> s])
  PROVE  /\ driver' \in Seq([task : Tasks, statement : Waits])
         /\ Len(driver) \in Nat /\ Len(driver') = Len(driver) + 1
         /\ \A i \in 1..Len(driver) : driver'[i] = driver[i] /\ i \in 1..Len(driver') /\ driver[i].task \in Tasks
         /\ driver'[Len(driver) + 1].task = t /\ driver'[Len(driver) + 1].statement = s
         /\ \A i \in 1..Len(driver') : i \in 1..Len(driver) \/ i = Len(driver) + 1
         /\ \A i, j \in 1..Len(driver') : i < j => i \in 1..Len(driver)
<1>1. driver \in Seq([task : Tasks, statement : Waits]) /\ [task |-> t, statement |-> s] \in [task : Tasks, statement : Waits]
  BY DEF Types
<1>2. Len(driver) \in Nat
  BY <1>1, LenProperties
<1>3. /\ driver' \in Seq([task : Tasks, statement : Waits]) /\ Len(driver') = Len(driver) + 1
      /\ \A i \in 1..Len(driver) : driver'[i] = driver[i]
      /\ driver'[Len(driver) + 1] = [task |-> t, statement |-> s]
  BY <1>1, AppendProperties
<1>4. \A i \in 1..Len(driver) : driver[i] \in [task : Tasks, statement : Waits]
  BY <1>1, ElementOfSeq
<1>. QED
  BY <1>2, <1>3, <1>4

\* A task that has its answer, or has not begun, has no statement under way.
LEMMA NothingUnderWay ==
  ASSUME DataInv, NEW t \in Tasks, at[t] \in {"new", "lock"} \/ answer[t] # "none"
  PROVE  \A i \in 1..Len(driver) : driver[i].task # t
<1>. SUFFICES ASSUME NEW i \in 1..Len(driver), driver[i].task = t PROVE FALSE
  OBVIOUS
<1>1. driver \in Seq([task : Tasks, statement : Waits])
  BY DEF DataInv, Types
<1>2. driver[i] \in [task : Tasks, statement : Waits]
  BY <1>1, ElementOfSeq
<1>3. driver[i].statement \in Waits
  BY <1>2
<1>4. at[t] \in Still(driver[i].statement) /\ answer[t] = "none"
  BY DEF DataInv, Sent
<1>. QED
  BY <1>3, <1>4 DEF Still, Waits

\* A statement is sent, with those before it answered: the database does not change.
LEMMA SendKeeps ==
  ASSUME DataInv, NEW t \in Tasks, NEW s \in Waits, Send(t, s), UNCHANGED <<database, within, errors>>,
         giveUps' \in 0..MaxGiveUps,
         \/ t \in InTransactions /\ at[t] = "lock" /\ s = "begin"
         \/ t \in InTransactions /\ at[t] = "begin" /\ answer[t] = "ok" /\ s = "first"
         \/ t \in InTransactions /\ at[t] = "first" /\ answer[t] = "ok" /\ s = "second"
         \/ t \in InTransactions /\ at[t] = "second" /\ answer[t] = "ok" /\ s = "commit"
         \/ t \in Bare /\ at[t] = "new" /\ s = "second"
  PROVE  DataInv'
<1>1. /\ driver' = Append(driver, [task |-> t, statement |-> s])
      /\ live' = live /\ file' = file /\ open' = open /\ errors' = errors /\ told' = told /\ outcome' = outcome
      /\ \A u \in Tasks : u # t => at'[u] = at[u] /\ answer'[u] = answer[u]
      /\ at'[t] = s /\ answer'[t] = "none" /\ Types
  BY DEF Send, database, DataInv, Types
<1>2. \A i \in 1..Len(driver) : driver[i].task # t
  BY NothingUnderWay
<1>3. /\ driver' \in Seq([task : Tasks, statement : Waits])
      /\ Len(driver) \in Nat /\ Len(driver') = Len(driver) + 1
      /\ \A i \in 1..Len(driver) : driver'[i] = driver[i] /\ i \in 1..Len(driver') /\ driver[i].task \in Tasks
      /\ driver'[Len(driver) + 1].task = t /\ driver'[Len(driver) + 1].statement = s
      /\ \A i \in 1..Len(driver') : i \in 1..Len(driver) \/ i = Len(driver) + 1
      /\ \A i, j \in 1..Len(driver') : i < j => i \in 1..Len(driver)
  BY <1>1, SentEntries
<1>4. Types'
  <2>1. \A u \in Bare : at'[u] \in {"new", "second", "done"}
    BY <1>1, TransactionsAssumption DEF Types, InTransactions
  <2>2. at' \in [Tasks -> Waits \cup {"new", "lock", "done"}] /\ answer' \in [Tasks -> {"none", "ok", "error"}]
    BY DEF Send, DataInv, Types
  <2>. QED
    BY <1>1, <1>3, <2>1, <2>2 DEF Types
<1>5. Sent'
  <2>1. ASSUME NEW i \in 1..Len(driver')
        PROVE  /\ at'[driver'[i].task] \in Still(driver'[i].statement)
               /\ answer'[driver'[i].task] = "none"
               /\ driver'[i].task \in Bare => driver'[i].statement = "second"
    <3>1. CASE i \in 1..Len(driver)
      BY <1>1, <1>2, <1>3, <3>1 DEF DataInv, Sent
    <3>2. CASE i = Len(driver) + 1
      BY <1>1, <1>3, <3>2 DEF Still, InTransactions
    <3>. QED
      BY <1>3, <3>1, <3>2
  <2>2. ASSUME NEW i \in 1..Len(driver'), NEW j \in 1..Len(driver'), i < j, driver'[i].task = driver'[j].task
        PROVE  driver'[i].statement \in {"first", "second"} /\ driver'[j].statement = "rollback"
    <3>1. i \in 1..Len(driver) /\ driver'[i].task # t /\ driver'[i] = driver[i]
      BY <1>2, <1>3, <2>2
    <3>2. j \in 1..Len(driver) /\ driver'[j] = driver[j]
      BY <1>3, <2>2, <3>1
    <3>. QED
      BY <2>2, <3>1, <3>2 DEF DataInv, Sent
  <2>. QED
    BY <2>1, <2>2 DEF Sent, Still
<1>6. \A u \in Tasks : Active(u)' => Active(u)
  <2>. SUFFICES ASSUME NEW u \in Tasks, Active(u)' PROVE Active(u)
    OBVIOUS
  <2>1. u \in InTransactions
    BY DEF Active
  <2>2. CASE u = t
    <3>1. CASE s = "begin"
      <4>1. PICK i \in 1..Len(driver') : driver'[i].task = u /\ driver'[i].statement # "begin"
        BY <1>1, <2>2, <3>1 DEF Active
      <4>. QED
        BY <1>2, <1>3, <2>2, <3>1, <4>1
    <3>2. CASE s # "begin"
      BY <2>1, <2>2, <3>2 DEF Active, InTransactions
    <3>. QED
      BY <3>1, <3>2
  <2>3. CASE u # t
    <3>1. \A i \in 1..Len(driver') : driver'[i].task = u => i \in 1..Len(driver) /\ driver'[i] = driver[i]
      BY <1>3, <2>3
    <3>. QED
      BY <1>1, <2>3, <3>1 DEF Active
  <2>. QED
    BY <2>2, <2>3
<1>7. Owned' /\ Clean'
  BY <1>1, <1>6 DEF DataInv, Owned, Clean, Dirty, Rows
<1>8. Kept'
  <2>1. ASSUME NEW u \in InTransactions
        PROVE  /\ at'[u] = "first" /\ answer'[u] = "ok" => <<u, "first">> \in live'
               /\ at'[u] = "second" => <<u, "first">> \in live'
               /\ at'[u] = "second" /\ answer'[u] = "ok" => <<u, "second">> \in live'
    BY <1>1 DEF DataInv, Kept, InTransactions
  <2>2. ASSUME NEW i \in 1..Len(driver'), driver'[i].statement = "commit"
        PROVE  Rows(driver'[i].task) \subseteq live'
    <3>1. CASE i \in 1..Len(driver)
      BY <1>1, <1>3, <2>2, <3>1 DEF DataInv, Kept
    <3>2. CASE i = Len(driver) + 1
      <4>1. driver'[i].task = t /\ s = "commit" /\ t \in InTransactions
        BY <1>3, <2>2, <3>2
      <4>. QED
        BY <1>1, <4>1 DEF DataInv, Kept, Rows, InTransactions
    <3>. QED
      BY <1>3, <3>1, <3>2
  <2>. QED
    BY <2>1, <2>2 DEF Kept, Rows
<1>9. Stored'
  BY <1>1 DEF DataInv, Stored, InTransactions, Rows
<1>10. Reported'
  <2>1. \A u \in Tasks : /\ told'[u] = "nothing" <=> at'[u] # "done"
                         /\ at'[u] \notin {"rollback", "done"} => outcome'[u] = "ok"
                         /\ at'[u] = "rollback" => outcome'[u] # "ok"
    BY <1>1 DEF DataInv, Reported, Waits
  <2>2. ASSUME NEW i \in 1..Len(driver'), at'[driver'[i].task] = "done"
        PROVE  told'[driver'[i].task] = "given up"
    <3>1. CASE i \in 1..Len(driver)
      <4>1. at[driver[i].task] = "done" => told[driver[i].task] = "given up"
        BY <3>1 DEF DataInv, Reported
      <4>. QED
        BY <1>1, <1>2, <1>3, <2>2, <3>1, <4>1
    <3>2. CASE i = Len(driver) + 1
      BY <1>1, <1>3, <2>2, <3>2 DEF Waits
    <3>. QED
      BY <1>3, <3>1, <3>2
  <2>. QED
    BY <2>1, <2>2 DEF Reported
<1>. QED
  BY <1>4, <1>5, <1>7, <1>8, <1>9, <1>10 DEF DataInv

\* A ROLLBACK is sent, behind the write its task may have been cancelled in.
LEMMA UndoKeeps ==
  ASSUME DataInv, NEW t \in InTransactions, NEW what \in {"failed", "given up"}, at[t] \in {"first", "second"},
         Undo(t, what), UNCHANGED <<database, within, errors>>, giveUps' \in 0..MaxGiveUps
  PROVE  DataInv'
<1>1. /\ driver' = Append(driver, [task |-> t, statement |-> "rollback"])
      /\ live' = live /\ file' = file /\ open' = open /\ errors' = errors /\ told' = told
      /\ \A u \in Tasks : u # t => at'[u] = at[u] /\ answer'[u] = answer[u] /\ outcome'[u] = outcome[u]
      /\ at'[t] = "rollback" /\ answer'[t] = "none" /\ outcome'[t] = what
      /\ t \in Tasks /\ t \notin Bare /\ "rollback" \in Waits /\ Types
  BY DEF Undo, database, DataInv, Types, InTransactions, Waits
<1>2. /\ driver' \in Seq([task : Tasks, statement : Waits])
      /\ Len(driver) \in Nat /\ Len(driver') = Len(driver) + 1
      /\ \A i \in 1..Len(driver) : driver'[i] = driver[i] /\ i \in 1..Len(driver') /\ driver[i].task \in Tasks
      /\ driver'[Len(driver) + 1].task = t /\ driver'[Len(driver) + 1].statement = "rollback"
      /\ \A i \in 1..Len(driver') : i \in 1..Len(driver) \/ i = Len(driver) + 1
      /\ \A i, j \in 1..Len(driver') : i < j => i \in 1..Len(driver)
  BY <1>1, SentEntries
<1>3. \A i \in 1..Len(driver) : driver[i].task = t => driver[i].statement \in {"first", "second"}
  BY DEF DataInv, Sent, Still
<1>4. Types'
  <2>1. at' \in [Tasks -> Waits \cup {"new", "lock", "done"}] /\ answer' \in [Tasks -> {"none", "ok", "error"}]
    BY <1>1 DEF Undo, Types
  <2>2. outcome' \in [Tasks -> {"ok", "failed", "given up"}]
    BY DEF Undo, DataInv, Types
  <2>3. \A u \in Bare : at'[u] \in {"new", "second", "done"}
    BY <1>1, TransactionsAssumption DEF Types
  <2>. QED
    BY <1>1, <1>2, <2>1, <2>2, <2>3 DEF Types
<1>5. Sent'
  <2>1. ASSUME NEW i \in 1..Len(driver')
        PROVE  /\ at'[driver'[i].task] \in Still(driver'[i].statement)
               /\ answer'[driver'[i].task] = "none"
               /\ driver'[i].task \in Bare => driver'[i].statement = "second"
    <3>1. CASE i \in 1..Len(driver)
      <4>1. /\ at[driver[i].task] \in Still(driver[i].statement) /\ answer[driver[i].task] = "none"
            /\ driver[i].task \in Bare => driver[i].statement = "second"
        BY <3>1 DEF DataInv, Sent
      <4>2. CASE driver[i].task = t
        BY <1>1, <1>2, <1>3, <3>1, <4>1, <4>2 DEF Still
      <4>3. CASE driver[i].task # t
        BY <1>1, <1>2, <3>1, <4>1, <4>3
      <4>. QED
        BY <4>2, <4>3
    <3>2. CASE i = Len(driver) + 1
      BY <1>1, <1>2, <3>2 DEF Still
    <3>. QED
      BY <1>2, <3>1, <3>2
  <2>2. ASSUME NEW i \in 1..Len(driver'), NEW j \in 1..Len(driver'), i < j, driver'[i].task = driver'[j].task
        PROVE  driver'[i].statement \in {"first", "second"} /\ driver'[j].statement = "rollback"
    <3>1. i \in 1..Len(driver) /\ driver'[i] = driver[i]
      BY <1>2, <2>2
    <3>2. CASE j \in 1..Len(driver)
      BY <1>2, <2>2, <3>1, <3>2 DEF DataInv, Sent
    <3>3. CASE j = Len(driver) + 1
      BY <1>2, <1>3, <2>2, <3>1, <3>3
    <3>. QED
      BY <1>2, <3>2, <3>3
  <2>. QED
    BY <2>1, <2>2 DEF Sent, Still
<1>6. \A u \in Tasks : Active(u)' => Active(u)
  <2>. SUFFICES ASSUME NEW u \in Tasks, Active(u)' PROVE Active(u)
    OBVIOUS
  <2>1. CASE u = t
    BY <2>1 DEF Active
  <2>2. CASE u # t
    <3>1. \A i \in 1..Len(driver') : driver'[i].task = u => i \in 1..Len(driver) /\ driver'[i] = driver[i]
      BY <1>2, <2>2
    <3>. QED
      BY <1>1, <2>2, <3>1 DEF Active
  <2>. QED
    BY <2>1, <2>2
<1>7. Owned' /\ Clean'
  BY <1>1, <1>6 DEF DataInv, Owned, Clean, Dirty, Rows
<1>8. Kept'
  <2>1. \A u \in InTransactions :
          /\ at'[u] = "first" /\ answer'[u] = "ok" => <<u, "first">> \in live'
          /\ at'[u] = "second" => <<u, "first">> \in live'
          /\ at'[u] = "second" /\ answer'[u] = "ok" => <<u, "second">> \in live'
    BY <1>1 DEF DataInv, Kept, InTransactions
  <2>2. \A i \in 1..Len(driver') : driver'[i].statement = "commit" => i \in 1..Len(driver) /\ driver'[i] = driver[i]
    BY <1>2
  <2>3. \A i \in 1..Len(driver') : driver'[i].statement = "commit" => Rows(driver'[i].task) \subseteq live'
    BY <1>1, <2>2 DEF DataInv, Kept
  <2>. QED
    BY <2>1, <2>3 DEF Kept, Rows
<1>9. Stored'
  BY <1>1 DEF DataInv, Stored, InTransactions, Rows
<1>10. Reported'
  <2>1. \A u \in Tasks : /\ told'[u] = "nothing" <=> at'[u] # "done"
                         /\ at'[u] \notin {"rollback", "done"} => outcome'[u] = "ok"
                         /\ at'[u] = "rollback" => outcome'[u] # "ok"
    BY <1>1 DEF DataInv, Reported
  <2>2. ASSUME NEW i \in 1..Len(driver'), at'[driver'[i].task] = "done"
        PROVE  told'[driver'[i].task] = "given up"
    <3>1. driver'[i].task # t
      BY <1>1, <2>2
    <3>2. i \in 1..Len(driver) /\ driver'[i] = driver[i] /\ driver[i].task \in Tasks
      BY <1>2, <3>1
    <3>. QED
      BY <1>1, <2>2, <3>1, <3>2 DEF DataInv, Reported
  <2>. QED
    BY <2>1, <2>2 DEF Reported
<1>. QED
  BY <1>4, <1>5, <1>7, <1>8, <1>9, <1>10 DEF DataInv

\* A task is over; a statement of its may be under way only if it was given up.
LEMMA TellKeeps ==
  ASSUME DataInv, NEW t \in Tasks, NEW what \in {"ok", "failed", "given up"}, at[t] # "done", Tell(t, what),
         UNCHANGED <<database, within, errors>>, giveUps' \in 0..MaxGiveUps,
         what # "given up" => answer[t] # "none"
  PROVE  DataInv'
<1>1. /\ driver' = driver
      /\ live' = live /\ file' = file /\ open' = open /\ errors' = errors /\ outcome' = outcome
      /\ \A u \in Tasks : u # t => at'[u] = at[u] /\ answer'[u] = answer[u] /\ told'[u] = told[u]
      /\ at'[t] = "done" /\ answer'[t] = "none" /\ told'[t] = what
      /\ Types
  BY DEF Tell, database, DataInv, Types
<1>2. what # "given up" => \A i \in 1..Len(driver) : driver[i].task # t
  BY NothingUnderWay
<1>3. \A i \in 1..Len(driver) : driver[i].task \in Tasks
  <2>1. driver \in Seq([task : Tasks, statement : Waits])
    BY <1>1 DEF Types
  <2>2. \A i \in 1..Len(driver) : driver[i] \in [task : Tasks, statement : Waits]
    BY <2>1, ElementOfSeq
  <2>. QED
    BY <2>2
<1>4. Types'
  <2>1. at' \in [Tasks -> Waits \cup {"new", "lock", "done"}] /\ answer' \in [Tasks -> {"none", "ok", "error"}]
    BY <1>1 DEF Tell, Types
  <2>2. told' \in [Tasks -> {"nothing", "ok", "failed", "given up"}]
    BY DEF Tell, DataInv, Types
  <2>3. \A u \in Bare : at'[u] \in {"new", "second", "done"}
    BY <1>1, TransactionsAssumption DEF Types
  <2>. QED
    BY <1>1, <2>1, <2>2, <2>3 DEF Types
<1>5. Sent'
  BY <1>1, <1>3 DEF DataInv, Sent, Still
<1>6. \A u \in Tasks : Active(u)' => Active(u)
  BY <1>1 DEF Active
<1>7. Owned' /\ Clean'
  BY <1>1, <1>6 DEF DataInv, Owned, Clean, Dirty, Rows
<1>8. Kept'
  BY <1>1 DEF DataInv, Kept, InTransactions, Rows
<1>9. Stored'
  BY <1>1 DEF DataInv, Stored, InTransactions, Rows
<1>10. Reported'
  <2>1. \A u \in Tasks : /\ told'[u] = "nothing" <=> at'[u] # "done"
                         /\ at'[u] \notin {"rollback", "done"} => outcome'[u] = "ok"
                         /\ at'[u] = "rollback" => outcome'[u] # "ok"
    BY <1>1 DEF DataInv, Reported
  <2>2. ASSUME NEW i \in 1..Len(driver'), at'[driver'[i].task] = "done"
        PROVE  told'[driver'[i].task] = "given up"
    BY <1>1, <1>2, <1>3, <2>2 DEF DataInv, Reported
  <2>. QED
    BY <2>1, <2>2 DEF Reported
<1>. QED
  BY <1>4, <1>5, <1>7, <1>8, <1>9, <1>10 DEF DataInv

\* A task that waits for the lock has sent nothing.
LEMMA LockKeeps ==
  ASSUME DataInv, NEW t \in InTransactions, at[t] = "new", Lock(t), UNCHANGED <<database, within, errors>>,
         giveUps' \in 0..MaxGiveUps
  PROVE  DataInv'
<1>1. /\ driver' = driver /\ answer' = answer /\ outcome' = outcome /\ told' = told
      /\ live' = live /\ file' = file /\ open' = open /\ errors' = errors
      /\ \A u \in Tasks : u # t => at'[u] = at[u]
      /\ at'[t] = "lock" /\ t \in Tasks /\ t \notin Bare /\ Types
  BY DEF Lock, database, DataInv, Types, InTransactions
<1>2. \A i \in 1..Len(driver) : driver[i].task # t
  BY <1>1, NothingUnderWay
<1>3. \A i \in 1..Len(driver) : driver[i].task \in Tasks
  <2>1. driver \in Seq([task : Tasks, statement : Waits])
    BY <1>1 DEF Types
  <2>2. \A i \in 1..Len(driver) : driver[i] \in [task : Tasks, statement : Waits]
    BY <2>1, ElementOfSeq
  <2>. QED
    BY <2>2
<1>4. Types'
  <2>1. at' \in [Tasks -> Waits \cup {"new", "lock", "done"}]
    BY <1>1 DEF Lock, Types
  <2>2. \A u \in Bare : at'[u] \in {"new", "second", "done"}
    BY <1>1, TransactionsAssumption DEF Types
  <2>. QED
    BY <1>1, <2>1, <2>2 DEF Types
<1>5. Sent'
  BY <1>1, <1>2, <1>3 DEF DataInv, Sent, Still
<1>6. \A u \in Tasks : Active(u)' => Active(u)
  BY <1>1 DEF Active
<1>7. Owned' /\ Clean'
  BY <1>1, <1>6 DEF DataInv, Owned, Clean, Dirty, Rows
<1>8. Kept'
  BY <1>1 DEF DataInv, Kept, InTransactions, Rows
<1>9. Stored'
  BY <1>1 DEF DataInv, Stored, InTransactions, Rows
<1>10. Reported'
  <2>1. \A u \in Tasks : /\ told'[u] = "nothing" <=> at'[u] # "done"
                         /\ at'[u] \notin {"rollback", "done"} => outcome'[u] = "ok"
                         /\ at'[u] = "rollback" => outcome'[u] # "ok"
    BY <1>1 DEF DataInv, Reported
  <2>2. \A i \in 1..Len(driver') : at'[driver'[i].task] = "done" => told'[driver'[i].task] = "given up"
    BY <1>1, <1>2, <1>3 DEF DataInv, Reported
  <2>. QED
    BY <2>1, <2>2 DEF Reported
<1>. QED
  BY <1>4, <1>5, <1>7, <1>8, <1>9, <1>10 DEF DataInv

-----------------------------------------------------------------------------
(* Every step keeps the invariant. *)

\* A call: a statement on its own is sent, a transaction asks for the lock.
LEMMA CallKeeps ==
  ASSUME IInv, NEW t \in Tasks, Call(t)
  PROVE  IInv'
<1>1. /\ at[t] = "new" /\ UNCHANGED <<database, within, giveUps, errors>> /\ LockInv /\ DataInv /\ Types
      /\ giveUps' \in 0..MaxGiveUps
  BY DEF Call, IInv, DataInv, Types
<1>2. CASE t \in Bare
  <2>1. Send(t, "second") /\ UNCHANGED locks /\ "second" \in Waits
    BY <1>2 DEF Call, Waits
  <2>2. DataInv'
    BY <1>1, <1>2, <2>1, SendKeeps
  <2>3. at' = [at EXCEPT ![t] = "second"]
    BY <2>1 DEF Send
  <2>4. LockInv'
    BY <1>1, <1>2, <2>1, <2>3, LockKept
  <2>. QED
    BY <2>2, <2>4 DEF IInv
<1>3. CASE t \notin Bare
  <2>1. Lock(t) /\ t \in InTransactions
    BY <1>3 DEF Call, Enter, InTransactions
  <2>2. DataInv' /\ LockInv'
    BY <1>1, <2>1, LockKeeps, LockAsked
  <2>. QED
    BY <2>2 DEF IInv
<1>. QED
  BY <1>2, <1>3

\* A transaction that has the lock sends a statement.
LEMMA HolderSends ==
  ASSUME IInv, NEW t \in InTransactions, NEW s \in Waits, lock = t, Send(t, s), UNCHANGED locks,
         UNCHANGED <<database, within, errors>>, giveUps' \in 0..MaxGiveUps,
         \/ at[t] = "lock" /\ s = "begin"
         \/ at[t] = "begin" /\ answer[t] = "ok" /\ s = "first"
         \/ at[t] = "first" /\ answer[t] = "ok" /\ s = "second"
         \/ at[t] = "second" /\ answer[t] = "ok" /\ s = "commit"
  PROVE  IInv'
<1>1. t \in Tasks /\ LockInv /\ DataInv /\ Types /\ at' = [at EXCEPT ![t] = s]
  BY DEF IInv, DataInv, InTransactions, Send
<1>2. DataInv'
  BY <1>1, SendKeeps
<1>3. LockInv'
  BY <1>1, LockKept
<1>. QED
  BY <1>2, <1>3 DEF IInv

\* A transaction that has the lock rolls back.
LEMMA HolderUndoes ==
  ASSUME IInv, NEW t \in InTransactions, NEW what \in {"failed", "given up"}, at[t] \in {"first", "second"},
         Undo(t, what), UNCHANGED locks, UNCHANGED <<database, within, errors>>, giveUps' \in 0..MaxGiveUps
  PROVE  IInv'
<1>1. /\ t \in Tasks /\ LockInv /\ DataInv /\ Types /\ at' = [at EXCEPT ![t] = "rollback"]
      /\ "rollback" \in Waits /\ lock = t
  BY DEF IInv, DataInv, LockInv, InTransactions, Undo, Waits
<1>2. DataInv'
  BY <1>1, UndoKeeps
<1>3. LockInv'
  BY <1>1, LockKept
<1>. QED
  BY <1>2, <1>3 DEF IInv

\* A transaction that has the lock is over and passes it on.
LEMMA HolderEnds ==
  ASSUME IInv, NEW t \in InTransactions, NEW what \in {"ok", "failed", "given up"}, lock = t, at[t] # "done",
         Release, Tell(t, what), UNCHANGED <<database, within, errors>>, giveUps' \in 0..MaxGiveUps,
         what # "given up" => answer[t] # "none"
  PROVE  IInv'
<1>1. t \in Tasks /\ LockInv /\ DataInv /\ Types /\ at' = [at EXCEPT ![t] = "done"]
  BY DEF IInv, DataInv, InTransactions, Tell
<1>2. DataInv'
  BY <1>1, TellKeeps
<1>3. LockInv'
  BY <1>1, LockPassed
<1>. QED
  BY <1>2, <1>3 DEF IInv

\* A statement on its own is answered, or nobody waits for it any more.
LEMMA BareEnds ==
  ASSUME IInv, NEW t \in Bare, NEW what \in {"ok", "failed", "given up"}, at[t] # "done",
         Tell(t, what), UNCHANGED locks, UNCHANGED <<database, within, errors>>, giveUps' \in 0..MaxGiveUps,
         what # "given up" => answer[t] # "none"
  PROVE  IInv'
<1>1. t \in Tasks /\ LockInv /\ DataInv /\ Types /\ at' = [at EXCEPT ![t] = "done"]
  BY TransactionsAssumption DEF IInv, DataInv, Tell
<1>2. DataInv'
  BY <1>1, TellKeeps
<1>3. LockInv'
  BY <1>1, LockKept
<1>. QED
  BY <1>2, <1>3 DEF IInv

\* Only a transaction waits for the lock or for anything but its one write, and then the lock is its own.
LEMMA Holders ==
  ASSUME IInv, NEW t \in Tasks
  PROVE  /\ at[t] \in {"lock", "begin", "first", "commit", "rollback"} => t \in InTransactions
         /\ t \in InTransactions /\ at[t] \in Waits => lock = t
         /\ outcome[t] \in {"ok", "failed", "given up"}
         /\ answer[t] \in {"none", "ok", "error"}
         /\ giveUps \in 0..MaxGiveUps
BY DEF IInv, LockInv, DataInv, Types, InTransactions

\* A task that goes on with its answer.
LEMMA ResumeKeeps ==
  ASSUME IInv, NEW t \in Tasks, Resume(t)
  PROVE  IInv'
<1>1. /\ UNCHANGED <<database, within, errors>> /\ giveUps' = giveUps /\ giveUps' \in 0..MaxGiveUps
      /\ at[t] \in {"lock", "begin", "first", "commit", "rollback"} => t \in InTransactions
      /\ t \in InTransactions /\ at[t] \in Waits => lock = t
      /\ outcome[t] \in {"ok", "failed", "given up"}
      /\ {"begin", "first", "second", "commit", "rollback"} = Waits
      /\ answer[t] \in {"none", "ok", "error"}
  BY Holders DEF Resume, Waits
<1>2. CASE BeginWhenLocked(t)
  BY <1>1, <1>2, HolderSends DEF BeginWhenLocked
<1>3. CASE at[t] = "begin" /\ answer[t] = "ok" /\ Send(t, "first") /\ UNCHANGED locks
  BY <1>1, <1>3, HolderSends
<1>4. CASE at[t] = "begin" /\ answer[t] = "error" /\ Fails(t)
  BY <1>1, <1>4, HolderEnds DEF Fails
<1>5. CASE at[t] = "first" /\ answer[t] = "ok" /\ t \in Nesting /\ Inner(t)
  BY <1>1, <1>5, HolderUndoes DEF Inner
<1>6. CASE at[t] = "first" /\ answer[t] = "ok" /\ t \notin Nesting /\ Send(t, "second") /\ UNCHANGED locks
  BY <1>1, <1>6, HolderSends
<1>7. CASE at[t] = "first" /\ answer[t] = "error" /\ Undo(t, "failed") /\ UNCHANGED locks
  BY <1>1, <1>7, HolderUndoes
<1>8. CASE at[t] = "second" /\ answer[t] # "none" /\ SecondAnswered(t)
  <2>1. CASE t \in Bare
    <3>1. Tell(t, IF answer[t] = "ok" THEN "ok" ELSE "failed") /\ UNCHANGED locks
      BY <1>8, <2>1 DEF SecondAnswered
    <3>. QED
      BY <1>1, <1>8, <2>1, <3>1, BareEnds
  <2>2. CASE t \notin Bare
    <3>1. t \in InTransactions /\ lock = t
      BY <1>1, <1>8, <2>2 DEF InTransactions
    <3>2. CASE answer[t] = "ok" /\ Send(t, "commit") /\ UNCHANGED locks
      BY <1>1, <1>8, <3>1, <3>2, HolderSends
    <3>3. CASE answer[t] = "error" /\ Undo(t, "failed") /\ UNCHANGED locks
      BY <1>1, <1>8, <3>1, <3>3, HolderUndoes
    <3>. QED
      BY <1>8, <2>2, <3>2, <3>3 DEF SecondAnswered
  <2>. QED
    BY <2>1, <2>2
<1>9. CASE at[t] = "commit" /\ answer[t] = "ok" /\ Over(t)
  BY <1>1, <1>9, HolderEnds DEF Over
<1>10. CASE at[t] = "commit" /\ answer[t] = "error" /\ Fails(t)
  BY <1>1, <1>10, HolderEnds DEF Fails
<1>11. CASE at[t] = "rollback" /\ answer[t] # "none" /\ Over(t)
  BY <1>1, <1>11, HolderEnds DEF Over
<1>. QED
  BY <1>2, <1>3, <1>4, <1>5, <1>6, <1>7, <1>8, <1>9, <1>10, <1>11 DEF Resume

\* A task that is cancelled, wherever it waits.
LEMMA GiveUpKeeps ==
  ASSUME IInv, NEW t \in Tasks, GiveUp(t)
  PROVE  IInv'
<1>1. giveUps' \in 0..MaxGiveUps
  <2>1. giveUps \in 0..MaxGiveUps /\ MaxGiveUps \in Nat
    BY Holders, TransactionsAssumption
  <2>. QED
    BY <2>1 DEF GiveUp
<1>2. /\ UNCHANGED <<database, within, errors>> /\ giveUps' \in 0..MaxGiveUps
      /\ at[t] \notin {"new", "done"}
      /\ t \in InTransactions /\ at[t] \in Waits => lock = t
      /\ {"begin", "first", "second", "commit", "rollback"} = Waits
  BY <1>1, Holders DEF GiveUp, Waits
<1>3. CASE t \in Bare
  <2>1. Tell(t, "given up") /\ UNCHANGED locks
    BY <1>3, Holders DEF GiveUp, Cancelled, InTransactions
  <2>. QED
    BY <1>2, <1>3, <2>1, BareEnds
<1>4. CASE t \notin Bare
  <2>1. t \in InTransactions
    BY <1>4 DEF InTransactions
  <2>2. CASE at[t] \in {"first", "second"} /\ Undo(t, "given up") /\ UNCHANGED locks
    BY <1>2, <2>1, <2>2, HolderUndoes
  <2>3. CASE at[t] \in {"begin", "commit", "rollback"} /\ Release /\ Tell(t, "given up")
    BY <1>2, <2>1, <2>3, HolderEnds
  <2>4. CASE at[t] = "lock" /\ lock = t /\ Release /\ Tell(t, "given up")
    BY <1>2, <2>1, <2>4, HolderEnds
  <2>5. CASE /\ at[t] = "lock" /\ lock # t /\ UNCHANGED lock /\ Tell(t, "given up")
             /\ \E i \in DOMAIN queue : queue[i] = t /\ queue' = RemoveAt(queue, i)
    <3>1. t \in Tasks /\ LockInv /\ DataInv /\ Types /\ at' = [at EXCEPT ![t] = "done"]
      BY <2>5 DEF IInv, DataInv, Tell
    <3>2. DataInv'
      BY <1>2, <2>5, <3>1, TellKeeps
    <3>3. LockInv'
      BY <2>1, <2>5, <3>1, QueueLeft
    <3>. QED
      BY <3>2, <3>3 DEF IInv
  <2>. QED
    BY <1>4, <2>2, <2>3, <2>4, <2>5 DEF GiveUp, Cancelled
<1>. QED
  BY <1>3, <1>4

\* Every step keeps the invariant.
LEMMA StepInvariant == IInv /\ [Next]_vars => IInv'
<1>. SUFFICES ASSUME IInv, [Next]_vars PROVE IInv'
  OBVIOUS
<1>1. CASE UNCHANGED vars
  <2>1. /\ file' = file /\ live' = live /\ open' = open /\ driver' = driver /\ lock' = lock /\ queue' = queue
        /\ at' = at /\ answer' = answer /\ outcome' = outcome /\ told' = told
        /\ giveUps' = giveUps /\ errors' = errors
    BY <1>1 DEF vars, database, locks
  <2>2. LockInv' /\ Types' /\ Sent'
    BY <2>1 DEF IInv, DataInv, LockInv, InTurn, Types, Sent, Still
  <2>3. \A u \in Tasks : (Active(u)' <=> Active(u)) /\ (Dirty(u)' <=> Dirty(u))
    BY <2>1 DEF Active, Dirty, Rows
  <2>4. Owned' /\ Clean'
    BY <2>1, <2>3 DEF IInv, DataInv, Owned, Clean, Rows
  <2>5. Kept' /\ Stored' /\ Reported'
    BY <2>1 DEF IInv, DataInv, Kept, Stored, Reported, Rows
  <2>. QED
    BY <2>2, <2>4, <2>5 DEF IInv, DataInv
<1>. QED
  BY <1>1, ExecuteKeeps, CallKeeps, ResumeKeeps, GiveUpKeeps DEF Next

\* The invariant holds in every reachable state.
LEMMA Invariant == Spec => []IInv
BY InitInvariant, StepInvariant, PTL DEF Spec

-----------------------------------------------------------------------------
\* What is not in the file is one transaction's at most.
LEMMA DirtyAlone ==
  ASSUME IInv
  PROVE  Alone
<1>. DEFINE D == {t \in InTransactions : Rows(t) \cap (live \ file) # {}}
<1>1. \A t, u \in D : t = u
  BY DEF IInv, DataInv, Clean, Dirty, InTransactions
<1>2. CASE D = {}
  <2>1. Cardinality(D) = 0
    BY <1>2, FS_EmptySet
  <2>. QED
    BY <2>1 DEF Alone
<1>3. CASE D # {}
  <2>1. PICK t : t \in D
    BY <1>3
  <2>2. D = {t}
    BY <1>1, <2>1
  <2>3. Cardinality(D) = 1
    BY <2>2, FS_Singleton
  <2>. QED
    BY <2>3 DEF Alone
<1>. QED
  BY <1>2, <1>3

\* OneAtATime, for every set of tasks: what is not yet in the file is one transaction's, whoever is cancelled
\* and whichever statements fail, and the lock of `transaction` is passed on to everyone who waits for it.
THEOREM TransactionsAreAlone == Spec => []OneAtATime
<1>1. IInv => OneAtATime
  <2>. SUFFICES ASSUME IInv PROVE OneAtATime
    OBVIOUS
  <2>1. TypeOK
    BY DEF IInv, LockInv, DataInv, Types, TypeOK
  <2>. QED
    BY <2>1, DirtyAlone DEF IInv, LockInv, OneAtATime
<1>. QED
  BY <1>1, Invariant, PTL

-----------------------------------------------------------------------------
(* The refinement of AtomicWrites. *)

\* A write stores nothing, or the row of a statement on its own.
LEMMA WrittenStores ==
  ASSUME IInv, driver # <<>>, driver' = Tail(driver), driver[1].statement \in {"first", "second"},
         Written(driver[1].task, driver[1].statement), told' = told
  PROVE  file' = file \/ Atomic!Next
<1>. DEFINE t == driver[1].task
            s == driver[1].statement
<1>1. t \in Tasks /\ 1 \in 1..Len(driver) /\ DataInv
  BY TailEntries DEF IInv
<1>2. CASE live' = live \cup {<<t, s>>} /\ file' = (IF open THEN file ELSE live')
  <2>1. CASE open
    BY <1>2, <2>1
  <2>2. CASE ~open
    <3>1. ~Active(t) /\ live = file
      BY <1>1, <2>2 DEF DataInv, Owned, Clean
    <3>2. t \in Bare /\ s = "second"
      BY <1>1, <3>1 DEF Active, InTransactions, DataInv, Sent
    <3>3. Rows(t) = {<<t, s>>}
      BY <3>2 DEF Rows
    <3>4. file' = file \cup UNION {Rows(u) : u \in {t}}
      BY <1>2, <2>2, <3>1, <3>3
    <3>5. {t} \cap InTransactions = {}
      BY <3>2 DEF InTransactions
    <3>6. Atomic!Store({t})
      BY <3>4, <3>5 DEF Atomic!Store
    <3>. QED
      BY <1>1, <3>6 DEF Atomic!Next
  <2>. QED
    BY <2>1, <2>2
<1>3. CASE UNCHANGED <<live, file>>
  BY <1>3
<1>. QED
  BY <1>2, <1>3 DEF Written

\* A COMMIT stores all rows of its transaction, with those of statements on their own, or nothing.
LEMMA CommittedStores ==
  ASSUME IInv, driver # <<>>, driver' = Tail(driver), driver[1].statement = "commit",
         Committed(driver[1].task), told' = told
  PROVE  file' = file \/ Atomic!Next
<1>. DEFINE t == driver[1].task
<1>1. t \in Tasks /\ 1 \in 1..Len(driver) /\ DataInv
  BY TailEntries DEF IInv
<1>2. t \in InTransactions /\ Rows(t) \subseteq live /\ at[t] \in {"commit", "done"} /\ Active(t)
  BY <1>1 DEF DataInv, Sent, Kept, InTransactions, Still, Active
<1>3. live \ file \subseteq Rows(t) \cup BareRows /\ file \subseteq live
  BY <1>1, <1>2 DEF DataInv, Owned, Types
<1>4. told[t] \in {"nothing", "given up"}
  BY <1>1, <1>2 DEF DataInv, Reported
<1>5. CASE file' = live
  <2>. DEFINE some == {t} \cup {u \in Bare : <<u, "second">> \in live \ file}
  <2>1. some \cap InTransactions = {t} /\ some \in SUBSET Tasks
    BY <1>1, <1>2, TransactionsAssumption DEF InTransactions
  <2>2. \A u \in Bare : Rows(u) = {<<u, "second">>}
    BY DEF Rows
  <2>3. file' = file \cup UNION {Rows(u) : u \in some}
    <3>1. ASSUME NEW r \in live PROVE r \in file \cup UNION {Rows(u) : u \in some}
      <4>1. CASE r \in file \cup Rows(t)
        BY <4>1
      <4>2. CASE r \in BareRows /\ r \notin file
        <5>1. PICK u \in Bare : r = <<u, "second">>
          BY <4>2 DEF BareRows
        <5>2. u \in some /\ r \in Rows(u)
          BY <2>2, <3>1, <4>2, <5>1
        <5>. QED
          BY <5>2
      <4>. QED
        BY <1>3, <4>1, <4>2
    <3>2. ASSUME NEW u \in some PROVE Rows(u) \subseteq live
      BY <1>2, <2>2
    <3>. QED
      BY <1>3, <1>5, <3>1, <3>2
  <2>4. Atomic!Store(some)
    BY <1>4, <2>1, <2>3 DEF Atomic!Store
  <2>. QED
    BY <2>1, <2>4 DEF Atomic!Next
<1>6. CASE file' = file
  BY <1>6
<1>. QED
  BY <1>5, <1>6 DEF Committed

\* What a task tells its caller is true of the file.
LEMMA TellTells ==
  ASSUME IInv, NEW t \in Tasks, NEW what \in {"ok", "failed", "given up"}, Tell(t, what), file' = file,
         at[t] # "done",
         t \in InTransactions /\ what = "ok" => at[t] = "commit" /\ answer[t] = "ok",
         t \in InTransactions /\ what = "failed" => at[t] # "commit" \/ answer[t] # "ok"
  PROVE  Atomic!Next
<1>1. told[t] = "nothing" /\ told' = [told EXCEPT ![t] = what]
  BY DEF IInv, DataInv, Reported, Tell
<1>2. t \in InTransactions /\ what = "ok" => Rows(t) \subseteq file
  BY DEF IInv, DataInv, Stored
<1>3. t \in InTransactions /\ what = "failed" => Rows(t) \cap file = {}
  BY DEF IInv, DataInv, Stored
<1>4. Atomic!Tell(t, what)
  BY <1>1, <1>2, <1>3 DEF Atomic!Tell
<1>. QED
  BY <1>4 DEF Atomic!Next

\* Every step is one of AtomicWrites, or changes neither the file nor what a caller was told.
LEMMA StepRefines == IInv /\ [Next]_vars => [Atomic!Next]_<<file, told>>
<1>. SUFFICES ASSUME IInv, [Next]_vars PROVE Atomic!Next \/ (file' = file /\ told' = told)
  OBVIOUS
<1>1. CASE Execute
  <2>1. /\ DataInv /\ driver # <<>> /\ driver' = Tail(driver) /\ told' = told
    BY <1>1 DEF IInv, Execute
  <2>2. Head(driver) = driver[1] /\ driver[1].statement \in Waits
    BY <2>1, TailEntries
  <2>3. CASE driver[1].statement = "begin"
    BY <1>1, <2>1, <2>2, <2>3 DEF Execute, Begun
  <2>4. CASE driver[1].statement \in {"first", "second"}
    <3>1. Written(driver[1].task, driver[1].statement)
      BY <1>1, <2>2, <2>4 DEF Execute
    <3>. QED
      BY <2>1, <2>4, <3>1, WrittenStores
  <2>5. CASE driver[1].statement = "commit"
    <3>1. Committed(driver[1].task)
      BY <1>1, <2>2, <2>5 DEF Execute
    <3>. QED
      BY <2>1, <2>5, <3>1, CommittedStores
  <2>6. CASE driver[1].statement = "rollback"
    BY <1>1, <2>1, <2>2, <2>6 DEF Execute, RolledBack
  <2>. QED
    BY <2>2, <2>3, <2>4, <2>5, <2>6 DEF Waits
<1>2. ASSUME NEW t \in Tasks, Call(t)
      PROVE  file' = file /\ told' = told
  BY <1>2 DEF Call, database, Send, Enter, Lock
<1>3. ASSUME NEW t \in Tasks, Resume(t)
      PROVE  Atomic!Next \/ (file' = file /\ told' = told)
  <2>1. /\ file' = file
        /\ at[t] \in {"lock", "begin", "first", "commit", "rollback"} => t \in InTransactions
        /\ outcome[t] \in {"ok", "failed", "given up"} /\ answer[t] \in {"none", "ok", "error"}
        /\ at[t] = "rollback" => outcome[t] # "ok"
        /\ at[t] = "commit" => outcome[t] = "ok"
    BY <1>3, Holders DEF Resume, database, IInv, DataInv, Reported
  <2>2. CASE at[t] = "begin" /\ answer[t] = "error" /\ Fails(t)
    BY <2>1, <2>2, TellTells DEF Fails
  <2>3. CASE at[t] = "second" /\ answer[t] # "none" /\ SecondAnswered(t)
    <3>1. CASE t \in Bare
      BY <2>1, <2>3, <3>1, TellTells DEF SecondAnswered, InTransactions
    <3>2. CASE t \notin Bare
      BY <2>1, <2>3, <3>2 DEF SecondAnswered, Send, Undo
    <3>. QED
      BY <3>1, <3>2
  <2>4. CASE at[t] = "commit" /\ answer[t] = "ok" /\ Over(t)
    BY <2>1, <2>4, TellTells DEF Over
  <2>5. CASE at[t] = "commit" /\ answer[t] = "error" /\ Fails(t)
    BY <2>1, <2>5, TellTells DEF Fails
  <2>6. CASE at[t] = "rollback" /\ answer[t] # "none" /\ Over(t)
    BY <2>1, <2>6, TellTells DEF Over
  <2>. QED
    BY <1>3, <2>1, <2>2, <2>3, <2>4, <2>5, <2>6 DEF Resume, BeginWhenLocked, Send, Inner, Undo
<1>4. ASSUME NEW t \in Tasks, GiveUp(t)
      PROVE  Atomic!Next \/ (file' = file /\ told' = told)
  <2>1. file' = file /\ at[t] # "done"
    BY <1>4 DEF GiveUp, database
  <2>2. CASE Tell(t, "given up")
    BY <2>1, <2>2, TellTells
  <2>. QED
    BY <1>4, <2>1, <2>2 DEF GiveUp, Cancelled, Undo
<1>5. CASE UNCHANGED vars
  BY <1>5 DEF vars, database
<1>. QED
  BY <1>1, <1>2, <1>3, <1>4, <1>5 DEF Next

\* Whole, for every set of tasks: a transaction reaches the file all at once or not at all, before its caller
\* is told it succeeded, and never after it was told it failed (`transaction`).
THEOREM TransactionsAreAtomic == Spec => Whole
<1>1. Init => Atomic!Init
  BY DEF Init, Atomic!Init
<1>. QED
  BY <1>1, StepRefines, Invariant, PTL DEF Spec, Whole, Atomic!AtomicWritesSpec
=============================================================================
