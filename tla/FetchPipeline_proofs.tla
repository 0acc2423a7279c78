----------------------- MODULE FetchPipeline_proofs -----------------------
(***************************************************************************)
(* The properties of FetchPipeline for every number of items and workers.  *)
(* The parts of the inductive invariant are predicates of the iterator,    *)
(* the workers, the queue and what was delivered, so that a worker that    *)
(* puts a result and goes on can be reasoned about as two steps.           *)
(***************************************************************************)
EXTENDS FetchPipeline, TLAPS, SequenceTheorems, FiniteSetTheorems

\* The worker has an item that is not yet in the queue.
Holds(wo, w) == wo[w].at \in {"fetch", "put"}

Going(wo) == {w \in Workers : wo[w].at # "gone"}

\* The items that were delivered.
Handed(de) == {de[i] : i \in 1..Len(de)}

\* Where the pills of the queue stand in the order of everything that was ever put.
Places(qu, base) == {base + p : p \in {q \in 1..Len(qu) : qu[q] = PillResult}}

\* The items before i that are delivered after it, if i is the p-th of the queue.
Overtaken(i, p, qu, de) == {j \in 1..(i - 1) : j \notin Handed(de) /\ \A q \in 1..(p - 1) : qu[q].item # j}

Undisturbed == consumer \notin {"closing", "over"}

-----------------------------------------------------------------------------
Types(pe, wo, qu) ==
  /\ pe \in 1..(Items + 1) /\ qu \in Seq(Result \cup {PillResult}) /\ Len(qu) <= Concurrency
  /\ wo \in [Workers -> [at : {"new", "fetch", "put", "pill", "gone"}, result : Result \cup {PillResult}]]
  /\ \A w \in Workers : Holds(wo, w) => wo[w].result \in Result

\* An item is in one place at most.
Once(pe, wo, qu, de) ==
  /\ \A w \in Workers : Holds(wo, w) =>
       /\ wo[w].result.item < pe /\ wo[w].result.item \notin Handed(de)
       /\ \A p \in 1..Len(qu) : qu[p].item # wo[w].result.item
       /\ \A v \in Workers : Holds(wo, v) /\ wo[v].result.item = wo[w].result.item => v = w
  /\ \A p \in 1..Len(qu) : qu[p] # PillResult =>
       /\ qu[p].item < pe /\ qu[p].item \notin Handed(de)
       /\ \A q \in 1..Len(qu) : qu[q].item = qu[p].item => q = p
  /\ \A i \in Handed(de) : i < pe

\* Every item that was taken is somewhere.
Somewhere(pe, wo, qu, de) ==
  \A j \in 1..(pe - 1) : \/ j \in Handed(de)
                         \/ \E p \in 1..Len(qu) : qu[p].item = j
                         \/ \E w \in Workers : Holds(wo, w) /\ wo[w].result.item = j

\* The items that an item overtakes are those that the other workers hold.
InOrder(qu, de) ==
  \A p \in 1..Len(qu) : qu[p] # PillResult => Cardinality(Overtaken(qu[p].item, p, qu, de)) < Concurrency

\* Each worker puts one pill, its last.
Owed(wo, qu, pi, de) == Cardinality(Going(wo)) + Cardinality(Places(qu, pi + Len(de))) + pi <= Concurrency

\* An item in the queue has a pill or a worker behind it; a worker ends only when there are no items.
Followed(wo, qu) == Len(qu) > 0 /\ qu[Len(qu)] # PillResult => Going(wo) # {}
Exhausted(pe, wo) == \A w \in Workers : wo[w].at \in {"pill", "gone"} => pe = Items + 1

Pipe(pe, wo, qu, pi, de) == Types(pe, wo, qu) /\ Once(pe, wo, qu, de) /\ InOrder(qu, de) /\ Owed(wo, qu, pi, de)
Complete(pe, wo, qu, de) == Somewhere(pe, wo, qu, de) /\ Followed(wo, qu) /\ Exhausted(pe, wo)

-----------------------------------------------------------------------------
\* Where the pass is, how it ended, and how many errors it has had.
Passing ==
  /\ pills \in 0..Concurrency /\ consecutive \in 0..GiveUp
  /\ consumer \in {"get", "store", "giving up", "abandoned", "closing", "over"}
  /\ delivered \in Seq(1..Items) /\ ended \in {"no", "all", "gave up", "cancelled"} /\ raced \in BOOLEAN
  /\ consumer \in {"get", "store", "giving up", "closing"} => ended = "no"
  /\ consumer = "abandoned" => ended \in {"gave up", "cancelled"}
  /\ consumer \in {"get", "store"} => consecutive < GiveUp

\* After the pipeline is closed only pills are put.
Stopped == ~Undisturbed => \A w \in Workers : worker[w].at \in {"pill", "gone"}

IInv ==
  /\ Passing /\ Stopped /\ NobodyLeft
  /\ Pipe(pending, worker, results, pills, delivered)
  /\ Undisturbed => Complete(pending, worker, results, delivered)

-----------------------------------------------------------------------------
(* The iterator, the workers and the queue. *)

\* A result is not a pill, and a pill is no item.
LEMMA Results == \A r \in Result : r # PillResult /\ r.item \in 1..Items /\ r.item # PillResult.item
BY PipelineAssumption DEF Result, PillResult, Pill

\* The workers and what they hold are finitely many.
LEMMA GoingFinite ==
  ASSUME NEW wo
  PROVE  IsFiniteSet(Going(wo)) /\ Cardinality(Going(wo)) \in Nat
<1>1. IsFiniteSet(Workers)
  BY PipelineAssumption, FS_Interval DEF Workers
<1>2. Going(wo) \in SUBSET Workers
  BY DEF Going
<1>3. IsFiniteSet(Going(wo))
  BY <1>1, <1>2, FS_Subset
<1>. QED
  BY <1>3, FS_CardinalityType

\* So are the pills of the queue.
LEMMA PlacesFinite ==
  ASSUME NEW qu \in Seq(Result \cup {PillResult}), NEW base \in Nat
  PROVE  IsFiniteSet(Places(qu, base)) /\ Cardinality(Places(qu, base)) \in Nat
<1>1. Len(qu) \in Nat
  BY LenProperties
<1>2. IsFiniteSet(1..(base + Len(qu)))
  BY <1>1, FS_Interval
<1>3. Places(qu, base) \in SUBSET (1..(base + Len(qu)))
  BY <1>1 DEF Places
<1>4. IsFiniteSet(Places(qu, base))
  BY <1>2, <1>3, FS_Subset
<1>. QED
  BY <1>4, FS_CardinalityType

\* What a result that is put adds to the queue.
LEMMA PutEntries ==
  ASSUME NEW qu \in Seq(Result \cup {PillResult}), NEW r \in Result \cup {PillResult}, NEW base \in Nat
  PROVE  /\ Append(qu, r) \in Seq(Result \cup {PillResult})
         /\ Len(qu) \in Nat /\ Len(Append(qu, r)) = Len(qu) + 1
         /\ \A p \in 1..Len(qu) : Append(qu, r)[p] = qu[p] /\ qu[p] \in Result \cup {PillResult}
         /\ Append(qu, r)[Len(qu) + 1] = r
         /\ \A p \in 1..Len(Append(qu, r)) : p \in 1..Len(qu) \/ p = Len(qu) + 1
         /\ Places(Append(qu, r), base) =
              IF r = PillResult THEN Places(qu, base) \cup {base + Len(qu) + 1} ELSE Places(qu, base)
         /\ base + Len(qu) + 1 \notin Places(qu, base)
<1>1. Len(qu) \in Nat
  BY LenProperties
<1>2. /\ Append(qu, r) \in Seq(Result \cup {PillResult}) /\ Len(Append(qu, r)) = Len(qu) + 1
      /\ \A p \in 1..Len(qu) : Append(qu, r)[p] = qu[p]
      /\ Append(qu, r)[Len(qu) + 1] = r
  BY AppendProperties
<1>3. \A p \in 1..Len(qu) : qu[p] \in Result \cup {PillResult}
  BY ElementOfSeq
<1>. DEFINE old == {q \in 1..Len(qu) : qu[q] = PillResult}
            new == {q \in 1..Len(Append(qu, r)) : Append(qu, r)[q] = PillResult}
<1>4. new = IF r = PillResult THEN old \cup {Len(qu) + 1} ELSE old
  BY <1>1, <1>2
<1>5. Places(Append(qu, r), base) = {base + p : p \in new} /\ Places(qu, base) = {base + p : p \in old}
  BY DEF Places
<1>6. {base + p : p \in old \cup {Len(qu) + 1}} = {base + p : p \in old} \cup {base + (Len(qu) + 1)}
  OBVIOUS
<1>7. base + (Len(qu) + 1) = base + Len(qu) + 1
  BY <1>1
<1>8. Places(Append(qu, r), base) =
        IF r = PillResult THEN Places(qu, base) \cup {base + Len(qu) + 1} ELSE Places(qu, base)
  BY <1>4, <1>5, <1>6, <1>7
<1>9. base + Len(qu) + 1 \notin Places(qu, base)
  BY <1>1 DEF Places
<1>. QED
  BY <1>1, <1>2, <1>3, <1>8, <1>9

\* Who overtakes whom in the queue does not change when something is put behind.
LEMMA PutBehind ==
  ASSUME NEW qu \in Seq(Result \cup {PillResult}), NEW r \in Result \cup {PillResult}, NEW de,
         NEW p \in 1..Len(qu), NEW i
  PROVE  Overtaken(i, p, Append(qu, r), de) = Overtaken(i, p, qu, de)
<1>1. Len(qu) \in Nat /\ \A q \in 1..Len(qu) : Append(qu, r)[q] = qu[q]
  BY LenProperties, AppendProperties
<1>2. \A q \in 1..(p - 1) : Append(qu, r)[q] = qu[q]
  BY <1>1
<1>. QED
  BY <1>2 DEF Overtaken

\* The items that a worker's next result overtakes are held by the other workers.
LEMMA OvertakesOthers ==
  ASSUME NEW pe, NEW wo, NEW qu, NEW de, Types(pe, wo, qu), Once(pe, wo, qu, de), Somewhere(pe, wo, qu, de),
         NEW w \in Workers, Holds(wo, w), NEW r \in Result, r.item = wo[w].result.item
  PROVE  Cardinality(Overtaken(r.item, Len(qu) + 1, Append(qu, r), de)) < Concurrency
<1>. DEFINE O == Overtaken(r.item, Len(qu) + 1, Append(qu, r), de)
            others == Workers \ {w}
            f == [j \in O |-> CHOOSE v \in others : Holds(wo, v) /\ wo[v].result.item = j]
<1>1. /\ qu \in Seq(Result \cup {PillResult}) /\ Len(qu) \in Nat
      /\ \A q \in 1..Len(qu) : Append(qu, r)[q] = qu[q]
  BY LenProperties, AppendProperties DEF Types
<1>2. r.item < pe /\ r.item \in 1..Items /\ pe \in Nat
  BY Results, PipelineAssumption DEF Once, Types
<1>3. ASSUME NEW j \in O
      PROVE  \E v \in others : Holds(wo, v) /\ wo[v].result.item = j
  <2>1. j \in 1..(r.item - 1) /\ j \notin Handed(de) /\ \A q \in 1..Len(qu) : qu[q].item # j
    BY <1>1 DEF Overtaken
  <2>2. j \in 1..(pe - 1) /\ j # wo[w].result.item
    BY <1>2, <2>1
  <2>3. PICK v \in Workers : Holds(wo, v) /\ wo[v].result.item = j
    BY <2>1, <2>2 DEF Somewhere
  <2>. QED
    BY <2>2, <2>3
<1>4. \A j \in O : f[j] \in others /\ wo[f[j]].result.item = j
  BY <1>3
<1>5. f \in Injection(O, others)
  BY <1>4 DEF Injection, IsInjective
<1>6. IsFiniteSet(Workers) /\ Cardinality(Workers) = Concurrency
  BY PipelineAssumption, FS_Interval DEF Workers
<1>7. IsFiniteSet(others) /\ Cardinality(others) = Concurrency - 1
  BY <1>6, FS_RemoveElement
<1>8. Cardinality(O) <= Cardinality(others)
  BY <1>5, <1>7, FS_Injection
<1>9. IsFiniteSet(O)
  BY <1>5, <1>7, FS_Injection
<1>10. Cardinality(O) \in Nat
  BY <1>9, FS_CardinalityType
<1>. QED
  BY <1>7, <1>8, <1>10, PipelineAssumption

\* A worker puts its result: what it held is now in the queue.
LEMMA PutKeeps ==
  ASSUME NEW pe, NEW wo, NEW qu, NEW pi \in Nat, NEW de \in Seq(1..Items),
         Pipe(pe, wo, qu, pi, de), Complete(pe, wo, qu, de), Room(qu),
         NEW w \in Workers, Holds(wo, w), NEW r \in Result, r.item = wo[w].result.item,
         NEW wo2, wo2 = [wo EXCEPT ![w] = Waiting("new")], NEW qu2, qu2 = Append(qu, r)
  PROVE  Pipe(pe, wo2, qu2, pi, de) /\ Complete(pe, wo2, qu2, de)
<1>1. /\ \A v \in Workers : v # w => wo2[v] = wo[v]
      /\ wo2[w].at = "new" /\ wo[w].at # "gone" /\ wo[w].at # "new"
      /\ wo2 \in [Workers -> [at : {"new", "fetch", "put", "pill", "gone"}, result : Result \cup {PillResult}]]
  BY DEF Pipe, Types, Waiting, Holds
<1>2. /\ qu \in Seq(Result \cup {PillResult}) /\ qu2 \in Seq(Result \cup {PillResult})
      /\ Len(qu) \in Nat /\ Len(qu2) = Len(qu) + 1
      /\ \A p \in 1..Len(qu) : qu2[p] = qu[p] /\ qu[p] \in Result \cup {PillResult} /\ p \in 1..Len(qu2)
      /\ qu2[Len(qu) + 1] = r /\ Len(qu) + 1 \in 1..Len(qu2)
      /\ \A p \in 1..Len(qu2) : p \in 1..Len(qu) \/ p = Len(qu) + 1
  BY PutEntries DEF Pipe, Types
<1>3. r # PillResult /\ r.item \in 1..Items /\ r.item # PillResult.item
  BY Results
<1>4. \A v \in Workers : Holds(wo2, v) => v # w /\ Holds(wo, v) /\ wo2[v] = wo[v]
  BY <1>1 DEF Holds
<1>5. Types(pe, wo2, qu2)
  <2>1. Len(qu2) <= Concurrency
    BY <1>2, PipelineAssumption DEF Room
  <2>2. \A v \in Workers : Holds(wo2, v) => wo2[v].result \in Result
    BY <1>4 DEF Pipe, Types
  <2>. QED
    BY <1>1, <1>2, <2>1, <2>2 DEF Pipe, Types
<1>6. Once(pe, wo2, qu2, de)
  <2>1. ASSUME NEW v \in Workers, Holds(wo2, v)
        PROVE  /\ wo2[v].result.item < pe /\ wo2[v].result.item \notin Handed(de)
               /\ \A p \in 1..Len(qu2) : qu2[p].item # wo2[v].result.item
               /\ \A u \in Workers : Holds(wo2, u) /\ wo2[u].result.item = wo2[v].result.item => u = v
    <3>1. v # w /\ Holds(wo, v) /\ wo2[v] = wo[v]
      BY <1>4, <2>1
    <3>2. wo[v].result.item # r.item
      BY <3>1 DEF Pipe, Once
    <3>3. \A p \in 1..Len(qu2) : qu2[p].item # wo2[v].result.item
      BY <1>2, <3>1, <3>2 DEF Pipe, Once
    <3>. QED
      BY <1>4, <3>1, <3>3 DEF Pipe, Once
  <2>2. r.item < pe /\ r.item \notin Handed(de) /\ \A p \in 1..Len(qu) : qu[p].item # r.item
    BY DEF Pipe, Once
  <2>3. ASSUME NEW p \in 1..Len(qu2), qu2[p] # PillResult
        PROVE  /\ qu2[p].item < pe /\ qu2[p].item \notin Handed(de)
               /\ \A q \in 1..Len(qu2) : qu2[q].item = qu2[p].item => q = p
    <3>1. CASE p \in 1..Len(qu)
      BY <1>2, <2>2, <2>3, <3>1 DEF Pipe, Once
    <3>2. CASE p = Len(qu) + 1
      BY <1>2, <2>2, <3>2
    <3>. QED
      BY <1>2, <3>1, <3>2
  <2>. QED
    BY <2>1, <2>3 DEF Pipe, Once
<1>7. InOrder(qu2, de)
  <2>. SUFFICES ASSUME NEW p \in 1..Len(qu2), qu2[p] # PillResult
                PROVE  Cardinality(Overtaken(qu2[p].item, p, qu2, de)) < Concurrency
    BY DEF InOrder
  <2>1. CASE p \in 1..Len(qu)
    <3>1. Overtaken(qu2[p].item, p, qu2, de) = Overtaken(qu[p].item, p, qu, de)
      BY <1>2, <2>1, PutBehind
    <3>. QED
      BY <1>2, <2>1, <3>1 DEF Pipe, InOrder
  <2>2. CASE p = Len(qu) + 1
    BY <1>2, <2>2, OvertakesOthers DEF Pipe, Complete
  <2>. QED
    BY <1>2, <2>1, <2>2
<1>8. Owed(wo2, qu2, pi, de)
  <2>1. Going(wo2) = Going(wo)
    BY <1>1 DEF Going
  <2>2. pi + Len(de) \in Nat /\ r \in Result \cup {PillResult}
    BY LenProperties
  <2>3. Places(qu2, pi + Len(de)) = Places(qu, pi + Len(de))
    BY <1>2, <1>3, <2>2, PutEntries
  <2>. QED
    BY <2>1, <2>3 DEF Pipe, Owed
<1>9. Somewhere(pe, wo2, qu2, de)
  <2>. SUFFICES ASSUME NEW j \in 1..(pe - 1), j \notin Handed(de), \A p \in 1..Len(qu2) : qu2[p].item # j
                PROVE  \E v \in Workers : Holds(wo2, v) /\ wo2[v].result.item = j
    BY DEF Somewhere
  <2>1. j # r.item /\ \A p \in 1..Len(qu) : qu[p].item # j
    BY <1>2
  <2>2. PICK v \in Workers : Holds(wo, v) /\ wo[v].result.item = j
    BY <2>1 DEF Complete, Somewhere
  <2>3. v # w
    BY <2>1, <2>2
  <2>. QED
    BY <1>1, <2>2, <2>3 DEF Holds
<1>10. Followed(wo2, qu2)
  <2>1. w \in Going(wo2)
    BY <1>1 DEF Going
  <2>. QED
    BY <2>1 DEF Followed
<1>11. Exhausted(pe, wo2)
  BY <1>1 DEF Complete, Exhausted
<1>. QED
  BY <1>5, <1>6, <1>7, <1>8, <1>9, <1>10, <1>11 DEF Pipe, Complete

\* A worker takes the next item.
LEMMA TakeKeeps ==
  ASSUME NEW pe, NEW wo, NEW qu, NEW pi \in Nat, NEW de \in Seq(1..Items),
         Pipe(pe, wo, qu, pi, de), Complete(pe, wo, qu, de), pe <= Items,
         NEW w \in Workers, wo[w].at = "new",
         NEW wo2, wo2 = [wo EXCEPT ![w] = [at |-> "fetch", result |-> [item |-> pe, retryable |-> FALSE]]]
  PROVE  Pipe(pe + 1, wo2, qu, pi, de) /\ Complete(pe + 1, wo2, qu, de)
<1>1. /\ pe \in 1..Items /\ pe + 1 \in 1..(Items + 1) /\ [item |-> pe, retryable |-> FALSE] \in Result
  BY PipelineAssumption DEF Pipe, Types, Result
<1>2. /\ \A v \in Workers : v # w => wo2[v] = wo[v]
      /\ wo2[w].at = "fetch" /\ wo2[w].result.item = pe /\ wo2[w].result \in Result
      /\ wo2 \in [Workers -> [at : {"new", "fetch", "put", "pill", "gone"}, result : Result \cup {PillResult}]]
  BY <1>1 DEF Pipe, Types
<1>3. \A v \in Workers : Holds(wo2, v) => v = w \/ (Holds(wo, v) /\ wo2[v] = wo[v])
  BY <1>2 DEF Holds
<1>4. Types(pe + 1, wo2, qu)
  BY <1>1, <1>2, <1>3 DEF Pipe, Types
<1>5. /\ \A i \in Handed(de) : i \in 1..Items /\ i < pe
      /\ \A p \in 1..Len(qu) : qu[p] # PillResult => qu[p].item \in 1..Items /\ qu[p].item < pe
      /\ \A p \in 1..Len(qu) : qu[p] = PillResult => qu[p].item # pe
      /\ \A v \in Workers : Holds(wo, v) => wo[v].result.item \in 1..Items /\ wo[v].result.item < pe
  <2>1. \A i \in Handed(de) : i \in 1..Items
    BY ElementOfSeq DEF Handed
  <2>2. \A p \in 1..Len(qu) : qu[p] \in Result \cup {PillResult}
    BY ElementOfSeq DEF Pipe, Types
  <2>3. PillResult.item # pe
    BY <1>1 DEF PillResult, Pill
  <2>. QED
    BY <2>1, <2>2, <2>3, Results DEF Pipe, Once, Types
<1>6. Once(pe + 1, wo2, qu, de)
  <2>1. ASSUME NEW v \in Workers, Holds(wo2, v)
        PROVE  /\ wo2[v].result.item < pe + 1 /\ wo2[v].result.item \notin Handed(de)
               /\ \A p \in 1..Len(qu) : qu[p].item # wo2[v].result.item
               /\ \A u \in Workers : Holds(wo2, u) /\ wo2[u].result.item = wo2[v].result.item => u = v
    <3>1. CASE v = w
      <4>1. \A p \in 1..Len(qu) : qu[p].item # pe
        BY <1>1, <1>5
      <4>2. pe < pe + 1 /\ pe \notin Handed(de)
        BY <1>1, <1>5
      <4>3. \A u \in Workers : Holds(wo2, u) /\ u # w => wo2[u].result.item # pe
        BY <1>1, <1>3, <1>5
      <4>. QED
        BY <1>2, <3>1, <4>1, <4>2, <4>3
    <3>2. CASE v # w
      <4>1. Holds(wo, v) /\ wo2[v] = wo[v]
        BY <1>3, <2>1, <3>2
      <4>2. wo2[v].result.item < pe + 1 /\ wo2[v].result.item # pe
        BY <1>1, <1>5, <4>1
      <4>3. ASSUME NEW u \in Workers, Holds(wo2, u), wo2[u].result.item = wo2[v].result.item
            PROVE  u = v
        <5>1. u # w
          BY <1>2, <4>2, <4>3
        <5>2. Holds(wo, u) /\ wo2[u] = wo[u]
          BY <1>3, <4>3, <5>1
        <5>. QED
          BY <4>1, <4>3, <5>2 DEF Pipe, Once
      <4>4. wo[v].result.item \notin Handed(de) /\ \A p \in 1..Len(qu) : qu[p].item # wo[v].result.item
        BY <4>1 DEF Pipe, Once
      <4>. QED
        BY <4>1, <4>2, <4>3, <4>4
    <3>. QED
      BY <3>1, <3>2
  <2>2. /\ \A p \in 1..Len(qu) : qu[p] # PillResult => qu[p].item < pe + 1
        /\ \A i \in Handed(de) : i < pe + 1
    BY <1>1, <1>5
  <2>. QED
    BY <2>1, <2>2 DEF Pipe, Once
<1>7. Owed(wo2, qu, pi, de)
  <2>1. Going(wo2) = Going(wo)
    BY <1>2 DEF Going
  <2>. QED
    BY <2>1 DEF Pipe, Owed
<1>8. Somewhere(pe + 1, wo2, qu, de)
  <2>. SUFFICES ASSUME NEW j \in 1..((pe + 1) - 1), j \notin Handed(de), \A p \in 1..Len(qu) : qu[p].item # j
                PROVE  \E v \in Workers : Holds(wo2, v) /\ wo2[v].result.item = j
    BY DEF Somewhere
  <2>1. CASE j = pe
    BY <1>2, <2>1 DEF Holds
  <2>2. CASE j # pe
    <3>1. j \in 1..(pe - 1)
      BY <1>1, <2>2
    <3>2. PICK v \in Workers : Holds(wo, v) /\ wo[v].result.item = j
      BY <3>1 DEF Complete, Somewhere
    <3>3. v # w
      BY <3>2 DEF Holds
    <3>. QED
      BY <1>2, <3>2, <3>3 DEF Holds
  <2>. QED
    BY <2>1, <2>2
<1>9. Followed(wo2, qu) /\ Exhausted(pe + 1, wo2)
  <2>1. w \in Going(wo2)
    BY <1>2 DEF Going
  <2>2. \A v \in Workers : wo2[v].at \notin {"pill", "gone"}
    BY <1>1, <1>2, PipelineAssumption DEF Complete, Exhausted
  <2>. QED
    BY <2>1, <2>2 DEF Followed, Exhausted
<1>. QED
  BY <1>4, <1>6, <1>7, <1>8, <1>9 DEF Pipe, Complete

\* A worker puts its pill and is gone.
LEMMA PillKeeps ==
  ASSUME NEW pe, NEW wo, NEW qu, NEW pi \in Nat, NEW de \in Seq(1..Items),
         Pipe(pe, wo, qu, pi, de), Room(qu),
         NEW w \in Workers, wo[w].at \in {"new", "pill"},
         NEW wo2, wo2 = [wo EXCEPT ![w] = Waiting("gone")], NEW qu2, qu2 = Append(qu, PillResult)
  PROVE  /\ Pipe(pe, wo2, qu2, pi, de)
         /\ Complete(pe, wo, qu, de) /\ pe = Items + 1 => Complete(pe, wo2, qu2, de)
<1>1. /\ \A v \in Workers : v # w => wo2[v] = wo[v]
      /\ wo2[w].at = "gone" /\ wo[w].at # "gone"
      /\ wo2 \in [Workers -> [at : {"new", "fetch", "put", "pill", "gone"}, result : Result \cup {PillResult}]]
  BY DEF Pipe, Types, Waiting
<1>2. /\ qu \in Seq(Result \cup {PillResult}) /\ qu2 \in Seq(Result \cup {PillResult})
      /\ Len(qu) \in Nat /\ Len(qu2) = Len(qu) + 1
      /\ \A p \in 1..Len(qu) : qu2[p] = qu[p] /\ qu[p] \in Result \cup {PillResult} /\ p \in 1..Len(qu2)
      /\ qu2[Len(qu) + 1] = PillResult /\ Len(qu) + 1 \in 1..Len(qu2)
      /\ \A p \in 1..Len(qu2) : p \in 1..Len(qu) \/ p = Len(qu) + 1
  BY PutEntries DEF Pipe, Types
<1>3. \A v \in Workers : Holds(wo2, v) <=> Holds(wo, v) /\ v # w
  BY <1>1 DEF Holds
<1>4. \A v \in Workers : Holds(wo, v) => v # w /\ wo2[v] = wo[v]
  BY <1>1 DEF Holds
<1>5. Types(pe, wo2, qu2)
  <2>1. Len(qu2) <= Concurrency
    BY <1>2, PipelineAssumption DEF Room
  <2>2. \A v \in Workers : Holds(wo2, v) => wo2[v].result \in Result
    BY <1>3, <1>4 DEF Pipe, Types
  <2>. QED
    BY <1>1, <1>2, <2>1, <2>2 DEF Pipe, Types
<1>6. Once(pe, wo2, qu2, de)
  <2>1. ASSUME NEW v \in Workers, Holds(wo2, v)
        PROVE  /\ wo2[v].result.item < pe /\ wo2[v].result.item \notin Handed(de)
               /\ \A p \in 1..Len(qu2) : qu2[p].item # wo2[v].result.item
               /\ \A u \in Workers : Holds(wo2, u) /\ wo2[u].result.item = wo2[v].result.item => u = v
    <3>1. Holds(wo, v) /\ wo2[v] = wo[v] /\ wo[v].result \in Result
      BY <1>3, <1>4, <2>1 DEF Pipe, Types
    <3>2. \A p \in 1..Len(qu2) : qu2[p].item # wo2[v].result.item
      BY <1>2, <3>1, Results DEF Pipe, Once
    <3>. QED
      BY <1>3, <1>4, <3>1, <3>2 DEF Pipe, Once
  <2>2. ASSUME NEW p \in 1..Len(qu2), qu2[p] # PillResult
        PROVE  /\ qu2[p].item < pe /\ qu2[p].item \notin Handed(de)
               /\ \A q \in 1..Len(qu2) : qu2[q].item = qu2[p].item => q = p
    <3>1. p \in 1..Len(qu) /\ qu2[p] = qu[p] /\ qu[p] \in Result
      BY <1>2, <2>2
    <3>2. qu[p].item # PillResult.item
      BY <3>1, Results
    <3>. QED
      BY <1>2, <2>2, <3>1, <3>2 DEF Pipe, Once
  <2>. QED
    BY <2>1, <2>2 DEF Pipe, Once
<1>7. InOrder(qu2, de)
  <2>. SUFFICES ASSUME NEW p \in 1..Len(qu2), qu2[p] # PillResult
                PROVE  Cardinality(Overtaken(qu2[p].item, p, qu2, de)) < Concurrency
    BY DEF InOrder
  <2>1. p \in 1..Len(qu)
    BY <1>2
  <2>2. Overtaken(qu2[p].item, p, qu2, de) = Overtaken(qu[p].item, p, qu, de)
    BY <1>2, <2>1, PutBehind
  <2>. QED
    BY <1>2, <2>1, <2>2 DEF Pipe, InOrder
<1>8. Owed(wo2, qu2, pi, de)
  <2>1. Going(wo2) = Going(wo) \ {w} /\ w \in Going(wo)
    BY <1>1 DEF Going
  <2>2. Len(de) \in Nat /\ pi + Len(de) \in Nat
    BY LenProperties
  <2>3. /\ Places(qu2, pi + Len(de)) = Places(qu, pi + Len(de)) \cup {pi + Len(de) + Len(qu) + 1}
        /\ pi + Len(de) + Len(qu) + 1 \notin Places(qu, pi + Len(de))
    BY <1>2, <2>2, PutEntries
  <2>4. Cardinality(Going(wo2)) = Cardinality(Going(wo)) - 1 /\ Cardinality(Going(wo)) \in Nat
    BY <2>1, GoingFinite, FS_RemoveElement
  <2>5. /\ IsFiniteSet(Places(qu, pi + Len(de)))
        /\ Cardinality(Places(qu, pi + Len(de))) \in Nat
    BY <1>2, <2>2, PlacesFinite
  <2>6. Cardinality(Places(qu2, pi + Len(de))) = Cardinality(Places(qu, pi + Len(de))) + 1
    BY <2>3, <2>5, FS_AddElement
  <2>. QED
    BY <2>4, <2>5, <2>6, PipelineAssumption DEF Pipe, Owed
<1>9. ASSUME Complete(pe, wo, qu, de), pe = Items + 1
      PROVE  Complete(pe, wo2, qu2, de)
  <2>1. Somewhere(pe, wo2, qu2, de)
    <3>. SUFFICES ASSUME NEW j \in 1..(pe - 1), j \notin Handed(de), \A p \in 1..Len(qu2) : qu2[p].item # j
                  PROVE  \E v \in Workers : Holds(wo2, v) /\ wo2[v].result.item = j
      BY DEF Somewhere
    <3>1. \A p \in 1..Len(qu) : qu[p].item # j
      BY <1>2
    <3>2. PICK v \in Workers : Holds(wo, v) /\ wo[v].result.item = j
      BY <1>9, <3>1 DEF Complete, Somewhere
    <3>. QED
      BY <1>3, <1>4, <3>2
  <2>2. Followed(wo2, qu2)
    BY <1>2 DEF Followed
  <2>3. Exhausted(pe, wo2)
    BY <1>9 DEF Exhausted
  <2>. QED
    BY <2>1, <2>2, <2>3 DEF Complete
<1>. QED
  BY <1>5, <1>6, <1>7, <1>8, <1>9 DEF Pipe

\* A worker waits for room: what it holds, and whether it is gone, is as before.
LEMMA WaitKeeps ==
  ASSUME NEW pe, NEW wo, NEW qu, NEW pi \in Nat, NEW de \in Seq(1..Items),
         Pipe(pe, wo, qu, pi, de), Complete(pe, wo, qu, de), NEW w \in Workers, NEW wo2, NEW a,
         wo2 = [wo EXCEPT ![w] = a], a \in [at : {"new", "fetch", "put", "pill", "gone"}, result : Result \cup {PillResult}],
         \/ wo[w].at = "new" /\ a.at = "pill" /\ pe = Items + 1
         \/ Holds(wo, w) /\ a.at = "put" /\ a.result \in Result /\ a.result.item = wo[w].result.item
  PROVE  Pipe(pe, wo2, qu, pi, de) /\ Complete(pe, wo2, qu, de)
<1>1. /\ \A v \in Workers : v # w => wo2[v] = wo[v]
      /\ wo2[w] = a /\ a.at # "gone" /\ wo[w].at # "gone"
      /\ wo2 \in [Workers -> [at : {"new", "fetch", "put", "pill", "gone"}, result : Result \cup {PillResult}]]
  BY DEF Pipe, Types, Holds
<1>2. /\ \A v \in Workers : Holds(wo2, v) <=> Holds(wo, v)
      /\ \A v \in Workers : Holds(wo, v) => wo2[v].result.item = wo[v].result.item /\ wo2[v].result \in Result
  BY <1>1 DEF Holds, Pipe, Types
<1>3. Going(wo2) = Going(wo)
  BY <1>1 DEF Going
<1>4. Types(pe, wo2, qu)
  BY <1>1, <1>2 DEF Pipe, Types
<1>5. Once(pe, wo2, qu, de)
  <2>1. ASSUME NEW v \in Workers, Holds(wo2, v)
        PROVE  /\ wo2[v].result.item < pe /\ wo2[v].result.item \notin Handed(de)
               /\ \A p \in 1..Len(qu) : qu[p].item # wo2[v].result.item
               /\ \A u \in Workers : Holds(wo2, u) /\ wo2[u].result.item = wo2[v].result.item => u = v
    <3>1. Holds(wo, v) /\ wo2[v].result.item = wo[v].result.item
      BY <1>2, <2>1
    <3>2. \A u \in Workers : Holds(wo2, u) /\ wo2[u].result.item = wo2[v].result.item => u = v
      BY <1>2, <3>1 DEF Pipe, Once
    <3>. QED
      BY <3>1, <3>2 DEF Pipe, Once
  <2>. QED
    BY <2>1 DEF Pipe, Once
<1>6. Owed(wo2, qu, pi, de)
  BY <1>3 DEF Pipe, Owed
<1>7. Somewhere(pe, wo2, qu, de)
  BY <1>2 DEF Complete, Somewhere
<1>8. Followed(wo2, qu) /\ Exhausted(pe, wo2)
  BY <1>1, <1>3 DEF Complete, Followed, Exhausted
<1>. QED
  BY <1>4, <1>5, <1>6, <1>7, <1>8 DEF Pipe, Complete

\* What is left of the queue when its first entry is read.
LEMMA ReadEntries ==
  ASSUME NEW qu \in Seq(Result \cup {PillResult}), qu # <<>>, NEW base \in Nat
  PROVE  /\ Tail(qu) \in Seq(Result \cup {PillResult}) /\ Head(qu) = qu[1] /\ 1 \in 1..Len(qu)
         /\ Len(qu) \in Nat /\ Len(Tail(qu)) = Len(qu) - 1
         /\ \A p \in 1..Len(Tail(qu)) : p + 1 \in 1..Len(qu) /\ Tail(qu)[p] = qu[p + 1]
         /\ \A p \in 1..Len(qu) : p = 1 \/ (p - 1 \in 1..Len(Tail(qu)) /\ Tail(qu)[p - 1] = qu[p])
         /\ \A p \in 1..Len(qu) : qu[p] \in Result \cup {PillResult}
         /\ Places(Tail(qu), base + 1) = Places(qu, base) \ {base + 1}
         /\ base + 1 \in Places(qu, base) <=> qu[1] = PillResult
<1>1. /\ Tail(qu) \in Seq(Result \cup {PillResult}) /\ Head(qu) = qu[1]
      /\ Len(qu) \in Nat /\ Len(qu) > 0 /\ Len(Tail(qu)) = Len(qu) - 1
      /\ \A p \in 1..Len(Tail(qu)) : Tail(qu)[p] = qu[p + 1]
  BY LenProperties, EmptySeq, HeadTailProperties
<1>2. \A p \in 1..Len(qu) : qu[p] \in Result \cup {PillResult}
  BY ElementOfSeq
<1>3. \A p \in 1..Len(Tail(qu)) : p + 1 \in 1..Len(qu)
  BY <1>1
<1>4. \A p \in 1..Len(qu) : p = 1 \/ (p - 1 \in 1..Len(Tail(qu)) /\ Tail(qu)[p - 1] = qu[p])
  <2>. SUFFICES ASSUME NEW p \in 1..Len(qu), p # 1
                PROVE  p - 1 \in 1..Len(Tail(qu)) /\ Tail(qu)[p - 1] = qu[p]
    OBVIOUS
  <2>1. p - 1 \in 1..Len(Tail(qu)) /\ (p - 1) + 1 = p
    BY <1>1
  <2>. QED
    BY <1>1, <2>1
<1>5. ASSUME NEW x \in Places(Tail(qu), base + 1)
      PROVE  x \in Places(qu, base) /\ x # base + 1
  <2>1. PICK p \in 1..Len(Tail(qu)) : Tail(qu)[p] = PillResult /\ x = base + 1 + p
    BY <1>5 DEF Places
  <2>2. p + 1 \in 1..Len(qu) /\ qu[p + 1] = PillResult /\ x = base + (p + 1) /\ x # base + 1
    BY <1>1, <1>3, <2>1
  <2>. QED
    BY <2>2 DEF Places
<1>6. ASSUME NEW x \in Places(qu, base), x # base + 1
      PROVE  x \in Places(Tail(qu), base + 1)
  <2>1. PICK p \in 1..Len(qu) : qu[p] = PillResult /\ x = base + p
    BY <1>6 DEF Places
  <2>2. p # 1
    BY <1>6, <2>1
  <2>3. p - 1 \in 1..Len(Tail(qu)) /\ Tail(qu)[p - 1] = PillResult /\ x = base + 1 + (p - 1)
    BY <1>1, <1>4, <2>1, <2>2
  <2>. QED
    BY <2>3 DEF Places
<1>7. base + 1 \in Places(qu, base) <=> qu[1] = PillResult
  BY <1>1 DEF Places
<1>. QED
  BY <1>1, <1>2, <1>3, <1>4, <1>5, <1>6, <1>7

\* What an item that is handed over adds to what was delivered.
LEMMA HandedOver ==
  ASSUME NEW de \in Seq(1..Items), NEW i \in 1..Items
  PROVE  /\ Append(de, i) \in Seq(1..Items) /\ Len(de) \in Nat /\ Len(Append(de, i)) = Len(de) + 1
         /\ Handed(Append(de, i)) = Handed(de) \cup {i}
<1>1. /\ Append(de, i) \in Seq(1..Items) /\ Len(de) \in Nat /\ Len(Append(de, i)) = Len(de) + 1
      /\ \A p \in 1..Len(de) : Append(de, i)[p] = de[p]
      /\ Append(de, i)[Len(de) + 1] = i
  BY AppendProperties, LenProperties
<1>2. \A p \in 1..Len(Append(de, i)) : p \in 1..Len(de) \/ p = Len(de) + 1
  BY <1>1
<1>3. Len(de) + 1 \in 1..Len(Append(de, i)) /\ \A p \in 1..Len(de) : p \in 1..Len(Append(de, i))
  BY <1>1
<1>. QED
  BY <1>1, <1>2, <1>3 DEF Handed

\* The consumer reads the first entry of the queue: a pill is counted, a result is handed over.
LEMMA ReadKeeps ==
  ASSUME NEW pe, NEW wo, NEW qu, NEW pi \in Nat, NEW de \in Seq(1..Items),
         Pipe(pe, wo, qu, pi, de), qu # <<>>, NEW qu2, qu2 = Tail(qu), NEW pi2, NEW de2,
         \/ qu[1] = PillResult /\ pi2 = pi + 1 /\ de2 = de
         \/ qu[1] # PillResult /\ pi2 = pi /\ de2 = Append(de, qu[1].item)
  PROVE  /\ pi2 \in Nat /\ de2 \in Seq(1..Items) /\ Pipe(pe, wo, qu2, pi2, de2)
         /\ Complete(pe, wo, qu, de) => Complete(pe, wo, qu2, de2)
<1>1. /\ qu \in Seq(Result \cup {PillResult}) /\ qu2 \in Seq(Result \cup {PillResult})
      /\ Len(qu) \in Nat /\ Len(qu2) = Len(qu) - 1 /\ 1 \in 1..Len(qu)
      /\ \A p \in 1..Len(qu2) : p + 1 \in 1..Len(qu) /\ qu2[p] = qu[p + 1] /\ p \in Nat /\ p + 1 # 1
      /\ \A p \in 1..Len(qu) : p = 1 \/ (p - 1 \in 1..Len(qu2) /\ qu2[p - 1] = qu[p])
      /\ \A p \in 1..Len(qu) : qu[p] \in Result \cup {PillResult}
  BY ReadEntries DEF Pipe, Types
<1>2. qu[1] # PillResult => qu[1] \in Result /\ qu[1].item \in 1..Items
  BY <1>1, Results
<1>3. /\ pi2 \in Nat /\ de2 \in Seq(1..Items) /\ Len(de) \in Nat
      /\ pi2 + Len(de2) = pi + Len(de) + 1
      /\ Handed(de2) = IF qu[1] = PillResult THEN Handed(de) ELSE Handed(de) \cup {qu[1].item}
  <2>1. Len(de) \in Nat
    BY LenProperties
  <2>2. CASE qu[1] = PillResult
    <3>1. pi2 = pi + 1 /\ de2 = de
      BY <2>2
    <3>. QED
      BY <2>1, <2>2, <3>1
  <2>3. CASE qu[1] # PillResult
    <3>1. pi2 = pi /\ de2 = Append(de, qu[1].item)
      BY <2>3
    <3>2. /\ de2 \in Seq(1..Items) /\ Len(de2) = Len(de) + 1
          /\ Handed(de2) = Handed(de) \cup {qu[1].item}
      BY <1>2, <2>3, <3>1, HandedOver
    <3>. QED
      BY <2>1, <2>3, <3>1, <3>2
  <2>. QED
    BY <2>2, <2>3
<1>4. Types(pe, wo, qu2)
  BY <1>1, PipelineAssumption DEF Pipe, Types
<1>5. Once(pe, wo, qu2, de2)
  <2>1. ASSUME NEW v \in Workers, Holds(wo, v)
        PROVE  /\ wo[v].result.item < pe /\ wo[v].result.item \notin Handed(de2)
               /\ \A p \in 1..Len(qu2) : qu2[p].item # wo[v].result.item
               /\ \A u \in Workers : Holds(wo, u) /\ wo[u].result.item = wo[v].result.item => u = v
    <3>1. \A p \in 1..Len(qu) : qu[p].item # wo[v].result.item
      BY <2>1 DEF Pipe, Once
    <3>2. wo[v].result.item \notin Handed(de2)
      BY <1>1, <1>3, <2>1, <3>1 DEF Pipe, Once
    <3>3. \A p \in 1..Len(qu2) : qu2[p].item # wo[v].result.item
      BY <1>1, <3>1
    <3>. QED
      BY <2>1, <3>2, <3>3 DEF Pipe, Once
  <2>2. ASSUME NEW p \in 1..Len(qu2), qu2[p] # PillResult
        PROVE  /\ qu2[p].item < pe /\ qu2[p].item \notin Handed(de2)
               /\ \A q \in 1..Len(qu2) : qu2[q].item = qu2[p].item => q = p
    <3>1. p + 1 \in 1..Len(qu) /\ qu2[p] = qu[p + 1] /\ p \in Nat /\ p + 1 # 1 /\ qu[p + 1] # PillResult
      BY <1>1, <2>2
    <3>2. /\ qu[p + 1].item < pe /\ qu[p + 1].item \notin Handed(de)
          /\ \A q \in 1..Len(qu) : qu[q].item = qu[p + 1].item => q = p + 1
      BY <3>1 DEF Pipe, Once
    <3>3. qu[1].item # qu[p + 1].item
      BY <1>1, <3>1, <3>2
    <3>4. qu2[p].item \notin Handed(de2)
      BY <1>3, <3>1, <3>2, <3>3
    <3>5. ASSUME NEW q \in 1..Len(qu2), qu2[q].item = qu2[p].item
          PROVE  q = p
      <4>1. q + 1 \in 1..Len(qu) /\ qu2[q] = qu[q + 1] /\ q \in Nat
        BY <1>1
      <4>2. q + 1 = p + 1
        BY <3>1, <3>2, <3>5, <4>1
      <4>. QED
        BY <3>1, <4>1, <4>2
    <3>. QED
      BY <3>1, <3>2, <3>4, <3>5
  <2>3. \A i \in Handed(de2) : i < pe
    BY <1>1, <1>3 DEF Pipe, Once
  <2>. QED
    BY <2>1, <2>2, <2>3 DEF Once
<1>6. InOrder(qu2, de2)
  <2>. SUFFICES ASSUME NEW p \in 1..Len(qu2), qu2[p] # PillResult
                PROVE  Cardinality(Overtaken(qu2[p].item, p, qu2, de2)) < Concurrency
    BY DEF InOrder
  <2>1. p + 1 \in 1..Len(qu) /\ qu2[p] = qu[p + 1] /\ p \in Nat /\ qu[p + 1] # PillResult
    BY <1>1
  <2>. DEFINE i == qu[p + 1].item
  <2>2. ASSUME NEW j \in 1..(i - 1)
        PROVE  (\A q \in 1..((p + 1) - 1) : qu[q].item # j)
                 <=> qu[1].item # j /\ \A q \in 1..(p - 1) : qu2[q].item # j
    <3>1. \A q \in 1..(p - 1) : q \in 1..Len(qu2) /\ qu2[q] = qu[q + 1] /\ q + 1 \in 1..((p + 1) - 1)
      BY <1>1, <2>1
    <3>2. \A q \in 1..((p + 1) - 1) : q = 1 \/ (q - 1 \in 1..(p - 1) /\ q \in 1..Len(qu) /\ qu2[q - 1] = qu[q])
      BY <1>1, <2>1
    <3>3. 1 \in 1..((p + 1) - 1)
      BY <1>1, <2>1
    <3>4. ASSUME \A q \in 1..((p + 1) - 1) : qu[q].item # j
          PROVE  qu[1].item # j /\ \A q \in 1..(p - 1) : qu2[q].item # j
      BY <3>1, <3>3, <3>4
    <3>5. ASSUME qu[1].item # j, \A q \in 1..(p - 1) : qu2[q].item # j, NEW q \in 1..((p + 1) - 1)
          PROVE  qu[q].item # j
      <4>1. CASE q = 1
        BY <3>5, <4>1
      <4>2. CASE q # 1
        BY <3>2, <3>5, <4>2
      <4>. QED
        BY <4>1, <4>2
    <3>. QED
      BY <3>4, <3>5
  <2>3. ASSUME NEW j \in 1..(i - 1)
        PROVE  j \notin Handed(de2) <=> j \notin Handed(de) /\ qu[1].item # j
    <3>1. CASE qu[1] = PillResult
      <4>1. i \in 1..Items
        BY <1>1, <2>1, Results
      <4>2. j # PillResult.item
        BY <4>1, PipelineAssumption DEF PillResult, Pill
      <4>. QED
        BY <1>3, <3>1, <4>2
    <3>2. CASE qu[1] # PillResult
      BY <1>3, <3>2
    <3>. QED
      BY <3>1, <3>2
  <2>4. Overtaken(qu2[p].item, p, qu2, de2) = {j \in 1..(i - 1) : j \notin Handed(de2) /\ \A q \in 1..(p - 1) : qu2[q].item # j}
    BY <2>1 DEF Overtaken
  <2>5. Overtaken(i, p + 1, qu, de) = {j \in 1..(i - 1) : j \notin Handed(de) /\ \A q \in 1..((p + 1) - 1) : qu[q].item # j}
    BY DEF Overtaken
  <2>6. Overtaken(qu2[p].item, p, qu2, de2) = Overtaken(i, p + 1, qu, de)
    <3>1. \A j \in 1..(i - 1) : j \in Overtaken(qu2[p].item, p, qu2, de2) <=> j \in Overtaken(i, p + 1, qu, de)
      BY <2>2, <2>3, <2>4, <2>5
    <3>2. /\ Overtaken(qu2[p].item, p, qu2, de2) \subseteq 1..(i - 1)
          /\ Overtaken(i, p + 1, qu, de) \subseteq 1..(i - 1)
      BY <2>4, <2>5
    <3>. HIDE DEF i
    <3>. QED
      BY <3>1, <3>2
  <2>. QED
    BY <2>1, <2>6 DEF Pipe, InOrder
<1>7. Owed(wo, qu2, pi2, de2)
  <2>. DEFINE base == pi + Len(de)
              old == Places(qu, base)
              new == Places(qu2, base + 1)
  <2>1. base \in Nat /\ pi2 + Len(de2) = base + 1
    BY <1>3
  <2>2. new = old \ {base + 1} /\ (base + 1 \in old <=> qu[1] = PillResult)
    BY <1>1, <2>1, ReadEntries
  <2>3. IsFiniteSet(old) /\ Cardinality(old) \in Nat
    BY <1>1, <2>1, PlacesFinite
  <2>4. Cardinality(new) = IF qu[1] = PillResult THEN Cardinality(old) - 1 ELSE Cardinality(old)
    BY <2>2, <2>3, FS_RemoveElement
  <2>5. Cardinality(Going(wo)) + Cardinality(old) + pi <= Concurrency /\ Cardinality(Going(wo)) \in Nat
    BY GoingFinite DEF Pipe, Owed
  <2>6. Cardinality(Going(wo)) + Cardinality(new) + pi2 <= Concurrency
    <3>. HIDE DEF old, new
    <3>. QED
      BY <2>3, <2>4, <2>5, PipelineAssumption
  <2>. QED
    BY <2>1, <2>6 DEF Owed
<1>8. ASSUME Complete(pe, wo, qu, de)
      PROVE  Complete(pe, wo, qu2, de2)
  <2>1. Somewhere(pe, wo, qu2, de2)
    <3>. SUFFICES ASSUME NEW j \in 1..(pe - 1), j \notin Handed(de2), \A p \in 1..Len(qu2) : qu2[p].item # j
                  PROVE  \E v \in Workers : Holds(wo, v) /\ wo[v].result.item = j
      BY DEF Somewhere
    <3>1. j \notin Handed(de)
      BY <1>3
    <3>2. qu[1].item # j
      <4>1. CASE qu[1] = PillResult
        BY <4>1, PipelineAssumption DEF PillResult, Pill, Pipe, Types
      <4>2. CASE qu[1] # PillResult
        BY <1>3, <4>2
      <4>. QED
        BY <4>1, <4>2
    <3>3. ASSUME NEW p \in 1..Len(qu)
          PROVE  qu[p].item # j
      <4>1. CASE p = 1
        BY <3>2, <4>1
      <4>2. CASE p # 1
        <5>1. p - 1 \in 1..Len(qu2) /\ qu2[p - 1] = qu[p]
          BY <1>1, <4>2
        <5>. QED
          BY <5>1
      <4>. QED
        BY <4>1, <4>2
    <3>. QED
      BY <1>8, <3>1, <3>3 DEF Complete, Somewhere
  <2>2. Followed(wo, qu2)
    <3>. SUFFICES ASSUME Len(qu2) > 0, qu2[Len(qu2)] # PillResult
                  PROVE  Going(wo) # {}
      BY DEF Followed
    <3>1. Len(qu2) \in 1..Len(qu2) /\ Len(qu2) + 1 = Len(qu)
      BY <1>1
    <3>2. qu2[Len(qu2)] = qu[Len(qu)]
      BY <1>1, <3>1
    <3>. QED
      BY <1>1, <1>8, <3>2 DEF Complete, Followed
  <2>. QED
    BY <1>8, <2>1, <2>2 DEF Complete
<1>. QED
  BY <1>3, <1>4, <1>5, <1>6, <1>7, <1>8 DEF Pipe

\* A worker goes on: it takes the next item, puts its pill, or waits to put it.
LEMMA GoesKeeps ==
  ASSUME NEW wo, NEW qu, pills \in Nat, delivered \in Seq(1..Items),
         Pipe(pending, wo, qu, pills, delivered), Complete(pending, wo, qu, delivered),
         NEW w \in Workers, wo[w].at = "new", \A a : [worker EXCEPT ![w] = a] = [wo EXCEPT ![w] = a],
         Goes(w, qu)
  PROVE  Pipe(pending', worker', results', pills, delivered) /\ Complete(pending', worker', results', delivered)
<1>1. CASE pending <= Items
  <2>1. /\ pending' = pending + 1 /\ results' = qu
        /\ worker' = [wo EXCEPT ![w] = [at |-> "fetch", result |-> [item |-> pending, retryable |-> FALSE]]]
    BY <1>1 DEF Goes
  <2>. QED
    BY <1>1, <2>1, TakeKeeps
<1>2. CASE ~(pending <= Items)
  <2>1. pending' = pending /\ pending = Items + 1
    BY <1>2, PipelineAssumption DEF Goes, Pipe, Types
  <2>2. CASE Room(qu)
    <3>1. results' = Append(qu, PillResult) /\ worker' = [wo EXCEPT ![w] = Waiting("gone")]
      BY <1>2, <2>2 DEF Goes
    <3>. QED
      BY <2>1, <2>2, <3>1, PillKeeps
  <2>3. CASE ~Room(qu)
    <3>1. results' = qu /\ worker' = [wo EXCEPT ![w] = Waiting("pill")]
      BY <1>2, <2>3 DEF Goes
    <3>2. /\ Waiting("pill") \in [at : {"new", "fetch", "put", "pill", "gone"}, result : Result \cup {PillResult}]
          /\ Waiting("pill").at = "pill"
      BY DEF Waiting
    <3>. QED
      BY <2>1, <3>1, <3>2, WaitKeeps
  <2>. QED
    BY <2>2, <2>3
<1>. QED
  BY <1>1, <1>2

\* A worker puts its result and goes on.
LEMMA PutAndGoKeeps ==
  ASSUME pills \in Nat, delivered \in Seq(1..Items),
         Pipe(pending, worker, results, pills, delivered), Complete(pending, worker, results, delivered),
         NEW w \in Workers, Holds(worker, w), Room(results),
         NEW r \in Result, r.item = worker[w].result.item, Goes(w, Append(results, r))
  PROVE  Pipe(pending', worker', results', pills, delivered) /\ Complete(pending', worker', results', delivered)
<1>. DEFINE wo == [worker EXCEPT ![w] = Waiting("new")]
<1>1. /\ Pipe(pending, wo, Append(results, r), pills, delivered)
      /\ Complete(pending, wo, Append(results, r), delivered)
  BY PutKeeps
<1>2. /\ wo[w].at = "new"
      /\ \A a : [worker EXCEPT ![w] = a] = [wo EXCEPT ![w] = a]
  BY DEF Pipe, Types, Waiting
<1>. HIDE DEF wo
<1>. QED
  BY <1>1, <1>2, GoesKeeps

\* Cancelled workers hold nothing, and none that had ended is there again.
LEMMA CancelKeeps ==
  ASSUME Pipe(pending, worker, results, pills, delivered), pills \in 0..Concurrency, delivered \in Seq(1..Items)
  PROVE  /\ Pipe(pending, Cancelled, results, pills, delivered)
         /\ \A w \in Workers : Cancelled[w].at \in {"pill", "gone"}
<1>1. \A w \in Workers : Cancelled[w].at \in {"pill", "gone"} /\ ~Holds(Cancelled, w)
  BY DEF Cancelled, Waiting, Holds
<1>2. Cancelled \in [Workers -> [at : {"new", "fetch", "put", "pill", "gone"}, result : Result \cup {PillResult}]]
  BY DEF Cancelled, Waiting
<1>3. Types(pending, Cancelled, results) /\ Once(pending, Cancelled, results, delivered)
  BY <1>1, <1>2 DEF Pipe, Types, Once
<1>4. Owed(Cancelled, results, pills, delivered)
  <2>1. Going(Cancelled) \subseteq Going(worker)
    BY DEF Going, Cancelled, Waiting
  <2>2. Cardinality(Going(Cancelled)) <= Cardinality(Going(worker))
    BY <2>1, GoingFinite, FS_Subset
  <2>3. Len(delivered) \in Nat /\ pills \in Nat /\ pills + Len(delivered) \in Nat
    BY LenProperties, PipelineAssumption
  <2>4. Cardinality(Places(results, pills + Len(delivered))) \in Nat
    BY <2>3, PlacesFinite DEF Pipe, Types
  <2>. QED
    BY <2>2, <2>3, <2>4, GoingFinite, PipelineAssumption DEF Pipe, Owed
<1>. QED
  BY <1>1, <1>3, <1>4 DEF Pipe

\* When the last pill was read, every worker is gone and every item was handed over.
LEMMA AllHanded ==
  ASSUME NEW pe, NEW wo, NEW qu, NEW de \in Seq(1..Items),
         Pipe(pe, wo, qu, Concurrency, de), Complete(pe, wo, qu, de)
  PROVE  /\ \A w \in Workers : wo[w].at = "gone"
         /\ qu = <<>> /\ pe = Items + 1 /\ Handed(de) = 1..Items
<1>1. Len(de) \in Nat /\ Concurrency \in Nat /\ Concurrency + Len(de) \in Nat /\ Len(qu) \in Nat
  BY LenProperties, PipelineAssumption DEF Pipe, Types
<1>2. /\ IsFiniteSet(Going(wo)) /\ Cardinality(Going(wo)) \in Nat
      /\ IsFiniteSet(Places(qu, Concurrency + Len(de))) /\ Cardinality(Places(qu, Concurrency + Len(de))) \in Nat
  BY <1>1, GoingFinite, PlacesFinite DEF Pipe, Types
<1>3. Cardinality(Going(wo)) = 0 /\ Cardinality(Places(qu, Concurrency + Len(de))) = 0
  BY <1>1, <1>2 DEF Pipe, Owed
<1>4. Going(wo) = {} /\ Places(qu, Concurrency + Len(de)) = {}
  BY <1>2, <1>3, FS_EmptySet
<1>5. \A w \in Workers : wo[w].at = "gone"
  BY <1>4 DEF Going
<1>6. qu = <<>>
  <2>1. \A p \in 1..Len(qu) : qu[p] # PillResult
    BY <1>4 DEF Places
  <2>2. ~(Len(qu) > 0)
    BY <1>1, <1>4, <2>1 DEF Complete, Followed
  <2>. QED
    BY <1>1, <2>2, EmptySeq DEF Pipe, Types
<1>7. pe = Items + 1
  <2>1. 1 \in Workers
    BY PipelineAssumption DEF Workers
  <2>. QED
    BY <1>5, <2>1 DEF Complete, Exhausted
<1>8. Handed(de) = 1..Items
  <2>1. Handed(de) \subseteq 1..Items
    BY ElementOfSeq DEF Handed
  <2>2. 1..(pe - 1) = 1..Items
    BY <1>7, PipelineAssumption
  <2>3. \A p \in 1..Len(qu) : FALSE
    BY <1>6
  <2>. QED
    BY <1>5, <2>1, <2>2, <2>3 DEF Complete, Somewhere, Holds
<1>. QED
  BY <1>5, <1>6, <1>7, <1>8

-----------------------------------------------------------------------------
(* The invariant. *)

\* What the lemmas above ask for.
LEMMA InvariantParts ==
  ASSUME IInv
  PROVE  /\ pills \in Nat /\ pills \in 0..Concurrency /\ delivered \in Seq(1..Items)
         /\ Pipe(pending, worker, results, pills, delivered)
<1>1. pills \in 0..Concurrency /\ delivered \in Seq(1..Items)
  BY DEF IInv, Passing
<1>2. pills \in Nat
  BY <1>1, PipelineAssumption
<1>. QED
  BY <1>1, <1>2 DEF IInv
LEMMA InitInvariant == Init => IInv
<1>. SUFFICES ASSUME Init
              PROVE  IInv
  OBVIOUS
<1>1. Passing /\ Stopped /\ NobodyLeft /\ Undisturbed
  <2>1. 0 \in 0..Concurrency /\ 0 \in 0..GiveUp /\ 0 < GiveUp /\ <<>> \in Seq(1..Items)
    BY PipelineAssumption
  <2>2. Passing
    BY <2>1 DEF Init, Passing
  <2>. QED
    BY <2>2 DEF Init, Stopped, NobodyLeft, Undisturbed
<1>2. /\ Len(results) = 0 /\ Len(delivered) = 0 /\ pending = 1
      /\ results \in Seq(Result \cup {PillResult}) /\ \A w \in Workers : worker[w].at = "new"
  BY DEF Init, Waiting
<1>3. Handed(delivered) = {} /\ Places(results, pills + Len(delivered)) = {}
  BY <1>2 DEF Handed, Places
<1>4. Types(pending, worker, results)
  BY <1>2, PipelineAssumption DEF Init, Types, Waiting, Holds
<1>5. Once(pending, worker, results, delivered) /\ InOrder(results, delivered)
  BY <1>2, <1>3 DEF Once, InOrder, Holds
<1>6. Owed(worker, results, pills, delivered)
  <2>1. Going(worker) = Workers
    BY <1>2 DEF Going
  <2>2. Cardinality(Workers) = Concurrency
    BY PipelineAssumption, FS_Interval DEF Workers
  <2>. QED
    <3>1. Cardinality(Places(results, pills + Len(delivered))) = 0 /\ pills = 0
      BY <1>3, FS_EmptySet DEF Init
    <3>. QED
      BY <2>1, <2>2, <3>1, PipelineAssumption DEF Owed
<1>7. Complete(pending, worker, results, delivered)
  BY <1>2 DEF Complete, Somewhere, Followed, Exhausted
<1>. QED
  BY <1>1, <1>4, <1>5, <1>6, <1>7 DEF IInv, Pipe

\* What a worker does.
LEMMA WorkKeeps ==
  ASSUME IInv, NEW w \in Workers, Work(w)
  PROVE  IInv'
<1>1. UNCHANGED <<pills, consecutive, consumer, delivered, ended, raced>>
  BY DEF Work, StartWorker, Fetched, Put, PutPill, Unchanged
<1>2. worker[w].at # "gone"
  BY DEF Work, StartWorker, Fetched, Put, PutPill
<1>3. Passing' /\ NobodyLeft' /\ (Undisturbed' <=> Undisturbed)
  BY <1>1, <1>2 DEF IInv, Passing, NobodyLeft, Undisturbed
<1>4. pills \in Nat /\ delivered \in Seq(1..Items) /\ Pipe(pending, worker, results, pills, delivered)
  BY InvariantParts
<1>5. CASE PutPill(w)
  <2>1. /\ pending' = pending /\ results' = Append(results, PillResult) /\ Room(results)
        /\ worker' = [worker EXCEPT ![w] = Waiting("gone")] /\ worker[w].at = "pill"
    BY <1>5 DEF PutPill
  <2>2. /\ Pipe(pending', worker', results', pills, delivered)
        /\ Complete(pending, worker, results, delivered) /\ pending = Items + 1
             => Complete(pending', worker', results', delivered)
    BY <1>4, <2>1, PillKeeps
  <2>3. Undisturbed => Complete(pending', worker', results', delivered)
    BY <2>1, <2>2 DEF IInv, Complete, Exhausted
  <2>4. Stopped'
    BY <1>3, <1>4, <2>1 DEF IInv, Stopped, Waiting, Pipe, Types
  <2>. QED
    BY <1>1, <1>3, <2>2, <2>3, <2>4 DEF IInv
<1>6. CASE ~PutPill(w)
  <2>1. worker[w].at \in {"new", "fetch", "put"}
    BY <1>6 DEF Work, StartWorker, Fetched, Put
  <2>2. Undisturbed /\ Complete(pending, worker, results, delivered)
    BY <2>1 DEF IInv, Stopped
  <2>3. /\ Pipe(pending', worker', results', pills, delivered)
        /\ Complete(pending', worker', results', delivered)
    <3>1. CASE StartWorker(w)
      BY <1>4, <2>2, <3>1, GoesKeeps DEF StartWorker
    <3>2. CASE Fetched(w)
      <4>1. Holds(worker, w) /\ worker[w].result \in Result
        BY <1>4, <3>2 DEF Fetched, Holds, Pipe, Types
      <4>2. PICK retryable \in BOOLEAN :
              LET result == [worker[w].result EXCEPT !.retryable = retryable]
              IN  IF Room(results) THEN Goes(w, Append(results, result))
                  ELSE /\ worker' = [worker EXCEPT ![w] = [at |-> "put", result |-> result]]
                       /\ UNCHANGED <<pending, results>>
        BY <3>2 DEF Fetched
      <4>. DEFINE result == [worker[w].result EXCEPT !.retryable = retryable]
      <4>3. result \in Result /\ result.item = worker[w].result.item
        BY <4>1 DEF Result
      <4>. HIDE DEF result
      <4>4. CASE Room(results)
        <5>1. Goes(w, Append(results, result))
          BY <4>2, <4>4 DEF result
        <5>. QED
          BY <1>4, <2>2, <4>1, <4>3, <4>4, <5>1, PutAndGoKeeps
      <4>5. CASE ~Room(results)
        <5>. DEFINE a == [at |-> "put", result |-> result]
        <5>1. worker' = [worker EXCEPT ![w] = a] /\ pending' = pending /\ results' = results
          BY <4>2, <4>5 DEF result
        <5>2. /\ a \in [at : {"new", "fetch", "put", "pill", "gone"}, result : Result \cup {PillResult}]
              /\ a.at = "put" /\ a.result \in Result /\ a.result.item = worker[w].result.item
          BY <4>3
        <5>. HIDE DEF a
        <5>. QED
          BY <1>4, <2>2, <4>1, <5>1, <5>2, WaitKeeps
      <4>. QED
        BY <4>4, <4>5
    <3>3. CASE Put(w)
      <4>1. Holds(worker, w) /\ worker[w].result \in Result
        BY <1>4, <3>3 DEF Put, Holds, Pipe, Types
      <4>2. Room(results) /\ Goes(w, Append(results, worker[w].result))
        BY <3>3 DEF Put
      <4>. QED
        BY <1>4, <2>2, <4>1, <4>2, PutAndGoKeeps
    <3>. QED
      BY <1>6, <3>1, <3>2, <3>3 DEF Work
  <2>4. Stopped'
    BY <1>3, <2>2 DEF Stopped
  <2>. QED
    BY <1>1, <1>3, <2>3, <2>4 DEF IInv
<1>. QED
  BY <1>5, <1>6

\* What the consumer does when it reads a pill.
LEMMA ReadPillKeeps ==
  ASSUME IInv, ReadPill
  PROVE  /\ IInv'
         /\ ended' # ended => ended = "no" /\ ended' = "all" /\ Handed(delivered) = 1..Items
<1>1. /\ pills \in Nat /\ delivered \in Seq(1..Items) /\ Pipe(pending, worker, results, pills, delivered)
      /\ consumer = "get" /\ ended = "no" /\ Complete(pending, worker, results, delivered)
  BY InvariantParts DEF ReadPill, IInv, Passing, Undisturbed
<1>2. /\ results # <<>> /\ results[1] = PillResult /\ results' = Tail(results) /\ pills' = pills + 1
      /\ UNCHANGED <<pending, worker, consecutive, delivered, raced>>
  BY <1>1, ReadEntries DEF ReadPill, Pipe, Types
<1>3. /\ Pipe(pending, worker, results', pills + 1, delivered)
      /\ Complete(pending, worker, results', delivered)
  BY <1>1, <1>2, ReadKeeps
<1>4. /\ Pipe(pending', worker', results', pills', delivered')
      /\ Complete(pending', worker', results', delivered')
  BY <1>2, <1>3
<1>5. pills' \in 0..Concurrency
  <2>1. Len(delivered) \in Nat /\ pills' \in Nat /\ pills' + Len(delivered) \in Nat
    BY <1>1, <1>2, LenProperties
  <2>2. results' \in Seq(Result \cup {PillResult})
    BY <1>3 DEF Pipe, Types
  <2>3. Cardinality(Places(results', pills' + Len(delivered))) \in Nat
    BY <2>1, <2>2, PlacesFinite
  <2>4. Cardinality(Going(worker)) + Cardinality(Places(results', pills' + Len(delivered))) + pills' <= Concurrency
    BY <1>2, <1>3 DEF Pipe, Owed
  <2>. QED
    BY <2>1, <2>3, <2>4, GoingFinite, PipelineAssumption
<1>6. CASE pills' = Concurrency
  <2>1. consumer' = "over" /\ ended' = "all"
    BY <1>6 DEF ReadPill
  <2>2. /\ \A w \in Workers : worker[w].at = "gone"
        /\ results' = <<>> /\ pending = Items + 1 /\ Handed(delivered) = 1..Items
    <3>1. pills + 1 = Concurrency
      BY <1>2, <1>6
    <3>2. Pipe(pending, worker, results', Concurrency, delivered)
      BY <1>3, <3>1
    <3>. QED
      BY <1>1, <1>3, <3>2, AllHanded
  <2>3. Passing'
    BY <1>1, <1>2, <1>5, <2>1 DEF IInv, Passing
  <2>4. Stopped' /\ NobodyLeft'
    BY <1>2, <2>2 DEF Stopped, NobodyLeft
  <2>. QED
    BY <1>1, <1>4, <2>1, <2>2, <2>3, <2>4 DEF IInv
<1>7. CASE pills' # Concurrency
  <2>1. UNCHANGED <<consumer, ended>>
    BY <1>7 DEF ReadPill
  <2>2. Passing'
    BY <1>1, <1>2, <1>5, <2>1 DEF IInv, Passing
  <2>3. Stopped' /\ NobodyLeft'
    BY <1>1, <2>1 DEF Stopped, NobodyLeft, Undisturbed
  <2>. QED
    BY <1>4, <2>1, <2>2, <2>3 DEF IInv
<1>. QED
  BY <1>6, <1>7

\* What the consumer does when it reads a result.
LEMMA ReadResultKeeps ==
  ASSUME IInv, ReadResult
  PROVE  IInv'
<1>1. /\ pills \in Nat /\ delivered \in Seq(1..Items) /\ Pipe(pending, worker, results, pills, delivered)
      /\ consumer = "get" /\ ended = "no" /\ Complete(pending, worker, results, delivered)
      /\ consecutive \in 0..GiveUp /\ consecutive < GiveUp
  BY InvariantParts DEF ReadResult, IInv, Passing, Undisturbed
<1>2. /\ results # <<>> /\ results[1] # PillResult /\ results' = Tail(results)
      /\ delivered' = Append(delivered, results[1].item)
      /\ UNCHANGED <<pending, worker, pills, ended, raced>>
  BY <1>1, ReadEntries DEF ReadResult, Pipe, Types
<1>3. /\ delivered' \in Seq(1..Items)
      /\ Pipe(pending, worker, results', pills, delivered')
      /\ Complete(pending, worker, results', delivered')
  <2>. DEFINE qu2 == Tail(results)
              de2 == Append(delivered, results[1].item)
  <2>1. /\ qu2 = Tail(results)
        /\ \/ results[1] = PillResult /\ pills = pills + 1 /\ de2 = delivered
           \/ results[1] # PillResult /\ pills = pills /\ de2 = Append(delivered, results[1].item)
    BY <1>2
  <2>2. delivered' = de2 /\ results' = qu2
    BY <1>2
  <2>. HIDE DEF qu2, de2
  <2>3. results # <<>> /\ Pipe(pending, worker, results, pills, delivered) /\ pills \in Nat /\ delivered \in Seq(1..Items)
    BY <1>1, <1>2
  <2>4. /\ de2 \in Seq(1..Items) /\ Pipe(pending, worker, qu2, pills, de2)
        /\ Complete(pending, worker, results, delivered) => Complete(pending, worker, qu2, de2)
    BY <2>1, <2>3, ReadKeeps
  <2>. QED
    BY <1>1, <2>2, <2>4
<1>4. /\ Pipe(pending', worker', results', pills', delivered')
      /\ Complete(pending', worker', results', delivered')
  BY <1>2, <1>3
<1>5. /\ consecutive' \in 0..GiveUp /\ consumer' \in {"giving up", "store"}
      /\ consumer' = "store" => consecutive' < GiveUp
  <2>1. consecutive' \in {consecutive + 1, 0} /\ consumer' = IF consecutive' >= GiveUp THEN "giving up" ELSE "store"
    BY DEF ReadResult
  <2>2. consecutive + 1 \in 0..GiveUp /\ 0 \in 0..GiveUp
    BY <1>1, PipelineAssumption
  <2>3. consecutive' \in 0..GiveUp
    BY <2>1, <2>2
  <2>4. consumer' = "store" => ~(consecutive' >= GiveUp)
    BY <2>1
  <2>5. consumer' = "store" => consecutive' < GiveUp
    BY <2>3, <2>4, PipelineAssumption
  <2>6. consumer' \in {"giving up", "store"}
    BY <2>1
  <2>. QED
    BY <2>3, <2>5, <2>6
<1>6. Passing'
  BY <1>1, <1>2, <1>3, <1>5 DEF IInv, Passing
<1>7. Stopped' /\ NobodyLeft'
  BY <1>1, <1>2, <1>5 DEF Stopped, NobodyLeft, Undisturbed
<1>. QED
  BY <1>4, <1>6, <1>7 DEF IInv

\* What else the pass does, and how it is closed.
LEMMA PassKeeps ==
  ASSUME IInv, Stored \/ GivesUp \/ Finalize \/ Closed \/ CancelWhileGetting \/ CancelWhileStoring
  PROVE  IInv'
<1>1. UNCHANGED <<pending, results, pills, consecutive, delivered>>
  BY DEF Stored, GivesUp, Finalize, Closed, CancelWhileGetting, CancelWhileStoring
<1>2. /\ pills \in 0..Concurrency /\ delivered \in Seq(1..Items) /\ Pipe(pending, worker, results, pills, delivered)
  BY InvariantParts
<1>3. ended # "all" /\ ended' # "all" /\ NobodyLeft'
  BY DEF Stored, GivesUp, Finalize, Closed, CancelWhileGetting, CancelWhileStoring, IInv, Passing, NobodyLeft
<1>4. Passing'
  BY <1>1 DEF Stored, GivesUp, Finalize, Closed, CancelWhileGetting, CancelWhileStoring, IInv, Passing
<1>5. CASE worker' = Cancelled
  <2>1. Pipe(pending, worker', results, pills, delivered) /\ \A w \in Workers : worker'[w].at \in {"pill", "gone"}
    BY <1>2, <1>5, CancelKeeps
  <2>2. CASE Undisturbed'
    <3>1. UNCHANGED worker
      BY <2>2 DEF Stored, GivesUp, Finalize, Closed, CancelWhileGetting, CancelWhileStoring, Undisturbed
    <3>2. Undisturbed
      BY <2>2 DEF Stored, GivesUp, Finalize, Closed, CancelWhileGetting, CancelWhileStoring, Undisturbed
    <3>. QED
      BY <1>1, <1>3, <1>4, <2>1, <2>2, <3>1, <3>2 DEF IInv, Stopped
  <2>3. CASE ~Undisturbed'
    BY <1>1, <1>3, <1>4, <2>1, <2>3 DEF IInv, Stopped
  <2>. QED
    BY <2>2, <2>3
<1>6. CASE worker' # Cancelled
  <2>1. UNCHANGED worker /\ (Undisturbed' <=> Undisturbed)
    BY <1>6 DEF Stored, GivesUp, Finalize, Closed, CancelWhileGetting, CancelWhileStoring, Undisturbed
  <2>. QED
    BY <1>1, <1>3, <1>4, <2>1 DEF IInv, Stopped
<1>. QED
  BY <1>5, <1>6

LEMMA StepInvariant == IInv /\ [Next]_vars => IInv'
<1>. SUFFICES ASSUME IInv, [Next]_vars
              PROVE  IInv'
  OBVIOUS
<1>1. ASSUME NEW w \in Workers, Work(w)
      PROVE  IInv'
  BY <1>1, WorkKeeps
<1>2. CASE ReadPill
  BY <1>2, ReadPillKeeps
<1>3. CASE ReadResult
  BY <1>3, ReadResultKeeps
<1>4. CASE Stored \/ GivesUp \/ Finalize \/ Closed \/ CancelWhileGetting \/ CancelWhileStoring
  BY <1>4, PassKeeps
<1>5. CASE UNCHANGED vars
  BY <1>5 DEF vars, IInv, Passing, Stopped, NobodyLeft, Undisturbed
<1>. QED
  BY <1>1, <1>2, <1>3, <1>4, <1>5 DEF Next, Consume

LEMMA Invariance == Spec => []IInv
BY InitInvariant, StepInvariant, PTL DEF Spec

\* The queue of results never holds more than it has room for, and a pipeline that was read to its end
\* leaves no worker, no result and no item behind (`_fetch_pipeline`).
THEOREM PipelineLeavesNothing == Spec => []PipelineOK
<1>1. ASSUME IInv
      PROVE  PipelineOK
  <2>1. Types(pending, worker, results)
    BY <1>1 DEF IInv, Pipe
  <2>2. TypeOK
    BY <1>1, <2>1 DEF IInv, Passing, Types, TypeOK
  <2>. QED
    BY <1>1, <2>2 DEF IInv, PipelineOK
<1>. QED
  BY <1>1, Invariance, PTL

-----------------------------------------------------------------------------
(* The refinement. *)

LEMMA SameCardinality == \A S : Delivery!Cardinality(S) = Cardinality(S)
BY DEF Delivery!Cardinality, Cardinality

LEMMA SameItems == \A de : de \in Seq(1..Items) => Delivery!ToSet(de) = Handed(de)
BY LenProperties DEF Delivery!ToSet, Handed

LEMMA DeliveredInOrder == IInv /\ [Next]_vars => [Delivery!DeliveryNext]_(Delivery!deliveryVars)
<1>. SUFFICES ASSUME IInv, [Next]_vars
              PROVE  Delivery!DeliveryNext \/ UNCHANGED <<delivered, ended>>
  BY DEF Delivery!deliveryVars
<1>1. /\ pills \in Nat /\ delivered \in Seq(1..Items) /\ Pipe(pending, worker, results, pills, delivered)
  BY InvariantParts
<1>2. ASSUME ended = "no", UNCHANGED delivered, ended' \in {"gave up", "cancelled"}
      PROVE  Delivery!DeliveryNext
  <2>1. Delivery!End(ended')
    BY <1>2 DEF Delivery!End
  <2>. QED
    BY <1>2, <2>1 DEF Delivery!DeliveryNext, Delivery!Ends
<1>3. ASSUME NEW w \in Workers, Work(w)
      PROVE  UNCHANGED <<delivered, ended>>
  BY <1>3 DEF Work, StartWorker, Fetched, Put, PutPill, Unchanged
<1>4. CASE ReadPill
  <2>1. CASE ended' = ended
    BY <1>4, <2>1 DEF ReadPill
  <2>2. CASE ended' # ended
    <3>1. ended = "no" /\ ended' = "all" /\ Delivery!ToSet(delivered) = 1..Items /\ UNCHANGED delivered
      BY <1>1, <1>4, <2>2, ReadPillKeeps, SameItems DEF ReadPill
    <3>2. Delivery!End("all")
      BY <3>1 DEF Delivery!End
    <3>. QED
      BY <3>2 DEF Delivery!DeliveryNext, Delivery!Ends
  <2>. QED
    BY <2>1, <2>2
<1>5. CASE ReadResult
  <2>. DEFINE i == results[1].item
  <2>1. results # <<>> /\ 1 \in 1..Len(results) /\ results[1] \in Result /\ results[1] # PillResult
    BY <1>1, <1>5, ReadEntries DEF ReadResult, Pipe, Types
  <2>2. delivered' = Append(delivered, i) /\ UNCHANGED ended /\ ended = "no"
    BY <1>1, <1>5, ReadEntries DEF ReadResult, Pipe, Types, IInv, Passing
  <2>3. i \in 1..Items /\ i \notin Delivery!ToSet(delivered)
    BY <1>1, <2>1, Results, SameItems DEF Pipe, Once
  <2>4. 1..(i - 1) \ Delivery!ToSet(delivered) = Overtaken(i, 1, results, delivered)
    BY <1>1, SameItems DEF Overtaken
  <2>5. Cardinality(Overtaken(i, 1, results, delivered)) < Concurrency
    BY <1>1, <2>1 DEF Pipe, InOrder
  <2>. HIDE DEF i
  <2>6. Delivery!Deliver(i)
    BY <2>2, <2>3, <2>4, <2>5, SameCardinality DEF Delivery!Deliver
  <2>. QED
    BY <2>3, <2>6 DEF Delivery!DeliveryNext
<1>6. CASE Stored \/ Finalize \/ UNCHANGED vars
  BY <1>6 DEF Stored, Finalize, vars
<1>7. CASE GivesUp
  BY <1>2, <1>7 DEF GivesUp, IInv, Passing
<1>8. CASE Closed
  BY <1>2, <1>8 DEF Closed, IInv, Passing
<1>9. CASE CancelWhileGetting
  BY <1>9 DEF CancelWhileGetting
<1>10. CASE CancelWhileStoring
  BY <1>2, <1>10 DEF CancelWhileStoring, IInv, Passing
<1>. QED
  BY <1>3, <1>4, <1>5, <1>6, <1>7, <1>8, <1>9, <1>10 DEF Next, Consume

\* Every missing shot is handed over at most once, and about in the order asked for: no more are still
\* under way before it than the other workers hold. A pass that says it fetched all has handed over all.
THEOREM PipelineDelivers == Spec => Delivers
<1>1. Init => Delivery!DeliveryInit
  BY DEF Init, Delivery!DeliveryInit
<1>. QED
  BY <1>1, DeliveredInOrder, Invariance, PTL DEF Spec, Delivers, Delivery!DeliverySpec
=============================================================================
