--------------------------- MODULE ChatRun_proofs ---------------------------
(***************************************************************************)
(* The safety properties of ChatRun for every number of runs, calls,       *)
(* events and streams.  The inductive invariant says of each run how far   *)
(* it is and what it may still do (RunInv), where each of its events is    *)
(* between the run, the table and the bus (EventsInv), what the stream has *)
(* still to be given (StreamInv), and that only a run inside a round has   *)
(* calls without results in the transcript (TalkInv).                      *)
(***************************************************************************)
EXTENDS ChatRun, TLAPS, SequenceTheorems, WellFoundedInduction

-----------------------------------------------------------------------------
(* The runs. *)

Stages == {"none", "opened", "asked", "ready", "turn", "final", "say", "calls", "tool", "said", "ending", "over"}
MessageSet == [role : {"user", "assistant", "tool"}, calls : 0..MaxAsked, results : 0..MaxAsked]
Turns == [history : Seq(MessageSet), round : Nat, used : Nat, calls : 0..MaxAsked, results : 0..MaxAsked, status : Final]

\* A turn within the bounds of its scene: what is left of the calls is enough for those of this round.
Bounded(t, stage) ==
  /\ t.used <= scene.calls /\ t.round <= scene.rounds
  /\ stage \in {"none", "opened", "asked", "ready", "turn", "calls", "tool"} => t.round < scene.rounds
  /\ stage \in {"calls", "tool"} => /\ 0 < t.calls /\ t.results <= t.calls
                                    /\ t.used + t.calls <= scene.calls + t.results
  /\ stage = "tool" => t.results < t.calls

\* A run that is under way says so in its row, unless it was cancelled before it was registered.
RunOK(r) ==
  /\ row[r] \in Final \cup {"none", "running"} /\ at[r] \in Stages /\ turn[r] \in Turns /\ Bounded(turn[r], at[r])
  /\ at[r] = "none" => row[r] = "none"
  /\ at[r] \notin {"none", "over"} /\ r \notin early => row[r] = "running"
  /\ r \in running <=> at[r] \notin {"none", "opened", "asked", "over"}

RunTypes ==
  /\ row = [r \in Runs |-> row[r]] /\ at = [r \in Runs |-> at[r]] /\ turn = [r \in Runs |-> turn[r]]
  /\ running \subseteq Runs /\ cancel \subseteq Runs /\ messages \in Seq(MessageSet) /\ scene \in Scenes /\ faults \in Nat
RunInv == RunTypes /\ \A r \in Runs : RunOK(r)

-----------------------------------------------------------------------------
(* The events of a run: those under way are the newest, the stored ones first. *)

EventKinds == LastEvents \cup {"delta", "tool_call", "tool_result", "message", "status"}
Events == [seq : Nat, kind : EventKinds]
Emissions == [seq : Nat, kind : EventKinds, stored : BOOLEAN]
Numbers(rows) == {event.seq : event \in rows}

\* e are the events under way, n how many there were, rows the stored ones, gone those that could not be.
InOrder(e, n) ==
  /\ e \in Seq(Emissions) /\ n \in Nat /\ Len(e) <= n /\ \A i \in 1..Len(e) : e[i].seq = n - Len(e) + i
  /\ \A i, j \in 1..Len(e) : i < j /\ e[j].stored => e[i].stored
Accounted(e, n, rows, gone) ==
  /\ rows \subseteq Events /\ Numbers(rows) \subseteq 1..n /\ gone \subseteq Nat
  /\ \A a, b \in rows : a.seq = b.seq => a = b
  /\ \A k \in 1..n : k \in gone \/ k \in Numbers(rows) \/ \E i \in 1..Len(e) : e[i].seq = k /\ ~e[i].stored
  /\ \A i \in 1..Len(e) : ~e[i].stored => \A k \in Numbers(rows) : k < e[i].seq
EventsTypes ==
  /\ emitting = [r \in Runs |-> emitting[r]] /\ seq = [r \in Runs |-> seq[r]]
  /\ stored = [r \in Runs |-> stored[r]] /\ unsaved = [r \in Runs |-> unsaved[r]]
EventsInv == EventsTypes /\ \A r \in Runs : InOrder(emitting[r], seq[r]) /\ Accounted(emitting[r], seq[r], stored[r], unsaved[r])

-----------------------------------------------------------------------------
(* The stream. *)

Queued == [run : Runs \cup {0}, seq : Nat, kind : EventKinds]
StreamSet == [at : {"closed", "subscribed", "read", "replay", "following", "tail"}, run : Runs, highest : Nat,
              todo : SUBSET Events, queue : Seq(Queued), seen : Seq(Nat), lost : BOOLEAN]

\* n is the number of the last event, p that of the last one on the bus.
Seen(s, n, gone) ==
  /\ s.highest <= n
  /\ \A i, j \in 1..Len(s.seen) : i < j => s.seen[i] < s.seen[j]
  /\ \A i \in 1..Len(s.seen) : s.seen[i] <= s.highest
  /\ ~s.lost => \A k \in 1..s.highest : k \in gone \/ \E i \in 1..Len(s.seen) : s.seen[i] = k

\* What was read and is not handed on yet has no gap.
Todo(s, rows, gone) ==
  /\ s.todo \subseteq rows /\ \A event \in s.todo : s.highest < event.seq
  /\ \A event \in s.todo : \A k \in (s.highest + 1)..(event.seq - 1) : k \in gone \/ k \in Numbers(s.todo)
  /\ s.at \in {"closed", "subscribed", "following"} => s.todo = {}

\* What is on the bus and not stored by the time the table was read is in the queue.
InQueue(s, k) == \E i \in 1..Len(s.queue) : s.queue[i].run = s.run /\ s.queue[i].seq = k
Follows(s, p, gone) ==
  /\ Len(s.queue) <= QueueSize /\ (s.at = "closed" => s.queue = <<>>)
  /\ \A i \in 1..Len(s.queue) : s.queue[i].run = s.run => s.queue[i].seq <= p
  /\ \A i, j \in 1..Len(s.queue) : i < j /\ s.queue[i].run = s.run /\ s.queue[j].run = s.run => s.queue[i].seq < s.queue[j].seq
  /\ ~s.lost /\ s.at \in {"read", "replay", "following"} =>
       \A k \in 1..p : k <= s.highest \/ k \in gone \/ k \in Numbers(s.todo) \/ InQueue(s, k)

StreamOK(s) ==
  /\ Seen(s, seq[s.run], unsaved[s.run]) /\ Todo(s, stored[s.run], unsaved[s.run])
  /\ Follows(s, seq[s.run] - Len(emitting[s.run]), unsaved[s.run])
StreamInv == stream \in StreamSet /\ StreamOK(stream)

-----------------------------------------------------------------------------
(* The transcript. *)

\* One message is where the provider accepts it; so is every one but the last, which asks for calls.
InPlace(sent, i) ==
  /\ sent[i].calls > 0 => i < Len(sent) /\ sent[i + 1].role = "tool" /\ sent[i + 1].results = sent[i].calls
  /\ sent[i].role = "tool" => i > 1 /\ sent[i].results > 0 /\ sent[i - 1].calls = sent[i].results
Open(sent, calls) ==
  /\ Len(sent) > 0 /\ sent[Len(sent)].role = "assistant" /\ sent[Len(sent)].calls = calls
  /\ \A i \in 1..Len(sent) : i < Len(sent) => InPlace(sent, i)

InRound == {r \in Runs : at[r] \in {"calls", "tool"}}
TalkOK ==
  /\ \A r, s \in Alive : r = s
  /\ \A r \in Runs : at[r] \in {"turn", "final"} => Acceptable(turn[r].history)
  /\ \A r \in InRound : Open(turn[r].history, turn[r].calls) /\ Open(messages, turn[r].calls)
  /\ InRound = {} => Acceptable(messages)
TalkInv == disturbed \/ faults > 0 \/ TalkOK

IInv == RunInv /\ EventsInv /\ StreamInv /\ TalkInv

-----------------------------------------------------------------------------
(* The events of one run. *)

\* A new event goes last in line.
LEMMA EmitOrder ==
  ASSUME NEW e, NEW n, NEW rows, NEW gone, NEW kind \in EventKinds, InOrder(e, n), Accounted(e, n, rows, gone)
  PROVE  LET e2 == Append(e, [seq |-> n + 1, kind |-> kind, stored |-> FALSE])
         IN  InOrder(e2, n + 1) /\ Accounted(e2, n + 1, rows, gone) /\ Len(e2) = Len(e) + 1
<1>. DEFINE new == [seq |-> n + 1, kind |-> kind, stored |-> FALSE]
            e2 == Append(e, new)
<1>1. e \in Seq(Emissions) /\ n \in Nat /\ Len(e) \in Nat /\ Len(e) <= n
  BY LenProperties DEF InOrder
<1>2. new \in Emissions /\ new.seq = n + 1 /\ new.stored = FALSE
  BY <1>1 DEF Emissions
<1>. HIDE DEF new
<1>3. /\ e2 \in Seq(Emissions) /\ Len(e2) = Len(e) + 1 /\ e2[Len(e) + 1] = new
      /\ \A i \in 1..Len(e) : e2[i] = e[i]
  BY <1>1, <1>2, AppendProperties
<1>. HIDE DEF e2
<1>4. \A i \in 1..Len(e2) : i \in 1..Len(e) \/ i = Len(e) + 1
  BY <1>1, <1>3
<1>5. \A i \in 1..Len(e) : e[i].seq = n - Len(e) + i
  BY DEF InOrder
<1>6. \A i \in 1..Len(e2) : e2[i].seq = (n + 1) - Len(e2) + i
  <2>1. \A i \in 1..Len(e) : e2[i].seq = (n + 1) - Len(e2) + i
    BY <1>1, <1>3, <1>5
  <2>2. e2[Len(e) + 1].seq = (n + 1) - Len(e2) + (Len(e) + 1)
    BY <1>1, <1>2, <1>3
  <2>. QED
    BY <1>4, <2>1, <2>2
<1>7. \A i, j \in 1..Len(e2) : i < j /\ e2[j].stored => e2[i].stored
  <2>. SUFFICES ASSUME NEW i \in 1..Len(e2), NEW j \in 1..Len(e2), i < j, e2[j].stored
                PROVE  e2[i].stored
    OBVIOUS
  <2>1. j \in 1..Len(e)
    BY <1>2, <1>3, <1>4
  <2>2. i \in 1..Len(e)
    BY <1>1, <2>1
  <2>. QED
    BY <1>3, <2>1, <2>2 DEF InOrder
<1>8. InOrder(e2, n + 1)
  BY <1>1, <1>3, <1>6, <1>7 DEF InOrder
<1>9. Numbers(rows) \subseteq 1..n /\ 1..n \subseteq 1..(n + 1)
  BY <1>1 DEF Accounted
<1>10. \A k \in 1..(n + 1) : k \in gone \/ k \in Numbers(rows) \/ \E i \in 1..Len(e2) : e2[i].seq = k /\ ~e2[i].stored
  <2>1. ASSUME NEW k \in 1..n
        PROVE  k \in gone \/ k \in Numbers(rows) \/ \E i \in 1..Len(e2) : e2[i].seq = k /\ ~e2[i].stored
    <3>1. ASSUME NEW i \in 1..Len(e), e[i].seq = k, ~e[i].stored
          PROVE  \E j \in 1..Len(e2) : e2[j].seq = k /\ ~e2[j].stored
      <4>1. i \in 1..Len(e2)
        BY <1>1, <1>3
      <4>. QED
        BY <1>3, <3>1, <4>1
    <3>. QED
      BY <3>1 DEF Accounted
  <2>2. \E i \in 1..Len(e2) : e2[i].seq = n + 1 /\ ~e2[i].stored
    <3>1. Len(e) + 1 \in 1..Len(e2)
      BY <1>1, <1>3
    <3>. QED
      BY <1>2, <1>3, <3>1
  <2>3. \A k \in 1..(n + 1) : k \in 1..n \/ k = n + 1
    BY <1>1
  <2>. QED
    BY <2>1, <2>2, <2>3
<1>11. \A i \in 1..Len(e2) : ~e2[i].stored => \A k \in Numbers(rows) : k < e2[i].seq
  <2>1. \A i \in 1..Len(e) : ~e2[i].stored => \A k \in Numbers(rows) : k < e2[i].seq
    BY <1>3 DEF Accounted
  <2>2. \A k \in Numbers(rows) : k < n + 1
    BY <1>1, <1>9
  <2>. QED
    BY <1>2, <1>3, <1>4, <2>1, <2>2
<1>12. Accounted(e2, n + 1, rows, gone)
  <2>1. Numbers(rows) \subseteq 1..(n + 1)
    BY <1>9
  <2>. QED
    BY <1>10, <1>11, <2>1 DEF Accounted
<1>. QED
  BY <1>3, <1>8, <1>12 DEF e2, new

\* The first that is not stored is stored, or cannot be.
LEMMA StoreOrder ==
  ASSUME NEW e, NEW n, NEW rows, NEW gone, InOrder(e, n), Accounted(e, n, rows, gone),
         NEW i \in 1..Len(e), ~e[i].stored, \A j \in 1..(i - 1) : e[j].stored,
         NEW rows2, NEW gone2,
         \/ rows2 = rows \cup {[seq |-> e[i].seq, kind |-> e[i].kind]} /\ gone2 = gone
         \/ rows2 = rows /\ gone2 = gone \cup {e[i].seq}
  PROVE  LET e2 == [e EXCEPT ![i].stored = TRUE]
         IN  InOrder(e2, n) /\ Accounted(e2, n, rows2, gone2) /\ Len(e2) = Len(e)
<1>. DEFINE e2 == [e EXCEPT ![i].stored = TRUE]
            new == [seq |-> e[i].seq, kind |-> e[i].kind]
<1>1. e \in Seq(Emissions) /\ n \in Nat /\ Len(e) \in Nat /\ Len(e) <= n /\ \A j \in 1..Len(e) : e[j] \in Emissions
  BY LenProperties, ElementOfSeq DEF InOrder
<1>2. \A j \in 1..Len(e) : e[j].seq = n - Len(e) + j
  BY DEF InOrder
<1>3. [e[i] EXCEPT !.stored = TRUE] \in Emissions /\ [e[i] EXCEPT !.stored = TRUE].seq = e[i].seq /\ [e[i] EXCEPT !.stored = TRUE].stored
  BY <1>1 DEF Emissions
<1>4. e2 \in Seq(Emissions) /\ Len(e2) = Len(e) /\ e2[i] = [e[i] EXCEPT !.stored = TRUE] /\ \A j \in 1..Len(e) : j # i => e2[j] = e[j]
  <2>. DEFINE it == [e[i] EXCEPT !.stored = TRUE]
  <2>1. e2 = [e EXCEPT ![i] = it]
    OBVIOUS
  <2>2. it \in Emissions
    BY <1>3
  <2>. HIDE DEF it, e2
  <2>3. e2 \in Seq(Emissions) /\ Len(e2) = Len(e) /\ \A j \in 1..Len(e) : e2[j] = IF j = i THEN it ELSE e[j]
    BY <1>1, <2>1, <2>2, ExceptSeq
  <2>. QED
    BY <2>3 DEF it
<1>5. new \in Events /\ new.seq = e[i].seq /\ e[i].seq \in 1..n
  BY <1>1, <1>2 DEF Events, Emissions
<1>. HIDE DEF e2, new
<1>6. InOrder(e2, n)
  <2>1. \A j \in 1..Len(e2) : e2[j].seq = n - Len(e2) + j
    BY <1>2, <1>3, <1>4
  <2>2. \A j, k \in 1..Len(e2) : j < k /\ e2[k].stored => e2[j].stored
    <3>. SUFFICES ASSUME NEW j \in 1..Len(e2), NEW k \in 1..Len(e2), j < k, e2[k].stored
                  PROVE  e2[j].stored
      OBVIOUS
    <3>1. CASE j = i
      BY <1>3, <1>4, <3>1
    <3>2. CASE j # i /\ k = i
      <4>1. j \in 1..(i - 1)
        BY <1>1, <3>2
      <4>. QED
        BY <1>4, <3>2, <4>1
    <3>3. CASE j # i /\ k # i
      BY <1>4, <3>3 DEF InOrder
    <3>. QED
      BY <3>1, <3>2, <3>3
  <2>. QED
    BY <1>1, <1>4, <2>1, <2>2 DEF InOrder
<1>7. /\ Numbers(rows2) \subseteq Numbers(rows) \cup {e[i].seq} /\ Numbers(rows) \subseteq Numbers(rows2) /\ gone \subseteq gone2
      /\ rows2 \subseteq Events /\ gone2 \subseteq Nat /\ e[i].seq \in gone2 \cup Numbers(rows2)
      /\ rows2 \subseteq rows \cup {new}
  <2>1. rows \subseteq Events /\ gone \subseteq Nat /\ e[i].seq \in Nat
    BY <1>1, <1>5 DEF Accounted
  <2>2. CASE rows2 = rows \cup {new} /\ gone2 = gone
    <3>1. Numbers(rows2) = Numbers(rows) \cup {new.seq}
      BY <2>2 DEF Numbers
    <3>. QED
      BY <1>5, <2>1, <2>2, <3>1
  <2>3. CASE rows2 = rows /\ gone2 = gone \cup {e[i].seq}
    BY <1>5, <2>1, <2>3
  <2>. QED
    BY <2>2, <2>3 DEF new
<1>8. Numbers(rows) \subseteq 1..n /\ \A k \in Numbers(rows) : k < e[i].seq
  BY DEF Accounted
<1>9. \A a, b \in rows2 : a.seq = b.seq => a = b
  <2>1. \A a \in rows : a.seq \in Numbers(rows)
    BY DEF Numbers
  <2>2. \A a \in rows : a.seq # new.seq
    BY <1>1, <1>5, <1>8, <2>1
  <2>. QED
    BY <1>7, <2>2 DEF Accounted
<1>10. \A k \in 1..n : k \in gone2 \/ k \in Numbers(rows2) \/ \E j \in 1..Len(e2) : e2[j].seq = k /\ ~e2[j].stored
  <2>. SUFFICES ASSUME NEW k \in 1..n, k # e[i].seq, NEW j \in 1..Len(e), e[j].seq = k, ~e[j].stored
                PROVE  \E m \in 1..Len(e2) : e2[m].seq = k /\ ~e2[m].stored
    BY <1>7 DEF Accounted
  <2>. QED
    BY <1>4
<1>11. \A j \in 1..Len(e2) : ~e2[j].stored => \A k \in Numbers(rows2) : k < e2[j].seq
  <2>. SUFFICES ASSUME NEW j \in 1..Len(e2), ~e2[j].stored, NEW k \in Numbers(rows2)
                PROVE  k < e2[j].seq
    OBVIOUS
  <2>1. j # i /\ j \in 1..Len(e) /\ ~e[j].stored /\ e2[j] = e[j]
    BY <1>3, <1>4
  <2>2. i < j
    <3>1. j \notin 1..(i - 1)
      BY <2>1
    <3>. QED
      BY <1>1, <2>1, <3>1
  <2>3. e[i].seq < e[j].seq
    BY <1>1, <1>2, <2>1, <2>2
  <2>. QED
    BY <1>7, <2>1, <2>3 DEF Accounted
<1>12. Accounted(e2, n, rows2, gone2)
  BY <1>5, <1>7, <1>8, <1>9, <1>10, <1>11 DEF Accounted
<1>. QED
  BY <1>4, <1>6, <1>12 DEF e2

\* The first in line, which is stored, goes to the bus.
LEMMA PublishOrder ==
  ASSUME NEW e, NEW n, NEW rows, NEW gone, InOrder(e, n), Accounted(e, n, rows, gone), e # <<>>, Head(e).stored
  PROVE  /\ InOrder(Tail(e), n) /\ Accounted(Tail(e), n, rows, gone)
         /\ Len(Tail(e)) = Len(e) - 1 /\ Head(e) \in Emissions /\ Head(e).seq = (n - Len(e)) + 1
<1>1. e \in Seq(Emissions) /\ n \in Nat /\ Len(e) \in Nat /\ Len(e) <= n /\ Len(e) > 0
  BY LenProperties, EmptySeq DEF InOrder
<1>2. /\ Head(e) = e[1] /\ Tail(e) \in Seq(Emissions) /\ Len(Tail(e)) = Len(e) - 1 /\ Head(e) \in Emissions
      /\ \A i \in 1..Len(Tail(e)) : Tail(e)[i] = e[i + 1]
  BY <1>1, HeadTailProperties
<1>3. 1 \in 1..Len(e) /\ \A i \in 1..Len(Tail(e)) : i + 1 \in 1..Len(e)
  BY <1>1, <1>2
<1>4. \A i \in 1..Len(e) : e[i].seq = n - Len(e) + i
  BY DEF InOrder
<1>5. InOrder(Tail(e), n)
  <2>1. \A i \in 1..Len(Tail(e)) : Tail(e)[i].seq = n - Len(Tail(e)) + i
    BY <1>1, <1>2, <1>3, <1>4
  <2>2. \A i, j \in 1..Len(Tail(e)) : i < j => i + 1 < j + 1
    BY <1>1, <1>2
  <2>. QED
    BY <1>1, <1>2, <1>3, <2>1, <2>2 DEF InOrder
<1>6. \A i \in 1..Len(e) : ~e[i].stored => i - 1 \in 1..Len(Tail(e)) /\ (i - 1) + 1 = i
  <2>. SUFFICES ASSUME NEW i \in 1..Len(e), ~e[i].stored
                PROVE  i - 1 \in 1..Len(Tail(e)) /\ (i - 1) + 1 = i
    OBVIOUS
  <2>1. i # 1
    BY <1>2
  <2>. QED
    BY <1>1, <1>2, <2>1
<1>7. \A k \in 1..n : k \in gone \/ k \in Numbers(rows) \/ \E i \in 1..Len(Tail(e)) : Tail(e)[i].seq = k /\ ~Tail(e)[i].stored
  <2>. SUFFICES ASSUME NEW k \in 1..n, NEW i \in 1..Len(e), e[i].seq = k, ~e[i].stored
                PROVE  \E j \in 1..Len(Tail(e)) : Tail(e)[j].seq = k /\ ~Tail(e)[j].stored
    BY DEF Accounted
  <2>1. i - 1 \in 1..Len(Tail(e)) /\ Tail(e)[i - 1] = e[i]
    BY <1>2, <1>6
  <2>. QED
    BY <2>1
<1>8. \A i \in 1..Len(Tail(e)) : ~Tail(e)[i].stored => \A k \in Numbers(rows) : k < Tail(e)[i].seq
  BY <1>2, <1>3 DEF Accounted
<1>9. Accounted(Tail(e), n, rows, gone)
  BY <1>7, <1>8 DEF Accounted
<1>10. Head(e).seq = (n - Len(e)) + 1
  BY <1>2, <1>3, <1>4
<1>. QED
  BY <1>2, <1>5, <1>9, <1>10

\* A restart: what was on its way and not stored is gone.
LEMMA DropOrder ==
  ASSUME NEW e, NEW n, NEW rows, NEW gone, InOrder(e, n), Accounted(e, n, rows, gone), NEW gone2,
         gone2 = gone \cup {e[i].seq : i \in {j \in DOMAIN e : ~e[j].stored}}
  PROVE  InOrder(<<>>, n) /\ Accounted(<<>>, n, rows, gone2) /\ gone \subseteq gone2
<1>1. e \in Seq(Emissions) /\ n \in Nat /\ Len(e) \in Nat /\ DOMAIN e = 1..Len(e) /\ \A j \in 1..Len(e) : e[j] \in Emissions
  BY LenProperties, ElementOfSeq DEF InOrder
<1>2. InOrder(<<>>, n)
  BY <1>1 DEF InOrder
<1>3. gone2 \subseteq Nat /\ gone \subseteq gone2 /\ \A i \in 1..Len(e) : ~e[i].stored => e[i].seq \in gone2
  <2>1. gone \subseteq Nat
    BY DEF Accounted
  <2>2. \A j \in 1..Len(e) : e[j].seq \in Nat
    BY <1>1 DEF Emissions
  <2>3. {e[i].seq : i \in {j \in DOMAIN e : ~e[j].stored}} \subseteq Nat
    BY <1>1, <2>2
  <2>4. \A i \in 1..Len(e) : ~e[i].stored => e[i].seq \in {e[k].seq : k \in {j \in DOMAIN e : ~e[j].stored}}
    BY <1>1
  <2>. QED
    BY <2>1, <2>3, <2>4
<1>4. \A k \in 1..n : k \in gone2 \/ k \in Numbers(rows)
  BY <1>3 DEF Accounted
<1>5. Accounted(<<>>, n, rows, gone2)
  BY <1>3, <1>4 DEF Accounted
<1>. QED
  BY <1>2, <1>3, <1>5

\* A cancellation: what was on its way is stored, and the run has one last event.
LEMMA CancelOrder ==
  ASSUME NEW e, NEW n, NEW rows, NEW gone, InOrder(e, n), Accounted(e, n, rows, gone), NEW kind \in EventKinds,
         NEW sent, sent = {[seq |-> event.seq, kind |-> event.kind] : event \in {one \in ToSet(e) : ~one.stored}}
  PROVE  LET last == <<[seq |-> n + 1, kind |-> kind, stored |-> FALSE]>>
         IN  InOrder(last, n + 1) /\ Accounted(last, n + 1, rows \cup sent, gone)
<1>. DEFINE new == [seq |-> n + 1, kind |-> kind, stored |-> FALSE]
            last == <<new>>
            all == rows \cup sent
<1>1. /\ e \in Seq(Emissions) /\ n \in Nat /\ Len(e) \in Nat /\ Len(e) <= n
      /\ \A i \in 1..Len(e) : e[i].seq = n - Len(e) + i /\ e[i] \in Emissions
  BY LenProperties, ElementOfSeq DEF InOrder
<1>2. new \in Emissions /\ new.seq = n + 1 /\ new.stored = FALSE
  BY <1>1 DEF Emissions
<1>. HIDE DEF new
<1>3. last \in Seq(Emissions) /\ Len(last) = 1 /\ last[1] = new
  BY <1>2
<1>4. InOrder(last, n + 1)
  BY <1>1, <1>2, <1>3 DEF InOrder
<1>5. ASSUME NEW b \in sent
      PROVE  \E i \in 1..Len(e) : ~e[i].stored /\ b = [seq |-> e[i].seq, kind |-> e[i].kind]
  <2>1. DOMAIN e = 1..Len(e)
    BY <1>1, LenProperties
  <2>. QED
    BY <1>5, <2>1 DEF ToSet
<1>6. ASSUME NEW i \in 1..Len(e), ~e[i].stored
      PROVE  [seq |-> e[i].seq, kind |-> e[i].kind] \in sent /\ e[i].seq \in Numbers(sent)
  <2>1. DOMAIN e = 1..Len(e)
    BY <1>1, LenProperties
  <2>. DEFINE b == [seq |-> e[i].seq, kind |-> e[i].kind]
  <2>2. b \in sent /\ b.seq = e[i].seq
    BY <1>6, <2>1 DEF ToSet
  <2>. HIDE DEF b
  <2>3. e[i].seq \in Numbers(sent)
    BY <2>2 DEF Numbers
  <2>. QED
    BY <2>2, <2>3 DEF b
<1>7. \A b \in sent : b \in Events /\ b.seq \in 1..n /\ \A a \in rows : a.seq < b.seq
  <2>. SUFFICES ASSUME NEW b \in sent
                PROVE  b \in Events /\ b.seq \in 1..n /\ \A a \in rows : a.seq < b.seq
    OBVIOUS
  <2>1. PICK i \in 1..Len(e) : ~e[i].stored /\ b = [seq |-> e[i].seq, kind |-> e[i].kind]
    BY <1>5
  <2>2. b \in Events /\ b.seq = e[i].seq /\ e[i].seq \in 1..n
    BY <1>1, <2>1 DEF Events, Emissions
  <2>3. \A a \in rows : a.seq \in Numbers(rows)
    BY DEF Numbers
  <2>. QED
    BY <2>1, <2>2, <2>3 DEF Accounted
<1>8. \A a, b \in sent : a.seq = b.seq => a = b
  <2>. SUFFICES ASSUME NEW a \in sent, NEW b \in sent, a.seq = b.seq
                PROVE  a = b
    OBVIOUS
  <2>1. PICK i \in 1..Len(e) : a = [seq |-> e[i].seq, kind |-> e[i].kind]
    BY <1>5
  <2>2. PICK j \in 1..Len(e) : b = [seq |-> e[j].seq, kind |-> e[j].kind]
    BY <1>5
  <2>3. i = j
    BY <1>1, <2>1, <2>2
  <2>. QED
    BY <2>1, <2>2, <2>3
<1>. HIDE DEF last
<1>9. all \subseteq Events /\ Numbers(all) \subseteq 1..n /\ gone \subseteq Nat /\ Numbers(rows) \subseteq Numbers(all)
      /\ Numbers(sent) \subseteq Numbers(all)
  BY <1>7 DEF Accounted, Numbers
<1>10. \A a, b \in all : a.seq = b.seq => a = b
  <2>. SUFFICES ASSUME NEW a \in all, NEW b \in all, a.seq = b.seq
                PROVE  a = b
    OBVIOUS
  <2>1. \A c, d \in rows : c.seq = d.seq => c = d
    BY DEF Accounted
  <2>2. \A c \in all : c.seq \in Nat
    BY <1>9 DEF Events
  <2>3. CASE a \in rows /\ b \in rows
    BY <2>1, <2>3
  <2>4. CASE a \in sent /\ b \in sent
    BY <1>8, <2>4
  <2>5. CASE a \in rows /\ b \in sent
    BY <1>7, <2>2, <2>5
  <2>6. CASE a \in sent /\ b \in rows
    BY <1>7, <2>2, <2>6
  <2>. QED
    BY <2>3, <2>4, <2>5, <2>6
<1>11. \A k \in 1..(n + 1) : k \in gone \/ k \in Numbers(all) \/ \E i \in 1..Len(last) : last[i].seq = k /\ ~last[i].stored
  <2>. SUFFICES ASSUME NEW k \in 1..(n + 1), k # n + 1
                PROVE  k \in gone \/ k \in Numbers(all)
    BY <1>2, <1>3
  <2>1. k \in 1..n
    BY <1>1
  <2>. QED
    BY <1>6, <1>9, <2>1 DEF Accounted
<1>12. \A i \in 1..Len(last) : ~last[i].stored => \A k \in Numbers(all) : k < last[i].seq
  BY <1>1, <1>2, <1>3, <1>9
<1>13. Numbers(all) \subseteq 1..(n + 1)
  BY <1>1, <1>9
<1>14. Accounted(last, n + 1, all, gone)
  BY <1>9, <1>10, <1>11, <1>12, <1>13 DEF Accounted
<1>. QED
  BY <1>4, <1>14 DEF last, new

\* What the table holds has no gap but what could not be stored.
LEMMA StoredBefore ==
  ASSUME NEW e, NEW n, NEW rows, NEW gone, InOrder(e, n), Accounted(e, n, rows, gone)
  PROVE  /\ \A m \in Numbers(rows) : \A k \in 1..m : k \in gone \/ k \in Numbers(rows)
         /\ \A k \in 1..(n - Len(e)) : k \in gone \/ k \in Numbers(rows)
<1>1. n \in Nat /\ Len(e) \in Nat /\ Numbers(rows) \subseteq 1..n /\ \A i \in 1..Len(e) : e[i].seq = n - Len(e) + i
  BY LenProperties DEF InOrder, Accounted
<1>2. ASSUME NEW m \in Numbers(rows), NEW k \in 1..m
      PROVE  k \in gone \/ k \in Numbers(rows)
  <2>1. k \in 1..n /\ ~(m < k)
    BY <1>1
  <2>2. ASSUME NEW i \in 1..Len(e), e[i].seq = k, ~e[i].stored
        PROVE  FALSE
    BY <2>1, <2>2 DEF Accounted
  <2>. QED
    BY <2>1, <2>2 DEF Accounted
<1>3. ASSUME NEW k \in 1..(n - Len(e))
      PROVE  k \in gone \/ k \in Numbers(rows)
  <2>1. k \in 1..n
    BY <1>1
  <2>2. \A i \in 1..Len(e) : e[i].seq # k
    BY <1>1
  <2>. QED
    BY <2>1, <2>2 DEF Accounted
<1>. QED
  BY <1>2, <1>3

-----------------------------------------------------------------------------
(* The events and the stream, while a run goes on. *)

\* The table and the numbers only grow, and what is on the bus is the same: the stream is as good as it was.
LEMMA StreamStays ==
  ASSUME StreamInv, EventsInv, EventsInv', stream' = stream,
         \A r \in Runs : /\ seq[r] <= seq'[r] /\ stored[r] \subseteq stored'[r] /\ unsaved[r] \subseteq unsaved'[r]
                         /\ seq'[r] - Len(emitting'[r]) = seq[r] - Len(emitting[r])
  PROVE  StreamInv'
<1>. DEFINE s == stream
            r == stream.run
<1>1. s \in StreamSet /\ r \in Runs /\ s.highest \in Nat
  BY DEF StreamInv, StreamSet
<1>2. /\ seq[r] \in Nat /\ seq'[r] \in Nat /\ seq[r] <= seq'[r] /\ stored[r] \subseteq stored'[r] /\ unsaved[r] \subseteq unsaved'[r]
      /\ seq'[r] - Len(emitting'[r]) = seq[r] - Len(emitting[r])
  BY <1>1 DEF EventsInv, InOrder
<1>3. Seen(s, seq[r], unsaved[r]) /\ Todo(s, stored[r], unsaved[r]) /\ Follows(s, seq[r] - Len(emitting[r]), unsaved[r])
  BY DEF StreamInv, StreamOK
<1>. HIDE DEF s, r
<1>4. Seen(s, seq'[r], unsaved'[r])
  BY <1>1, <1>2, <1>3 DEF Seen
<1>5. Todo(s, stored'[r], unsaved'[r])
  BY <1>2, <1>3 DEF Todo
<1>6. Follows(s, seq'[r] - Len(emitting'[r]), unsaved'[r])
  BY <1>2, <1>3 DEF Follows
<1>. QED
  BY <1>1, <1>4, <1>5, <1>6 DEF StreamInv, StreamOK, s, r

LEMMA NothingEmitted ==
  ASSUME EventsInv, StreamInv, UNCHANGED <<emitting, seq, stored, unsaved, stream>>
  PROVE  EventsInv' /\ StreamInv'
<1>1. EventsInv'
  BY DEF EventsInv, EventsTypes
<1>2. StreamInv'
  BY DEF StreamInv, StreamOK
<1>. QED
  BY <1>1, <1>2

LEMMA EmitKeeps ==
  ASSUME EventsInv, StreamInv, NEW r \in Runs, NEW kind \in EventKinds, Emit(r, kind), UNCHANGED <<stored, unsaved, stream>>
  PROVE  EventsInv' /\ StreamInv'
<1>. DEFINE new == Append(emitting[r], [seq |-> seq[r] + 1, kind |-> kind, stored |-> FALSE])
<1>1. InOrder(emitting[r], seq[r]) /\ Accounted(emitting[r], seq[r], stored[r], unsaved[r])
  BY DEF EventsInv
<1>2. /\ InOrder(new, seq[r] + 1) /\ Accounted(new, seq[r] + 1, stored[r], unsaved[r]) /\ Len(new) = Len(emitting[r]) + 1
  BY <1>1, EmitOrder
<1>3. emitting' = [emitting EXCEPT ![r] = new] /\ seq' = [seq EXCEPT ![r] = seq[r] + 1]
  BY DEF Emit
<1>. HIDE DEF new
<1>4. emitting'[r] = new /\ seq'[r] = seq[r] + 1 /\ \A s \in Runs \ {r} : emitting'[s] = emitting[s] /\ seq'[s] = seq[s]
  BY <1>3 DEF EventsInv, EventsTypes
<1>5. EventsInv'
  <2>1. EventsTypes'
    BY <1>3 DEF EventsInv, EventsTypes
  <2>2. ASSUME NEW s \in Runs
        PROVE  InOrder(emitting'[s], seq'[s]) /\ Accounted(emitting'[s], seq'[s], stored'[s], unsaved'[s])
    <3>1. CASE s = r
      BY <1>2, <1>4, <3>1
    <3>2. CASE s # r
      BY <1>4, <3>2 DEF EventsInv
    <3>. QED
      BY <3>1, <3>2
  <2>. QED
    BY <2>1, <2>2 DEF EventsInv
<1>6. ASSUME NEW s \in Runs
      PROVE  seq[s] <= seq'[s] /\ seq'[s] - Len(emitting'[s]) = seq[s] - Len(emitting[s])
  <2>1. seq[s] \in Nat /\ Len(emitting[s]) \in Nat
    BY LenProperties DEF EventsInv, InOrder
  <2>. QED
    BY <1>2, <1>4, <2>1
<1>7. StreamInv'
  BY <1>5, <1>6, StreamStays
<1>. QED
  BY <1>5, <1>7

LEMMA StoreEventKeeps ==
  ASSUME EventsInv, StreamInv, NEW r \in Runs, StoreEvent(r)
  PROVE  EventsInv' /\ StreamInv'
<1>1. PICK i \in DOMAIN emitting[r] :
        /\ ~emitting[r][i].stored /\ \A j \in 1..(i - 1) : emitting[r][j].stored
        /\ emitting' = [emitting EXCEPT ![r][i].stored = TRUE]
        /\ \/ stored' = [stored EXCEPT ![r] = @ \cup {[seq |-> emitting[r][i].seq, kind |-> emitting[r][i].kind]}] /\ unsaved' = unsaved
           \/ unsaved' = [unsaved EXCEPT ![r] = @ \cup {emitting[r][i].seq}] /\ stored' = stored
  BY DEF StoreEvent
<1>2. stream' = stream /\ seq' = seq
  BY DEF StoreEvent
<1>3. InOrder(emitting[r], seq[r]) /\ Accounted(emitting[r], seq[r], stored[r], unsaved[r]) /\ i \in 1..Len(emitting[r])
  BY LenProperties DEF EventsInv, InOrder
<1>. DEFINE new == [emitting[r] EXCEPT ![i].stored = TRUE]
<1>4. \/ stored'[r] = stored[r] \cup {[seq |-> emitting[r][i].seq, kind |-> emitting[r][i].kind]} /\ unsaved'[r] = unsaved[r]
      \/ stored'[r] = stored[r] /\ unsaved'[r] = unsaved[r] \cup {emitting[r][i].seq}
  BY <1>1 DEF EventsInv, EventsTypes
<1>5. \A s \in Runs \ {r} : stored'[s] = stored[s] /\ unsaved'[s] = unsaved[s]
  BY <1>1 DEF EventsInv, EventsTypes
<1>6. InOrder(new, seq[r]) /\ Accounted(new, seq[r], stored'[r], unsaved'[r]) /\ Len(new) = Len(emitting[r])
  <2>. DEFINE old == emitting[r]
              number == seq[r]
              rows == stored[r]
              gone == unsaved[r]
              rows2 == stored'[r]
              gone2 == unsaved'[r]
  <2>1. InOrder(old, number) /\ Accounted(old, number, rows, gone) /\ i \in 1..Len(old)
    BY <1>3
  <2>2. ~old[i].stored /\ \A j \in 1..(i - 1) : old[j].stored
    BY <1>1
  <2>3. \/ rows2 = rows \cup {[seq |-> old[i].seq, kind |-> old[i].kind]} /\ gone2 = gone
        \/ rows2 = rows /\ gone2 = gone \cup {old[i].seq}
    BY <1>4
  <2>4. new = [old EXCEPT ![i].stored = TRUE]
    OBVIOUS
  <2>. HIDE DEF old, number, rows, gone, rows2, gone2, new
  <2>5. InOrder(new, number) /\ Accounted(new, number, rows2, gone2) /\ Len(new) = Len(old)
    BY <2>1, <2>2, <2>3, <2>4, StoreOrder
  <2>. QED
    BY <2>5 DEF old, number, rows2, gone2
<1>7. emitting' = [emitting EXCEPT ![r] = new]
  BY <1>1
<1>. HIDE DEF new
<1>8. emitting'[r] = new /\ \A s \in Runs \ {r} : emitting'[s] = emitting[s]
  BY <1>7 DEF EventsInv, EventsTypes
<1>9. EventsInv'
  <2>1. EventsTypes'
    BY <1>1, <1>2, <1>7 DEF EventsInv, EventsTypes
  <2>2. ASSUME NEW s \in Runs
        PROVE  InOrder(emitting'[s], seq'[s]) /\ Accounted(emitting'[s], seq'[s], stored'[s], unsaved'[s])
    <3>1. CASE s = r
      BY <1>2, <1>6, <1>8, <3>1
    <3>2. CASE s # r
      BY <1>2, <1>5, <1>8, <3>2 DEF EventsInv
    <3>. QED
      BY <3>1, <3>2
  <2>. QED
    BY <2>1, <2>2 DEF EventsInv
<1>10. ASSUME NEW s \in Runs
       PROVE  /\ seq[s] <= seq'[s] /\ stored[s] \subseteq stored'[s] /\ unsaved[s] \subseteq unsaved'[s]
              /\ seq'[s] - Len(emitting'[s]) = seq[s] - Len(emitting[s])
  <2>1. seq[s] \in Nat
    BY DEF EventsInv, InOrder
  <2>2. Len(emitting'[s]) = Len(emitting[s])
    BY <1>6, <1>8
  <2>. QED
    BY <1>2, <1>4, <1>5, <2>1, <2>2
<1>11. StreamInv'
  BY <1>2, <1>9, <1>10, StreamStays
<1>. QED
  BY <1>9, <1>11

-----------------------------------------------------------------------------
(* The bus. *)

\* An event goes last in the queue, which may lose its first.
LEMMA QueueTakes ==
  ASSUME stream \in StreamSet, Subscribed, NEW event \in Queued, NEW p \in Nat, NEW p2 \in Nat, NEW gone, Follows(stream, p, gone),
         (event.run = stream.run /\ event.seq = p + 1 /\ p2 = p + 1) \/ (event.run # stream.run /\ p2 = p)
  PROVE  LET s == Published(event)
         IN  /\ s \in StreamSet /\ Follows(s, p2, gone) /\ (~s.lost => ~stream.lost)
             /\ s.at = stream.at /\ s.run = stream.run /\ s.highest = stream.highest /\ s.todo = stream.todo /\ s.seen = stream.seen
<1>. DEFINE s == Published(event)
            q == stream.queue
            full == Len(q) = QueueSize
            base == IF full THEN Tail(q) ELSE q
            k == IF full THEN 1 ELSE 0
<1>1. q \in Seq(Queued) /\ Len(q) \in Nat /\ Len(q) <= QueueSize /\ QueueSize \in Nat /\ QueueSize > 0
  BY LenProperties, ChatAssumption DEF StreamSet, Follows
<1>2. /\ base \in Seq(Queued) /\ Len(base) = Len(q) - k /\ k \in {0, 1} /\ Len(base) < QueueSize
      /\ \A i \in 1..Len(base) : base[i] = q[i + k]
  <2>1. CASE full
    <3>1. q # <<>>
      BY <1>1, <2>1, EmptySeq
    <3>. QED
      BY <1>1, <2>1, <3>1, HeadTailProperties
  <2>2. CASE ~full
    BY <1>1, <2>2
  <2>. QED
    BY <2>1, <2>2
<1>3. /\ s.queue = Append(base, event) /\ s.lost = (stream.lost \/ (full /\ Head(q).run = stream.run))
      /\ s.at = stream.at /\ s.run = stream.run /\ s.highest = stream.highest /\ s.todo = stream.todo /\ s.seen = stream.seen
      /\ s \in StreamSet
  <2>1. Append(base, event) \in Seq(Queued)
    BY <1>2
  <2>2. (stream.lost \/ (full /\ Head(q).run = stream.run)) \in BOOLEAN
    BY DEF StreamSet
  <2>3. s = [stream EXCEPT !.queue = Append(base, event), !.lost = stream.lost \/ (full /\ Head(q).run = stream.run)]
    BY DEF Published
  <2>. HIDE DEF base, s, full, q
  <2>. QED
    BY <2>1, <2>2, <2>3 DEF StreamSet
<1>. DEFINE t == s.queue
<1>4. /\ Len(t) = Len(base) + 1 /\ t[Len(base) + 1] = event /\ Len(base) \in Nat
      /\ \A i \in 1..Len(base) : t[i] = base[i]
  BY <1>2, <1>3, AppendProperties, LenProperties
<1>. HIDE DEF s, t, base, k, q, full
<1>5. \A i \in 1..Len(base) : i + k \in 1..Len(q) /\ t[i] = q[i + k]
  BY <1>1, <1>2, <1>4
<1>6. \A i \in 1..Len(t) : i \in 1..Len(base) \/ i = Len(base) + 1
  BY <1>4
<1>7. \A i \in 1..Len(q) : q[i] \in Queued /\ (q[i].run = stream.run => q[i].seq <= p) /\ q[i].seq \in Nat
  <2>1. \A i \in 1..Len(q) : q[i] \in Queued
    BY <1>1, ElementOfSeq
  <2>. QED
    BY <2>1 DEF Follows, q, Queued
<1>8. \A i \in 1..Len(t) : t[i].run = stream.run => t[i].seq <= p2
  BY <1>4, <1>5, <1>6, <1>7
<1>9. \A i, j \in 1..Len(t) : i < j /\ t[i].run = stream.run /\ t[j].run = stream.run => t[i].seq < t[j].seq
  <2>. SUFFICES ASSUME NEW i \in 1..Len(t), NEW j \in 1..Len(t), i < j, t[i].run = stream.run, t[j].run = stream.run
                PROVE  t[i].seq < t[j].seq
    OBVIOUS
  <2>1. i \in 1..Len(base)
    BY <1>4, <1>6
  <2>2. CASE j \in 1..Len(base)
    <3>1. i + k \in 1..Len(q) /\ j + k \in 1..Len(q) /\ i + k < j + k
      BY <1>2, <1>5, <2>1, <2>2
    <3>. QED
      BY <1>5, <2>1, <2>2, <3>1 DEF Follows, q
  <2>3. CASE j = Len(base) + 1
    BY <1>4, <1>5, <1>7, <2>1, <2>3
  <2>. QED
    BY <1>6, <2>2, <2>3
<1>10. ASSUME ~s.lost, s.at \in {"read", "replay", "following"}, NEW m \in 1..p2
       PROVE  m <= s.highest \/ m \in gone \/ m \in Numbers(s.todo) \/ InQueue(s, m)
  <2>1. CASE m \in 1..p
    <3>1. m <= stream.highest \/ m \in gone \/ m \in Numbers(stream.todo) \/ InQueue(stream, m)
      BY <1>3, <1>10, <2>1 DEF Follows
    <3>2. ASSUME NEW i \in 1..Len(q), q[i].run = stream.run, q[i].seq = m
          PROVE  \E j \in 1..Len(t) : t[j].run = stream.run /\ t[j].seq = m
      <4>1. ~(full /\ i = 1)
        <5>1. full => Head(q) = q[1]
          <6>1. full => q # <<>>
            BY <1>1, EmptySeq DEF full
          <6>. QED
            BY <1>1, <6>1, HeadTailProperties
        <5>. QED
          BY <1>3, <1>10, <3>2, <5>1
      <4>2. i - k \in 1..Len(base) /\ (i - k) + k = i
        BY <1>1, <1>2, <4>1 DEF k
      <4>3. t[i - k] = q[i] /\ i - k \in 1..Len(t)
        BY <1>4, <1>5, <4>2
      <4>. QED
        BY <3>2, <4>3
    <3>3. InQueue(stream, m) => InQueue(s, m)
      BY <1>3, <3>2 DEF InQueue, q, t
    <3>. QED
      BY <1>3, <3>1, <3>3
  <2>2. CASE m \notin 1..p
    <3>1. m = p + 1 /\ event.run = stream.run /\ event.seq = p + 1
      BY <2>2
    <3>2. Len(base) + 1 \in 1..Len(t)
      BY <1>4
    <3>. QED
      BY <1>3, <1>4, <3>1, <3>2 DEF InQueue, t
  <2>. QED
    BY <2>1, <2>2
<1>11. Len(t) <= QueueSize
  BY <1>1, <1>2, <1>4
<1>12. s.at # "closed"
  BY <1>3 DEF Subscribed
<1>13. Follows(s, p2, gone)
  BY <1>3, <1>8, <1>9, <1>10, <1>11, <1>12 DEF Follows, t
<1>. QED
  BY <1>3, <1>13 DEF s

\* What a published event leaves to the stream.
LEMMA PublishKeeps ==
  ASSUME EventsInv, StreamInv, NEW r \in Runs, Publish(r), UNCHANGED <<seq, stored, unsaved>>
  PROVE  EventsInv' /\ StreamInv'
<1>. DEFINE new == Tail(emitting[r])
            event == [run |-> r, seq |-> Head(emitting[r]).seq, kind |-> Head(emitting[r]).kind]
            p == seq[r] - Len(emitting[r])
<1>1. /\ InOrder(new, seq[r]) /\ Accounted(new, seq[r], stored[r], unsaved[r])
      /\ Len(new) = Len(emitting[r]) - 1 /\ Head(emitting[r]) \in Emissions /\ Head(emitting[r]).seq = p + 1
  <2>1. emitting[r] # <<>> /\ Head(emitting[r]).stored
    BY DEF Publish, Emitted
  <2>. QED
    BY <2>1, PublishOrder DEF EventsInv
<1>2. emitting' = [emitting EXCEPT ![r] = new] /\ stream' = (IF Subscribed THEN Published(event) ELSE stream)
  BY DEF Publish
<1>3. event \in Queued /\ event.run = r /\ event.seq = p + 1
  BY <1>1 DEF Queued, Emissions
<1>. HIDE DEF new, event
<1>4. emitting'[r] = new /\ \A s \in Runs \ {r} : emitting'[s] = emitting[s]
  BY <1>2 DEF EventsInv, EventsTypes
<1>5. EventsInv'
  <2>1. EventsTypes'
    BY <1>2 DEF EventsInv, EventsTypes
  <2>2. ASSUME NEW s \in Runs
        PROVE  InOrder(emitting'[s], seq'[s]) /\ Accounted(emitting'[s], seq'[s], stored'[s], unsaved'[s])
    <3>1. CASE s = r
      BY <1>1, <1>4, <3>1
    <3>2. CASE s # r
      BY <1>4, <3>2 DEF EventsInv
    <3>. QED
      BY <3>1, <3>2
  <2>. QED
    BY <2>1, <2>2 DEF EventsInv
<1>6. \A s \in Runs : seq[s] \in Nat /\ Len(emitting[s]) \in Nat /\ Len(emitting[s]) <= seq[s]
  BY LenProperties DEF EventsInv, InOrder
<1>7. stream \in StreamSet /\ stream.run \in Runs /\ StreamOK(stream)
  BY DEF StreamInv, StreamSet
<1>. DEFINE R == stream.run
            old == seq[R] - Len(emitting[R])
            now == seq[R] - Len(emitting'[R])
<1>8. Seen(stream, seq[R], unsaved[R]) /\ Todo(stream, stored[R], unsaved[R]) /\ Follows(stream, old, unsaved[R])
  BY <1>7 DEF StreamOK
<1>9. old \in Nat /\ now \in Nat /\ (R = r => old = p /\ now = p + 1) /\ (R # r => now = old)
  <2>1. seq[R] \in Nat /\ Len(emitting[R]) \in Nat /\ Len(emitting[R]) <= seq[R]
    BY <1>6, <1>7
  <2>2. CASE R = r
    <3>1. Len(emitting'[R]) = Len(emitting[R]) - 1 /\ Len(emitting'[R]) \in Nat
      <4>1. Len(new) \in Nat
        BY <1>1, LenProperties DEF InOrder
      <4>. QED
        BY <1>1, <1>4, <2>2, <4>1
    <3>. QED
      BY <2>1, <2>2, <3>1
  <2>3. CASE R # r
    <3>1. emitting'[R] = emitting[R]
      BY <1>4, <1>7, <2>3
    <3>. QED
      BY <2>1, <2>3, <3>1
  <2>. QED
    BY <2>2, <2>3
<1>10. CASE ~Subscribed
  <2>1. stream' = stream /\ stream.at = "closed"
    BY <1>2, <1>10 DEF Subscribed
  <2>2. Follows(stream, now, unsaved[R])
    <3>1. stream.queue = <<>> /\ Len(stream.queue) = 0
      BY <1>8, <2>1 DEF Follows
    <3>. QED
      BY <1>8, <2>1, <3>1 DEF Follows
  <2>. QED
    BY <1>5, <1>7, <1>8, <2>1, <2>2 DEF StreamInv, StreamOK
<1>11. CASE Subscribed
  <2>. DEFINE s == Published(event)
              gone == unsaved[R]
  <2>1. (event.run = stream.run /\ event.seq = old + 1 /\ now = old + 1) \/ (event.run # stream.run /\ now = old)
    BY <1>3, <1>9
  <2>. HIDE DEF old, now, p, s, gone
  <2>2. Follows(stream, old, gone)
    BY <1>8 DEF gone
  <2>3. /\ s \in StreamSet /\ Follows(s, now, gone) /\ (~s.lost => ~stream.lost)
        /\ s.at = stream.at /\ s.run = stream.run /\ s.highest = stream.highest /\ s.todo = stream.todo /\ s.seen = stream.seen
    BY <1>3, <1>7, <1>9, <1>11, <2>1, <2>2, QueueTakes DEF s
  <2>4. Seen(s, seq[R], unsaved[R]) /\ Todo(s, stored[R], unsaved[R])
    BY <1>8, <2>3 DEF Seen, Todo
  <2>5. stream' = s
    BY <1>2, <1>11 DEF s
  <2>. QED
    BY <1>5, <2>3, <2>4, <2>5 DEF StreamInv, StreamOK, now, gone
<1>. QED
  BY <1>10, <1>11

-----------------------------------------------------------------------------
(* The steps of the stream. *)

\* What a read of the table gives the stream: everything after number h, and nothing published is missing.
LEMMA TableRead ==
  ASSUME NEW e, NEW n, NEW rows, NEW gone, InOrder(e, n), Accounted(e, n, rows, gone), NEW h \in Nat,
         NEW todo, todo = {event \in rows : event.seq > h}
  PROVE  /\ todo \subseteq rows /\ \A event \in todo : h < event.seq
         /\ \A event \in todo : \A k \in (h + 1)..(event.seq - 1) : k \in gone \/ k \in Numbers(todo)
         /\ \A k \in 1..(n - Len(e)) : k <= h \/ k \in gone \/ k \in Numbers(todo)
<1>1. n \in Nat /\ Len(e) \in Nat /\ rows \subseteq Events /\ Numbers(rows) \subseteq 1..n
  BY LenProperties DEF InOrder, Accounted
<1>2. \A event \in rows : event.seq \in Nat /\ event.seq \in Numbers(rows)
  BY <1>1 DEF Events, Numbers
<1>3. \A k \in Nat : k > h /\ k \in Numbers(rows) => k \in Numbers(todo)
  BY DEF Numbers
<1>4. /\ \A m \in Numbers(rows) : \A k \in 1..m : k \in gone \/ k \in Numbers(rows)
      /\ \A k \in 1..(n - Len(e)) : k \in gone \/ k \in Numbers(rows)
  BY StoredBefore
<1>5. todo \subseteq rows /\ \A event \in todo : h < event.seq
  BY <1>2
<1>6. ASSUME NEW event \in todo, NEW k \in (h + 1)..(event.seq - 1)
      PROVE  k \in gone \/ k \in Numbers(todo)
  <2>1. event.seq \in Numbers(rows) /\ event.seq \in Nat
    BY <1>2, <1>5
  <2>2. k \in 1..event.seq /\ k \in Nat /\ k > h
    BY <2>1
  <2>. QED
    BY <1>3, <1>4, <2>1, <2>2
<1>7. ASSUME NEW k \in 1..(n - Len(e))
      PROVE  k <= h \/ k \in gone \/ k \in Numbers(todo)
  <2>1. k \in Nat /\ (k <= h \/ k > h)
    BY <1>1
  <2>. QED
    BY <1>3, <1>4, <2>1
<1>. QED
  BY <1>5, <1>6, <1>7

\* One more event is given, and what is between the last one and it could not be stored.
LEMMA SeenGrows ==
  ASSUME NEW s \in StreamSet, NEW s2 \in StreamSet, NEW n \in Nat, NEW gone, NEW x \in Nat, Seen(s, n, gone),
         s2.seen = Append(s.seen, x), s2.highest = x, s2.lost = s.lost, s.highest < x, x <= n,
         ~s.lost => \A k \in (s.highest + 1)..(x - 1) : k \in gone
  PROVE  Seen(s2, n, gone)
<1>. DEFINE a == s.seen
            b == s2.seen
            h == s.highest
<1>1. a \in Seq(Nat) /\ Len(a) \in Nat /\ h \in Nat
  BY LenProperties DEF StreamSet
<1>2. Len(b) = Len(a) + 1 /\ b[Len(a) + 1] = x /\ \A i \in 1..Len(a) : b[i] = a[i]
  BY <1>1, AppendProperties
<1>3. \A i \in 1..Len(a) : a[i] \in Nat /\ a[i] <= h
  BY <1>1, ElementOfSeq DEF Seen
<1>4. /\ \A i, j \in 1..Len(a) : i < j => a[i] < a[j]
      /\ ~s.lost => \A k \in 1..h : k \in gone \/ \E i \in 1..Len(a) : a[i] = k
  BY DEF Seen
<1>. HIDE DEF a, b, h
<1>5. \A i \in 1..Len(b) : i \in 1..Len(a) \/ i = Len(a) + 1
  BY <1>1, <1>2
<1>6. h < x /\ (~s.lost => \A k \in (h + 1)..(x - 1) : k \in gone)
  BY DEF h
<1>7. \A i \in 1..Len(b) : b[i] <= x
  <2>1. \A i \in 1..Len(a) : b[i] \in Nat /\ b[i] <= h
    BY <1>2, <1>3
  <2>2. \A i \in 1..Len(a) : b[i] <= x
    BY <1>1, <1>6, <2>1
  <2>3. b[Len(a) + 1] <= x
    BY <1>2
  <2>. QED
    BY <1>5, <2>2, <2>3
<1>8. \A i, j \in 1..Len(b) : i < j => b[i] < b[j]
  <2>. SUFFICES ASSUME NEW i \in 1..Len(b), NEW j \in 1..Len(b), i < j
                PROVE  b[i] < b[j]
    OBVIOUS
  <2>1. i \in 1..Len(a)
    BY <1>1, <1>2
  <2>2. CASE j \in 1..Len(a)
    BY <1>2, <1>4, <2>1, <2>2
  <2>3. CASE j = Len(a) + 1
    BY <1>1, <1>2, <1>3, <1>6, <2>1, <2>3
  <2>. QED
    BY <1>5, <2>2, <2>3
<1>9. ASSUME ~s.lost, NEW k \in 1..x
      PROVE  k \in gone \/ \E i \in 1..Len(b) : b[i] = k
  <2>1. k \in 1..h \/ k \in (h + 1)..(x - 1) \/ k = x
    BY <1>1
  <2>2. Len(a) + 1 \in 1..Len(b) /\ \A i \in 1..Len(a) : i \in 1..Len(b)
    BY <1>1, <1>2
  <2>. QED
    BY <1>2, <1>4, <1>6, <1>9, <2>1, <2>2
<1>. QED
  BY <1>7, <1>8, <1>9 DEF Seen, b

\* A row is handed on.
LEMMA HandOn ==
  ASSUME NEW s \in StreamSet, NEW s2 \in StreamSet, NEW n \in Nat, NEW p \in Nat, NEW rows, NEW gone,
         Seen(s, n, gone), Todo(s, rows, gone), Follows(s, p, gone), rows \subseteq Events, Numbers(rows) \subseteq 1..n,
         \A a, b \in rows : a.seq = b.seq => a = b, s.at \in {"replay", "tail"},
         NEW event \in s.todo, \A other \in s.todo : event.seq <= other.seq,
         s2.run = s.run, s2.at = s.at, s2.lost = s.lost, s2.queue = s.queue,
         s2.seen = Append(s.seen, event.seq), s2.highest = event.seq, s2.todo = s.todo \ {event}
  PROVE  Seen(s2, n, gone) /\ Todo(s2, rows, gone) /\ Follows(s2, p, gone)
<1>. DEFINE x == event.seq
<1>1. /\ s.todo \subseteq rows /\ \A other \in s.todo : other.seq \in Nat /\ s.highest < other.seq /\ other.seq \in Numbers(rows)
      /\ s.highest \in Nat
  BY DEF Todo, Numbers, Events, StreamSet
<1>2. x \in Nat /\ s.highest < x /\ x <= n
  BY <1>1
<1>3. \A k \in (s.highest + 1)..(x - 1) : k \in gone
  <2>. SUFFICES ASSUME NEW k \in (s.highest + 1)..(x - 1), k \in Numbers(s.todo)
                PROVE  FALSE
    BY DEF Todo
  <2>1. PICK other \in s.todo : other.seq = k
    BY DEF Numbers
  <2>. QED
    BY <1>1, <1>2, <2>1
<1>4. /\ s2.run = s.run /\ s2.at = s.at /\ s2.lost = s.lost /\ s2.queue = s.queue
      /\ s2.seen = Append(s.seen, x) /\ s2.highest = x /\ s2.todo = s.todo \ {event}
  OBVIOUS
<1>. HIDE DEF x
<1>5. Seen(s2, n, gone)
  BY <1>2, <1>3, <1>4, SeenGrows
<1>6. \A other \in s2.todo : x < other.seq
  <2>. SUFFICES ASSUME NEW other \in s.todo, other # event
                PROVE  x < other.seq
    BY <1>4
  <2>1. other.seq # x /\ x <= other.seq
    BY <1>1 DEF x
  <2>. QED
    BY <1>1, <1>2, <2>1
<1>7. \A k \in Numbers(s.todo) : k = x \/ k \in Numbers(s2.todo)
  BY <1>4 DEF Numbers, x
<1>8. ASSUME NEW other \in s2.todo, NEW k \in (x + 1)..(other.seq - 1)
      PROVE  k \in gone \/ k \in Numbers(s2.todo)
  <2>1. other \in s.todo /\ other.seq \in Nat
    BY <1>1, <1>4
  <2>2. k \in (s.highest + 1)..(other.seq - 1) /\ k # x
    BY <1>1, <1>2, <2>1
  <2>. QED
    BY <1>7, <2>1, <2>2 DEF Todo
<1>9. Todo(s2, rows, gone)
  BY <1>1, <1>4, <1>6, <1>8 DEF Todo
<1>10. ASSUME ~s.lost, s.at \in {"read", "replay", "following"}, NEW k \in 1..p
       PROVE  k <= x \/ k \in gone \/ k \in Numbers(s2.todo) \/ InQueue(s2, k)
  <2>1. k <= s.highest \/ k \in gone \/ k \in Numbers(s.todo) \/ InQueue(s, k)
    BY <1>10 DEF Follows
  <2>2. InQueue(s, k) => InQueue(s2, k)
    BY <1>4 DEF InQueue
  <2>3. k \in Nat /\ (k = x => k <= x) /\ (k <= s.highest => k <= x)
    BY <1>1, <1>2
  <2>. QED
    BY <1>7, <2>1, <2>2, <2>3
<1>11. Follows(s2, p, gone)
  BY <1>4, <1>10 DEF Follows
<1>. QED
  BY <1>4, <1>5, <1>9, <1>11

\* An event from the bus is given to the stream, or is none of its own or an old one.
LEMMA HearOn ==
  ASSUME NEW s \in StreamSet, NEW s2 \in StreamSet, NEW n \in Nat, NEW p \in Nat, p <= n, NEW rows, NEW gone,
         Seen(s, n, gone), Todo(s, rows, gone), Follows(s, p, gone), s.at = "following", s.queue # <<>>,
         NEW event, event = Head(s.queue),
         s2.run = s.run, s2.at = s.at, s2.lost = s.lost, s2.todo = s.todo, s2.queue = Tail(s.queue),
         \/ s2.seen = s.seen /\ s2.highest = s.highest /\ (event.run # s.run \/ event.seq <= s.highest)
         \/ s2.seen = Append(s.seen, event.seq) /\ s2.highest = event.seq /\ event.run = s.run /\ ~(event.seq <= s.highest)
  PROVE  Seen(s2, n, gone) /\ Todo(s2, rows, gone) /\ Follows(s2, p, gone)
<1>. DEFINE q == s.queue
            t == Tail(q)
            x == event.seq
<1>1. /\ q \in Seq(Queued) /\ Len(q) \in Nat /\ Len(q) > 0 /\ event = q[1] /\ event \in Queued
      /\ t \in Seq(Queued) /\ Len(t) = Len(q) - 1 /\ \A i \in 1..Len(t) : t[i] = q[i + 1]
  <2>1. q \in Seq(Queued) /\ q # <<>>
    BY DEF StreamSet
  <2>. QED
    BY <2>1, EmptySeq, LenProperties, HeadTailProperties
<1>2. x \in Nat /\ s.highest \in Nat /\ s.todo = {} /\ s.todo \subseteq rows /\ Len(q) <= QueueSize /\ QueueSize \in Nat
  BY <1>1, ChatAssumption DEF Queued, StreamSet, Todo, Follows
<1>3. s2.run = s.run /\ s2.at = s.at /\ s2.lost = s.lost /\ s2.todo = s.todo /\ s2.queue = t
  OBVIOUS
<1>4. \/ s2.seen = s.seen /\ s2.highest = s.highest /\ (event.run # s.run \/ x <= s.highest)
      \/ s2.seen = Append(s.seen, x) /\ s2.highest = x /\ event.run = s.run /\ ~(x <= s.highest)
  OBVIOUS
<1>. HIDE DEF q, t, x
<1>5. \A i \in 1..Len(q) : q[i].run = s.run => q[i].seq <= p
  BY DEF Follows, q
<1>6. \A i, j \in 1..Len(q) : i < j /\ q[i].run = s.run /\ q[j].run = s.run => q[i].seq < q[j].seq
  BY DEF Follows, q
<1>7. \A i \in 1..Len(t) : i + 1 \in 1..Len(q)
  BY <1>1
<1>8. /\ \A i \in 1..Len(t) : t[i].run = s.run => t[i].seq <= p
      /\ \A i, j \in 1..Len(t) : i < j /\ t[i].run = s.run /\ t[j].run = s.run => t[i].seq < t[j].seq
  <2>1. \A i, j \in 1..Len(t) : i < j => i + 1 < j + 1
    BY <1>1
  <2>2. \A i \in 1..Len(t) : t[i] = q[i + 1]
    BY <1>1
  <2>3. \A i \in 1..Len(t) : t[i].run = s.run => t[i].seq <= p
    BY <1>5, <1>7, <2>2
  <2>4. \A i, j \in 1..Len(t) : i < j /\ t[i].run = s.run /\ t[j].run = s.run => t[i].seq < t[j].seq
    BY <1>6, <1>7, <2>1, <2>2
  <2>. QED
    BY <2>3, <2>4
<1>9. Numbers(s.todo) = {}
  BY <1>2 DEF Numbers
<1>10. ASSUME ~s.lost, NEW k \in 1..p
       PROVE  \/ k <= s.highest \/ k \in gone
              \/ event.run = s.run /\ k = x
              \/ InQueue(s2, k) /\ (event.run = s.run => x < k)
  <2>1. k <= s.highest \/ k \in gone \/ InQueue(s, k)
    BY <1>9, <1>10 DEF Follows
  <2>2. ASSUME NEW i \in 1..Len(q), q[i].run = s.run, q[i].seq = k
        PROVE  (event.run = s.run /\ k = x) \/ (InQueue(s2, k) /\ (event.run = s.run => x < k))
    <3>1. CASE i = 1
      BY <1>1, <2>2, <3>1 DEF x
    <3>2. CASE i # 1
      <4>1. i - 1 \in 1..Len(t) /\ (i - 1) + 1 = i /\ 1 < i /\ 1 \in 1..Len(q)
        BY <1>1, <3>2
      <4>2. t[i - 1] = q[i]
        BY <1>1, <4>1
      <4>3. InQueue(s2, k)
        BY <1>3, <2>2, <4>1, <4>2 DEF InQueue
      <4>4. event.run = s.run => x < k
        BY <1>1, <1>6, <2>2, <4>1 DEF x
      <4>. QED
        BY <4>3, <4>4
    <3>. QED
      BY <3>1, <3>2
  <2>. QED
    BY <2>1, <2>2 DEF InQueue, q
<1>11. x <= s.highest \/ x > s.highest
  BY <1>2
<1>12. CASE s2.seen = s.seen /\ s2.highest = s.highest /\ (event.run # s.run \/ x <= s.highest)
  <2>1. Seen(s2, n, gone)
    BY <1>3, <1>12 DEF Seen
  <2>2. Todo(s2, rows, gone)
    BY <1>2, <1>3, <1>12 DEF Todo
  <2>3. ASSUME ~s.lost, NEW k \in 1..p
        PROVE  k <= s.highest \/ k \in gone \/ InQueue(s2, k)
    BY <1>10, <1>12, <2>3
  <2>4. Follows(s2, p, gone)
    BY <1>1, <1>2, <1>3, <1>8, <1>12, <2>3 DEF Follows
  <2>. QED
    BY <1>3, <2>1, <2>2, <2>4
<1>13. CASE s2.seen = Append(s.seen, x) /\ s2.highest = x /\ event.run = s.run /\ ~(x <= s.highest)
  <2>1. x <= p /\ x <= n /\ s.highest < x
    <3>1. 1 \in 1..Len(q)
      BY <1>1
    <3>. QED
      BY <1>1, <1>2, <1>5, <1>13, <3>1 DEF x
  <2>2. ~s.lost => \A k \in (s.highest + 1)..(x - 1) : k \in gone
    <3>. SUFFICES ASSUME ~s.lost, NEW k \in (s.highest + 1)..(x - 1)
                  PROVE  k \in gone
      OBVIOUS
    <3>1. k \in 1..p /\ ~(k <= s.highest) /\ k # x /\ ~(x < k)
      BY <1>2, <2>1
    <3>. QED
      BY <1>10, <1>13, <3>1
  <2>3. Seen(s2, n, gone)
    BY <1>2, <1>3, <1>13, <2>1, <2>2, SeenGrows
  <2>4. Todo(s2, rows, gone)
    BY <1>2, <1>3, <1>13 DEF Todo
  <2>5. ASSUME ~s.lost, NEW k \in 1..p
        PROVE  k <= x \/ k \in gone \/ InQueue(s2, k)
    BY <1>2, <1>10, <1>13, <2>1, <2>5
  <2>6. Follows(s2, p, gone)
    BY <1>1, <1>2, <1>3, <1>8, <1>13, <2>5 DEF Follows
  <2>. QED
    BY <1>3, <2>3, <2>4, <2>6
<1>. QED
  BY <1>4, <1>12, <1>13

\* The state of the stream and of its run, in parts.
LEMMA StreamParts ==
  ASSUME EventsInv, StreamInv
  PROVE  LET r == stream.run
             p == seq[r] - Len(emitting[r])
         IN  /\ stream \in StreamSet /\ r \in Runs /\ stream.highest \in Nat
             /\ InOrder(emitting[r], seq[r]) /\ Accounted(emitting[r], seq[r], stored[r], unsaved[r])
             /\ seq[r] \in Nat /\ Len(emitting[r]) \in Nat /\ p \in Nat /\ p <= seq[r]
             /\ stored[r] \subseteq Events /\ Numbers(stored[r]) \subseteq 1..seq[r] /\ \A a, b \in stored[r] : a.seq = b.seq => a = b
             /\ Seen(stream, seq[r], unsaved[r]) /\ Todo(stream, stored[r], unsaved[r]) /\ Follows(stream, p, unsaved[r])
<1>. DEFINE r == stream.run
<1>1. stream \in StreamSet /\ r \in Runs /\ stream.highest \in Nat /\ StreamOK(stream)
  BY DEF StreamInv, StreamSet
<1>. HIDE DEF r
<1>2. InOrder(emitting[r], seq[r]) /\ Accounted(emitting[r], seq[r], stored[r], unsaved[r])
  BY <1>1 DEF EventsInv
<1>3. seq[r] \in Nat /\ Len(emitting[r]) \in Nat /\ Len(emitting[r]) <= seq[r]
  BY <1>2, LenProperties DEF InOrder
<1>4. seq[r] - Len(emitting[r]) \in Nat /\ seq[r] - Len(emitting[r]) <= seq[r]
  BY <1>3
<1>5. /\ stored[r] \subseteq Events /\ Numbers(stored[r]) \subseteq 1..seq[r]
      /\ \A a, b \in stored[r] : a.seq = b.seq => a = b
  BY <1>2 DEF Accounted
<1>6. Seen(stream, seq[r], unsaved[r]) /\ Todo(stream, stored[r], unsaved[r]) /\ Follows(stream, seq[r] - Len(emitting[r]), unsaved[r])
  BY <1>1 DEF StreamOK, r
<1>. QED
  BY <1>1, <1>2, <1>3, <1>4, <1>5, <1>6 DEF r

\* Only the stream goes on.
LEMMA StreamChanges ==
  ASSUME EventsInv, UNCHANGED <<emitting, seq, stored, unsaved>>, NEW s \in StreamSet, stream' = s,
         NEW r, r = s.run, NEW p, p = seq[r] - Len(emitting[r]),
         Seen(s, seq[r], unsaved[r]), Todo(s, stored[r], unsaved[r]), Follows(s, p, unsaved[r])
  PROVE  EventsInv' /\ StreamInv'
<1>1. EventsInv'
  BY DEF EventsInv, EventsTypes
<1>2. StreamOK(s)'
  BY DEF StreamOK
<1>3. StreamInv'
  BY <1>2 DEF StreamInv, StreamOK
<1>. QED
  BY <1>1, <1>3

\* A stream that is closed is empty, and has what it was given.
LEMMA ClosedParts ==
  ASSUME NEW s \in StreamSet, NEW t, t = [s EXCEPT !.at = "closed", !.todo = {}, !.queue = <<>>]
  PROVE  /\ t \in StreamSet /\ t.at = "closed" /\ t.todo = {} /\ t.queue = <<>> /\ t.run = s.run /\ t.seen = s.seen
         /\ t.highest = s.highest /\ t.lost = s.lost /\ Len(t.queue) = 0
<1>. DEFINE empty == <<>>
<1>1. empty \in Seq(Queued) /\ Len(empty) = 0 /\ {} \in SUBSET Events
  OBVIOUS
<1>2. t = [s EXCEPT !.at = "closed", !.todo = {}, !.queue = empty]
  OBVIOUS
<1>. HIDE DEF empty
<1>3. /\ t \in StreamSet /\ t.at = "closed" /\ t.todo = {} /\ t.queue = empty /\ t.run = s.run /\ t.seen = s.seen
      /\ t.highest = s.highest /\ t.lost = s.lost
  BY <1>1, <1>2 DEF StreamSet
<1>. QED
  BY <1>1, <1>3 DEF empty

\* The stream of another run starts with nothing.
LEMMA FreshParts ==
  ASSUME NEW r \in Runs, NEW s, s = [NoStream EXCEPT !.at = "subscribed", !.run = r]
  PROVE  /\ s \in StreamSet /\ s.run = r /\ s.at = "subscribed" /\ s.highest = 0 /\ s.todo = {} /\ s.queue = <<>> /\ s.seen = <<>>
         /\ Len(s.queue) = 0 /\ Len(s.seen) = 0
<1>. DEFINE empty == <<>>
<1>1. empty \in Seq(Queued) /\ empty \in Seq(Nat) /\ Len(empty) = 0 /\ {} \in SUBSET Events
  OBVIOUS
<1>2. NoStream = [at |-> "closed", run |-> 1, highest |-> 0, todo |-> {}, queue |-> empty, seen |-> empty, lost |-> FALSE]
  BY DEF NoStream
<1>. HIDE DEF empty
<1>3. /\ s \in StreamSet /\ s.run = r /\ s.at = "subscribed" /\ s.highest = 0 /\ s.todo = {} /\ s.queue = empty /\ s.seen = empty
  BY <1>1, <1>2 DEF StreamSet
<1>. QED
  BY <1>1, <1>3 DEF empty

LEMMA ConnectKeeps ==
  ASSUME EventsInv, StreamInv, NEW r \in Runs, Connect(r)
  PROVE  EventsInv' /\ StreamInv'
<1>1. UNCHANGED <<emitting, seq, stored, unsaved>> /\ stream.at = "closed"
  BY DEF Connect, table, run, history
<1>2. /\ stream \in StreamSet
      /\ Seen(stream, seq[stream.run], unsaved[stream.run]) /\ Todo(stream, stored[stream.run], unsaved[stream.run])
      /\ Follows(stream, seq[stream.run] - Len(emitting[stream.run]), unsaved[stream.run])
  BY StreamParts
<1>3. CASE r = stream.run
  <2>. DEFINE s == [stream EXCEPT !.at = "subscribed"]
              p == seq[r] - Len(emitting[r])
  <2>1. stream' = s
    BY <1>3 DEF Connect
  <2>2. /\ s \in StreamSet /\ s.run = r /\ s.at = "subscribed" /\ s.highest = stream.highest /\ s.todo = stream.todo
        /\ s.queue = stream.queue /\ s.seen = stream.seen /\ s.lost = stream.lost
    BY <1>2, <1>3 DEF StreamSet
  <2>. HIDE DEF s, p
  <2>3. Follows(stream, p, unsaved[r])
    BY <1>2, <1>3 DEF p
  <2>4. Seen(s, seq[r], unsaved[r]) /\ Todo(s, stored[r], unsaved[r])
    BY <1>1, <1>2, <1>3, <2>2 DEF Seen, Todo
  <2>5. Follows(s, p, unsaved[r])
    BY <1>1, <2>2, <2>3 DEF Follows
  <2>6. r = s.run /\ p = seq[r] - Len(emitting[r])
    BY <2>2 DEF p
  <2>. QED
    BY <1>1, <2>1, <2>2, <2>4, <2>5, <2>6, StreamChanges
<1>4. CASE r # stream.run
  <2>. DEFINE s == [NoStream EXCEPT !.at = "subscribed", !.run = r]
              p == seq[r] - Len(emitting[r])
  <2>1. stream' = s
    BY <1>4 DEF Connect
  <2>2. s = [NoStream EXCEPT !.at = "subscribed", !.run = r]
    OBVIOUS
  <2>. HIDE DEF s, p
  <2>4. seq[r] \in Nat
    BY DEF EventsInv, InOrder
  <2>5. /\ s \in StreamSet /\ s.run = r /\ s.at = "subscribed" /\ s.highest = 0 /\ s.todo = {} /\ s.queue = <<>> /\ s.seen = <<>>
        /\ Len(s.queue) = 0 /\ Len(s.seen) = 0
    BY <2>2, FreshParts
  <2>6. Seen(s, seq[r], unsaved[r])
    BY <2>4, <2>5 DEF Seen
  <2>7. Todo(s, stored[r], unsaved[r])
    BY <2>5 DEF Todo
  <2>8. Follows(s, p, unsaved[r])
    BY <2>5, ChatAssumption DEF Follows
  <2>9. r = s.run /\ p = seq[r] - Len(emitting[r])
    BY <2>5 DEF p
  <2>. QED
    BY <1>1, <2>1, <2>5, <2>6, <2>7, <2>8, <2>9, StreamChanges
<1>. QED
  BY <1>3, <1>4

LEMMA ReplayKeeps ==
  ASSUME EventsInv, StreamInv, Replay
  PROVE  EventsInv' /\ StreamInv'
<1>. DEFINE r == stream.run
            p == seq[r] - Len(emitting[r])
            todo == After(r, stream.highest)
            s == [stream EXCEPT !.at = "read", !.todo = todo]
<1>1. UNCHANGED <<emitting, seq, stored, unsaved>> /\ stream.at = "subscribed" /\ stream' = s
  BY DEF Replay, table, run, history
<1>2. /\ stream \in StreamSet /\ stream.highest \in Nat /\ p \in Nat
      /\ InOrder(emitting[r], seq[r]) /\ Accounted(emitting[r], seq[r], stored[r], unsaved[r]) /\ stored[r] \subseteq Events
      /\ Seen(stream, seq[r], unsaved[r]) /\ Follows(stream, p, unsaved[r])
  BY StreamParts
<1>3. todo = {event \in stored[r] : event.seq > stream.highest}
  BY DEF After
<1>. HIDE DEF todo
<1>4. /\ todo \subseteq stored[r] /\ \A event \in todo : stream.highest < event.seq
      /\ \A event \in todo : \A k \in (stream.highest + 1)..(event.seq - 1) : k \in unsaved[r] \/ k \in Numbers(todo)
      /\ \A k \in 1..p : k <= stream.highest \/ k \in unsaved[r] \/ k \in Numbers(todo)
  <2>. HIDE DEF r
  <2>. QED
    BY <1>2, <1>3, TableRead
<1>5. /\ s \in StreamSet /\ s.run = r /\ s.at = "read" /\ s.highest = stream.highest /\ s.todo = todo
      /\ s.queue = stream.queue /\ s.seen = stream.seen /\ s.lost = stream.lost
  <2>1. todo \in SUBSET Events
    BY <1>2, <1>4
  <2>. QED
    BY <1>2, <2>1 DEF StreamSet
<1>. HIDE DEF s, p, r
<1>6. Seen(s, seq[r], unsaved[r])
  BY <1>2, <1>5 DEF Seen
<1>7. Todo(s, stored[r], unsaved[r])
  BY <1>4, <1>5 DEF Todo
<1>8. Follows(s, p, unsaved[r])
  <2>1. s.run = stream.run /\ s.at # "closed"
    BY <1>5 DEF r
  <2>2. \A k \in 1..p : k <= s.highest \/ k \in unsaved[r] \/ k \in Numbers(s.todo) \/ InQueue(s, k)
    BY <1>4, <1>5
  <2>. QED
    BY <1>2, <1>5, <2>1, <2>2 DEF Follows
<1>9. r = s.run /\ p = seq[r] - Len(emitting[r])
  BY <1>5 DEF p
<1>. QED
  BY <1>1, <1>5, <1>6, <1>7, <1>8, <1>9, StreamChanges

LEMMA RowsKeeps ==
  ASSUME EventsInv, StreamInv, Rows
  PROVE  EventsInv' /\ StreamInv'
<1>. DEFINE r == stream.run
            p == seq[r] - Len(emitting[r])
            s == [stream EXCEPT !.at = "replay"]
<1>1. UNCHANGED <<emitting, seq, stored, unsaved>> /\ stream.at = "read" /\ stream' = s
  BY DEF Rows, table, run, history
<1>2. stream \in StreamSet /\ Seen(stream, seq[r], unsaved[r]) /\ Todo(stream, stored[r], unsaved[r]) /\ Follows(stream, p, unsaved[r])
  BY StreamParts
<1>3. /\ s \in StreamSet /\ s.run = r /\ s.at = "replay" /\ s.highest = stream.highest /\ s.todo = stream.todo
      /\ s.queue = stream.queue /\ s.seen = stream.seen /\ s.lost = stream.lost
  BY <1>2 DEF StreamSet
<1>. HIDE DEF s, p, r
<1>4. Seen(s, seq[r], unsaved[r])
  BY <1>2, <1>3 DEF Seen
<1>5. Todo(s, stored[r], unsaved[r])
  BY <1>2, <1>3 DEF Todo
<1>6. Follows(s, p, unsaved[r])
  <2>1. \A k \in 1..p : InQueue(stream, k) => InQueue(s, k)
    BY <1>3 DEF InQueue, r
  <2>2. ~stream.lost => \A k \in 1..p : k <= stream.highest \/ k \in unsaved[r] \/ k \in Numbers(stream.todo) \/ InQueue(stream, k)
    BY <1>1, <1>2 DEF Follows
  <2>3. s.run = stream.run
    BY <1>3 DEF r
  <2>. QED
    BY <1>2, <1>3, <2>1, <2>2, <2>3 DEF Follows
<1>7. r = s.run /\ p = seq[r] - Len(emitting[r])
  BY <1>3 DEF p
<1>. QED
  BY <1>1, <1>3, <1>4, <1>5, <1>6, <1>7, StreamChanges

LEMMA ReplayedKeeps ==
  ASSUME EventsInv, StreamInv, Replayed
  PROVE  EventsInv' /\ StreamInv'
<1>1. UNCHANGED <<emitting, seq, stored, unsaved>> /\ stream.at \in {"replay", "tail"}
  BY DEF Replayed, table, run, history
<1>2. PICK event \in stream.todo : /\ \A other \in stream.todo : event.seq <= other.seq
                                   /\ stream' = [Deliver(event) EXCEPT !.todo = @ \ {event}]
  BY DEF Replayed
<1>. DEFINE r == stream.run
            p == seq[r] - Len(emitting[r])
            x == event.seq
            s == [stream EXCEPT !.seen = Append(stream.seen, x), !.highest = x, !.todo = stream.todo \ {event}]
<1>3. /\ stream \in StreamSet /\ seq[r] \in Nat /\ p \in Nat
      /\ stored[r] \subseteq Events /\ Numbers(stored[r]) \subseteq 1..seq[r] /\ \A a, b \in stored[r] : a.seq = b.seq => a = b
      /\ Seen(stream, seq[r], unsaved[r]) /\ Todo(stream, stored[r], unsaved[r]) /\ Follows(stream, p, unsaved[r])
  BY StreamParts
<1>4. x \in Nat
  BY <1>3 DEF StreamSet, Events
<1>5. stream' = s
  BY <1>2, <1>3 DEF Deliver, StreamSet
<1>6. /\ s \in StreamSet /\ s.run = r /\ s.at = stream.at /\ s.lost = stream.lost /\ s.queue = stream.queue
      /\ s.seen = Append(stream.seen, event.seq) /\ s.highest = event.seq /\ s.todo = stream.todo \ {event}
  <2>1. Append(stream.seen, x) \in Seq(Nat) /\ (stream.todo \ {event}) \in SUBSET Events
    BY <1>3, <1>4 DEF StreamSet
  <2>2. x = event.seq
    OBVIOUS
  <2>. HIDE DEF x
  <2>. QED
    BY <1>3, <1>4, <2>1, <2>2 DEF StreamSet
<1>. HIDE DEF s, p, x
<1>7. Seen(s, seq[r], unsaved[r]) /\ Todo(s, stored[r], unsaved[r]) /\ Follows(s, p, unsaved[r])
  BY <1>1, <1>2, <1>3, <1>6, HandOn
<1>8. r = s.run /\ p = seq[r] - Len(emitting[r])
  BY <1>6 DEF p
<1>. QED
  BY <1>1, <1>5, <1>6, <1>7, <1>8, StreamChanges

LEMMA FollowKeeps ==
  ASSUME EventsInv, StreamInv, Follow
  PROVE  EventsInv' /\ StreamInv'
<1>. DEFINE r == stream.run
            p == seq[r] - Len(emitting[r])
            todo == IF r \in running THEN stream.todo ELSE After(r, stream.highest)
            place == IF r \in running THEN "following" ELSE "tail"
            s == [stream EXCEPT !.at = place, !.todo = todo]
<1>1. UNCHANGED <<emitting, seq, stored, unsaved>> /\ stream.at = "replay" /\ stream.todo = {}
  BY DEF Follow, table, run, history
<1>2. /\ stream \in StreamSet /\ stream.highest \in Nat /\ p \in Nat
      /\ InOrder(emitting[r], seq[r]) /\ Accounted(emitting[r], seq[r], stored[r], unsaved[r]) /\ stored[r] \subseteq Events
      /\ Seen(stream, seq[r], unsaved[r]) /\ Follows(stream, p, unsaved[r])
  BY StreamParts
<1>3. stream' = s
  BY <1>2 DEF Follow, StreamSet
<1>4. place \in {"following", "tail"} /\ (place = "following" => todo = {})
  BY <1>1
<1>5. /\ todo \subseteq stored[r] /\ \A event \in todo : stream.highest < event.seq
      /\ \A event \in todo : \A k \in (stream.highest + 1)..(event.seq - 1) : k \in unsaved[r] \/ k \in Numbers(todo)
  <2>1. CASE r \in running
    BY <1>1, <2>1
  <2>2. CASE r \notin running
    <3>1. todo = {event \in stored[r] : event.seq > stream.highest}
      BY <2>2 DEF After
    <3>. HIDE DEF todo, r
    <3>. QED
      BY <1>2, <3>1, TableRead
  <2>. QED
    BY <2>1, <2>2
<1>6. /\ s \in StreamSet /\ s.run = r /\ s.at = place /\ s.highest = stream.highest /\ s.todo = todo
      /\ s.queue = stream.queue /\ s.seen = stream.seen /\ s.lost = stream.lost
  <2>1. todo \in SUBSET Events
    BY <1>2, <1>5
  <2>. HIDE DEF todo, place
  <2>. QED
    BY <1>2, <1>4, <2>1 DEF StreamSet
<1>. HIDE DEF s, p, todo, place
<1>7. Seen(s, seq[r], unsaved[r])
  BY <1>2, <1>6 DEF Seen
<1>8. Todo(s, stored[r], unsaved[r])
  BY <1>4, <1>5, <1>6 DEF Todo
<1>9. Follows(s, p, unsaved[r])
  <2>1. Numbers(stream.todo) = {}
    BY <1>1 DEF Numbers
  <2>2. ~stream.lost => \A k \in 1..p : k <= stream.highest \/ k \in unsaved[r] \/ InQueue(stream, k)
    BY <1>1, <1>2, <2>1 DEF Follows
  <2>3. \A k \in 1..p : InQueue(stream, k) => InQueue(s, k)
    BY <1>6 DEF InQueue
  <2>4. s.run = stream.run /\ s.at # "closed"
    BY <1>4, <1>6
  <2>. QED
    BY <1>2, <1>6, <2>2, <2>3, <2>4 DEF Follows
<1>10. r = s.run /\ p = seq[r] - Len(emitting[r])
  BY <1>6 DEF p
<1>. QED
  BY <1>1, <1>3, <1>6, <1>7, <1>8, <1>10, <1>9, StreamChanges

\* A stream that ends keeps what it was given and where it is.
LEMMA ClosedKeeps ==
  ASSUME EventsInv, UNCHANGED <<emitting, seq, stored, unsaved>>, NEW s \in StreamSet, stream' = Closed(s),
         Seen(s, seq[s.run], unsaved[s.run])
  PROVE  EventsInv' /\ StreamInv'
<1>. DEFINE t == Closed(s)
            r == s.run
            p == seq[r] - Len(emitting[r])
<1>1. t = [s EXCEPT !.at = "closed", !.todo = {}, !.queue = <<>>]
  BY DEF Closed
<1>. HIDE DEF t
<1>2. /\ t \in StreamSet /\ t.at = "closed" /\ t.todo = {} /\ t.queue = <<>> /\ t.run = r /\ t.seen = s.seen /\ t.highest = s.highest
      /\ t.lost = s.lost /\ Len(t.queue) = 0
  BY <1>1, ClosedParts
<1>. HIDE DEF p, r
<1>3. Seen(t, seq[r], unsaved[r])
  BY <1>2 DEF Seen, r
<1>4. Todo(t, stored[r], unsaved[r])
  BY <1>2 DEF Todo
<1>5. Follows(t, p, unsaved[r])
  BY <1>2, ChatAssumption DEF Follows
<1>6. stream' = t /\ r = t.run /\ p = seq[r] - Len(emitting[r])
  BY <1>2 DEF t, p
<1>. QED
  BY <1>2, <1>3, <1>4, <1>5, <1>6, StreamChanges

LEMMA HearsKeeps ==
  ASSUME EventsInv, StreamInv, Hears
  PROVE  EventsInv' /\ StreamInv'
<1>. DEFINE r == stream.run
            p == seq[r] - Len(emitting[r])
            event == Head(stream.queue)
            q == Tail(stream.queue)
            rest == [stream EXCEPT !.queue = q]
            heard == [stream EXCEPT !.seen = Append(stream.seen, event.seq), !.highest = event.seq, !.queue = q]
            old == event.run # stream.run \/ event.seq <= stream.highest
            s == IF old THEN rest ELSE heard
<1>1. UNCHANGED <<emitting, seq, stored, unsaved>> /\ stream.at = "following" /\ stream.queue # <<>>
  BY DEF Hears, table, run, history
<1>2. /\ stream \in StreamSet /\ seq[r] \in Nat /\ p \in Nat /\ p <= seq[r]
      /\ Seen(stream, seq[r], unsaved[r]) /\ Todo(stream, stored[r], unsaved[r]) /\ Follows(stream, p, unsaved[r])
  BY StreamParts
<1>3. stream' = s \/ stream' = Closed(s)
  <2>1. [Deliver(event) EXCEPT !.queue = rest.queue] = heard
    BY <1>2 DEF Deliver, StreamSet
  <2>2. stream' = IF old THEN rest ELSE IF event.kind \in LastEvents THEN Closed(heard) ELSE heard
    BY <2>1 DEF Hears
  <2>. QED
    BY <2>2
<1>4. event \in Queued /\ event.seq \in Nat /\ q \in Seq(Queued)
  <2>1. stream.queue \in Seq(Queued)
    BY <1>2 DEF StreamSet
  <2>2. event \in Queued /\ q \in Seq(Queued)
    BY <1>1, <2>1, HeadTailProperties
  <2>. QED
    BY <2>2 DEF Queued
<1>5. rest \in StreamSet /\ heard \in StreamSet
  <2>1. Append(stream.seen, event.seq) \in Seq(Nat)
    BY <1>2, <1>4 DEF StreamSet
  <2>. HIDE DEF event, q
  <2>. QED
    BY <1>2, <1>4, <2>1 DEF StreamSet
<1>6. /\ s \in StreamSet /\ s.run = r /\ s.at = stream.at /\ s.lost = stream.lost /\ s.todo = stream.todo /\ s.queue = Tail(stream.queue)
      /\ \/ s.seen = stream.seen /\ s.highest = stream.highest /\ (event.run # stream.run \/ event.seq <= stream.highest)
         \/ s.seen = Append(stream.seen, event.seq) /\ s.highest = event.seq /\ event.run = stream.run /\ ~(event.seq <= stream.highest)
  <2>1. CASE old
    <3>1. s = rest
      BY <2>1
    <3>2. /\ rest.run = r /\ rest.at = stream.at /\ rest.lost = stream.lost /\ rest.todo = stream.todo /\ rest.queue = q
          /\ rest.seen = stream.seen /\ rest.highest = stream.highest
      BY <1>2 DEF StreamSet
    <3>. HIDE DEF s, rest
    <3>. QED
      BY <1>5, <2>1, <3>1, <3>2
  <2>2. CASE ~old
    <3>1. s = heard
      BY <2>2
    <3>2. /\ heard.run = r /\ heard.at = stream.at /\ heard.lost = stream.lost /\ heard.todo = stream.todo /\ heard.queue = q
          /\ heard.seen = Append(stream.seen, event.seq) /\ heard.highest = event.seq
      BY <1>2 DEF StreamSet
    <3>. HIDE DEF s, heard
    <3>. QED
      BY <1>5, <2>2, <3>1, <3>2
  <2>. QED
    BY <2>1, <2>2
<1>. HIDE DEF s, rest, heard, old, p
<1>7. Seen(s, seq[r], unsaved[r]) /\ Todo(s, stored[r], unsaved[r]) /\ Follows(s, p, unsaved[r])
  <2>1. event = Head(stream.queue)
    OBVIOUS
  <2>. HIDE DEF event, q
  <2>. QED
    BY <1>1, <1>2, <1>6, <2>1, HearOn
<1>8. r = s.run /\ p = seq[r] - Len(emitting[r])
  BY <1>6 DEF p
<1>9. CASE stream' = s
  BY <1>1, <1>6, <1>7, <1>8, <1>9, StreamChanges
<1>10. CASE stream' = Closed(s)
  BY <1>1, <1>6, <1>7, <1>8, <1>10, ClosedKeeps
<1>. QED
  BY <1>3, <1>9, <1>10

LEMMA TailReadKeeps ==
  ASSUME EventsInv, StreamInv, TailRead
  PROVE  EventsInv' /\ StreamInv'
<1>1. UNCHANGED <<emitting, seq, stored, unsaved>> /\ stream' = Closed(stream)
  BY DEF TailRead, table, run, history
<1>2. stream \in StreamSet /\ Seen(stream, seq[stream.run], unsaved[stream.run])
  BY StreamParts
<1>. QED
  BY <1>1, <1>2, ClosedKeeps

LEMMA OtherEventKeeps ==
  ASSUME EventsInv, StreamInv, OtherEvent
  PROVE  EventsInv' /\ StreamInv'
<1>. DEFINE r == stream.run
            p == seq[r] - Len(emitting[r])
            event == [run |-> 0, seq |-> 0, kind |-> "status"]
            s == Published(event)
<1>1. UNCHANGED <<emitting, seq, stored, unsaved>> /\ Subscribed /\ stream' = s
  BY DEF OtherEvent, table, run, history
<1>2. /\ stream \in StreamSet /\ r \in Runs /\ p \in Nat
      /\ Seen(stream, seq[r], unsaved[r]) /\ Todo(stream, stored[r], unsaved[r]) /\ Follows(stream, p, unsaved[r])
  BY StreamParts
<1>3. event \in Queued /\ event.run # stream.run
  BY <1>2 DEF Queued, EventKinds, Runs
<1>. HIDE DEF event, s, p
<1>4. (event.run = stream.run /\ event.seq = p + 1 /\ p = p + 1) \/ (event.run # stream.run /\ p = p)
  BY <1>3
<1>5. /\ s \in StreamSet /\ Follows(s, p, unsaved[r]) /\ (~s.lost => ~stream.lost)
      /\ s.at = stream.at /\ s.run = stream.run /\ s.highest = stream.highest /\ s.todo = stream.todo /\ s.seen = stream.seen
  BY <1>1, <1>2, <1>3, <1>4, QueueTakes DEF s
<1>6. Seen(s, seq[r], unsaved[r])
  BY <1>2, <1>5 DEF Seen
<1>7. Todo(s, stored[r], unsaved[r])
  BY <1>2, <1>5 DEF Todo
<1>8. r = s.run /\ p = seq[r] - Len(emitting[r])
  BY <1>5 DEF p
<1>. QED
  BY <1>1, <1>5, <1>6, <1>7, <1>8, StreamChanges

LEMMA RestartDrops ==
  ASSUME EventsInv, StreamInv, Restart
  PROVE  EventsInv' /\ StreamInv'
<1>1. /\ emitting' = [r \in Runs |-> <<>>] /\ seq' = seq /\ stored' = stored
      /\ unsaved' = [r \in Runs |-> unsaved[r] \cup {emitting[r][i].seq : i \in {j \in DOMAIN emitting[r] : ~emitting[r][j].stored}}]
      /\ stream' = [stream EXCEPT !.at = "closed", !.todo = {}, !.queue = <<>>]
  BY DEF Restart
<1>2. ASSUME NEW r \in Runs
      PROVE  /\ InOrder(emitting'[r], seq'[r]) /\ Accounted(emitting'[r], seq'[r], stored'[r], unsaved'[r])
             /\ unsaved[r] \subseteq unsaved'[r] /\ Len(emitting'[r]) = 0
  <2>1. InOrder(emitting[r], seq[r]) /\ Accounted(emitting[r], seq[r], stored[r], unsaved[r])
    BY DEF EventsInv
  <2>2. unsaved'[r] = unsaved[r] \cup {emitting[r][i].seq : i \in {j \in DOMAIN emitting[r] : ~emitting[r][j].stored}}
    BY <1>1
  <2>3. emitting'[r] = <<>> /\ seq'[r] = seq[r] /\ stored'[r] = stored[r]
    BY <1>1
  <2>4. InOrder(<<>>, seq[r]) /\ Accounted(<<>>, seq[r], stored[r], unsaved'[r]) /\ unsaved[r] \subseteq unsaved'[r]
    BY <2>1, <2>2, DropOrder
  <2>. QED
    BY <2>3, <2>4
<1>3. EventsInv'
  <2>1. EventsTypes'
    BY <1>1 DEF EventsInv, EventsTypes
  <2>. QED
    BY <1>2, <2>1 DEF EventsInv
<1>. DEFINE s == stream'
            r == stream.run
<1>4. /\ stream \in StreamSet /\ r \in Runs /\ seq[r] \in Nat /\ Seen(stream, seq[r], unsaved[r])
  BY StreamParts
<1>5. /\ s \in StreamSet /\ s.at = "closed" /\ s.todo = {} /\ s.queue = <<>> /\ s.run = r /\ s.seen = stream.seen /\ s.highest = stream.highest
      /\ s.lost = stream.lost /\ Len(s.queue) = 0
  BY <1>1, <1>4, ClosedParts
<1>6. unsaved[r] \subseteq unsaved'[r] /\ seq'[r] = seq[r] /\ Len(emitting'[r]) = 0
  BY <1>1, <1>2, <1>4
<1>. HIDE DEF s, r
<1>7. Seen(s, seq'[r], unsaved'[r])
  BY <1>4, <1>5, <1>6 DEF Seen, r
<1>8. Todo(s, stored'[r], unsaved'[r])
  BY <1>5 DEF Todo
<1>9. Follows(s, seq'[r] - Len(emitting'[r]), unsaved'[r])
  BY <1>5, ChatAssumption DEF Follows
<1>10. StreamInv'
  BY <1>5, <1>7, <1>8, <1>9 DEF StreamInv, StreamOK, s
<1>. QED
  BY <1>3, <1>10

\* Nobody is connected when the process stops its runs.
LEMMA CancelSends ==
  ASSUME EventsInv, StreamInv, NEW r \in Runs, TaskCancelled(r)
  PROVE  EventsInv' /\ StreamInv'
<1>. DEFINE last == <<[seq |-> seq[r] + 1, kind |-> "cancelled", stored |-> FALSE]>>
            rows == stored[r] \cup Sent(r)
<1>1. /\ stored' = [stored EXCEPT ![r] = rows] /\ seq' = [seq EXCEPT ![r] = seq[r] + 1]
      /\ emitting' = [emitting EXCEPT ![r] = last] /\ unsaved' = unsaved /\ stream' = stream /\ stream.at = "closed"
  BY DEF TaskCancelled
<1>2. InOrder(last, seq[r] + 1) /\ Accounted(last, seq[r] + 1, rows, unsaved[r])
  <2>1. InOrder(emitting[r], seq[r]) /\ Accounted(emitting[r], seq[r], stored[r], unsaved[r])
    BY DEF EventsInv
  <2>2. "cancelled" \in EventKinds
    BY DEF EventKinds, LastEvents
  <2>. QED
    BY <2>1, <2>2, CancelOrder DEF Sent
<1>. HIDE DEF last, rows
<1>3. /\ emitting'[r] = last /\ seq'[r] = seq[r] + 1 /\ stored'[r] = rows
      /\ \A s \in Runs \ {r} : emitting'[s] = emitting[s] /\ seq'[s] = seq[s] /\ stored'[s] = stored[s]
  BY <1>1 DEF EventsInv, EventsTypes
<1>4. EventsInv'
  <2>1. EventsTypes'
    BY <1>1 DEF EventsInv, EventsTypes
  <2>2. ASSUME NEW s \in Runs
        PROVE  InOrder(emitting'[s], seq'[s]) /\ Accounted(emitting'[s], seq'[s], stored'[s], unsaved'[s])
    <3>1. CASE s = r
      BY <1>1, <1>2, <1>3, <3>1
    <3>2. CASE s # r
      BY <1>1, <1>3, <3>2 DEF EventsInv
    <3>. QED
      BY <3>1, <3>2
  <2>. QED
    BY <2>1, <2>2 DEF EventsInv
<1>. DEFINE run0 == stream.run
<1>5. /\ stream \in StreamSet /\ run0 \in Runs /\ seq[run0] \in Nat /\ stream.highest \in Nat
      /\ Seen(stream, seq[run0], unsaved[run0]) /\ Todo(stream, stored[run0], unsaved[run0])
      /\ Follows(stream, seq[run0] - Len(emitting[run0]), unsaved[run0])
  BY StreamParts
<1>6. seq'[run0] \in Nat /\ seq[run0] <= seq'[run0]
  BY <1>3, <1>5
<1>. HIDE DEF run0
<1>7. Seen(stream, seq'[run0], unsaved[run0])
  BY <1>5, <1>6 DEF Seen
<1>8. stream.todo = {} /\ stream.queue = <<>>
  BY <1>1, <1>5 DEF Todo, Follows
<1>9. Todo(stream, stored'[run0], unsaved[run0]) /\ Follows(stream, seq'[run0] - Len(emitting'[run0]), unsaved[run0])
  BY <1>1, <1>8, ChatAssumption DEF Todo, Follows
<1>10. StreamInv'
  BY <1>1, <1>5, <1>7, <1>9 DEF StreamInv, StreamOK, run0
<1>. QED
  BY <1>4, <1>10

-----------------------------------------------------------------------------
(* The transcript, and what is sent of it. *)

\* A set of numbers has a least one.
LEMMA LeastNumber ==
  ASSUME NEW S, S \subseteq Nat, S # {}
  PROVE  \E m \in S : \A k \in S : m <= k
<1>1. IsWellFoundedOn(OpToRel(<, Nat), Nat)
  BY NatLessThanWellFounded
<1>2. PICK m \in S : \A k \in S : <<k, m>> \notin OpToRel(<, Nat)
  BY <1>1, WFMin
<1>3. \A k \in S : <<k, m>> \notin OpToRel(<, Nat) => m <= k
  BY DEF OpToRel
<1>. QED
  BY <1>2, <1>3

\* One more message leaves those before it as they are.
LEMMA MessageAdded ==
  ASSUME NEW sent \in Seq(MessageSet), NEW m \in MessageSet
  PROVE  LET new == Append(sent, m)
         IN  /\ new \in Seq(MessageSet) /\ Len(sent) \in Nat /\ Len(new) = Len(sent) + 1 /\ new[Len(sent) + 1] = m
             /\ \A i \in 1..Len(sent) : new[i] = sent[i] /\ i \in 1..Len(new)
             /\ \A i \in 1..Len(sent) : i < Len(sent) /\ InPlace(sent, i) => InPlace(new, i)
             /\ \A i \in 1..Len(new) : i \in 1..Len(sent) \/ i = Len(sent) + 1
<1>. DEFINE new == Append(sent, m)
            n == Len(sent)
<1>1. new \in Seq(MessageSet) /\ n \in Nat /\ Len(new) = n + 1 /\ new[n + 1] = m /\ \A i \in 1..n : new[i] = sent[i]
  BY AppendProperties, LenProperties
<1>. HIDE DEF new, n
<1>2. \A i \in 1..n : i \in 1..Len(new)
  BY <1>1
<1>3. \A i \in 1..Len(new) : i \in 1..n \/ i = n + 1
  BY <1>1
<1>4. ASSUME NEW i \in 1..n, i < n, InPlace(sent, i)
      PROVE  InPlace(new, i)
  <2>1. i + 1 \in 1..n /\ i < Len(new) /\ (i > 1 => i - 1 \in 1..n)
    BY <1>1, <1>4
  <2>. QED
    BY <1>1, <1>4, <2>1 DEF InPlace
<1>. QED
  BY <1>1, <1>2, <1>3, <1>4 DEF new, n

LEMMA AcceptableIs ==
  ASSUME NEW sent \in Seq(MessageSet)
  PROVE  Acceptable(sent) <=> \A i \in 1..Len(sent) : InPlace(sent, i)
<1>1. DOMAIN sent = 1..Len(sent)
  BY LenProperties
<1>. QED
  BY <1>1 DEF Acceptable, InPlace

\* A message without calls or results may always follow; one that asks for calls opens a round.
LEMMA AcceptedGrows ==
  ASSUME NEW sent \in Seq(MessageSet), NEW m \in MessageSet, Acceptable(sent), m.role # "tool"
  PROVE  /\ Append(sent, m) \in Seq(MessageSet)
         /\ m.calls = 0 => Acceptable(Append(sent, m))
         /\ m.role = "assistant" => Open(Append(sent, m), m.calls)
<1>. DEFINE new == Append(sent, m)
            n == Len(sent)
<1>1. /\ new \in Seq(MessageSet) /\ n \in Nat /\ Len(new) = n + 1 /\ new[n + 1] = m
      /\ \A i \in 1..n : new[i] = sent[i] /\ i \in 1..Len(new)
      /\ \A i \in 1..n : i < n /\ InPlace(sent, i) => InPlace(new, i)
      /\ \A i \in 1..Len(new) : i \in 1..n \/ i = n + 1
  BY MessageAdded
<1>2. \A i \in 1..n : InPlace(sent, i)
  BY AcceptableIs
<1>. HIDE DEF new
<1>3. ASSUME NEW i \in 1..n
      PROVE  InPlace(new, i)
  <2>1. CASE i < n
    BY <1>1, <1>2, <2>1
  <2>2. CASE ~(i < n)
    <3>1. i = n /\ i < Len(new) /\ n \in 1..n /\ (i > 1 => i - 1 \in 1..n)
      BY <1>1, <2>2
    <3>2. ~(sent[i].calls > 0)
      BY <1>2, <2>2 DEF InPlace
    <3>. QED
      BY <1>1, <1>2, <3>1, <3>2 DEF InPlace
  <2>. QED
    BY <2>1, <2>2
<1>4. ASSUME m.calls = 0
      PROVE  Acceptable(new)
  <2>1. InPlace(new, n + 1)
    BY <1>1, <1>4 DEF InPlace
  <2>. QED
    BY <1>1, <1>3, <2>1, AcceptableIs
<1>5. ASSUME m.role = "assistant"
      PROVE  Open(new, m.calls)
  <2>1. \A i \in 1..Len(new) : i < Len(new) => InPlace(new, i)
    BY <1>1, <1>3
  <2>. QED
    BY <1>1, <1>5, <2>1 DEF Open
<1>. QED
  BY <1>1, <1>4, <1>5 DEF new

\* A result for each of its calls closes a round.
LEMMA RoundCloses ==
  ASSUME NEW sent \in Seq(MessageSet), NEW m \in MessageSet, NEW calls \in Nat, calls > 0, Open(sent, calls),
         m.role = "tool", m.results = calls, m.calls = 0
  PROVE  Append(sent, m) \in Seq(MessageSet) /\ Acceptable(Append(sent, m))
<1>. DEFINE new == Append(sent, m)
            n == Len(sent)
<1>1. /\ new \in Seq(MessageSet) /\ n \in Nat /\ Len(new) = n + 1 /\ new[n + 1] = m
      /\ \A i \in 1..n : new[i] = sent[i] /\ i \in 1..Len(new)
      /\ \A i \in 1..n : i < n /\ InPlace(sent, i) => InPlace(new, i)
      /\ \A i \in 1..Len(new) : i \in 1..n \/ i = n + 1
  BY MessageAdded
<1>2. n > 0 /\ sent[n].role = "assistant" /\ sent[n].calls = calls /\ \A i \in 1..n : i < n => InPlace(sent, i)
  BY DEF Open
<1>. HIDE DEF new, n
<1>3. \A i \in 1..n : i < n => InPlace(new, i)
  BY <1>1, <1>2
<1>4. n \in 1..n /\ n < Len(new) /\ n + 1 > 1 /\ (n + 1) - 1 = n
  BY <1>1, <1>2
<1>5. new[n].role = "assistant" /\ new[n].calls = calls
  BY <1>1, <1>2, <1>4
<1>6. InPlace(new, n)
  BY <1>1, <1>4, <1>5 DEF InPlace
<1>7. InPlace(new, n + 1)
  BY <1>1, <1>4, <1>5 DEF InPlace
<1>8. \A i \in 1..n : i < n \/ i = n
  BY <1>1
<1>. QED
  BY <1>1, <1>3, <1>6, <1>7, <1>8, AcceptableIs DEF new

\* The end of a conversation that is accepted is accepted, if it does not start with results.
LEMMA EndAccepted ==
  ASSUME NEW all \in Seq(MessageSet), Acceptable(all), NEW first \in 1..Len(all), all[first].role # "tool",
         NEW rest \in Seq(MessageSet), Len(rest) = Len(all) - first + 1, \A i \in 1..Len(rest) : rest[i] = all[first + i - 1]
  PROVE  Acceptable(rest)
<1>1. Len(all) \in Nat /\ Len(rest) \in Nat
  BY LenProperties
<1>2. ASSUME NEW i \in 1..Len(rest)
      PROVE  InPlace(rest, i)
  <2>. DEFINE k == first + i - 1
  <2>1. k \in 1..Len(all) /\ rest[i] = all[k]
    BY <1>1
  <2>2. InPlace(all, k)
    BY <2>1, AcceptableIs
  <2>3. k < Len(all) => i < Len(rest) /\ i + 1 \in 1..Len(rest) /\ first + (i + 1) - 1 = k + 1
    BY <1>1
  <2>4. k < Len(all) => i < Len(rest) /\ rest[i + 1] = all[k + 1]
    BY <2>3
  <2>5. i > 1 => i - 1 \in 1..Len(rest) /\ first + (i - 1) - 1 = k - 1
    BY <1>1
  <2>6. i > 1 => rest[i - 1] = all[k - 1]
    BY <2>5
  <2>7. ~(i > 1) => k = first
    BY <1>1
  <2>. HIDE DEF k
  <2>. QED
    BY <2>1, <2>2, <2>4, <2>6, <2>7 DEF InPlace
<1>. QED
  BY <1>2, AcceptableIs

LEMMA KeptAccepted ==
  ASSUME NEW all \in Seq(MessageSet)
  PROVE  Kept(all) \in Seq(MessageSet) /\ (Acceptable(all) => Acceptable(Kept(all)))
<1>. DEFINE n == Len(all)
            low == IF n > HistorySize THEN n - HistorySize + 1 ELSE 1
            fit == SubSeq(all, low, n)
            starts == {i \in DOMAIN fit : fit[i].role # "tool"}
<1>1. n \in Nat /\ HistorySize \in Nat /\ HistorySize > 0 /\ low \in Nat /\ low >= 1 /\ low <= n + 1
  BY LenProperties, ChatAssumption
<1>2. Kept(all) = IF starts = {} THEN <<>> ELSE SubSeq(fit, CHOOSE i \in starts : \A j \in starts : i <= j, Len(fit))
  BY DEF Kept
<1>. HIDE DEF low
<1>3. \A i \in low..n : all[i] \in MessageSet
  <2>1. \A i \in 1..n : all[i] \in MessageSet
    BY ElementOfSeq
  <2>. QED
    BY <1>1, <2>1
<1>4. fit \in Seq(MessageSet) /\ Len(fit) = (n - low) + 1 /\ \A i \in 1..Len(fit) : fit[i] = all[low + i - 1]
  BY <1>1, <1>3, SubSeqProperties
<1>. HIDE DEF fit, n
<1>5. DOMAIN fit = 1..Len(fit) /\ Len(fit) \in Nat
  BY <1>4, LenProperties
<1>. HIDE DEF starts
<1>6. CASE starts = {}
  <2>1. Kept(all) = <<>>
    BY <1>2, <1>6
  <2>2. Acceptable(<<>>)
    BY DEF Acceptable
  <2>. QED
    BY <2>1, <2>2
<1>7. CASE starts # {}
  <2>. DEFINE c == CHOOSE i \in starts : \A j \in starts : i <= j
              rest == SubSeq(fit, c, Len(fit))
  <2>1. \E m \in starts : \A k \in starts : m <= k
    <3>1. starts \subseteq Nat
      BY <1>5 DEF starts
    <3>. QED
      BY <1>7, <3>1, LeastNumber
  <2>2. c \in starts
    BY <2>1
  <2>3. c \in 1..Len(fit) /\ fit[c].role # "tool"
    BY <1>5, <2>2 DEF starts
  <2>. HIDE DEF c
  <2>4. \A i \in c..Len(fit) : fit[i] \in MessageSet
    <3>1. \A i \in 1..Len(fit) : fit[i] \in MessageSet
      BY <1>4, ElementOfSeq
    <3>. QED
      BY <2>3, <3>1
  <2>5. rest \in Seq(MessageSet) /\ Len(rest) = (Len(fit) - c) + 1 /\ \A i \in 1..Len(rest) : rest[i] = fit[c + i - 1]
    BY <1>5, <2>3, <2>4, SubSeqProperties
  <2>6. Kept(all) = rest
    BY <1>2, <1>7 DEF c
  <2>. HIDE DEF rest
  <2>7. ASSUME Acceptable(all)
        PROVE  Acceptable(rest)
    <3>. DEFINE first == low + c - 1
    <3>1. first \in 1..n /\ all[first] = fit[c]
      BY <1>1, <1>4, <1>5, <2>3
    <3>2. \A i \in 1..Len(rest) : c + i - 1 \in 1..Len(fit) /\ low + (c + i - 1) - 1 = first + i - 1
      BY <1>1, <1>5, <2>3, <2>5
    <3>3. Len(rest) = n - first + 1
      BY <1>1, <1>4, <1>5, <2>3, <2>5
    <3>4. \A i \in 1..Len(rest) : rest[i] = all[first + i - 1]
      BY <1>4, <2>5, <3>2
    <3>. HIDE DEF first
    <3>. QED
      BY <2>3, <2>5, <2>7, <3>1, <3>3, <3>4, EndAccepted DEF n
  <2>. QED
    BY <2>5, <2>6, <2>7
<1>. QED
  BY <1>6, <1>7

-----------------------------------------------------------------------------
(* The steps of the runs. *)

\* What a run at a stage, with its turn and the transcript, is for the provider.
Talk(stage, t, talk) ==
  /\ stage \in {"turn", "final"} => Acceptable(t.history)
  /\ stage \in {"calls", "tool"} => Open(t.history, t.calls) /\ Open(talk, t.calls)
  /\ stage \notin {"calls", "tool"} => Acceptable(talk)

\* A run that is under way is the only one.
LEMMA Alone ==
  ASSUME TalkOK, NEW r \in Runs, at[r] \notin {"none", "over"}
  PROVE  Talk(at[r], turn[r], messages) /\ \A s \in Runs \ {r} : at[s] \in {"none", "over"}
<1>1. \A s \in Runs \ {r} : at[s] \in {"none", "over"}
  BY DEF TalkOK, Alive
<1>2. at[r] \in {"turn", "final"} => Acceptable(turn[r].history)
  BY DEF TalkOK
<1>3. at[r] \in {"calls", "tool"} => Open(turn[r].history, turn[r].calls) /\ Open(messages, turn[r].calls)
  BY DEF TalkOK, InRound
<1>4. at[r] \notin {"calls", "tool"} => Acceptable(messages)
  <2>1. at[r] \notin {"calls", "tool"} => InRound = {}
    BY <1>1 DEF InRound
  <2>. QED
    BY <2>1 DEF TalkOK
<1>. QED
  BY <1>1, <1>2, <1>3, <1>4 DEF Talk

LEMMA TalkStep ==
  ASSUME NEW r \in Runs, \A s \in Runs \ {r} : at'[s] \in {"none", "over"}, Talk(at'[r], turn'[r], messages')
  PROVE  TalkOK'
<1>1. (\A a, b \in Alive : a = b)'
  BY DEF Alive
<1>2. (\A s \in Runs : at[s] \in {"turn", "final"} => Acceptable(turn[s].history))'
  <2>. SUFFICES ASSUME NEW s \in Runs, at'[s] \in {"turn", "final"}
                PROVE  Acceptable(turn'[s].history)
    BY DEF Acceptable
  <2>1. s = r
    OBVIOUS
  <2>. QED
    BY <2>1 DEF Talk
<1>3. (\A s \in InRound : Open(turn[s].history, turn[s].calls) /\ Open(messages, turn[s].calls))'
  <2>. SUFFICES ASSUME NEW s \in Runs, at'[s] \in {"calls", "tool"}
                PROVE  Open(turn'[s].history, turn'[s].calls) /\ Open(messages', turn'[s].calls)
    BY DEF InRound, Open, InPlace
  <2>1. s = r
    OBVIOUS
  <2>. QED
    BY <2>1 DEF Talk
<1>4. (InRound = {} => Acceptable(messages))'
  <2>1. InRound' = {} => at'[r] \notin {"calls", "tool"}
    BY DEF InRound
  <2>. QED
    BY <2>1 DEF Talk, Acceptable
<1>. QED
  BY <1>1, <1>2, <1>3, <1>4 DEF TalkOK

LEMMA SceneParts ==
  ASSUME RunInv
  PROVE  /\ scene.calls \in Nat /\ scene.calls > 0 /\ scene.rounds \in Nat /\ scene.rounds > 0
         /\ MaxAsked \in Nat /\ MaxAsked > 0
BY ChatAssumption DEF RunInv, RunTypes

\* A run that is under way goes on to another stage.
LEMMA GoesOn ==
  ASSUME RunInv, TalkInv, NEW r \in Runs, NEW to \in Stages \ {"none", "over"}, NEW t \in Turns, Bounded(t, to),
         at[r] \notin {"none", "over"}, to \in {"opened", "asked"} <=> at[r] \in {"opened", "asked"},
         Goes(r, to), turn' = [turn EXCEPT ![r] = t], UNCHANGED <<row, running, cancel, early, scene>>,
         messages' \in Seq(MessageSet), faults' \in Nat, faults <= faults', disturbed => disturbed',
         ~disturbed' /\ faults' = 0 /\ Talk(at[r], turn[r], messages) => Talk(to, t, messages')
  PROVE  RunInv' /\ TalkInv'
<1>1. /\ at'[r] = to /\ turn'[r] = t /\ at' = [s \in Runs |-> at'[s]] /\ turn' = [s \in Runs |-> turn'[s]]
      /\ \A s \in Runs \ {r} : at'[s] = at[s] /\ turn'[s] = turn[s]
  BY DEF RunInv, RunTypes, Goes
<1>2. RunTypes'
  BY <1>1 DEF RunInv, RunTypes
<1>3. ASSUME NEW s \in Runs
      PROVE  RunOK(s)'
  <2>1. CASE s = r
    <3>1. RunOK(r)
      BY DEF RunInv
    <3>2. Bounded(t, to)'
      BY DEF Bounded
    <3>. QED
      BY <1>1, <2>1, <3>1, <3>2 DEF RunOK
  <2>2. CASE s # r
    <3>1. RunOK(s) /\ at'[s] = at[s] /\ turn'[s] = turn[s] /\ UNCHANGED <<row, running, early, scene>>
      BY <1>1, <2>2 DEF RunInv
    <3>. QED
      BY <3>1 DEF RunOK, Bounded
  <2>. QED
    BY <2>1, <2>2
<1>4. TalkInv'
  <2>. SUFFICES ASSUME ~disturbed', ~(faults' > 0)
                PROVE  TalkOK'
    BY DEF TalkInv
  <2>1. faults' = 0 /\ TalkOK
    BY DEF TalkInv, RunInv, RunTypes
  <2>2. Talk(at[r], turn[r], messages) /\ \A s \in Runs \ {r} : at[s] \in {"none", "over"}
    BY <2>1, Alone
  <2>3. Talk(to, t, messages')
    BY <2>1, <2>2
  <2>. QED
    BY <1>1, <2>2, <2>3, TalkStep
<1>. QED
  BY <1>2, <1>3, <1>4 DEF RunInv

\* Nothing that a run or the transcript is made of changes.
LEMMA RunsStay ==
  ASSUME RunInv, TalkInv, UNCHANGED <<row, messages, running, cancel, at, turn, early, disturbed, scene>>, faults' \in Nat, faults <= faults'
  PROVE  RunInv' /\ TalkInv'
<1>1. RunInv'
  BY DEF RunInv, RunTypes, RunOK, Bounded
<1>2. TalkInv'
  <2>1. Alive' = Alive /\ InRound' = InRound
    BY DEF Alive, InRound
  <2>2. UNCHANGED <<at, turn, messages>>
    OBVIOUS
  <2>3. Acceptable(messages)' = Acceptable(messages)
    BY <2>2 DEF Acceptable
  <2>4. \A r \in Runs : Acceptable(turn[r].history)' = Acceptable(turn[r].history)
    BY <2>2 DEF Acceptable
  <2>5. \A r \in Runs : Open(turn[r].history, turn[r].calls)' = Open(turn[r].history, turn[r].calls)
    BY <2>2 DEF Open, InPlace
  <2>6. \A r \in Runs : Open(messages, turn[r].calls)' = Open(messages, turn[r].calls)
    BY <2>2 DEF Open, InPlace
  <2>7. ASSUME TalkOK PROVE TalkOK'
    <3>1. \A r \in Runs : at'[r] \in {"turn", "final"} => Acceptable(turn[r].history)'
      BY <2>2, <2>4, <2>7 DEF TalkOK
    <3>2. InRound \subseteq Runs
      BY DEF InRound
    <3>3. \A r \in InRound' : Open(turn[r].history, turn[r].calls)' /\ Open(messages, turn[r].calls)'
      BY <2>1, <2>5, <2>6, <2>7, <3>2 DEF TalkOK
    <3>. QED
      BY <2>1, <2>3, <2>7, <3>1, <3>3 DEF TalkOK
  <2>. QED
    BY <2>7 DEF TalkInv, RunInv, RunTypes
<1>. QED
  BY <1>1, <1>2

\* A run ends early: not inside a round, unless it is stopped there or a write fails.
LEMMA ClosesKeeps ==
  ASSUME RunInv, TalkInv, NEW r \in Runs, at[r] \notin {"none", "opened", "asked", "over"}, NEW status \in Final,
         turn' = [turn EXCEPT ![r].status = status], Goes(r, "ending"),
         UNCHANGED <<row, running, cancel, early, scene, messages>>, faults' \in Nat, faults <= faults', disturbed => disturbed',
         at[r] \in {"calls", "tool"} => disturbed' \/ faults' > 0
  PROVE  RunInv' /\ TalkInv'
<1>. DEFINE t == [turn[r] EXCEPT !.status = status]
<1>1. turn[r] \in Turns /\ Bounded(turn[r], at[r]) /\ messages \in Seq(MessageSet)
  BY DEF RunInv, RunOK, RunTypes
<1>2. t \in Turns /\ t.used = turn[r].used /\ t.round = turn[r].round
  BY <1>1 DEF Turns
<1>3. Goes(r, "ending") /\ turn' = [turn EXCEPT ![r] = t] /\ "ending" \in Stages \ {"none", "over"}
  BY DEF Stages
<1>. HIDE DEF t
<1>4. Bounded(t, "ending")
  BY <1>1, <1>2 DEF Bounded
<1>5. ~disturbed' /\ faults' = 0 /\ Talk(at[r], turn[r], messages) => Talk("ending", t, messages')
  BY DEF Talk
<1>6. "ending" \in {"opened", "asked"} <=> at[r] \in {"opened", "asked"}
  OBVIOUS
<1>. QED
  BY <1>1, <1>2, <1>3, <1>4, <1>5, <1>6, GoesOn

LEMMA EndsKeeps ==
  ASSUME RunInv, TalkInv, NEW r \in Runs, at[r] \notin {"none", "opened", "asked", "over"}, NEW status \in Final, NEW kind, Ends(r, status, kind),
         UNCHANGED <<row, running, cancel, early, scene, messages>>, faults' \in Nat, faults <= faults', disturbed => disturbed',
         at[r] \in {"calls", "tool"} => disturbed' \/ faults' > 0
  PROVE  RunInv' /\ TalkInv'
<1>1. turn' = [turn EXCEPT ![r].status = status] /\ Goes(r, "ending")
  BY DEF Ends
<1>. QED
  BY <1>1, ClosesKeeps

\* A run goes on with the turn it has.
LEMMA MovesOn ==
  ASSUME RunInv, TalkInv, NEW r \in Runs, NEW to \in Stages \ {"none", "over"}, Bounded(turn[r], to),
         at[r] \notin {"none", "over"}, to \in {"opened", "asked"} <=> at[r] \in {"opened", "asked"},
         Goes(r, to), UNCHANGED <<turn, row, running, cancel, early, disturbed, faults, scene>>, messages' \in Seq(MessageSet),
         Talk(at[r], turn[r], messages) => Talk(to, turn[r], messages')
  PROVE  RunInv' /\ TalkInv'
<1>1. turn[r] \in Turns /\ turn = [s \in Runs |-> turn[s]] /\ faults \in Nat
  BY DEF RunInv, RunOK, RunTypes
<1>2. turn' = [turn EXCEPT ![r] = turn[r]]
  BY <1>1
<1>3. faults' \in Nat /\ faults <= faults' /\ (disturbed => disturbed')
  BY <1>1
<1>. QED
  BY <1>1, <1>2, <1>3, GoesOn

-----------------------------------------------------------------------------

LEMMA SendKeeps ==
  ASSUME RunInv, TalkInv, NEW r \in Runs, Send(r)
  PROVE  RunInv' /\ TalkInv'
<1>1. /\ at[r] = "none" /\ row' = [row EXCEPT ![r] = "running"] /\ at' = [at EXCEPT ![r] = "opened"]
      /\ disturbed' = (disturbed \/ Alive # {}) /\ UNCHANGED <<messages, running, cancel, turn, early, scene, faults>>
  BY DEF Send, Goes, Quiet, spent
<1>2. /\ at'[r] = "opened" /\ row'[r] = "running" /\ at' = [s \in Runs |-> at'[s]] /\ row' = [s \in Runs |-> row'[s]]
      /\ \A s \in Runs \ {r} : at'[s] = at[s] /\ row'[s] = row[s]
  BY <1>1 DEF RunInv, RunTypes
<1>3. RunTypes'
  BY <1>1, <1>2 DEF RunInv, RunTypes
<1>4. ASSUME NEW s \in Runs
      PROVE  RunOK(s)'
  <2>0. RunOK(s)
    BY DEF RunInv
  <2>1. CASE s = r
    <3>1. Bounded(turn[r], "opened")'
      BY <1>1, <2>0, <2>1 DEF RunOK, Bounded
    <3>. QED
      BY <1>1, <1>2, <2>0, <2>1, <3>1 DEF RunOK, Stages
  <2>2. CASE s # r
    <3>1. at'[s] = at[s] /\ turn'[s] = turn[s] /\ row'[s] = row[s] /\ UNCHANGED <<running, early, scene>>
      BY <1>1, <1>2, <2>2
    <3>. QED
      BY <2>0, <3>1 DEF RunOK, Bounded
  <2>. QED
    BY <2>1, <2>2
<1>5. TalkInv'
  <2>. SUFFICES ASSUME ~disturbed', ~(faults' > 0)
                PROVE  TalkOK'
    BY DEF TalkInv
  <2>1. TalkOK /\ Alive = {}
    BY <1>1 DEF TalkInv
  <2>2. \A s \in Runs \ {r} : at'[s] \in {"none", "over"}
    BY <1>2, <2>1 DEF Alive
  <2>3. InRound = {}
    BY <2>1 DEF InRound, Alive
  <2>4. Talk("opened", turn[r], messages)
    BY <2>1, <2>3 DEF Talk, TalkOK
  <2>. QED
    BY <1>1, <1>2, <2>2, <2>4, TalkStep
<1>. QED
  BY <1>3, <1>4, <1>5 DEF RunInv

LEMMA QuestionKeeps ==
  ASSUME RunInv, TalkInv, NEW r \in Runs, Question(r)
  PROVE  RunInv' /\ TalkInv'
<1>1. RunOK(r) /\ at[r] = "opened" /\ UNCHANGED <<row, running, cancel, turn, early, disturbed>> /\ messages \in Seq(MessageSet) /\ faults \in Nat
  BY DEF Question, history, RunInv, RunTypes
<1>2. CASE messages' = Append(messages, Message("user", 0, 0)) /\ Goes(r, "asked") /\ Quiet
  <2>. DEFINE m == Message("user", 0, 0)
  <2>1. m \in MessageSet /\ m.role # "tool" /\ m.calls = 0
    BY SceneParts DEF Message, MessageSet
  <2>. HIDE DEF m
  <2>2. messages' = Append(messages, m)
    BY <1>2 DEF m
  <2>3. messages' \in Seq(MessageSet) /\ (Acceptable(messages) => Acceptable(messages'))
    BY <1>1, <2>1, <2>2, AcceptedGrows
  <2>4. Bounded(turn[r], "asked") /\ "asked" \in Stages \ {"none", "over"}
    BY <1>1 DEF RunOK, Bounded, Stages
  <2>5. Talk(at[r], turn[r], messages) => Talk("asked", turn[r], messages')
    BY <1>1, <2>3 DEF Talk
  <2>6. UNCHANGED <<turn, row, running, cancel, early, disturbed, faults, scene>>
    BY <1>1, <1>2 DEF Quiet, spent
  <2>. QED
    BY <1>1, <1>2, <2>3, <2>4, <2>5, <2>6, MovesOn
<1>3. CASE Fault /\ UNCHANGED messages /\ Goes(r, "over")
  <2>1. faults' = faults + 1 /\ scene' = scene /\ at' = [at EXCEPT ![r] = "over"]
    BY <1>3 DEF Fault, Trouble, Goes
  <2>2. /\ at'[r] = "over" /\ at' = [s \in Runs |-> at'[s]] /\ \A s \in Runs \ {r} : at'[s] = at[s]
    BY <2>1 DEF RunInv, RunTypes
  <2>3. RunTypes' /\ TalkInv'
    BY <1>1, <1>3, <2>1, <2>2 DEF RunInv, RunTypes, TalkInv
  <2>4. ASSUME NEW s \in Runs
        PROVE  RunOK(s)'
    <3>1. CASE s = r
      BY <1>1, <2>1, <2>2, <3>1 DEF RunOK, Bounded, Stages
    <3>2. CASE s # r
      <4>1. RunOK(s) /\ at'[s] = at[s] /\ UNCHANGED <<turn, row, running, early, scene>>
        BY <1>1, <2>1, <2>2, <3>2 DEF RunInv
      <4>. QED
        BY <4>1 DEF RunOK, Bounded
    <3>. QED
      BY <3>1, <3>2
  <2>. QED
    BY <2>3, <2>4 DEF RunInv
<1>. QED
  BY <1>2, <1>3 DEF Question

LEMMA RegisterKeeps ==
  ASSUME RunInv, TalkInv, NEW r \in Runs, Register(r)
  PROVE  RunInv' /\ TalkInv'
<1>1. /\ RunOK(r) /\ at[r] = "asked" /\ running' = running \cup {r} /\ at' = [at EXCEPT ![r] = "ready"]
      /\ UNCHANGED <<row, messages, cancel, turn, early, disturbed, scene, faults>>
  BY DEF Register, Goes, table, history, Quiet, spent, RunInv
<1>2. at'[r] = "ready" /\ at' = [s \in Runs |-> at'[s]] /\ \A s \in Runs \ {r} : at'[s] = at[s]
  BY <1>1 DEF RunInv, RunTypes
<1>3. RunTypes'
  BY <1>1, <1>2 DEF RunInv, RunTypes
<1>4. ASSUME NEW s \in Runs
      PROVE  RunOK(s)'
  <2>1. CASE s = r
    BY <1>1, <1>2, <2>1 DEF RunOK, Bounded, Stages
  <2>2. CASE s # r
    <3>1. RunOK(s) /\ at'[s] = at[s] /\ UNCHANGED <<turn, row, early, scene>> /\ (s \in running' <=> s \in running)
      BY <1>1, <1>2, <2>2 DEF RunInv
    <3>. QED
      BY <3>1 DEF RunOK, Bounded
  <2>. QED
    BY <2>1, <2>2
<1>5. TalkInv'
  <2>. SUFFICES ASSUME ~disturbed', ~(faults' > 0)
                PROVE  TalkOK'
    BY DEF TalkInv
  <2>1. TalkOK
    BY <1>1 DEF TalkInv
  <2>2. Talk(at[r], turn[r], messages) /\ \A s \in Runs \ {r} : at[s] \in {"none", "over"}
    BY <1>1, <2>1, Alone
  <2>3. Talk(at'[r], turn'[r], messages')
    BY <1>1, <1>2, <2>2 DEF Talk
  <2>. QED
    BY <1>2, <2>2, <2>3, TalkStep
<1>. QED
  BY <1>3, <1>4, <1>5 DEF RunInv

LEMMA CancelKeeps ==
  ASSUME RunInv, TalkInv, NEW r \in Runs, Cancel(r)
  PROVE  RunInv' /\ TalkInv'
<1>1. row[r] # "none" /\ UNCHANGED <<messages, running, at, turn, disturbed, scene, faults>>
  BY DEF Cancel, Trouble
<1>2. \/ cancel' = cancel \cup {r} /\ UNCHANGED <<row, early>>
      \/ /\ r \notin running /\ row' = [row EXCEPT ![r] = IF @ = "running" THEN "cancelled" ELSE @] /\ UNCHANGED cancel
         /\ early' = IF at[r] = "over" THEN early ELSE early \cup {r}
  BY DEF Cancel
<1>3. row' = [s \in Runs |-> row'[s]] /\ \A s \in Runs \ {r} : row'[s] = row[s]
  BY <1>2 DEF RunInv, RunTypes
<1>4. row'[r] = row[r] \/ (row'[r] = "cancelled" /\ row[r] = "running" /\ (at[r] # "over" => r \in early'))
  BY <1>2 DEF RunInv, RunTypes
<1>5. early \subseteq early'
  BY <1>2
<1>6. RunTypes'
  BY <1>1, <1>2, <1>3 DEF RunInv, RunTypes
<1>7. ASSUME NEW s \in Runs
      PROVE  RunOK(s)'
  <2>0. RunOK(s) /\ UNCHANGED <<at, turn, running, scene>>
    BY <1>1 DEF RunInv
  <2>1. CASE s = r
    BY <1>1, <1>4, <1>5, <2>0, <2>1 DEF RunOK, Bounded, Final
  <2>2. CASE s # r
    BY <1>3, <1>5, <2>0, <2>2 DEF RunOK, Bounded
  <2>. QED
    BY <2>1, <2>2
<1>8. TalkInv'
  <2>1. TalkOK => TalkOK'
    BY <1>1 DEF TalkOK, Alive, InRound, Acceptable, Open, InPlace
  <2>. QED
    BY <1>1, <2>1 DEF TalkInv
<1>. QED
  BY <1>6, <1>7, <1>8 DEF RunInv

LEMMA BeginKeeps ==
  ASSUME RunInv, TalkInv, NEW r \in Runs, Begin(r)
  PROVE  RunInv' /\ TalkInv'
<1>. DEFINE kept == Kept(messages)
            t == [turn[r] EXCEPT !.history = kept]
<1>1. RunOK(r) /\ at[r] = "ready" /\ Goes(r, "turn") /\ messages \in Seq(MessageSet) /\ turn[r] \in Turns /\ faults \in Nat
  BY DEF Begin, RunInv, RunTypes, RunOK
<1>2. UNCHANGED <<row, running, cancel, early, scene, messages, faults, disturbed>> /\ turn' = [turn EXCEPT ![r] = t]
  BY DEF Begin, table, history, Quiet, spent
<1>3. kept \in Seq(MessageSet) /\ (Acceptable(messages) => Acceptable(kept))
  BY <1>1, KeptAccepted
<1>. HIDE DEF kept
<1>4. t \in Turns /\ t.history = kept /\ t.used = turn[r].used /\ t.round = turn[r].round
  BY <1>1, <1>3 DEF Turns
<1>. HIDE DEF t
<1>5. Bounded(t, "turn") /\ "turn" \in Stages \ {"none", "over"} /\ ("turn" \in {"opened", "asked"} <=> at[r] \in {"opened", "asked"})
  BY <1>1, <1>4 DEF RunOK, Bounded, Stages
<1>6. ~disturbed' /\ faults' = 0 /\ Talk(at[r], turn[r], messages) => Talk("turn", t, messages')
  BY <1>1, <1>2, <1>3, <1>4 DEF Talk
<1>7. messages' \in Seq(MessageSet) /\ faults' \in Nat /\ faults <= faults' /\ (disturbed => disturbed')
  BY <1>1, <1>2
<1>. QED
  BY <1>1, <1>2, <1>4, <1>5, <1>6, <1>7, GoesOn

LEMMA AnswersKeeps ==
  ASSUME RunInv, TalkInv, NEW r \in Runs, Answers(r)
  PROVE  RunInv' /\ TalkInv'
<1>1. RunOK(r) /\ at[r] \in {"turn", "final"} /\ Goes(r, "say") /\ messages \in Seq(MessageSet)
  BY DEF Answers, RunInv, RunTypes
<1>2. UNCHANGED <<turn, row, running, cancel, early, disturbed, faults, scene, messages>>
  BY DEF Answers, table, history, Quiet, spent
<1>3. Bounded(turn[r], "say") /\ "say" \in Stages \ {"none", "over"} /\ ("say" \in {"opened", "asked"} <=> at[r] \in {"opened", "asked"})
  BY <1>1 DEF RunOK, Bounded, Stages
<1>4. (Talk(at[r], turn[r], messages) => Talk("say", turn[r], messages')) /\ messages' \in Seq(MessageSet)
  BY <1>1, <1>2 DEF Talk
<1>. QED
  BY <1>1, <1>2, <1>3, <1>4, MovesOn

\* A write of the transcript that fails, a provider that fails: the run ends.
LEMMA FaultKeeps ==
  ASSUME RunInv, TalkInv, NEW r \in Runs, at[r] \notin {"none", "opened", "asked", "over"}, Fault, Ends(r, "failed", "error"),
         UNCHANGED <<row, running, cancel, early, messages>>, disturbed => disturbed'
  PROVE  RunInv' /\ TalkInv'
<1>1. faults \in Nat /\ faults' = faults + 1 /\ scene' = scene
  BY DEF Fault, Trouble, RunInv, RunTypes
<1>2. faults' \in Nat /\ faults <= faults' /\ faults' > 0 /\ "failed" \in Final
  BY <1>1 DEF Final
<1>. QED
  BY <1>1, <1>2, EndsKeeps

LEMMA ProviderFailsKeeps ==
  ASSUME RunInv, TalkInv, NEW r \in Runs, ProviderFails(r)
  PROVE  RunInv' /\ TalkInv'
<1>1. /\ at[r] \in {"turn", "final"} /\ Fault /\ Ends(r, "failed", "error") /\ UNCHANGED <<row, running, cancel, early, messages>>
      /\ disturbed' = disturbed
  BY DEF ProviderFails, table, history
<1>. QED
  BY <1>1, FaultKeeps

LEMMA SayFailsKeeps ==
  ASSUME RunInv, TalkInv, NEW r \in Runs, SayFails(r)
  PROVE  RunInv' /\ TalkInv'
<1>1. at[r] = "say" /\ Fault /\ Ends(r, "failed", "error") /\ UNCHANGED <<row, running, cancel, early, messages>> /\ disturbed' = disturbed
  BY DEF SayFails, table, history
<1>. QED
  BY <1>1, FaultKeeps

\* A round is opened in the transcript and in what the run sends next.
LEMMA RoundKeeps ==
  ASSUME RunInv, TalkInv, NEW r \in Runs, at[r] = "turn", NEW asked \in 1..MaxAsked, Round(r, asked),
         UNCHANGED <<row, running, cancel, early, disturbed, faults, scene>>
  PROVE  RunInv' /\ TalkInv'
<1>. DEFINE calls == IF asked <= scene.calls - turn[r].used THEN asked ELSE scene.calls - turn[r].used
            some == Message("assistant", calls, 0)
            t == [turn[r] EXCEPT !.calls = calls, !.results = 0, !.history = Append(turn[r].history, some)]
<1>1. /\ RunOK(r) /\ messages \in Seq(MessageSet) /\ turn[r] \in Turns /\ faults \in Nat /\ turn = [s \in Runs |-> turn[s]]
      /\ Bounded(turn[r], "turn")
  BY DEF RunInv, RunTypes, RunOK
<1>2. turn[r].used \in Nat /\ turn[r].used <= scene.calls /\ scene.calls \in Nat /\ turn[r].history \in Seq(MessageSet)
      /\ turn[r].round < scene.rounds /\ turn[r].round <= scene.rounds
  BY <1>1, SceneParts DEF Bounded, Turns
<1>3. calls \in 0..MaxAsked /\ calls \in Nat /\ turn[r].used + calls <= scene.calls
  BY <1>2, SceneParts
<1>4. some.calls = calls /\ some.role = "assistant" /\ some.role # "tool"
  BY DEF Message
<1>5. \/ some.calls = 0 /\ Goes(r, "final") /\ UNCHANGED <<messages, turn>>
      \/ /\ some.calls # 0 /\ messages' = Append(messages, some) /\ Goes(r, "calls")
         /\ turn' = [turn EXCEPT ![r].calls = some.calls, ![r].results = 0, ![r].history = Append(@, some)]
  BY DEF Round
<1>. HIDE DEF calls
<1>6. some \in MessageSet
  BY <1>3, SceneParts DEF Message, MessageSet
<1>. HIDE DEF some
<1>7. CASE some.calls = 0 /\ Goes(r, "final") /\ UNCHANGED <<messages, turn>>
  <2>1. Bounded(turn[r], "final") /\ "final" \in Stages \ {"none", "over"} /\ ("final" \in {"opened", "asked"} <=> at[r] \in {"opened", "asked"})
    BY <1>1 DEF Bounded, Stages
  <2>2. (Talk(at[r], turn[r], messages) => Talk("final", turn[r], messages')) /\ messages' \in Seq(MessageSet)
    BY <1>1, <1>7 DEF Talk
  <2>. QED
    BY <1>7, <2>1, <2>2, MovesOn
<1>8. CASE /\ some.calls # 0 /\ messages' = Append(messages, some) /\ Goes(r, "calls")
           /\ turn' = [turn EXCEPT ![r].calls = some.calls, ![r].results = 0, ![r].history = Append(@, some)]
  <2>1. turn' = [turn EXCEPT ![r] = t]
    BY <1>1, <1>4, <1>8
  <2>2. Append(turn[r].history, some) \in Seq(MessageSet) /\ messages' \in Seq(MessageSet)
    BY <1>1, <1>2, <1>6, <1>8, AppendProperties
  <2>3. /\ t \in Turns /\ t.history = Append(turn[r].history, some) /\ t.calls = calls /\ t.results = 0 /\ t.used = turn[r].used
        /\ t.round = turn[r].round
    <3>. DEFINE longer == Append(turn[r].history, some)
    <3>1. longer \in Seq(MessageSet) /\ 0 \in 0..MaxAsked
      BY <2>2, SceneParts
    <3>2. t = [turn[r] EXCEPT !.calls = calls, !.results = 0, !.history = longer]
      OBVIOUS
    <3>. HIDE DEF t, longer
    <3>3. /\ t \in Turns /\ t.history = longer /\ t.calls = calls /\ t.results = 0 /\ t.used = turn[r].used /\ t.round = turn[r].round
      BY <1>1, <1>3, <3>1, <3>2 DEF Turns
    <3>. QED
      BY <3>3 DEF longer
  <2>. HIDE DEF t
  <2>4. Bounded(t, "calls")
    BY <1>2, <1>3, <1>4, <1>8, <2>3 DEF Bounded
  <2>5. Talk(at[r], turn[r], messages) => Talk("calls", t, messages')
    <3>. SUFFICES ASSUME Acceptable(turn[r].history), Acceptable(messages)
                  PROVE  Open(t.history, t.calls) /\ Open(messages', t.calls)
      BY DEF Talk
    <3>1. Open(Append(turn[r].history, some), some.calls)
      BY <1>2, <1>4, <1>6, AcceptedGrows
    <3>2. Open(Append(messages, some), some.calls)
      BY <1>1, <1>4, <1>6, AcceptedGrows
    <3>. QED
      BY <1>4, <1>8, <2>3, <3>1, <3>2
  <2>6. "calls" \in Stages \ {"none", "over"} /\ ("calls" \in {"opened", "asked"} <=> at[r] \in {"opened", "asked"})
    BY DEF Stages
  <2>7. faults' \in Nat /\ faults <= faults' /\ (disturbed => disturbed')
    BY <1>1
  <2>. QED
    BY <1>8, <2>1, <2>2, <2>3, <2>4, <2>5, <2>6, <2>7, GoesOn
<1>. QED
  BY <1>5, <1>7, <1>8

LEMMA AsksKeeps ==
  ASSUME RunInv, TalkInv, NEW r \in Runs, Asks(r)
  PROVE  RunInv' /\ TalkInv'
<1>1. at[r] = "turn" /\ UNCHANGED <<row, running, cancel, early, disturbed>>
  BY DEF Asks, history
<1>2. CASE \E asked \in 1..MaxAsked : Round(r, asked) /\ Quiet
  <2>1. UNCHANGED <<faults, scene>>
    BY <1>2 DEF Quiet, spent
  <2>. QED
    BY <1>1, <1>2, <2>1, RoundKeeps
<1>3. CASE Fault /\ Ends(r, "failed", "error") /\ UNCHANGED messages
  BY <1>1, <1>3, FaultKeeps
<1>. QED
  BY <1>2, <1>3 DEF Asks

LEMMA CallToolKeeps ==
  ASSUME RunInv, TalkInv, NEW r \in Runs, CallTool(r)
  PROVE  RunInv' /\ TalkInv'
<1>1. RunOK(r) /\ at[r] = "calls" /\ Goes(r, "tool") /\ turn[r].results < turn[r].calls /\ messages \in Seq(MessageSet)
  BY DEF CallTool, RunInv, RunTypes
<1>2. UNCHANGED <<turn, row, running, cancel, early, disturbed, faults, scene, messages>>
  BY DEF CallTool, table, history, Quiet, spent
<1>3. Bounded(turn[r], "tool") /\ "tool" \in Stages \ {"none", "over"} /\ ("tool" \in {"opened", "asked"} <=> at[r] \in {"opened", "asked"})
  BY <1>1 DEF RunOK, Bounded, Stages
<1>4. (Talk(at[r], turn[r], messages) => Talk("tool", turn[r], messages')) /\ messages' \in Seq(MessageSet)
  BY <1>1, <1>2 DEF Talk
<1>. QED
  BY <1>1, <1>2, <1>3, <1>4, MovesOn

LEMMA ToolDoneKeeps ==
  ASSUME RunInv, TalkInv, NEW r \in Runs, ToolDone(r)
  PROVE  RunInv' /\ TalkInv'
<1>. DEFINE t == [turn[r] EXCEPT !.results = turn[r].results + 1, !.used = turn[r].used + 1]
<1>1. /\ RunOK(r) /\ at[r] = "tool" /\ Goes(r, "calls") /\ messages \in Seq(MessageSet) /\ faults \in Nat
      /\ turn[r] \in Turns /\ Bounded(turn[r], "tool") /\ turn = [s \in Runs |-> turn[s]]
  BY DEF ToolDone, RunInv, RunTypes, RunOK
<1>2. UNCHANGED <<row, running, cancel, early, disturbed, faults, scene, messages>>
  BY DEF ToolDone, table, history, Quiet, spent
<1>3. turn' = [turn EXCEPT ![r] = t]
  BY <1>1 DEF ToolDone
<1>4. /\ turn[r].results \in Nat /\ turn[r].used \in Nat /\ turn[r].calls \in Nat /\ turn[r].calls <= MaxAsked /\ turn[r].results < turn[r].calls
      /\ 0 < turn[r].calls /\ turn[r].used + turn[r].calls <= scene.calls + turn[r].results
      /\ turn[r].round < scene.rounds /\ turn[r].round <= scene.rounds
  BY <1>1, SceneParts DEF Bounded, Turns
<1>5. turn[r].results + 1 \in 0..MaxAsked /\ turn[r].used + 1 \in Nat /\ turn[r].used + 1 <= scene.calls
      /\ turn[r].results + 1 <= turn[r].calls /\ (turn[r].used + 1) + turn[r].calls <= scene.calls + (turn[r].results + 1)
  BY <1>4, SceneParts
<1>6. /\ t \in Turns /\ t.results = turn[r].results + 1 /\ t.used = turn[r].used + 1 /\ t.calls = turn[r].calls /\ t.round = turn[r].round
      /\ t.history = turn[r].history
  BY <1>1, <1>5 DEF Turns
<1>. HIDE DEF t
<1>7. Bounded(t, "calls")
  BY <1>4, <1>5, <1>6 DEF Bounded
<1>8. Talk(at[r], turn[r], messages) => Talk("calls", t, messages')
  BY <1>1, <1>2, <1>6 DEF Talk
<1>9. "calls" \in Stages \ {"none", "over"} /\ ("calls" \in {"opened", "asked"} <=> at[r] \in {"opened", "asked"})
  BY <1>1 DEF Stages
<1>10. messages' \in Seq(MessageSet) /\ faults' \in Nat /\ faults <= faults' /\ (disturbed => disturbed')
  BY <1>1, <1>2
<1>. QED
  BY <1>1, <1>2, <1>3, <1>6, <1>7, <1>8, <1>9, <1>10, GoesOn

LEMMA EndRoundKeeps ==
  ASSUME RunInv, TalkInv, NEW r \in Runs, EndRound(r)
  PROVE  RunInv' /\ TalkInv'
<1>. DEFINE results == Message("tool", 0, turn[r].results)
            more == turn[r].used < scene.calls /\ turn[r].round + 1 < scene.rounds
            to == IF more THEN "turn" ELSE "final"
            t == [turn[r] EXCEPT !.history = Append(turn[r].history, results), !.round = turn[r].round + 1]
<1>1. /\ RunOK(r) /\ at[r] = "calls" /\ messages \in Seq(MessageSet) /\ faults \in Nat
      /\ turn[r] \in Turns /\ Bounded(turn[r], "calls") /\ turn = [s \in Runs |-> turn[s]]
      /\ UNCHANGED <<row, running, cancel, early>>
  BY DEF EndRound, RunInv, RunTypes, RunOK
<1>2. disturbed' = (disturbed \/ turn[r].results < turn[r].calls)
  BY DEF EndRound
<1>3. \/ /\ messages' = Append(messages, results) /\ Goes(r, to)
         /\ turn' = [turn EXCEPT ![r].history = Append(@, results), ![r].round = @ + 1] /\ Quiet
      \/ Fault /\ Ends(r, "failed", "error") /\ UNCHANGED messages
  BY DEF EndRound
<1>4. /\ turn[r].results \in 0..MaxAsked /\ turn[r].results \in Nat /\ turn[r].calls \in Nat /\ turn[r].results <= turn[r].calls
      /\ 0 < turn[r].calls /\ turn[r].round \in Nat /\ turn[r].round < scene.rounds /\ turn[r].used <= scene.calls
      /\ turn[r].history \in Seq(MessageSet)
  BY <1>1, SceneParts DEF Bounded, Turns
<1>5. results \in MessageSet /\ results.role = "tool" /\ results.calls = 0 /\ results.results = turn[r].results
  BY <1>4, SceneParts DEF Message, MessageSet
<1>. HIDE DEF results
<1>6. CASE /\ messages' = Append(messages, results) /\ Goes(r, to)
           /\ turn' = [turn EXCEPT ![r].history = Append(@, results), ![r].round = @ + 1] /\ Quiet
  <2>1. turn' = [turn EXCEPT ![r] = t]
    BY <1>1, <1>6
  <2>2. Append(turn[r].history, results) \in Seq(MessageSet) /\ messages' \in Seq(MessageSet)
    BY <1>1, <1>4, <1>5, <1>6, AppendProperties
  <2>3. turn[r].round + 1 \in Nat /\ turn[r].round + 1 <= scene.rounds
    BY <1>4, SceneParts
  <2>4. t \in Turns /\ t.history = Append(turn[r].history, results) /\ t.used = turn[r].used /\ t.round = turn[r].round + 1
    BY <1>1, <2>2, <2>3 DEF Turns
  <2>. HIDE DEF t
  <2>5. Bounded(t, to) /\ to \in Stages \ {"none", "over"} /\ to \in {"turn", "final"}
    BY <1>4, <2>3, <2>4 DEF Bounded, Stages
  <2>. HIDE DEF to
  <2>6. to \in {"opened", "asked"} <=> at[r] \in {"opened", "asked"}
    BY <1>1, <2>5
  <2>7. ~disturbed' /\ faults' = 0 /\ Talk(at[r], turn[r], messages) => Talk(to, t, messages')
    <3>. SUFFICES ASSUME ~disturbed', Open(turn[r].history, turn[r].calls), Open(messages, turn[r].calls)
                  PROVE  Acceptable(t.history) /\ Acceptable(messages')
      BY <1>1, <2>5 DEF Talk
    <3>1. results.results = turn[r].calls
      <4>1. ~(turn[r].results < turn[r].calls)
        BY <1>2, Zenon
      <4>. QED
        BY <1>4, <1>5, <4>1
    <3>2. Acceptable(Append(turn[r].history, results))
      BY <1>4, <1>5, <3>1, RoundCloses
    <3>3. Acceptable(Append(messages, results))
      BY <1>1, <1>4, <1>5, <3>1, RoundCloses
    <3>. QED
      BY <1>6, <2>4, <3>2, <3>3
  <2>8. UNCHANGED <<faults, scene>>
    BY <1>6 DEF Quiet, spent
  <2>9. faults' \in Nat /\ faults <= faults'
    BY <1>1, <2>8
  <2>10. disturbed => disturbed'
    BY <1>2, Zenon
  <2>. QED
    BY <1>1, <1>6, <2>1, <2>2, <2>4, <2>5, <2>6, <2>7, <2>8, <2>9, <2>10, GoesOn
<1>7. CASE Fault /\ Ends(r, "failed", "error") /\ UNCHANGED messages
  BY <1>1, <1>2, <1>7, FaultKeeps
<1>. QED
  BY <1>3, <1>6, <1>7

LEMMA SayKeeps ==
  ASSUME RunInv, TalkInv, NEW r \in Runs, Say(r)
  PROVE  RunInv' /\ TalkInv'
<1>. DEFINE m == Message("assistant", 0, 0)
<1>1. RunOK(r) /\ at[r] = "say" /\ Goes(r, "said") /\ messages \in Seq(MessageSet)
  BY DEF Say, RunInv, RunTypes
<1>2. UNCHANGED <<turn, row, running, cancel, early, disturbed, faults, scene>> /\ (messages' = Append(messages, m) \/ messages' = messages)
  BY DEF Say, history, Quiet, spent
<1>3. m \in MessageSet /\ m.role # "tool" /\ m.calls = 0
  BY SceneParts DEF Message, MessageSet
<1>. HIDE DEF m
<1>4. messages' \in Seq(MessageSet) /\ (Acceptable(messages) => Acceptable(messages'))
  BY <1>1, <1>2, <1>3, AcceptedGrows, AppendProperties
<1>5. Bounded(turn[r], "said") /\ "said" \in Stages \ {"none", "over"} /\ ("said" \in {"opened", "asked"} <=> at[r] \in {"opened", "asked"})
  BY <1>1 DEF RunOK, Bounded, Stages
<1>6. Talk(at[r], turn[r], messages) => Talk("said", turn[r], messages')
  BY <1>1, <1>4 DEF Talk
<1>. QED
  BY <1>1, <1>2, <1>4, <1>5, <1>6, MovesOn

LEMMA SaidKeeps ==
  ASSUME RunInv, TalkInv, NEW r \in Runs, Said(r)
  PROVE  RunInv' /\ TalkInv'
<1>1. at[r] = "said" /\ UNCHANGED <<row, running, cancel, early, disturbed, faults, scene, messages>> /\ faults \in Nat
  BY DEF Said, table, history, Quiet, spent, RunInv, RunTypes
<1>2. Ends(r, "cancelled", "cancelled") \/ Ends(r, "ok", "completed")
  BY DEF Said
<1>3. faults' \in Nat /\ faults <= faults' /\ (disturbed => disturbed') /\ {"ok", "cancelled"} \subseteq Final
  BY <1>1 DEF Final
<1>. QED
  BY <1>1, <1>2, <1>3, EndsKeeps

LEMMA TaskCancelledKeeps ==
  ASSUME RunInv, TalkInv, NEW r \in Runs, TaskCancelled(r)
  PROVE  RunInv' /\ TalkInv'
<1>1. /\ at[r] \in {"turn", "final", "calls", "tool", "say", "said"} /\ UNCHANGED <<row, running, cancel, early, faults, scene, messages>>
      /\ faults \in Nat /\ turn' = [turn EXCEPT ![r].status = "cancelled"] /\ Goes(r, "ending")
      /\ disturbed' = (disturbed \/ at[r] \in {"calls", "tool"})
  BY DEF TaskCancelled, Trouble, RunInv, RunTypes
<1>2. faults' \in Nat /\ faults <= faults' /\ (disturbed => disturbed') /\ "cancelled" \in Final
  <2>1. disturbed => disturbed'
    BY <1>1, Zenon
  <2>. QED
    BY <1>1, <2>1 DEF Final
<1>3. at[r] \in {"calls", "tool"} => disturbed' \/ faults' > 0
  BY <1>1
<1>4. at[r] \notin {"none", "opened", "asked", "over"}
  BY <1>1
<1>. QED
  BY <1>1, <1>2, <1>3, <1>4, ClosesKeeps

LEMMA FinishKeeps ==
  ASSUME RunInv, TalkInv, NEW r \in Runs, Finish(r)
  PROVE  RunInv' /\ TalkInv'
<1>1. /\ RunOK(r) /\ at[r] = "ending" /\ running' = running \ {r} /\ at' = [at EXCEPT ![r] = "over"]
      /\ UNCHANGED <<messages, cancel, turn, early, disturbed>> /\ faults \in Nat
  BY DEF Finish, Goes, history, RunInv, RunTypes
<1>2. \/ row' = [row EXCEPT ![r] = turn[r].status] /\ UNCHANGED <<scene, faults>>
      \/ row' = row /\ scene' = scene /\ faults' = faults + 1
  BY DEF Finish, Quiet, spent, Fault, Trouble
<1>3. turn[r].status \in Final
  BY <1>1 DEF RunOK, Turns
<1>4. /\ at'[r] = "over" /\ at' = [s \in Runs |-> at'[s]] /\ row' = [s \in Runs |-> row'[s]] /\ row'[r] \in Final \cup {"none", "running"}
      /\ \A s \in Runs \ {r} : at'[s] = at[s] /\ row'[s] = row[s]
  BY <1>1, <1>2, <1>3 DEF RunInv, RunTypes, RunOK
<1>5. scene' = scene /\ faults' \in Nat /\ faults <= faults'
  BY <1>1, <1>2
<1>6. RunTypes'
  BY <1>1, <1>4, <1>5 DEF RunInv, RunTypes
<1>7. ASSUME NEW s \in Runs
      PROVE  RunOK(s)'
  <2>1. CASE s = r
    BY <1>1, <1>4, <1>5, <2>1 DEF RunOK, Bounded, Stages
  <2>2. CASE s # r
    <3>1. RunOK(s) /\ at'[s] = at[s] /\ row'[s] = row[s] /\ UNCHANGED <<turn, early, scene>> /\ (s \in running' <=> s \in running)
      BY <1>1, <1>4, <1>5, <2>2 DEF RunInv
    <3>. QED
      BY <3>1 DEF RunOK, Bounded
  <2>. QED
    BY <2>1, <2>2
<1>8. TalkInv'
  <2>. SUFFICES ASSUME ~disturbed', ~(faults' > 0)
                PROVE  TalkOK'
    BY DEF TalkInv
  <2>1. TalkOK
    BY <1>1, <1>5 DEF TalkInv
  <2>2. Talk(at[r], turn[r], messages) /\ \A s \in Runs \ {r} : at[s] \in {"none", "over"}
    BY <1>1, <2>1, Alone
  <2>3. Talk(at'[r], turn'[r], messages')
    BY <1>1, <1>4, <2>2 DEF Talk
  <2>4. \A s \in Runs \ {r} : at'[s] \in {"none", "over"}
    BY <1>4, <2>2
  <2>. QED
    BY <2>3, <2>4, TalkStep
<1>. QED
  BY <1>6, <1>7, <1>8 DEF RunInv

LEMMA RestartKeeps ==
  ASSUME RunInv, TalkInv, Restart
  PROVE  RunInv' /\ TalkInv'
<1>1. /\ row' = Reconciled /\ running' = {} /\ cancel' = {} /\ at' = [r \in Runs |-> IF at[r] = "none" THEN "none" ELSE "over"]
      /\ disturbed' = (disturbed \/ \E r \in Runs : at[r] \in {"calls", "tool"}) /\ UNCHANGED <<messages, turn, early, scene, faults>>
  BY DEF Restart, Trouble
<1>2. row' = [r \in Runs |-> IF row[r] = "running" THEN "interrupted" ELSE row[r]]
  BY <1>1 DEF Reconciled
<1>3. RunTypes'
  BY <1>1, <1>2 DEF RunInv, RunTypes
<1>4. ASSUME NEW s \in Runs
      PROVE  RunOK(s)'
  <2>1. RunOK(s) /\ s \notin running'
    BY <1>1 DEF RunInv
  <2>2. at'[s] \in {"none", "over"} /\ (at'[s] = "none" <=> at[s] = "none")
    BY <1>1
  <2>3. row'[s] = IF row[s] = "running" THEN "interrupted" ELSE row[s]
    BY <1>2
  <2>4. UNCHANGED <<turn, scene>>
    BY <1>1
  <2>6. Bounded(turn[s], at[s])'
    BY <2>1, <2>2, <2>4 DEF RunOK, Bounded
  <2>. QED
    BY <2>1, <2>2, <2>3, <2>4, <2>6 DEF RunOK, Stages, Final
<1>5. TalkInv'
  <2>. SUFFICES ASSUME ~disturbed', ~(faults' > 0)
                PROVE  TalkOK'
    BY DEF TalkInv
  <2>1. TalkOK /\ InRound = {}
    BY <1>1 DEF TalkInv, InRound
  <2>2. Acceptable(messages) /\ messages' = messages
    BY <1>1, <2>1 DEF TalkOK
  <2>3. Alive' = {} /\ InRound' = {} /\ \A r \in Runs : at'[r] \notin {"turn", "final"}
    BY <1>1 DEF Alive, InRound
  <2>. QED
    BY <2>2, <2>3 DEF TalkOK, Acceptable
<1>. QED
  BY <1>3, <1>4, <1>5 DEF RunInv

-----------------------------------------------------------------------------
(* The invariant. *)

LEMMA InitInv == Init => IInv
<1>. SUFFICES ASSUME Init
              PROVE  IInv
  OBVIOUS
<1>1. MaxRuns \in Nat /\ MaxRuns > 0 /\ scene \in Scenes /\ 1 \in Runs
  BY ChatAssumption DEF Init, Runs
<1>2. RunInv
  <2>1. row = [r \in Runs |-> "none"] /\ at = [r \in Runs |-> "none"] /\ turn = [r \in Runs |-> NewTurn]
    BY DEF Init
  <2>2. messages \in Seq(MessageSet) /\ running = {} /\ cancel = {} /\ faults \in Nat /\ scene \in Scenes
    BY <1>1 DEF Init
  <2>3. RunTypes
    BY <2>1, <2>2 DEF RunTypes
  <2>4. scene.calls \in Nat /\ scene.rounds \in Nat /\ scene.rounds > 0 /\ MaxAsked \in Nat
    BY <2>2, ChatAssumption
  <2>5. NewTurn \in Turns /\ NewTurn.used = 0 /\ NewTurn.round = 0
    <3>. DEFINE empty == <<>>
    <3>1. empty \in Seq(MessageSet) /\ 0 \in 0..MaxAsked /\ "ok" \in Final
      BY <2>4 DEF Final
    <3>2. NewTurn = [history |-> empty, round |-> 0, used |-> 0, calls |-> 0, results |-> 0, status |-> "ok"]
      BY DEF NewTurn
    <3>. HIDE DEF empty
    <3>. QED
      BY <3>1, <3>2 DEF Turns
  <2>6. Bounded(NewTurn, "none")
    BY <2>4, <2>5 DEF Bounded
  <2>. QED
    BY <2>1, <2>2, <2>3, <2>5, <2>6 DEF RunInv, RunOK, Stages
<1>3. EventsInv
  <2>1. EventsTypes
    BY DEF Init, EventsTypes
  <2>2. ASSUME NEW r \in Runs
        PROVE  InOrder(emitting[r], seq[r]) /\ Accounted(emitting[r], seq[r], stored[r], unsaved[r])
    <3>1. emitting[r] = <<>> /\ seq[r] = 0 /\ stored[r] = {} /\ unsaved[r] = {}
      BY DEF Init
    <3>2. InOrder(<<>>, 0)
      BY DEF InOrder
    <3>3. Accounted(<<>>, 0, {}, {})
      BY DEF Accounted, Numbers
    <3>. QED
      BY <3>1, <3>2, <3>3
  <2>. QED
    BY <2>1, <2>2 DEF EventsInv
<1>4. StreamInv
  <2>. DEFINE empty == <<>>
  <2>1. empty \in Seq(Queued) /\ empty \in Seq(Nat) /\ Len(empty) = 0
    OBVIOUS
  <2>2. stream = [at |-> "closed", run |-> 1, highest |-> 0, todo |-> {}, queue |-> empty, seen |-> empty, lost |-> FALSE]
    BY DEF Init, NoStream
  <2>3. seq[1] = 0 /\ Len(emitting[1]) = 0
    BY <1>1 DEF Init
  <2>4. stream.queue = <<>>
    BY <2>2
  <2>. HIDE DEF empty
  <2>5. stream \in StreamSet
    BY <1>1, <2>1, <2>2 DEF StreamSet
  <2>6. /\ stream.run = 1 /\ stream.highest = 0 /\ stream.todo = {} /\ Len(stream.queue) = 0 /\ Len(stream.seen) = 0
        /\ stream.at = "closed"
    BY <2>1, <2>2
  <2>7. Seen(stream, seq[1], unsaved[1])
    BY <2>3, <2>6 DEF Seen
  <2>8. Todo(stream, stored[1], unsaved[1])
    BY <2>6 DEF Todo
  <2>9. Follows(stream, seq[1] - Len(emitting[1]), unsaved[1])
    BY <2>4, <2>6, ChatAssumption DEF Follows
  <2>. QED
    BY <2>5, <2>6, <2>7, <2>8, <2>9 DEF StreamInv, StreamOK
<1>5. TalkInv
  <2>1. \A r \in Runs : at[r] = "none"
    BY DEF Init
  <2>2. Acceptable(messages)
    BY DEF Init, Acceptable
  <2>. QED
    BY <2>1, <2>2 DEF TalkInv, TalkOK, Alive, InRound
<1>. QED
  BY <1>2, <1>3, <1>4, <1>5 DEF IInv

\* What a run does by itself.
LEMMA WorksKeeps ==
  ASSUME IInv, NEW r \in Runs, Works(r)
  PROVE  IInv'
<1>. USE DEF IInv
<1>1. CASE Question(r)
  <2>1. UNCHANGED <<emitting, seq, stored, unsaved, stream>>
    BY <1>1 DEF Question, history
  <2>. QED
    BY <1>1, <2>1, QuestionKeeps, NothingEmitted
<1>2. CASE Register(r)
  <2>1. UNCHANGED <<emitting, seq, stored, unsaved, stream>>
    BY <1>2 DEF Register, table, history
  <2>. QED
    BY <1>2, <2>1, RegisterKeeps, NothingEmitted
<1>3. CASE Begin(r)
  <2>1. UNCHANGED <<emitting, seq, stored, unsaved, stream>>
    BY <1>3 DEF Begin, table, history
  <2>. QED
    BY <1>3, <2>1, BeginKeeps, NothingEmitted
<1>4. CASE Answers(r)
  <2>1. UNCHANGED <<emitting, seq, stored, unsaved, stream>>
    BY <1>4 DEF Answers, table, history
  <2>. QED
    BY <1>4, <2>1, AnswersKeeps, NothingEmitted
<1>5. CASE Asks(r)
  <2>1. UNCHANGED <<stored, unsaved, stream>> /\ (UNCHANGED <<emitting, seq>> \/ Emit(r, "error")) /\ "error" \in EventKinds
    BY <1>5 DEF Asks, NoEmit, Ends, history, EventKinds, LastEvents
  <2>2. EventsInv' /\ StreamInv'
    BY <2>1, NothingEmitted, EmitKeeps
  <2>. QED
    BY <1>5, <2>2, AsksKeeps
<1>6. CASE ProviderFails(r)
  <2>1. UNCHANGED <<stored, unsaved, stream>> /\ Emit(r, "error") /\ "error" \in EventKinds
    BY <1>6 DEF ProviderFails, Ends, table, history, EventKinds, LastEvents
  <2>. QED
    BY <1>6, <2>1, ProviderFailsKeeps, EmitKeeps
<1>7. CASE CallTool(r)
  <2>1. UNCHANGED <<stored, unsaved, stream>> /\ Emit(r, "tool_call") /\ "tool_call" \in EventKinds
    BY <1>7 DEF CallTool, table, history, EventKinds
  <2>. QED
    BY <1>7, <2>1, CallToolKeeps, EmitKeeps
<1>8. CASE ToolDone(r)
  <2>1. UNCHANGED <<stored, unsaved, stream>> /\ Emit(r, "tool_result") /\ "tool_result" \in EventKinds
    BY <1>8 DEF ToolDone, table, history, EventKinds
  <2>. QED
    BY <1>8, <2>1, ToolDoneKeeps, EmitKeeps
<1>9. CASE EndRound(r)
  <2>1. UNCHANGED <<stored, unsaved, stream>> /\ (UNCHANGED <<emitting, seq>> \/ Emit(r, "error")) /\ "error" \in EventKinds
    BY <1>9 DEF EndRound, NoEmit, Ends, EventKinds, LastEvents
  <2>2. EventsInv' /\ StreamInv'
    BY <2>1, NothingEmitted, EmitKeeps
  <2>. QED
    BY <1>9, <2>2, EndRoundKeeps
<1>10. CASE Say(r)
  <2>1. UNCHANGED <<stored, unsaved, stream>> /\ (UNCHANGED <<emitting, seq>> \/ Emit(r, "message")) /\ "message" \in EventKinds
    BY <1>10 DEF Say, NoEmit, history, EventKinds
  <2>2. EventsInv' /\ StreamInv'
    BY <2>1, NothingEmitted, EmitKeeps
  <2>. QED
    BY <1>10, <2>2, SayKeeps
<1>11. CASE SayFails(r)
  <2>1. UNCHANGED <<stored, unsaved, stream>> /\ Emit(r, "error") /\ "error" \in EventKinds
    BY <1>11 DEF SayFails, Ends, table, history, EventKinds, LastEvents
  <2>. QED
    BY <1>11, <2>1, SayFailsKeeps, EmitKeeps
<1>12. CASE Said(r)
  <2>1. /\ UNCHANGED <<stored, unsaved, stream>> /\ (Emit(r, "cancelled") \/ Emit(r, "completed"))
        /\ {"cancelled", "completed"} \subseteq EventKinds
    BY <1>12 DEF Said, Ends, table, history, EventKinds, LastEvents
  <2>2. EventsInv' /\ StreamInv'
    BY <2>1, EmitKeeps
  <2>. QED
    BY <1>12, <2>2, SaidKeeps
<1>13. CASE Finish(r)
  <2>1. Publish(r) /\ UNCHANGED <<seq, stored, unsaved>>
    BY <1>13 DEF Finish, history
  <2>. QED
    BY <1>13, <2>1, FinishKeeps, PublishKeeps
<1>14. CASE StoreEvent(r)
  <2>1. /\ UNCHANGED <<row, messages, running, cancel, at, turn, early, disturbed>>
        /\ UNCHANGED <<scene, faults>> \/ (scene' = scene /\ faults' = faults + 1)
    BY <1>14 DEF StoreEvent, Quiet, spent, Fault, Trouble
  <2>2. faults \in Nat /\ faults' \in Nat /\ faults <= faults' /\ scene' = scene
    BY <2>1 DEF RunInv, RunTypes
  <2>3. RunInv' /\ TalkInv'
    BY <2>1, <2>2, RunsStay
  <2>. QED
    BY <1>14, <2>3, StoreEventKeeps
<1>15. CASE PublishEvent(r)
  <2>1. /\ UNCHANGED <<row, messages, running, cancel, at, turn, early, disturbed, scene, faults>>
        /\ Publish(r) /\ UNCHANGED <<seq, stored, unsaved>>
    BY <1>15 DEF PublishEvent, table, history, Quiet, spent
  <2>2. faults' \in Nat /\ faults <= faults'
    BY <2>1 DEF RunInv, RunTypes
  <2>3. RunInv' /\ TalkInv'
    BY <2>1, <2>2, RunsStay
  <2>. QED
    BY <2>1, <2>3, PublishKeeps
<1>. QED
  BY <1>1, <1>2, <1>3, <1>4, <1>5, <1>6, <1>7, <1>8, <1>9, <1>10, <1>11, <1>12, <1>13, <1>14, <1>15 DEF Works

\* A step that leaves the runs and the transcript alone.
LEMMA OnlyEvents ==
  ASSUME IInv, UNCHANGED <<row, messages, running, cancel, at, turn, early, disturbed, scene, faults>>, EventsInv' /\ StreamInv'
  PROVE  IInv'
<1>1. faults' \in Nat /\ faults <= faults' /\ UNCHANGED <<row, messages, running, cancel, at, turn, early, disturbed, scene>>
  BY DEF IInv, RunInv, RunTypes
<1>2. RunInv' /\ TalkInv'
  BY <1>1, RunsStay DEF IInv
<1>. QED
  BY <1>2 DEF IInv

LEMMA StepInv == IInv /\ [Next]_vars => IInv'
<1>. SUFFICES ASSUME IInv, [Next]_vars
              PROVE  IInv'
  OBVIOUS
<1>1. ASSUME NEW r \in Runs, Send(r)
      PROVE  IInv'
  <2>1. UNCHANGED <<emitting, seq, stored, unsaved, stream>>
    BY <1>1 DEF Send
  <2>. QED
    BY <1>1, <2>1, SendKeeps, NothingEmitted DEF IInv
<1>2. ASSUME NEW r \in Runs, Cancel(r)
      PROVE  IInv'
  <2>1. UNCHANGED <<emitting, seq, stored, unsaved, stream>>
    BY <1>2 DEF Cancel
  <2>. QED
    BY <1>2, <2>1, CancelKeeps, NothingEmitted DEF IInv
<1>3. ASSUME NEW r \in Runs, Delta(r)
      PROVE  IInv'
  <2>1. /\ UNCHANGED <<row, messages, running, cancel, at, turn, early, disturbed, scene, faults>>
        /\ UNCHANGED <<stored, unsaved, stream>> /\ Emit(r, "delta") /\ "delta" \in EventKinds
    BY <1>3 DEF Delta, table, history, EventKinds
  <2>2. EventsInv' /\ StreamInv'
    BY <2>1, EmitKeeps DEF IInv
  <2>. QED
    BY <2>1, <2>2, OnlyEvents
<1>4. ASSUME NEW r \in Runs, TaskCancelled(r)
      PROVE  IInv'
  BY <1>4, TaskCancelledKeeps, CancelSends DEF IInv
<1>5. ASSUME NEW r \in Runs, Connect(r)
      PROVE  IInv'
  <2>1. UNCHANGED <<row, messages, running, cancel, at, turn, early, disturbed, scene, faults>>
    BY <1>5 DEF Connect, table, run, history
  <2>. QED
    BY <1>5, <2>1, ConnectKeeps, OnlyEvents DEF IInv
<1>6. CASE OtherEvent
  <2>1. UNCHANGED <<row, messages, running, cancel, at, turn, early, disturbed, scene, faults>>
    BY <1>6 DEF OtherEvent, Trouble, table, run, history
  <2>. QED
    BY <1>6, <2>1, OtherEventKeeps, OnlyEvents DEF IInv
<1>7. CASE Restart
  BY <1>7, RestartKeeps, RestartDrops DEF IInv
<1>8. CASE Streams
  <2>1. UNCHANGED <<row, messages, running, cancel, at, turn, early, disturbed, scene, faults>>
    BY <1>8 DEF Streams, Replay, Rows, Replayed, Follow, Hears, TailRead, Quiet, spent, table, run, history
  <2>2. EventsInv' /\ StreamInv'
    BY <1>8, ReplayKeeps, RowsKeeps, ReplayedKeeps, FollowKeeps, HearsKeeps, TailReadKeeps DEF Streams, IInv
  <2>. QED
    BY <2>1, <2>2, OnlyEvents
<1>9. CASE UNCHANGED vars
  <2>1. /\ UNCHANGED <<row, messages, running, cancel, at, turn, early, disturbed, scene, faults>>
        /\ UNCHANGED <<emitting, seq, stored, unsaved, stream>>
    BY <1>9 DEF vars, table, run, history, spent
  <2>. QED
    BY <2>1, NothingEmitted, OnlyEvents DEF IInv
<1>. QED
  BY <1>1, <1>2, <1>3, <1>4, <1>5, <1>6, <1>7, <1>8, <1>9, WorksKeeps DEF Next

LEMMA AlwaysInv == Spec => []IInv
<1>. QED
  BY InitInv, StepInv, PTL DEF Spec

-----------------------------------------------------------------------------
(* The properties. *)

LEMMA InvIsOK == IInv => ChatOK
<1>. SUFFICES ASSUME IInv
              PROVE  ChatOK
  OBVIOUS
<1>1. RunInv /\ EventsInv /\ StreamInv
  BY DEF IInv
<1>2. /\ stream \in StreamSet /\ stream.highest \in Nat /\ stream.highest <= seq[stream.run] /\ seq[stream.run] \in Nat
      /\ Len(stream.queue) <= QueueSize /\ Seen(stream, seq[stream.run], unsaved[stream.run])
  BY <1>1, StreamParts DEF Seen, Follows
<1>3. row \in [Runs -> Final \cup {"none", "running"}]
  BY <1>1 DEF RunInv, RunTypes, RunOK
<1>4. \A i \in DOMAIN messages : messages[i] \in [role : {"user", "assistant", "tool"}, calls : 0..MaxAsked, results : 0..MaxAsked]
  <2>1. messages \in Seq(MessageSet)
    BY <1>1 DEF RunInv, RunTypes
  <2>2. \A i \in 1..Len(messages) : messages[i] \in MessageSet
    BY <2>1, ElementOfSeq
  <2>3. DOMAIN messages = 1..Len(messages)
    BY <2>1, LenProperties
  <2>. QED
    BY <2>2, <2>3 DEF MessageSet
<1>5. running \subseteq Alive /\ cancel \subseteq Runs
  BY <1>1 DEF RunInv, RunTypes, RunOK, Alive
<1>6. ASSUME NEW r \in Runs
      PROVE  turn[r].round \in 0..scene.rounds /\ turn[r].used \in 0..scene.calls /\ seq[r] \in Nat
  <2>1. turn[r] \in Turns /\ Bounded(turn[r], at[r]) /\ InOrder(emitting[r], seq[r])
    BY <1>1 DEF RunInv, RunOK, EventsInv
  <2>2. turn[r].round \in Nat /\ turn[r].used \in Nat /\ turn[r].round <= scene.rounds /\ turn[r].used <= scene.calls
    BY <2>1 DEF Turns, Bounded
  <2>. QED
    BY <1>1, <2>1, <2>2, SceneParts DEF InOrder
<1>7. \A r \in Runs : \A event \in stored[r] : event.seq \in 1..seq[r]
  <2>. SUFFICES ASSUME NEW r \in Runs, NEW event \in stored[r]
                PROVE  event.seq \in 1..seq[r]
    OBVIOUS
  <2>1. Numbers(stored[r]) \subseteq 1..seq[r]
    BY <1>1 DEF EventsInv, Accounted
  <2>. QED
    BY <2>1 DEF Numbers
<1>8. TypeOK
  BY <1>2, <1>3, <1>4, <1>5, <1>6, <1>7 DEF TypeOK
<1>9. NoGap
  <2>1. stream.seen \in Seq(Nat)
    BY <1>2 DEF StreamSet
  <2>2. DOMAIN stream.seen = 1..Len(stream.seen)
    BY <2>1, LenProperties
  <2>. QED
    BY <1>2, <2>2 DEF NoGap, Seen, ToSet
<1>. QED
  BY <1>8, <1>9 DEF ChatOK

\* A row that says how a run ended is not written again.
LEMMA OutcomeStays ==
  ASSUME IInv, [Next]_vars, NEW r \in Runs, row[r] \in Final, r \notin early
  PROVE  row'[r] = row[r]
<1>1. RunOK(r) /\ row = [s \in Runs |-> row[s]] /\ at[r] \in {"none", "over"} /\ row[r] # "running" /\ at[r] # "none"
  BY DEF IInv, RunInv, RunTypes, RunOK, Final
<1>2. ASSUME NEW s \in Runs, Send(s) \/ Finish(s)
      PROVE  row'[r] = row[r]
  <2>1. at[s] # "over" /\ (row' = [row EXCEPT ![s] = "running"] \/ row' = [row EXCEPT ![s] = turn[s].status] \/ row' = row)
    BY <1>2 DEF Send, Finish
  <2>2. s # r
    BY <1>1, <2>1
  <2>. QED
    BY <1>1, <2>1, <2>2
<1>3. ASSUME NEW s \in Runs, Cancel(s)
      PROVE  row'[r] = row[r]
  <2>1. row' = [row EXCEPT ![s] = IF @ = "running" THEN "cancelled" ELSE @] \/ row' = row
    BY <1>3 DEF Cancel
  <2>. QED
    BY <1>1, <2>1
<1>4. CASE Restart
  BY <1>1, <1>4 DEF Restart, Reconciled
<1>5. ASSUME NEW s \in Runs, Delta(s) \/ TaskCancelled(s) \/ Connect(s)
      PROVE  row'[r] = row[r]
  BY <1>5 DEF Delta, TaskCancelled, Connect, table
<1>6. CASE OtherEvent \/ Streams \/ UNCHANGED vars
  BY <1>6 DEF OtherEvent, Streams, Replay, Rows, Replayed, Follow, Hears, TailRead, table, vars
<1>7. ASSUME NEW s \in Runs, Works(s), ~Finish(s)
      PROVE  row'[r] = row[r]
  <2>1. row' = row
    BY <1>7 DEF Works, Question, Register, Begin, Answers, Asks, ProviderFails, CallTool, ToolDone, EndRound, Say, SayFails, Said,
                StoreEvent, PublishEvent, table
  <2>. QED
    BY <2>1
<1>. QED
  BY <1>2, <1>3, <1>4, <1>5, <1>6, <1>7 DEF Next

\* A browser that comes late, loses its connection or comes back is given every event once and in order
\* (`_run_stream`), and what a run spends stays within its bounds (`_loop`): for every number of runs, events,
\* streams and restarts.
THEOREM StreamHasNoGap == Spec => []ChatOK
<1>. QED
  BY AlwaysInv, InvIsOK, PTL

\* What the provider is sent is a conversation it accepts, as long as no run was stopped inside a round, no write
\* failed and no two runs overlapped (`_history`, `_loop`).
THEOREM ProviderAccepts == Spec => []UndisturbedAccepted
<1>1. IInv => UndisturbedAccepted
  BY DEF IInv, TalkInv, TalkOK, UndisturbedAccepted, HistoryAccepted
<1>. QED
  BY <1>1, AlwaysInv, PTL

\* A run that ended stays as it ended, whatever is cancelled or restarted after it (`cancel`, `_background`,
\* `reconcile_running`).
THEOREM OutcomeIsKept == Spec => OutcomeKept
<1>1. IInv /\ [Next]_vars => [\A r \in Runs : row[r] \in Final /\ r \notin early => row'[r] = row[r]]_vars
  BY OutcomeStays
<1>. QED
  BY <1>1, AlwaysInv, PTL DEF Spec, OutcomeKept
=============================================================================
