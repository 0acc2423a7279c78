------------------------------- MODULE ChatRun -------------------------------
(* One conversation of the chat (chat/runner.py, db/repos/chat.py): its runs,    *)
(* what they store of the transcript, and the events a browser is streamed       *)
(* (api/chat.py, infra/sse.py). Tools run through the API providers' loop; the    *)
(* texts, and the loop that runs inside Claude Code, are left out.               *)
(* A step is what a task does between two waits. Boot closes what a restart cut  *)
(* before anybody is served, so a crash and the boot after it are one step.      *)
EXTENDS Naturals, Sequences, SequencesExt, FiniteSets

CONSTANTS MaxRuns,       \* questions asked
          MaxAsked,      \* tools a model asks for in one turn
          HistorySize,   \* messages the token budget keeps
          QueueSize,     \* events a slow stream may fall behind by
          Scenes         \* what one answer may spend (the settings), and how much of everything happens:
                         \* `troubles` are cancels, restarts, failures and other events on the bus, together

ASSUME ChatAssumption ==
  /\ {MaxRuns, MaxAsked, HistorySize, QueueSize} \subseteq Nat \ {0}
  /\ Scenes \subseteq [calls : Nat \ {0}, rounds : Nat \ {0}, runs : Nat, streams : Nat, deltas : Nat, troubles : Nat,
                      overlap : BOOLEAN]

Runs == 1..MaxRuns
Final == {"ok", "failed", "cancelled", "interrupted"}
LastEvents == {"completed", "error", "cancelled"}   \* the events a stream ends on

\* A message: who it is from, the calls it asks for, the results it carries.
Message(role, calls, results) == [role |-> role, calls |-> calls, results |-> results]

VARIABLES
  row,        \* the runs' rows
  messages,   \* the transcript as stored
  stored,     \* the events table: the events of each run that are stored
  running,    \* the runs this process knows it runs
  cancel,     \* the runs that were asked to stop
  at, turn,   \* where each run is, and what it has done
  emitting,   \* a run's events on their way to the table and the bus
  seq,        \* a run's events so far
  stream,     \* the browser's stream
  early, disturbed, unsaved,   \* history: see the properties
  scene, troubles, faults, deltas, streams

spent == <<scene, troubles, faults, deltas, streams>>
table == <<row, messages, stored>>
run == <<running, cancel, at, turn, emitting, seq>>
history == <<early, disturbed, unsaved>>
vars == <<table, run, stream, history, spent>>

\* What a run holds: its history for the provider, the round and the calls so far, and the calls of this
\* round with the results they have; how it ends.
NewTurn == [history |-> <<>>, round |-> 0, used |-> 0, calls |-> 0, results |-> 0, status |-> "ok"]
NoStream == [at |-> "closed", run |-> 1, highest |-> 0, todo |-> {}, queue |-> <<>>, seen |-> <<>>, lost |-> FALSE]

Init ==
  /\ row = [r \in Runs |-> "none"] /\ messages = <<>> /\ stored = [r \in Runs |-> {}]
  /\ running = {} /\ cancel = {} /\ at = [r \in Runs |-> "none"] /\ turn = [r \in Runs |-> NewTurn]
  /\ emitting = [r \in Runs |-> <<>>] /\ seq = [r \in Runs |-> 0]
  /\ stream = NoStream
  /\ early = {} /\ disturbed = FALSE /\ unsaved = [r \in Runs |-> {}]
  /\ scene \in Scenes /\ troubles = 0 /\ faults = 0 /\ deltas = 0 /\ streams = 0

Trouble == troubles < scene.troubles /\ troubles' = troubles + 1 /\ UNCHANGED <<scene, deltas, streams>>
Fault == Trouble /\ faults' = faults + 1
Quiet == UNCHANGED spent
Goes(r, to) == at' = [at EXCEPT ![r] = to]

----------------------------------------------------------------------------
(* Asking and stopping. *)

Alive == {r \in Runs : at[r] \notin {"none", "over"}}

\* The run's row, then the question; a question that is not stored leaves the row. Nobody checks that
\* the conversation has no other run.
Send(r) ==
  /\ at[r] = "none" /\ r <= scene.runs /\ \A s \in 1..(r - 1) : at[s] # "none"
  /\ row' = [row EXCEPT ![r] = "running"] /\ Goes(r, "opened")
  /\ scene.overlap \/ Alive = {}
  /\ disturbed' = (disturbed \/ Alive # {})
  /\ Quiet /\ UNCHANGED <<messages, stored, running, cancel, turn, emitting, seq, stream, early, unsaved>>

Question(r) ==
  /\ at[r] = "opened"
  /\ \/ messages' = Append(messages, Message("user", 0, 0)) /\ Goes(r, "asked") /\ Quiet
     \/ Fault /\ UNCHANGED messages /\ Goes(r, "over")
  /\ UNCHANGED <<row, stored, running, cancel, turn, emitting, seq, stream, history>>

\* From here on a cancel finds the run.
Register(r) ==
  /\ at[r] = "asked" /\ running' = running \cup {r} /\ Goes(r, "ready")
  /\ Quiet /\ UNCHANGED <<table, cancel, turn, emitting, seq, stream, history>>

\* Mutant: what is not running here is closed, whatever its row says.
CancelCloses(r) ==
  /\ row[r] # "none" /\ Trouble /\ UNCHANGED faults
  /\ IF r \in running
     THEN cancel' = cancel \cup {r} /\ UNCHANGED <<row, early>>
     ELSE /\ row' = [row EXCEPT ![r] = "cancelled"] /\ UNCHANGED cancel
          /\ early' = IF at[r] = "over" THEN early ELSE early \cup {r}
  /\ UNCHANGED <<messages, stored, running, at, turn, emitting, seq, stream, disturbed, unsaved>>

\* A run in this process is asked to stop; one that is only in the table is closed there.
Cancel(r) ==
  /\ row[r] # "none" /\ Trouble /\ UNCHANGED faults
  /\ IF r \in running
     THEN cancel' = cancel \cup {r} /\ UNCHANGED <<row, early>>
     ELSE /\ row' = [row EXCEPT ![r] = IF @ = "running" THEN "cancelled" ELSE @] /\ UNCHANGED cancel
          /\ early' = IF at[r] = "over" THEN early ELSE early \cup {r}
  /\ UNCHANGED <<messages, stored, running, at, turn, emitting, seq, stream, disturbed, unsaved>>

----------------------------------------------------------------------------
(* The events: each is stored and then published, in the order of their numbers. *)

Emit(r, kind) ==
  /\ seq' = [seq EXCEPT ![r] = @ + 1]
  /\ emitting' = [emitting EXCEPT ![r] = Append(@, [seq |-> seq[r] + 1, kind |-> kind, stored |-> FALSE])]

Emitted(r) == emitting[r] = <<>>
NoEmit == UNCHANGED <<emitting, seq>>

\* An event that cannot be stored is published all the same.
StoreEvent(r) == \E i \in DOMAIN emitting[r] :
  /\ ~emitting[r][i].stored /\ \A j \in 1..(i - 1) : emitting[r][j].stored
  /\ emitting' = [emitting EXCEPT ![r][i].stored = TRUE]
  /\ \/ stored' = [stored EXCEPT ![r] = @ \cup {[seq |-> emitting[r][i].seq, kind |-> emitting[r][i].kind]}]
        /\ Quiet /\ UNCHANGED unsaved
     \/ Fault /\ unsaved' = [unsaved EXCEPT ![r] = @ \cup {emitting[r][i].seq}] /\ UNCHANGED stored
  /\ UNCHANGED <<row, messages, running, cancel, at, turn, seq, stream, early, disturbed>>

\* Mutant: subscribed after what the table holds was read.
SubscribedLate == stream.at \in {"replay", "following", "tail"}

\* A full queue loses its oldest event.
Subscribed == stream.at # "closed"
Published(event) ==
  LET lost == Len(stream.queue) = QueueSize
  IN  [stream EXCEPT !.queue = Append(IF lost THEN Tail(@) ELSE @, event),
                     !.lost = @ \/ (lost /\ Head(stream.queue).run = stream.run)]

Publish(r) ==
  /\ ~Emitted(r) /\ Head(emitting[r]).stored
  /\ emitting' = [emitting EXCEPT ![r] = Tail(@)]
  /\ stream' = IF Subscribed THEN Published([run |-> r, seq |-> Head(emitting[r]).seq, kind |-> Head(emitting[r]).kind])
               ELSE stream

PublishEvent(r) ==
  /\ at[r] # "ending" /\ Publish(r) /\ Quiet /\ UNCHANGED <<table, running, cancel, at, turn, seq, history>>

\* The bus carries everything else too, the machine's status twice a second.
OtherEvent ==
  /\ Subscribed /\ Trouble /\ UNCHANGED faults
  /\ stream' = Published([run |-> 0, seq |-> 0, kind |-> "status"])
  /\ UNCHANGED <<table, run, history>>

----------------------------------------------------------------------------
(* The loop. *)

\* Mutant: the newest messages that fit, whatever they start with.
KeptWhole(all) == SubSeq(all, IF Len(all) > HistorySize THEN Len(all) - HistorySize + 1 ELSE 1, Len(all))

\* The newest messages that fit, never starting with results whose calls were dropped.
Kept(all) ==
  LET fit == SubSeq(all, IF Len(all) > HistorySize THEN Len(all) - HistorySize + 1 ELSE 1, Len(all))
      starts == {i \in DOMAIN fit : fit[i].role # "tool"}
  IN  IF starts = {} THEN <<>> ELSE SubSeq(fit, CHOOSE i \in starts : \A j \in starts : i <= j, Len(fit))

Begin(r) ==
  /\ at[r] = "ready" /\ turn' = [turn EXCEPT ![r].history = Kept(messages)] /\ Goes(r, "turn")
  /\ Quiet /\ UNCHANGED <<table, running, cancel, emitting, seq, stream, history>>

Delta(r) ==
  /\ at[r] \in {"turn", "final"} /\ deltas < scene.deltas /\ deltas' = deltas + 1 /\ Emit(r, "delta")
  /\ UNCHANGED <<table, running, cancel, at, turn, stream, history, scene, troubles, faults, streams>>

\* What ends a run early: it is closed with one last event.
Ends(r, status, kind) ==
  /\ turn' = [turn EXCEPT ![r].status = status] /\ Emit(r, kind) /\ Goes(r, "ending")

\* The turn is over when its events are out. An asked-to-stop run gets no more than text.
ProviderFails(r) ==
  /\ at[r] \in {"turn", "final"} /\ Emitted(r) /\ Fault /\ Ends(r, "failed", "error")
  /\ UNCHANGED <<table, running, cancel, stream, history>>

Answers(r) ==
  /\ at[r] \in {"turn", "final"} /\ Emitted(r) /\ Goes(r, "say")
  /\ Quiet /\ UNCHANGED <<table, running, cancel, turn, emitting, seq, stream, history>>

\* No more calls than are left; with none left the round is not written down.
Round(r, asked) ==
  LET some == Message("assistant", IF asked <= scene.calls - turn[r].used THEN asked ELSE scene.calls - turn[r].used, 0)
  IN  IF some.calls = 0 THEN Goes(r, "final") /\ UNCHANGED <<messages, turn>>
      ELSE /\ messages' = Append(messages, some) /\ Goes(r, "calls")
           /\ turn' = [turn EXCEPT ![r].calls = some.calls, ![r].results = 0, ![r].history = Append(@, some)]

Asks(r) ==
  /\ at[r] = "turn" /\ Emitted(r) /\ r \notin cancel
  /\ \/ \E asked \in 1..MaxAsked : Round(r, asked) /\ Quiet /\ NoEmit
     \/ Fault /\ Ends(r, "failed", "error") /\ UNCHANGED messages
  /\ UNCHANGED <<row, stored, running, cancel, stream, history>>

\* One call after the other, unless the run is asked to stop in between.
CallTool(r) ==
  /\ at[r] = "calls" /\ Emitted(r) /\ r \notin cancel /\ turn[r].results < turn[r].calls
  /\ Emit(r, "tool_call") /\ Goes(r, "tool")
  /\ Quiet /\ UNCHANGED <<table, running, cancel, turn, stream, history>>

ToolDone(r) ==
  /\ at[r] = "tool" /\ Emitted(r) /\ Emit(r, "tool_result") /\ Goes(r, "calls")
  /\ turn' = [turn EXCEPT ![r].results = @ + 1, ![r].used = @ + 1]
  /\ Quiet /\ UNCHANGED <<table, running, cancel, stream, history>>

\* The round's results are stored, however many there are; then the next turn, or the last one.
EndRound(r) ==
  /\ at[r] = "calls" /\ Emitted(r) /\ (r \in cancel \/ turn[r].results = turn[r].calls)
  /\ disturbed' = (disturbed \/ turn[r].results < turn[r].calls)
  /\ LET results == Message("tool", 0, turn[r].results)
         more == turn[r].used < scene.calls /\ turn[r].round + 1 < scene.rounds
     IN  \/ /\ messages' = Append(messages, results) /\ Goes(r, IF more THEN "turn" ELSE "final") /\ NoEmit
            /\ turn' = [turn EXCEPT ![r].history = Append(@, results), ![r].round = @ + 1] /\ Quiet
         \/ Fault /\ Ends(r, "failed", "error") /\ UNCHANGED messages
  /\ UNCHANGED <<row, stored, running, cancel, stream, early, unsaved>>

\* The answer, if there is any text.
Say(r) ==
  /\ at[r] = "say" /\ Quiet
  /\ \/ messages' = Append(messages, Message("assistant", 0, 0)) /\ Emit(r, "message")
     \/ UNCHANGED messages /\ NoEmit
  /\ Goes(r, "said")
  /\ UNCHANGED <<row, stored, running, cancel, turn, stream, history>>

SayFails(r) ==
  /\ at[r] = "say" /\ Fault /\ Ends(r, "failed", "error") /\ UNCHANGED <<table, running, cancel, stream, history>>

Said(r) ==
  /\ at[r] = "said" /\ Emitted(r)
  /\ IF r \in cancel THEN Ends(r, "cancelled", "cancelled") ELSE Ends(r, "ok", "completed")
  /\ Quiet /\ UNCHANGED <<table, running, cancel, stream, history>>

\* The process stops: once no request is left the task is cancelled wherever it waits, in an event too. The
\* statements it has sent are carried out, and what they store is not published.
Sent(r) == {[seq |-> event.seq, kind |-> event.kind] : event \in {one \in ToSet(emitting[r]) : ~one.stored}}
TaskCancelled(r) ==
  /\ at[r] \in {"turn", "final", "calls", "tool", "say", "said"} /\ stream.at = "closed" /\ Trouble /\ UNCHANGED faults
  /\ turn' = [turn EXCEPT ![r].status = "cancelled"] /\ Goes(r, "ending")
  /\ stored' = [stored EXCEPT ![r] = @ \cup Sent(r)] /\ seq' = [seq EXCEPT ![r] = @ + 1]
  /\ emitting' = [emitting EXCEPT ![r] = <<[seq |-> seq[r] + 1, kind |-> "cancelled", stored |-> FALSE]>>]
  /\ disturbed' = (disturbed \/ at[r] \in {"calls", "tool"})
  /\ UNCHANGED <<row, messages, running, cancel, stream, early, unsaved>>

\* The last event is published, the run let go of and its row written, all in one go; a write that fails
\* leaves the row.
Finish(r) ==
  /\ at[r] = "ending" /\ Publish(r) /\ running' = running \ {r} /\ Goes(r, "over")
  /\ \/ row' = [row EXCEPT ![r] = turn[r].status] /\ Quiet
     \/ Fault /\ UNCHANGED row
  /\ UNCHANGED <<messages, stored, cancel, turn, seq, history>>

\* Mutant: boot leaves the rows as they are.
Reopened == row

Reconciled == [r \in Runs |-> IF row[r] = "running" THEN "interrupted" ELSE row[r]]

Restart ==
  /\ Trouble /\ UNCHANGED faults
  /\ row' = Reconciled
  /\ running' = {} /\ cancel' = {} /\ at' = [r \in Runs |-> IF at[r] = "none" THEN "none" ELSE "over"]
  /\ emitting' = [r \in Runs |-> <<>>] /\ stream' = [stream EXCEPT !.at = "closed", !.todo = {}, !.queue = <<>>]
  /\ disturbed' = (disturbed \/ \E r \in Runs : at[r] \in {"calls", "tool"})
  /\ unsaved' = [r \in Runs |-> unsaved[r] \cup {emitting[r][i].seq : i \in {j \in DOMAIN emitting[r] : ~emitting[r][j].stored}}]
  /\ UNCHANGED <<messages, stored, turn, seq, early>>

----------------------------------------------------------------------------
(* The stream: what is stored, then what is published. *)

After(r, n) == {event \in stored[r] : event.seq > n}
Deliver(event) == [stream EXCEPT !.seen = Append(@, event.seq), !.highest = event.seq]

\* Opened, or opened again where it stopped: subscribed, then what the table holds is read.
Connect(r) ==
  /\ stream.at = "closed" /\ streams < scene.streams /\ streams' = streams + 1 /\ row[r] # "none"
  /\ stream' = IF r = stream.run THEN [stream EXCEPT !.at = "subscribed"]
               ELSE [NoStream EXCEPT !.at = "subscribed", !.run = r]
  /\ UNCHANGED <<table, run, history, scene, troubles, faults, deltas>>

Replay ==
  /\ stream.at = "subscribed"
  /\ stream' = [stream EXCEPT !.at = "read", !.todo = After(stream.run, stream.highest)]
  /\ Quiet /\ UNCHANGED <<table, run, history>>

\* The driver's answers are handed out in the order of its statements, so whoever stored the events that
\* were read has gone on by then: they are published.
Rows ==
  /\ stream.at = "read" /\ {event.seq : event \in ToSet(emitting[stream.run])} \cap {event.seq : event \in stream.todo} = {}
  /\ stream' = [stream EXCEPT !.at = "replay"] /\ Quiet /\ UNCHANGED <<table, run, history>>

\* The rows come in the order of their numbers.
Replayed ==
  /\ stream.at \in {"replay", "tail"}
  /\ \E event \in stream.todo : /\ \A other \in stream.todo : event.seq <= other.seq
                                /\ stream' = [Deliver(event) EXCEPT !.todo = @ \ {event}]
  /\ Quiet /\ UNCHANGED <<table, run, history>>

\* Mutant: after the replay the bus is followed, whether or not the run still runs.
AlwaysFollow ==
  /\ stream.at = "replay" /\ stream.todo = {} /\ stream' = [stream EXCEPT !.at = "following"]
  /\ Quiet /\ UNCHANGED <<table, run, history>>

\* A run that ended meanwhile has its last event in the table.
Follow ==
  /\ stream.at = "replay" /\ stream.todo = {}
  /\ stream' = IF stream.run \in running THEN [stream EXCEPT !.at = "following"]
               ELSE [stream EXCEPT !.at = "tail", !.todo = After(stream.run, stream.highest)]
  /\ Quiet /\ UNCHANGED <<table, run, history>>

Closed(s) == [s EXCEPT !.at = "closed", !.todo = {}, !.queue = <<>>]

Hears ==
  /\ stream.at = "following" /\ stream.queue # <<>>
  /\ LET event == Head(stream.queue)
         rest == [stream EXCEPT !.queue = Tail(@)]
         heard == [Deliver(event) EXCEPT !.queue = rest.queue]
     IN  stream' = IF event.run # stream.run \/ event.seq <= stream.highest THEN rest
                   ELSE IF event.kind \in LastEvents THEN Closed(heard) ELSE heard
  /\ Quiet /\ UNCHANGED <<table, run, history>>

TailRead ==
  /\ stream.at = "tail" /\ stream.todo = {} /\ stream' = Closed(stream)
  /\ Quiet /\ UNCHANGED <<table, run, history>>

----------------------------------------------------------------------------

Works(r) == \/ Question(r) \/ Register(r) \/ Begin(r) \/ Answers(r) \/ Asks(r) \/ ProviderFails(r)
            \/ CallTool(r) \/ ToolDone(r) \/ EndRound(r) \/ Say(r) \/ SayFails(r) \/ Said(r) \/ Finish(r)
            \/ StoreEvent(r) \/ PublishEvent(r)
Streams == Replay \/ Rows \/ Replayed \/ Follow \/ Hears \/ TailRead

Next == \/ \E r \in Runs : Send(r) \/ Cancel(r) \/ Delta(r) \/ TaskCancelled(r) \/ Works(r) \/ Connect(r)
        \/ OtherEvent \/ Restart \/ Streams

\* Providers and tools have their time limits and the browser reads its stream.
Spec == Init /\ [][Next]_vars /\ (\A r \in Runs : WF_vars(Works(r))) /\ WF_vars(Streams)

----------------------------------------------------------------------------

TypeOK ==
  /\ row \in [Runs -> Final \cup {"none", "running"}]
  /\ \A i \in DOMAIN messages : messages[i] \in [role : {"user", "assistant", "tool"}, calls : 0..MaxAsked, results : 0..MaxAsked]
  /\ running \subseteq Alive /\ cancel \subseteq Runs
  /\ \A r \in Runs : turn[r].round \in 0..scene.rounds /\ turn[r].used \in 0..scene.calls /\ seq[r] \in Nat
  /\ \A r \in Runs : \A event \in stored[r] : event.seq \in 1..seq[r]
  /\ stream.highest \in 0..seq[stream.run] /\ Len(stream.queue) <= QueueSize

\* A browser that comes late, loses its connection or comes back is given every event once and in order,
\* though events are stored and published while it reads (`_run_stream`): what it missed could not be
\* stored, or was pushed out of a full queue.
NoGap ==
  /\ \A i, j \in DOMAIN stream.seen : i < j => stream.seen[i] < stream.seen[j]
  /\ ~stream.lost => \A n \in 1..stream.highest : n \in ToSet(stream.seen) \cup unsaved[stream.run]

\* Runs, messages and streams are of their types, and a stream has no gap.
ChatOK == TypeOK /\ NoGap

\* A run that ended stays as it ended: a cancel after the fact, a restart or a second one changes nothing
\* (`cancel`, `_background`, `reconcile_running`), unless it was cancelled before it was registered.
OutcomeKept == [][\A r \in Runs : row[r] \in Final /\ r \notin early => row'[r] = row[r]]_vars

\* A stream never waits for a run that is over (`_run_stream`), and a row does not say `running` for
\* ever, unless it could not be written.
AllEnds ==
  /\ (stream.at # "closed") ~> (stream.at = "closed" \/ stream.lost)
  /\ \A r \in Runs : (row[r] = "running") ~> (row[r] # "running" \/ faults > 0)

\* What the provider is sent is a conversation it accepts: every round of calls is followed at once by
\* a result for each, and no result comes without its calls (`_history`, `_loop`).
Acceptable(sent) == \A i \in DOMAIN sent :
  /\ sent[i].calls > 0 => i < Len(sent) /\ sent[i + 1].role = "tool" /\ sent[i + 1].results = sent[i].calls
  /\ sent[i].role = "tool" => i > 1 /\ sent[i].results > 0 /\ sent[i - 1].calls = sent[i].results

\* Every later turn of a conversation is one the provider accepts.
HistoryAccepted == \A r \in Runs : at[r] \in {"turn", "final"} => Acceptable(turn[r].history)

\* The same, as long as no run was stopped inside a round, no write failed and no two runs overlapped.
UndisturbedAccepted == disturbed \/ faults > 0 \/ HistoryAccepted
=============================================================================
