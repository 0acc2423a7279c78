----------------------------- MODULE DeviceLink -----------------------------
(* The client's one socket (device/client.py): its supervisor, the requests that *)
(* wait for an answer by `rid`, the status the machine reports, and the flush    *)
(* and the mode switch that go by it. It runs under the connection that builds   *)
(* and stops the clients (Connection). The machine's side is as the fake shows it. *)
EXTENDS Connection

CONSTANTS MaxCalls,     \* calls of a client's methods
          MaxDrops,     \* sockets lost, and attempts refused
          MaxTouches,   \* at the machine: its mode switched, a shot started
          MaxFrames     \* reports under way at once; a later one says the same

ASSUME LinkAssumption == MaxCalls \in Nat /\ MaxDrops \in Nat /\ MaxTouches \in Nat /\ MaxFrames \in Nat \ {0}

Calls == 1..MaxCalls
Modes == {"brew", "standby"}
Reads == {"load"}          \* all that the machine answers
Writes == Modes \cup {"flush"}
Processes == 0..(MaxTouches + MaxCalls)   \* shots and flushes, numbered; 0 is none

\* Nothing is known of a machine that has not reported.
NotReported == MaxTouches + MaxCalls + 1
Unreported == [mode |-> "unknown", process |-> NotReported]

VARIABLES
  scene,      \* "settings": Connection by itself; "calls": its clients at work, beside one change
  link,       \* the client that runs, where its supervisor is, and the number of its socket
  out, in,    \* frames on their way to the machine, and from it
  machine,    \* its mode and process
  reported,   \* what it last reported on this socket
  shown,      \* last_status of each client
  call,       \* the calls
  count       \* drops, touches and processes so far

wire == <<link, out, in>>
box == <<machine, reported>>
linkVars == <<wire, box, shown, call, count>>
allVars == <<vars, scene, linkVars>>

\* The settings under which the calls are made.
AtWork == CHOOSE c \in Configs : c.host # NoHost

NoCall == [at |-> "new", of |-> None, kind |-> "load", conn |-> 0]
Idle == [of |-> None, at |-> "stopped", conn |-> 0]
Fresh(e) == IF e = None THEN Idle ELSE [of |-> e, at |-> "connecting", conn |-> 0]

LinkInit ==
  /\ Init /\ scene \in (IF settings = AtWork THEN {"settings", "calls"} ELSE {"settings"})
  /\ link = (IF scene = "calls" THEN Fresh(client) ELSE Idle) /\ out = <<>> /\ in = <<>>
  /\ machine \in [mode : {"brew"}, process : {0}] /\ reported = Unreported
  /\ shown = [e \in Engines |-> Unreported] /\ call = [c \in Calls |-> NoCall]
  /\ count = [drops |-> 0, touches |-> 0, processes |-> 0]

----------------------------------------------------------------------------
(* The supervisor. *)

\* Whoever waits for an answer is told that none will come.
FailPending == [c \in Calls |-> IF call[c].at = "waiting" THEN [call[c] EXCEPT !.at = "failed"] ELSE call[c]]

To(at) == link' = [link EXCEPT !.at = at]

\* The socket is up, and the machine sends its state at once.
Dial ==
  /\ link.at = "connecting"
  /\ link' = [link EXCEPT !.at = "up", !.conn = @ + 1]
  /\ in' = <<[kind |-> "mode", value |-> machine.mode]>> /\ out' = <<>>
  /\ reported' = [Unreported EXCEPT !.mode = machine.mode]
  /\ UNCHANGED <<machine, shown, call, count>>

Dropped == count.drops < MaxDrops /\ count' = [count EXCEPT !.drops = @ + 1]

Refuse == link.at = "connecting" /\ Dropped /\ To("backoff") /\ UNCHANGED <<out, in, box, shown, call>>

\* The socket is lost; what was on its way may arrive yet, or not.
Drop ==
  /\ link.at = "up" /\ Dropped /\ To("broken")
  /\ out' \in {out, <<>>} /\ in' \in {in, <<>>}
  /\ UNCHANGED <<box, shown, call>>

\* The reader comes to the end of what arrived.
Notice == link.at = "broken" /\ in = <<>> /\ To("closing") /\ UNCHANGED <<out, in, box, shown, call, count>>

Closed ==
  /\ link.at = "closing" /\ To("backoff") /\ call' = FailPending
  /\ UNCHANGED <<out, in, box, shown, count>>

Again == link.at = "backoff" /\ To("connecting") /\ UNCHANGED <<out, in, box, shown, call, count>>

\* `stop` cancels the supervisor wherever it is. Cut in the middle of closing, it tells nobody; `stop` closes again.
Stopping ==
  /\ \E r \in Requests : Holds(r, "stop client") /\ link.of # None /\ link.of = request[r].wish.client
  /\ link.at \notin {"stopping", "cut short", "stopped"} /\ To(IF link.at = "closing" THEN "cut short" ELSE "stopping")
  /\ UNCHANGED <<out, in, box, shown, call, count>>

EndStop ==
  /\ link.at \in {"stopping", "cut short"} /\ To("stopped") /\ out' \in {out, <<>>} /\ in' = <<>>
  /\ UNCHANGED <<box, shown, count>>

\* Mutant: `stop` leaves it to the supervisor to tell those who wait.
StoppedSilently == EndStop /\ call' = IF link.at = "cut short" THEN call ELSE FailPending

Stopped == EndStop /\ call' = FailPending

Supervise == Dial \/ Notice \/ Closed \/ Again \/ Stopping \/ Stopped

----------------------------------------------------------------------------
(* The machine. It reports what changed, if its socket stands. *)

Says(frames) == in' = IF link.at = "up" THEN in \o frames ELSE in
NewProcess == count.processes + 1

Handle ==
  /\ out # <<>> /\ out' = Tail(out)
  /\ LET frame == Head(out)
     IN  /\ machine' = CASE frame.kind \in Modes -> [mode |-> frame.kind, process |-> 0]
                         [] frame.kind = "flush" /\ machine.process = 0 -> [machine EXCEPT !.process = NewProcess]
                         [] OTHER -> machine
         /\ count' = IF machine'.process > machine.process THEN [count EXCEPT !.processes = @ + 1] ELSE count
         /\ Says(IF frame.kind \in Modes THEN <<>> ELSE <<[kind |-> "answer", value |-> frame.of]>>)
  /\ UNCHANGED <<link, reported, shown, call>>

\* The state frame on a change of mode, or the next telemetry.
Report ==
  /\ link.at = "up" /\ Len(in) < MaxFrames
  /\ \E what \in {"mode", "process"} :
       /\ reported[what] # machine[what] /\ reported' = [reported EXCEPT ![what] = machine[what]]
       /\ in' = Append(in, [kind |-> what, value |-> machine[what]])
  /\ UNCHANGED <<link, out, machine, shown, call, count>>

Touched == count.touches < MaxTouches
SwitchMode ==
  /\ Touched /\ count' = [count EXCEPT !.touches = @ + 1]
  /\ \E mode \in Modes \ {machine.mode} : machine' = [mode |-> mode, process |-> 0]
  /\ UNCHANGED <<wire, reported, shown, call>>
StartShot ==
  /\ Touched /\ machine.mode = "brew" /\ machine.process = 0
  /\ machine' = [machine EXCEPT !.process = NewProcess]
  /\ count' = [count EXCEPT !.touches = @ + 1, !.processes = @ + 1]
  /\ UNCHANGED <<wire, reported, shown, call>>
ProcessEnds ==
  /\ machine.process # 0 /\ machine' = [machine EXCEPT !.process = 0]
  /\ UNCHANGED <<wire, reported, shown, call, count>>

----------------------------------------------------------------------------
(* What arrives. *)

ReadFrame ==
  /\ in # <<>> /\ link.at \in {"up", "broken"} /\ in' = Tail(in)
  /\ LET frame == Head(in)
     IN  /\ shown' = IF frame.kind \in {"mode", "process"} THEN [shown EXCEPT ![link.of][frame.kind] = frame.value] ELSE shown
         /\ call' = [c \in Calls |->
                       IF call[c].at = "waiting" /\ frame.kind = "answer" /\ frame.value = c
                       THEN [call[c] EXCEPT !.at = "answered"] ELSE call[c]]
  /\ UNCHANGED <<link, out, box, count>>

----------------------------------------------------------------------------
(* Calls: a client is handed out, and may be stopped while it is used. *)

\* One frame goes, if there is a socket. A socket that is lost and not noticed yet refuses it or swallows it.
Send(c, it) ==
  LET waits == [it EXCEPT !.at = IF it.kind \in Modes THEN "watching" ELSE "waiting", !.conn = link.conn]
      gone == [it EXCEPT !.at = "unavailable"]
      frame == [kind |-> it.kind, of |-> c, saw |-> shown[it.of].process]
  IN  IF link.of # it.of \/ link.at \notin {"up", "broken"} THEN call' = [call EXCEPT ![c] = gone] /\ UNCHANGED out
      ELSE IF link.at = "broken" THEN call' \in {[call EXCEPT ![c] = gone], [call EXCEPT ![c] = waits]} /\ UNCHANGED out
      ELSE call' = [call EXCEPT ![c] = waits] /\ out' = Append(out, frame)

CallsOnly == UNCHANGED <<link, in, box, shown, count>>

\* A write goes to the gate first. A mode the machine is in already is not sent.
Call(c) ==
  /\ call[c].at = "new" /\ \A earlier \in 1..(c - 1) : call[earlier].at # "new"
  /\ client # None
  /\ \E kind \in Reads \cup Writes :
       LET it == [NoCall EXCEPT !.of = client, !.kind = kind]
       IN  IF kind \in Reads THEN Send(c, it)
           ELSE /\ UNCHANGED out
                /\ call' = [call EXCEPT ![c] = [it EXCEPT !.at = IF shown[client].mode = kind THEN "gate, then ok" ELSE "gate"]]
  /\ CallsOnly

\* Mutant: only the mode is looked at.
ReadyByMode(c) == shown[call[c].of].mode # "unknown"

\* Looked at after the gate, in the turn in which the frame goes.
Ready(c) ==
  LET status == shown[call[c].of]
  IN  status.process \in {0, NotReported} /\ IF call[c].kind = "flush" THEN status.mode = "brew" ELSE status.mode # "unknown"

Ends(c, how) == call' = [call EXCEPT ![c].at = how]

\* The Writes switch decides.
Gate(c) ==
  /\ call[c].at \in {"gate", "gate, then ok"}
  /\ \/ Ends(c, "refused") /\ UNCHANGED out
     \/ call[c].at = "gate, then ok" /\ Ends(c, "ok") /\ UNCHANGED out
     \/ call[c].at = "gate" /\ ~Ready(c) /\ Ends(c, "refused") /\ UNCHANGED out
     \/ call[c].at = "gate" /\ Ready(c) /\ Send(c, call[c])
  /\ CallsOnly

Return(c) ==
  /\ \/ call[c].at = "answered" /\ Ends(c, "ok")
     \/ call[c].at = "failed" /\ Ends(c, "unavailable")
     \/ call[c].at = "watching" /\ shown[call[c].of].mode = call[c].kind /\ Ends(c, "ok")
  /\ UNCHANGED out /\ CallsOnly

TimeOut(c) ==
  /\ call[c].at \in {"waiting", "answered", "failed", "watching"} /\ Ends(c, "timeout")
  /\ UNCHANGED out /\ CallsOnly

CallStep(c) == Gate(c) \/ Return(c) \/ TimeOut(c)

----------------------------------------------------------------------------
(* Both together. *)

Linked == Supervise \/ Refuse \/ Drop \/ Handle \/ Report \/ SwitchMode \/ StartShot \/ ProcessEnds \/ ReadFrame
          \/ \E c \in Calls : Call(c) \/ CallStep(c)

\* A client is built, or stopped: by a change once its `stop` is through, by a failed build or the shutdown at once.
Follows ==
  /\ scene = "calls" => faults' = faults
  /\ IF scene = "settings" \/ sockets' = sockets THEN UNCHANGED linkVars
     ELSE /\ UNCHANGED <<machine, count, shown>> /\ in' = <<>>
          /\ IF sockets' = {} THEN /\ (\E r \in Requests : Holds(r, "stop client")) => link.at = "stopped"
                                   /\ link' = Idle /\ call' = FailPending /\ UNCHANGED <<out, reported>>
             ELSE /\ link' = Fresh(builds') /\ out' = <<>> /\ reported' = Unreported /\ UNCHANGED call

\* The engine's loops, pulls and failures are left to the scene of settings; beside the calls the machine
\* is taken away, or the app shut down.
Away == [host |-> NoHost]
Asks == \E r \in Requests : IF scene = "settings" THEN Ask(r) ELSE r = 1 /\ (Stop(r) \/ AskChange(r, Away))
Serves == \E r \in Requests : Serve(r)
EngineSteps == scene = "settings" /\ \E e \in Engines : Connected(e) \/ Over(e) \/ \E l \in Loops : Turn(e, l) \/ TakeLock(e, l)

LinkedNext ==
  /\ UNCHANGED scene
  /\ \/ (Asks \/ Serves \/ EngineSteps) /\ Follows
     \/ scene = "calls" /\ Linked /\ UNCHANGED vars

\* As in Connection; the supervisor and the reader run when they can.
LinkedSpec ==
  /\ LinkInit /\ [][LinkedNext]_allVars
  /\ WF_vars(Serves)
  /\ \A l \in Loops : /\ WF_vars(scene = "settings" /\ \E e \in Engines : Turn(e, l))
                      /\ SF_vars(scene = "settings" /\ \E e \in Engines : TakeLock(e, l))
  /\ WF_link(Supervise) /\ WF_in(ReadFrame)

----------------------------------------------------------------------------

Places == {"connecting", "up", "broken", "closing", "backoff", "stopping", "cut short", "stopped"}
LinkTypeOK ==
  /\ scene \in {"settings", "calls"}
  /\ link.of \in Engines \cup {None} /\ link.at \in Places /\ link.conn \in 0..(MaxDrops + 1)
  /\ machine.mode \in Modes /\ machine.process \in Processes
  /\ \A e \in Engines : shown[e].mode \in Modes \cup {"unknown"} /\ shown[e].process \in Processes \cup {NotReported}
  /\ \A c \in Calls : call[c].of \in Engines \cup {None} /\ call[c].kind \in Reads \cup Writes

\* One client at a time has the socket, and it is the connection's, or the one that is being stopped or built.
OneLink ==
  scene = "calls" /\ link.of # None => link.of \in sockets

\* The connection and its link are of their types; the connection is whole or absent, and what the settings say.
LinkedOK == ConnectionOK /\ LinkTypeOK /\ OneLink

\* Nobody waits for an answer from a socket that is gone: a call is told when its socket closes, whatever
\* cuts the closing (`_close_socket`, `_fail_pending`, `stop`), and none starts to wait on a closed one.
NobodyWaitsInVain ==
  \A c \in Calls : call[c].at = "waiting" =>
    /\ link.of = call[c].of /\ link.conn = call[c].conn
    /\ link.at \in {"up", "broken", "closing", "stopping", "cut short"}

\* A mode switch never ends a shot or a flush that the machine had reported when the frame went, though the
\* gate is waited for, sockets come and go and reports are merged (`change_mode`, `merge_status`). One that
\* began later is the race nobody can exclude.
NoReportedShotCut ==
  [][machine.process # 0 /\ machine'.process = 0 /\ out # <<>> /\ out' = Tail(out)
       => Head(out).saw # machine.process]_allVars

\* The link comes up again whatever broke it, as long as the client is not stopped, and every pull is done.
LinkReturns == (link.of # None) ~> (link.at = "up" \/ link.of = None)
AllServed == PullsDone /\ LinkReturns
=============================================================================
