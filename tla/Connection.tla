----------------------------- MODULE Connection -----------------------------
(* DeviceConnection (device/connection.py): the client and the engine, rebuilt   *)
(* when the settings move, and the pulls asked of the engine meanwhile           *)
(* (api/sync.py, the pokes, the loops and `busy` of sync/engine.py).             *)
(* A request runs until it has to wait, so an action is what happens between     *)
(* two waits.                                                                    *)
EXTENDS Naturals, Sequences, FiniteSets

CONSTANTS MaxRequests,         \* HTTP requests, in the order they arrive
          Hosts, Timeouts,     \* values of the settings a connection is built from
          NoHost,              \* no machine is wanted: no host, or sync switched off
          Patches,             \* what a PATCH may say: values of some of the settings
          NoConfig,
          MaxBuilds, MaxFaults

\* A patch gives some of the settings a value that they may have.
Keys == {"host", "timeout"}
IsPatch(patch) ==
  /\ DOMAIN patch \subseteq Keys
  /\ "host" \in DOMAIN patch => patch.host \in Hosts \cup {NoHost}
  /\ "timeout" \in DOMAIN patch => patch.timeout \in Timeouts

ASSUME ConnectionAssumption ==
  /\ NoHost \notin Hosts /\ MaxRequests \in Nat
  /\ MaxBuilds \in Nat \ {0} /\ MaxFaults \in Nat
  /\ NoConfig \notin [host : Hosts \cup {NoHost}, timeout : Timeouts]
  /\ \A patch \in Patches : IsPatch(patch)
Requests == 1..MaxRequests
NoRequest == 0
Configs == [host : Hosts \cup {NoHost}, timeout : Timeouts]
Engines == 1..MaxBuilds
None == 0
Pulls == {"shots", "profiles"}
Loops == Pulls \cup {"identity"}

\* The settings with some of them changed.
Patched(before, patch) == [k \in Keys |-> IF k \in DOMAIN patch THEN patch[k] ELSE before[k]]

\* What a request asks for and what it carries along. A pull: its loops. A change: the patch and what it
\* would lead to; and once it rebuilds, what it stops and what it builds.
NoWish == [pulls |-> {}, patch |-> <<>>, to |-> NoConfig, proposed |-> NoConfig, client |-> None, engine |-> None]

VARIABLES
  settings,   \* the stored settings
  config,     \* what the connection was built from
  client, engine,   \* the current ones, by the number of their build
  sockets,    \* the clients that hold a socket
  loops,      \* the engines whose loops run
  builds,     \* how many were built
  poke,       \* the pokes of each engine that are set
  pass,       \* where each loop of each engine is
  lock, queue,      \* the connection's lock and who waits for it
  request,    \* where each request is
  cut,        \* history: a rebuild cut a pull
  torn,       \* history: a change of the settings was stored in part
  stopped,    \* the app was shut down
  faults

connection == <<config, client, engine, sockets, loops, builds>>
engines == <<poke, pass>>
vars == <<settings, connection, engines, lock, queue, request, cut, torn, stopped, faults>>

Fault == faults < MaxFaults /\ faults' = faults + 1
Sound == UNCHANGED faults

\* The app has started: `start` built the connection from the settings, or found that none is wanted.
Init ==
  /\ settings \in Configs /\ config = settings
  /\ client = (IF settings.host = NoHost THEN None ELSE 1) /\ engine = client /\ builds = client
  /\ sockets = {client} \ {None} /\ loops = sockets
  /\ poke = [e \in Engines |-> IF e = engine THEN {"identity"} ELSE {}]
  /\ pass = [e \in Engines |-> [l \in Loops |-> "none"]]
  /\ lock = NoRequest /\ queue = <<>>
  /\ request = [r \in Requests |-> [at |-> "new", then |-> "new", wish |-> NoWish]]
  /\ cut = FALSE /\ torn = FALSE /\ stopped = FALSE /\ faults = 0

----------------------------------------------------------------------------
(* The engine. *)

\* Mutant: only the passes that have the engine's lock count.
BusyRunning(e) == \E l \in Pulls : pass[e][l] = "running"

\* A pull runs, waits for the lock, or was asked for and not yet picked up.
Busy(e) == poke[e] \cap Pulls # {} \/ \E l \in Pulls : pass[e][l] # "none"

\* The loop wakes and counts its pass in the same turn.
Wake(e, l) ==
  /\ e \in loops /\ l \in poke[e] /\ pass[e][l] = "none"
  /\ poke' = [poke EXCEPT ![e] = @ \ {l}] /\ pass' = [pass EXCEPT ![e][l] = "waiting"]
  /\ UNCHANGED <<settings, connection, lock, queue, request, cut, torn, stopped, faults>>

\* Mutant: a loop that waits for the lock lets the others that wait go first.
TakeLockPolitely(e, l) ==
  /\ pass[e][l] = "waiting" /\ \A other \in Loops \ {l} : pass[e][other] = "none"
  /\ pass' = [pass EXCEPT ![e][l] = "running"]
  /\ UNCHANGED <<settings, connection, poke, lock, queue, request, cut, torn, stopped, faults>>

\* One pass at a time; a loop that does not stop is not there to start one.
TakeLock(e, l) ==
  /\ pass[e][l] = "waiting" /\ \A other \in Loops : pass[e][other] # "running"
  /\ pass' = [pass EXCEPT ![e][l] = "running"]
  /\ UNCHANGED <<settings, connection, poke, lock, queue, request, cut, torn, stopped, faults>>

\* A pass ends, well or not: every wait in it is bounded.
Finish(e, l) ==
  /\ pass[e][l] = "running" /\ pass' = [pass EXCEPT ![e][l] = "none"]
  /\ UNCHANGED <<settings, connection, poke, lock, queue, request, cut, torn, stopped, faults>>

\* The socket comes up again, or the machine says who it is.
Connected(e) ==
  /\ e \in loops /\ e \in sockets /\ poke' = [poke EXCEPT ![e] = @ \cup {"identity"}]
  /\ UNCHANGED <<settings, connection, pass, lock, queue, request, cut, torn, stopped, faults>>

\* A loop that did not stop when it was asked to is over at last.
Over(e) ==
  /\ e \in loops \ {engine} /\ lock = NoRequest /\ loops' = loops \ {e}
  /\ UNCHANGED <<settings, config, client, engine, sockets, builds, engines, lock, queue, request, cut,
                 torn, stopped, faults>>

----------------------------------------------------------------------------
(* The connection's lock: whoever finds it free has it, the others wait their turn. *)

At(r, at) == request' = [request EXCEPT ![r].at = at]

Acquire(r, at, wish) ==
  IF lock = NoRequest
  THEN lock' = r /\ UNCHANGED queue /\ request' = [request EXCEPT ![r] = [at |-> at, then |-> at, wish |-> wish]]
  ELSE /\ queue' = Append(queue, r) /\ UNCHANGED lock
       /\ request' = [request EXCEPT ![r] = [at |-> "queued", then |-> at, wish |-> wish]]

Done(r) == [request EXCEPT ![r] = [at |-> "done", then |-> "done", wish |-> NoWish]]

\* The request is answered, and the lock goes to the next that waits.
Release(r) ==
  IF queue = <<>> THEN lock' = NoRequest /\ UNCHANGED queue /\ request' = Done(r)
  ELSE /\ lock' = Head(queue) /\ queue' = Tail(queue)
       /\ request' = [Done(r) EXCEPT ![Head(queue)].at = request[Head(queue)].then]

Holds(r, at) == lock = r /\ request[r].at = at

----------------------------------------------------------------------------
(* Requests. *)

\* A pull is asked of the engine there is once no change is in progress; the pokes follow without a wait.
AskPull(r, pulls) ==
  /\ request[r].at = "new" /\ Acquire(r, "pull", [NoWish EXCEPT !.pulls = pulls])
  /\ UNCHANGED <<settings, connection, engines, cut, torn, stopped, faults>>

Pull(r) ==
  /\ Holds(r, "pull") /\ Release(r)
  /\ poke' = IF engine = None THEN poke ELSE [poke EXCEPT ![engine] = @ \cup request[r].wish.pulls]
  /\ UNCHANGED <<settings, connection, pass, cut, torn, stopped, faults>>

\* A change of the machine's settings. What it would lead to is worked out before the lock is asked for.
AskChange(r, patch) ==
  /\ request[r].at = "new"
  /\ Acquire(r, "check", [NoWish EXCEPT !.patch = patch, !.proposed = Patched(settings, patch)])
  /\ UNCHANGED <<settings, connection, engines, cut, torn, stopped, faults>>

Refused(r) == request[r].wish.proposed # config /\ engine # None /\ Busy(engine)

CheckBusy(r) ==
  /\ Holds(r, "check")
  /\ IF Refused(r) THEN Release(r) ELSE At(r, "write") /\ UNCHANGED <<lock, queue>>
  /\ UNCHANGED <<settings, connection, engines, cut, torn, stopped, faults>>

\* The keys are stored one by one; one that fails leaves the ones before it.
Write(r) ==
  /\ Holds(r, "write")
  /\ \/ Sound /\ settings' = Patched(settings, request[r].wish.patch) /\ UNCHANGED torn
        /\ At(r, "read back") /\ UNCHANGED <<lock, queue>>
     \/ Fault /\ \E stored \in SUBSET DOMAIN request[r].wish.patch \ {DOMAIN request[r].wish.patch} :
                   /\ settings' = Patched(settings, [k \in stored |-> request[r].wish.patch[k]])
                   /\ torn' = (torn \/ settings' # settings)
        /\ Release(r)
  /\ UNCHANGED <<connection, engines, cut, stopped>>

\* Mutant: the rebuild goes by what the change was worked out to lead to before it waited.
ReadBackProposed(r) ==
  /\ Holds(r, "read back")
  /\ IF request[r].wish.proposed = config THEN Release(r) /\ UNCHANGED <<client, engine>>
     ELSE /\ request' = [request EXCEPT ![r].at = "stop engine", ![r].wish.client = client,
                           ![r].wish.engine = engine, ![r].wish.to = request[r].wish.proposed]
          /\ client' = None /\ engine' = None /\ UNCHANGED <<lock, queue>>
  /\ UNCHANGED <<settings, config, sockets, loops, builds, engines, cut, torn, stopped, faults>>

\* The connection as it is from here on: nothing, until the new one stands.
ReadBack(r) ==
  /\ Holds(r, "read back")
  /\ IF settings = config THEN Release(r) /\ UNCHANGED <<client, engine>>
     ELSE /\ request' = [request EXCEPT ![r].at = "stop engine", ![r].wish.client = client,
                                        ![r].wish.engine = engine, ![r].wish.to = settings]
          /\ client' = None /\ engine' = None /\ UNCHANGED <<lock, queue>>
  /\ UNCHANGED <<settings, config, sockets, loops, builds, engines, cut, torn, stopped, faults>>

\* The loops are cancelled and waited for; one that does not stop in time keeps its name.
Cancel(e) ==
  /\ \/ Sound /\ loops' = {} /\ pass' = [d \in Engines |-> [l \in Loops |-> "none"]]
     \/ Fault /\ loops # {} /\ UNCHANGED <<loops, pass>>
  /\ cut' = (cut \/ (e # None /\ Busy(e) /\ ~stopped))

StopEngine(r) ==
  /\ Holds(r, "stop engine")
  /\ IF request[r].wish.engine = None THEN Sound /\ UNCHANGED <<loops, pass, cut>> ELSE Cancel(request[r].wish.engine)
  /\ At(r, "stop client")
  /\ UNCHANGED <<settings, config, client, engine, sockets, builds, poke, lock, queue, torn, stopped>>

StopClient(r) ==
  /\ Holds(r, "stop client") /\ sockets' = sockets \ {request[r].wish.client}
  /\ At(r, "build")
  /\ UNCHANGED <<settings, config, client, engine, loops, builds, engines, lock, queue, cut, torn, stopped, faults>>

\* No machine is wanted; or the client is built and started, which may fail.
Build(r) ==
  /\ Holds(r, "build")
  /\ LET new == request[r].wish.to
     IN  \/ new.host = NoHost /\ config' = new /\ Release(r) /\ Sound /\ UNCHANGED <<sockets, builds>>
         \/ /\ new.host # NoHost /\ builds < MaxBuilds /\ builds' = builds + 1
            /\ \/ Sound /\ sockets' = sockets \cup {builds'} /\ UNCHANGED <<config, lock, queue>>
                  /\ At(r, "start engine")
               \/ Fault /\ config' = NoConfig /\ UNCHANGED sockets /\ Release(r)
  /\ UNCHANGED <<settings, client, engine, loops, engines, cut, torn, stopped>>

\* A build that fails part-way stops what it started and records no configuration.
Failed == config' = NoConfig /\ sockets' = sockets \ {builds} /\ loops' = {}

\* The engine's loops are spawned under their names, which may still be taken; then the connection stands.
StartEngine(r) ==
  /\ Holds(r, "start engine") /\ Release(r)
  /\ \/ /\ loops = {} /\ Sound /\ loops' = {builds} /\ client' = builds /\ engine' = builds
        /\ config' = request[r].wish.to /\ poke' = [poke EXCEPT ![builds] = {"identity"}] /\ UNCHANGED sockets
     \/ /\ loops # {} \/ faults < MaxFaults
        /\ IF loops = {} THEN Fault ELSE Sound
        /\ Failed /\ UNCHANGED <<client, engine, poke>>
  /\ UNCHANGED <<settings, builds, pass, cut, torn, stopped>>

\* The app shuts down.
Stop(r) ==
  /\ request[r].at = "new" /\ lock = NoRequest /\ ~stopped
  /\ request' = Done(r)
  /\ stopped' = TRUE /\ config' = NoConfig /\ client' = None /\ engine' = None /\ sockets' = {} /\ loops' = {}
  /\ pass' = [d \in Engines |-> [l \in Loops |-> "none"]] /\ poke' = [d \in Engines |-> {}]
  /\ UNCHANGED <<settings, builds, lock, queue, cut, torn, faults>>

Ask(r) ==
  /\ ~stopped /\ \A earlier \in 1..(r - 1) : request[earlier].at # "new"
  /\ \/ \E pulls \in {{"shots"}, {"profiles"}, Pulls} : AskPull(r, pulls)
     \/ \E patch \in Patches : AskChange(r, patch)
     \/ Stop(r)
Serve(r) == Pull(r) \/ CheckBusy(r) \/ Write(r) \/ ReadBack(r) \/ StopEngine(r) \/ StopClient(r)
            \/ Build(r) \/ StartEngine(r)
Turn(e, l) == Wake(e, l) \/ Finish(e, l)

Next == \/ \E r \in Requests : Ask(r) \/ Serve(r)
        \/ \E e \in Engines : Connected(e) \/ Over(e) \/ \E l \in Loops : Turn(e, l) \/ TakeLock(e, l)

\* The event loop runs what can run, a pass ends, and the engine's lock is handed out in turn.
Spec ==
  /\ Init /\ [][Next]_vars
  /\ WF_vars(\E r \in Requests : Serve(r))
  /\ \A l \in Loops : WF_vars(\E e \in Engines : Turn(e, l)) /\ SF_vars(\E e \in Engines : TakeLock(e, l))

----------------------------------------------------------------------------

TypeOK ==
  /\ settings \in Configs /\ config \in Configs \cup {NoConfig}
  /\ client \in Engines \cup {None} /\ engine \in Engines \cup {None}
  /\ sockets \subseteq Engines /\ loops \subseteq Engines /\ builds \in 0..MaxBuilds
  /\ poke \in [Engines -> SUBSET Loops] /\ pass \in [Engines -> [Loops -> {"none", "waiting", "running"}]]
  /\ lock \in Requests \cup {NoRequest} /\ queue \in Seq(Requests)
  /\ cut \in BOOLEAN /\ torn \in BOOLEAN /\ stopped \in BOOLEAN /\ faults \in 0..MaxFaults

\* A rebuild never cuts a pull that runs, waits or was just asked for, though what a change leads to is
\* worked out before the lock is held and pulls are asked for all the time (`update`, `current_engine`).
PullsUncut == cut => torn

\* There is one socket at most, as the machine has three to give. Whenever nobody is changing it, the
\* connection is whole, or plainly absent: nothing half built, nothing left running behind it.
WholeOrAbsent ==
  /\ Cardinality(sockets) <= 1
  /\ lock = NoRequest \/ request[lock].at \in {"pull", "check", "write", "read back"} =>
       /\ sockets = {client} \ {None} /\ engine = client
       /\ (client # None) <=> (config # NoConfig /\ config.host # NoHost)
       /\ faults = 0 => loops = {engine} \ {None}

\* The connection is what the settings say, or absent after a failed build, whenever nobody is changing it
\* and no change was stored in part.
AsSettings ==
  (lock = NoRequest \/ request[lock].at \in {"pull", "check", "write"}) /\ ~torn => config \in {NoConfig, settings}

\* The connection is of its types, whole or absent, and what the settings say.
ConnectionOK == TypeOK /\ WholeOrAbsent /\ AsSettings

\* A pull that was asked for is done in the end: nobody waits for ever, the loops do not keep each other
\* out, and a change of settings does not swallow it unless it cuts it.
Asked(l) == \E e \in Engines : l \in poke[e] \/ pass[e][l] # "none"
PullsDone == \A l \in Pulls : Asked(l) ~> (~Asked(l) \/ cut)
=============================================================================
