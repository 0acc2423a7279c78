--------------------------- MODULE Connection_proofs ---------------------------
(***************************************************************************)
(* The safety properties of Connection and of DeviceLink for every number  *)
(* of requests, builds, faults and calls.  The inductive invariant says    *)
(* who has the connection's lock and what it wants (LockInv), how far a    *)
(* rebuild has come (Built), that a busy engine is not stopped (Spared),   *)
(* and what a call that waits relies on (LinkInv).                         *)
(***************************************************************************)
EXTENDS DeviceLink, TLAPS, SequenceTheorems, FiniteSetTheorems

-----------------------------------------------------------------------------
(* The connection. *)

Changing == {"check", "write", "read back", "stop engine", "stop client", "build", "start engine"}
Rebuilding == {"stop engine", "stop client", "build", "start engine"}

\* A wish that carries a patch: the patch cannot change what it was worked out to lead to.
WishWith(patch) == [pulls : SUBSET Pulls, patch : {patch}, to : Configs \cup {NoConfig}, proposed : Configs \cup {NoConfig},
                    client : Engines \cup {None}, engine : Engines \cup {None}]
Proposes(wish) == IsPatch(wish.patch) /\ wish.proposed \in Configs /\ Patched(wish.proposed, wish.patch) = wish.proposed

\* A request is where the code can be, and a change of the settings carries what it proposes.
Requested(q) ==
  /\ q.wish \in WishWith(q.wish.patch)
  /\ q \in [at : {"new", "queued", "done", "pull"} \cup Changing, then : {"new", "done", "pull", "check"}, wish : {q.wish}]
  /\ q.at = "queued" => q.then \in {"pull", "check"}
  /\ q.at \in Changing \/ (q.at = "queued" /\ q.then = "check") => Proposes(q.wish)

\* One request has the lock, and those that wait for it are in the queue, each once.
LockTypes ==
  /\ lock \in Requests \cup {NoRequest} /\ queue \in Seq(Requests) /\ request = [r \in Requests |-> request[r]]
  /\ lock = NoRequest => queue = <<>>
Asking == \A r \in Requests : Requested(request[r])
OneHasIt == \A r \in Requests : request[r].at \in {"pull"} \cup Changing <=> lock = r
Waiters == \A r \in Requests : request[r].at = "queued" <=> \E i \in 1..Len(queue) : queue[i] = r
EachOnce == \A i, j \in 1..Len(queue) : queue[i] = queue[j] => i = j
LockInv == LockTypes /\ Asking /\ OneHasIt /\ Waiters /\ EachOnce

\* How far the one that has the lock has come, and what it wants.
Stage == IF lock = NoRequest THEN "free" ELSE request[lock].at
Wish == request[lock].wish

Standing == {"free", "pull", "check", "write", "read back"}
Whole ==
  /\ sockets = {client} \ {None} /\ engine = client
  /\ (client # None) <=> (config # NoConfig /\ config.host # NoHost)
  /\ faults = 0 => loops = {engine} \ {None}

\* The connection is whole while nobody rebuilds it, and then it is taken down piece by piece and built again.
Built ==
  /\ Stage \in Standing => Whole
  /\ Stage \in {"free", "pull", "check", "write"} /\ ~torn => config \in {NoConfig, settings}
  /\ Stage \in Rebuilding => client = None /\ engine = None /\ Wish.to = settings
  /\ Stage = "stop engine" => /\ Wish.engine = Wish.client
                              /\ faults = 0 => loops = {Wish.engine} \ {None}
  /\ Stage \in {"stop engine", "stop client"} => sockets = {Wish.client} \ {None}
  /\ Stage \in {"stop client", "build", "start engine"} => (faults = 0 => loops = {})
  /\ Stage = "build" => sockets = {}
  /\ Stage = "start engine" => builds \in Engines /\ sockets = {builds} /\ settings.host # NoHost

\* A busy engine is not stopped: a change that lets it be leads to what there is.
Spared ==
  /\ Stage = "write" => ~Refused(lock)
  /\ Stage = "read back" /\ ~torn /\ engine # None /\ Busy(engine) => settings = config
  /\ Stage = "stop engine" /\ ~torn /\ Wish.engine # None => ~Busy(Wish.engine)
  /\ cut => torn

IInv == LockInv /\ TypeOK /\ Built /\ Spared

-----------------------------------------------------------------------------
(* The link. *)

Begun == {"waiting", "watching", "answered", "failed", "unavailable", "refused", "ok", "timeout"}
Kinds == Reads \cup Writes
Statuses == [mode : Modes \cup {"unknown"}, process : Processes \cup {NotReported}]
Made == [at : {"gate", "gate, then ok"} \cup Begun, of : Engines, kind : Kinds, conn : Nat]
CallSet == {NoCall} \cup Made
Sent == [kind : Kinds, of : Calls, saw : Processes \cup {NotReported}]
Received == [kind : {"mode"}, value : Modes] \cup [kind : {"process"}, value : Processes] \cup [kind : {"answer"}, value : Calls]

Links == [of : Engines \cup {None}, at : Places, conn : Nat]
Machines == [mode : Modes, process : Nat]
Counts == [drops : 0..MaxDrops, touches : 0..MaxTouches, processes : Nat]
LinkTypes ==
  /\ scene \in {"settings", "calls"} /\ link \in Links /\ machine \in Machines /\ count \in Counts
  /\ out \in Seq(Sent) /\ in \in Seq(Received) /\ shown \in [Engines -> Statuses] /\ call \in [Calls -> CallSet]

\* The calls whose frame is not on its way any more. Only a flush of one of them began a process.
Served == {c \in Calls : call[c].at \in Begun /\ \A i \in 1..Len(out) : out[i].of # c}
Numbered ==
  /\ \A i \in 1..Len(out) : call[out[i].of].at \in Begun
  /\ \A i, j \in 1..Len(out) : out[i].of = out[j].of => i = j
  /\ machine.process <= count.processes
  /\ count.processes <= count.touches + Cardinality(Served)

\* Each socket after the first took the loss of another.
Redialled == link.conn <= count.drops + (IF link.at \in {"up", "stopping", "cut short", "stopped"} THEN 1 ELSE 0)

LinkInv ==
  /\ LinkTypes /\ Numbered /\ Redialled /\ OneLink /\ NobodyWaitsInVain
  /\ scene = "settings" => link = Idle /\ \A c \in Calls : call[c] = NoCall
  /\ link.of = None => link = Idle

\* A frame that could end a process was sent when the machine had reported none.
Looked == \A i \in 1..Len(out) : out[i].kind \in Writes => out[i].saw \in {0, NotReported}

LinkedInv == IInv /\ LinkInv /\ Looked

-----------------------------------------------------------------------------
(* The lock and the wishes. *)

\* A patch that is stored, or a part of it, leads to settings; stored again it changes nothing.
LEMMA PatchedSettings ==
  ASSUME NEW before \in Configs, NEW patch, IsPatch(patch)
  PROVE  Patched(before, patch) \in Configs /\ Patched(Patched(before, patch), patch) = Patched(before, patch)
BY DEF Patched, Configs, IsPatch, Keys

LEMMA PartOfPatch ==
  ASSUME NEW patch, IsPatch(patch), NEW stored \in SUBSET DOMAIN patch
  PROVE  IsPatch([k \in stored |-> patch[k]])
BY DEF IsPatch, Keys

\* A wish of nothing, and a request that was answered.
LEMMA Answered ==
  /\ NoWish \in WishWith(NoWish.patch) /\ NoWish.pulls = {}
  /\ Requested([at |-> "done", then |-> "done", wish |-> NoWish])
  /\ Requested([at |-> "new", then |-> "new", wish |-> NoWish])
<1>1. NoWish \in WishWith(NoWish.patch) /\ NoWish.pulls = {}
  BY DEF NoWish, WishWith
<1>. QED
  BY <1>1 DEF Requested, Changing

\* The first in the queue, and the rest.
LEMMA InLine ==
  ASSUME LockInv, queue # <<>>
  PROVE  /\ Head(queue) \in Requests /\ request[Head(queue)].at = "queued"
         /\ Tail(queue) \in Seq(Requests)
         /\ \A s \in Requests : (\E i \in 1..Len(Tail(queue)) : Tail(queue)[i] = s)
                                  <=> s # Head(queue) /\ \E i \in 1..Len(queue) : queue[i] = s
         /\ \A i, j \in 1..Len(Tail(queue)) : Tail(queue)[i] = Tail(queue)[j] => i = j
<1>1. /\ Tail(queue) \in Seq(Requests) /\ Head(queue) = queue[1] /\ Head(queue) \in Requests
      /\ Len(queue) \in Nat /\ Len(queue) > 0 /\ Len(Tail(queue)) = Len(queue) - 1
      /\ \A i \in 1..Len(Tail(queue)) : Tail(queue)[i] = queue[i + 1]
  BY LenProperties, EmptySeq, HeadTailProperties DEF LockInv, LockTypes
<1>2. \A i \in 1..Len(Tail(queue)) : i + 1 \in 1..Len(queue) /\ i + 1 # 1
  BY <1>1
<1>3. 1 \in 1..Len(queue)
  BY <1>1
<1>4. \A i \in 1..Len(queue) : i = 1 \/ (i - 1 \in 1..Len(Tail(queue)) /\ (i - 1) + 1 = i)
  BY <1>1
<1>5. request[Head(queue)].at = "queued"
  BY <1>1, <1>3 DEF LockInv, Waiters
<1>6. \A i, j \in 1..Len(Tail(queue)) : Tail(queue)[i] = Tail(queue)[j] => i = j
  <2>. SUFFICES ASSUME NEW i \in 1..Len(Tail(queue)), NEW j \in 1..Len(Tail(queue)), Tail(queue)[i] = Tail(queue)[j]
                PROVE  i = j
    OBVIOUS
  <2>1. queue[i + 1] = queue[j + 1]
    BY <1>1
  <2>2. i + 1 = j + 1
    BY <1>2, <2>1 DEF LockInv, EachOnce
  <2>. QED
    BY <1>1, <2>2
<1>7. ASSUME NEW s \in Requests
      PROVE  (\E i \in 1..Len(Tail(queue)) : Tail(queue)[i] = s) <=> s # Head(queue) /\ \E i \in 1..Len(queue) : queue[i] = s
  <2>1. ASSUME NEW i \in 1..Len(Tail(queue)), Tail(queue)[i] = s
        PROVE  s # Head(queue) /\ \E j \in 1..Len(queue) : queue[j] = s
    <3>1. i + 1 \in 1..Len(queue) /\ i + 1 # 1 /\ queue[i + 1] = s
      BY <1>1, <1>2, <2>1
    <3>. QED
      BY <1>1, <1>3, <3>1 DEF LockInv, EachOnce
  <2>2. ASSUME s # Head(queue), NEW i \in 1..Len(queue), queue[i] = s
        PROVE  \E j \in 1..Len(Tail(queue)) : Tail(queue)[j] = s
    <3>1. i # 1
      BY <1>1, <2>2
    <3>2. i - 1 \in 1..Len(Tail(queue)) /\ Tail(queue)[i - 1] = queue[i]
      BY <1>1, <1>4, <3>1
    <3>. QED
      BY <2>2, <3>2
  <2>. QED
    BY <2>1, <2>2
<1>. QED
  BY <1>1, <1>5, <1>6, <1>7

\* The lock is handed on: whoever gets it is where it waited to be.
LEMMA ReleaseKeeps ==
  ASSUME LockInv, NEW r \in Requests, lock = r, Release(r)
  PROVE  LockInv' /\ Stage' \in {"free", "pull", "check"}
<1>1. r # NoRequest /\ lock # NoRequest
  BY DEF Requests, NoRequest
<1>2. request[r].at \in {"pull"} \cup Changing /\ request = [s \in Requests |-> request[s]]
  BY DEF LockInv, LockTypes, OneHasIt
<1>. DEFINE done == [at |-> "done", then |-> "done", wish |-> NoWish]
<1>3. Requested(done) /\ done.at = "done"
  BY Answered
<1>. HIDE DEF done
<1>4. CASE queue = <<>>
  <2>1. lock' = NoRequest /\ queue' = queue /\ request' = [request EXCEPT ![r] = done]
    BY <1>4 DEF Release, Done, done
  <2>2. /\ request' = [s \in Requests |-> request'[s]] /\ request'[r] = done
        /\ \A s \in Requests : s # r => request'[s] = request[s]
    BY <1>2, <2>1
  <2>3. \A s \in Requests : Requested(request'[s])
    BY <1>3, <2>2 DEF LockInv, Asking
  <2>4. \A s \in Requests : request'[s].at \in {"pull"} \cup Changing <=> lock' = s
    <3>1. \A s \in Requests : s # NoRequest
      BY DEF Requests, NoRequest
    <3>. QED
      BY <1>3, <2>1, <2>2, <3>1 DEF LockInv, OneHasIt, Changing
  <2>5. \A s \in Requests : request'[s].at = "queued" <=> \E i \in 1..Len(queue') : queue'[i] = s
    BY <1>2, <1>3, <2>1, <2>2 DEF LockInv, Waiters, Changing
  <2>6. LockInv'
    BY <1>4, <2>1, <2>2, <2>3, <2>4, <2>5 DEF LockInv, LockTypes, Asking, OneHasIt, Waiters, EachOnce
  <2>. QED
    BY <2>1, <2>6 DEF Stage
<1>5. CASE queue # <<>>
  <2>. DEFINE h == Head(queue)
  <2>1. /\ h \in Requests /\ request[h].at = "queued" /\ Tail(queue) \in Seq(Requests)
        /\ \A s \in Requests : (\E i \in 1..Len(Tail(queue)) : Tail(queue)[i] = s)
                                 <=> s # h /\ \E i \in 1..Len(queue) : queue[i] = s
        /\ \A i, j \in 1..Len(Tail(queue)) : Tail(queue)[i] = Tail(queue)[j] => i = j
    BY <1>5, InLine
  <2>2. h # r
    BY <1>2, <2>1 DEF Changing
  <2>3. /\ lock' = h /\ queue' = Tail(queue)
        /\ request' = [[request EXCEPT ![r] = done] EXCEPT ![h].at = request[h].then]
    BY <1>5 DEF Release, Done, done
  <2>. HIDE DEF h
  <2>4. /\ request' = [s \in Requests |-> request'[s]] /\ request'[r] = done
        /\ request'[h] = [request[h] EXCEPT !.at = request[h].then]
        /\ \A s \in Requests : s # r /\ s # h => request'[s] = request[s]
    BY <1>2, <2>1, <2>2, <2>3
  <2>5. /\ request[h].then \in {"pull", "check"} /\ request'[h].at = request[h].then
        /\ Requested(request'[h])
    BY <2>1, <2>4 DEF LockInv, Asking, Requested, Changing
  <2>6. \A s \in Requests : Requested(request'[s])
    BY <1>3, <2>4, <2>5 DEF LockInv, Asking
  <2>7. \A s \in Requests : request'[s].at \in {"pull"} \cup Changing <=> lock' = s
    BY <1>3, <2>2, <2>3, <2>4, <2>5 DEF LockInv, OneHasIt, Changing
  <2>8. ASSUME NEW s \in Requests
        PROVE  request'[s].at = "queued" <=> \E i \in 1..Len(queue') : queue'[i] = s
    <3>1. (\E i \in 1..Len(queue') : queue'[i] = s) <=> s # h /\ request[s].at = "queued"
      BY <2>1, <2>3 DEF LockInv, Waiters
    <3>2. request[r].at # "queued" /\ request'[r].at # "queued" /\ request'[h].at # "queued"
      BY <1>2, <1>3, <2>4, <2>5 DEF Changing
    <3>. QED
      BY <2>2, <2>4, <3>1, <3>2
  <2>9. LockInv'
    <3>1. lock' # NoRequest /\ lock' \in Requests
      BY <2>1, <2>3 DEF Requests, NoRequest
    <3>2. LockTypes'
      BY <2>1, <2>3, <2>4, <3>1 DEF LockTypes
    <3>3. EachOnce'
      BY <2>1, <2>3 DEF EachOnce
    <3>. QED
      BY <2>6, <2>7, <2>8, <3>2, <3>3 DEF LockInv, Asking, OneHasIt, Waiters
  <2>. QED
    BY <2>3, <2>5, <2>9 DEF Stage
<1>. QED
  BY <1>4, <1>5

\* The lock is asked for: it is had at once, or waited for.
LEMMA AcquireKeeps ==
  ASSUME LockInv, NEW r \in Requests, request[r].at = "new", NEW at \in {"pull", "check"}, NEW wish,
         wish \in WishWith(wish.patch), at = "check" => Proposes(wish), Acquire(r, at, wish)
  PROVE  /\ LockInv'
         /\ \/ Stage' = Stage /\ lock' = lock /\ (lock # NoRequest => request'[lock] = request[lock])
            \/ Stage = "free" /\ Stage' = at /\ lock' = r
<1>1. r # NoRequest /\ r # lock /\ request = [s \in Requests |-> request[s]]
  <2>1. r # NoRequest
    BY DEF Requests, NoRequest
  <2>2. r # lock
    BY DEF LockInv, OneHasIt, Changing
  <2>. QED
    BY <2>1, <2>2 DEF LockInv, LockTypes
<1>2. CASE lock = NoRequest
  <2>. DEFINE new == [at |-> at, then |-> at, wish |-> wish]
  <2>1. lock' = r /\ queue' = queue /\ request' = [request EXCEPT ![r] = new]
    BY <1>2 DEF Acquire
  <2>2. Requested(new) /\ new.at = at
    BY DEF Requested, Changing
  <2>. HIDE DEF new
  <2>3. /\ request' = [s \in Requests |-> request'[s]] /\ request'[r] = new
        /\ \A s \in Requests : s # r => request'[s] = request[s]
    BY <1>1, <2>1
  <2>4. \A s \in Requests : Requested(request'[s])
    BY <2>2, <2>3 DEF LockInv, Asking
  <2>5. \A s \in Requests : request'[s].at \in {"pull"} \cup Changing <=> lock' = s
    <3>1. \A s \in Requests : s # NoRequest
      BY DEF Requests, NoRequest
    <3>. QED
      BY <1>2, <2>1, <2>2, <2>3, <3>1 DEF LockInv, OneHasIt, Changing
  <2>6. \A s \in Requests : request'[s].at = "queued" <=> \E i \in 1..Len(queue') : queue'[i] = s
    BY <2>1, <2>2, <2>3 DEF LockInv, Waiters
  <2>7. LockInv'
    BY <1>1, <2>1, <2>3, <2>4, <2>5, <2>6 DEF LockInv, LockTypes, Asking, OneHasIt, Waiters, EachOnce
  <2>8. Stage = "free" /\ Stage' = at
    BY <1>1, <1>2, <2>1, <2>2, <2>3 DEF Stage
  <2>. QED
    BY <2>1, <2>7, <2>8
<1>3. CASE lock # NoRequest
  <2>. DEFINE new == [at |-> "queued", then |-> at, wish |-> wish]
  <2>1. lock' = lock /\ queue' = Append(queue, r) /\ request' = [request EXCEPT ![r] = new]
    BY <1>3 DEF Acquire
  <2>2. Requested(new) /\ new.at = "queued"
    BY DEF Requested, Changing
  <2>. HIDE DEF new
  <2>3. /\ request' = [s \in Requests |-> request'[s]] /\ request'[r] = new
        /\ \A s \in Requests : s # r => request'[s] = request[s]
    BY <1>1, <2>1
  <2>4. \A s \in Requests : Requested(request'[s])
    BY <2>2, <2>3 DEF LockInv, Asking
  <2>5. \A s \in Requests : request'[s].at \in {"pull"} \cup Changing <=> lock' = s
    BY <1>1, <2>1, <2>2, <2>3 DEF LockInv, OneHasIt, Changing
  <2>6. /\ queue' \in Seq(Requests) /\ Len(queue) \in Nat /\ Len(queue') = Len(queue) + 1
        /\ \A i \in 1..Len(queue) : queue'[i] = queue[i] /\ i \in 1..Len(queue')
        /\ queue'[Len(queue) + 1] = r /\ Len(queue) + 1 \in 1..Len(queue')
        /\ \A i \in 1..Len(queue') : i \in 1..Len(queue) \/ i = Len(queue) + 1
    <3>1. /\ queue' \in Seq(Requests) /\ Len(queue) \in Nat /\ Len(queue') = Len(queue) + 1
          /\ \A i \in 1..Len(queue) : queue'[i] = queue[i]
          /\ queue'[Len(queue) + 1] = r
      BY <2>1, AppendProperties, LenProperties DEF LockInv, LockTypes
    <3>. QED
      BY <3>1
  <2>7. \A i \in 1..Len(queue) : queue[i] # r
    BY DEF LockInv, Waiters
  <2>8. ASSUME NEW s \in Requests
        PROVE  request'[s].at = "queued" <=> \E i \in 1..Len(queue') : queue'[i] = s
    <3>1. CASE s = r
      BY <2>2, <2>3, <2>6, <3>1
    <3>2. CASE s # r
      <4>1. (\E i \in 1..Len(queue') : queue'[i] = s) <=> (\E i \in 1..Len(queue) : queue[i] = s)
        BY <2>6, <3>2
      <4>. QED
        BY <2>3, <3>2, <4>1 DEF LockInv, Waiters
    <3>. QED
      BY <3>1, <3>2
  <2>9. \A i, j \in 1..Len(queue') : queue'[i] = queue'[j] => i = j
    BY <2>6, <2>7 DEF LockInv, EachOnce
  <2>10. LockInv'
    BY <1>3, <2>1, <2>3, <2>4, <2>5, <2>6, <2>8, <2>9 DEF LockInv, LockTypes, Asking, OneHasIt, Waiters, EachOnce
  <2>11. request'[lock] = request[lock]
    BY <1>1, <1>3, <2>3 DEF LockInv, LockTypes
  <2>12. Stage' = Stage
    BY <2>1, <2>11 DEF Stage
  <2>. QED
    BY <2>1, <2>10, <2>11, <2>12
<1>. QED
  BY <1>2, <1>3

\* The one that has the lock goes on with its change.
LEMMA GoesOnKeeps ==
  ASSUME LockInv, NEW r \in Requests, lock = r, request[r].at \in Changing,
         UNCHANGED <<lock, queue>>, NEW q, request' = [request EXCEPT ![r] = q],
         Requested(q), q.at \in Changing
  PROVE  LockInv' /\ Stage = request[r].at /\ Stage' = q.at /\ Wish = request[r].wish /\ Wish' = q.wish
<1>1. r # NoRequest /\ request = [s \in Requests |-> request[s]]
  BY DEF Requests, NoRequest, LockInv, LockTypes
<1>2. /\ request' = [s \in Requests |-> request'[s]] /\ request'[r] = q
      /\ \A s \in Requests : s # r => request'[s] = request[s]
  BY <1>1
<1>3. \A s \in Requests : Requested(request'[s])
  BY <1>2 DEF LockInv, Asking
<1>4. \A s \in Requests : request'[s].at \in {"pull"} \cup Changing <=> lock' = s
  BY <1>2 DEF LockInv, OneHasIt
<1>5. \A s \in Requests : request'[s].at = "queued" <=> \E i \in 1..Len(queue') : queue'[i] = s
  BY <1>2 DEF LockInv, Waiters, Changing
<1>6. LockInv'
  BY <1>2, <1>3, <1>4, <1>5 DEF LockInv, LockTypes, Asking, OneHasIt, Waiters, EachOnce
<1>. QED
  BY <1>1, <1>2, <1>6 DEF Stage, Wish

-----------------------------------------------------------------------------
(* The steps of the connection. *)

Data == <<settings, config, client, engine, sockets, builds, cut, torn, faults>>

\* The types of everything but the lock.
LEMMA TypesKept ==
  ASSUME LockInv',
         settings' \in Configs, config' \in Configs \cup {NoConfig},
         client' \in Engines \cup {None}, engine' \in Engines \cup {None},
         sockets' \subseteq Engines, loops' \subseteq Engines, builds' \in 0..MaxBuilds,
         poke' \in [Engines -> SUBSET Loops], pass' \in [Engines -> [Loops -> {"none", "waiting", "running"}]],
         cut' \in BOOLEAN, torn' \in BOOLEAN, stopped' \in BOOLEAN, faults' \in 0..MaxFaults
  PROVE  TypeOK'
BY DEF TypeOK, LockInv, LockTypes

\* Who has the lock, and what it wants.
LEMMA Holder ==
  ASSUME LockInv, Stage # "free"
  PROVE  /\ lock \in Requests /\ lock # NoRequest /\ Stage \in {"pull"} \cup Changing /\ Requested(request[lock])
         /\ request[lock].wish = Wish /\ request[lock].at = Stage
         /\ Wish.client \in Engines \cup {None} /\ Wish.engine \in Engines \cup {None}
         /\ Wish.pulls \subseteq Pulls /\ Wish.to \in Configs \cup {NoConfig}
         /\ Stage \in Changing => Proposes(Wish)
<1>1. lock \in Requests /\ lock # NoRequest /\ Stage = request[lock].at
  BY DEF LockInv, LockTypes, Stage
<1>2. Requested(request[lock]) /\ Stage \in {"pull"} \cup Changing
  BY <1>1 DEF LockInv, Asking, OneHasIt
<1>. QED
  BY <1>1, <1>2 DEF Requested, WishWith, Wish

\* The passes of the engines go on, and none that was idle has a pull.
LEMMA PassesKeep ==
  ASSUME IInv, UNCHANGED <<Data, lock, queue, request, stopped>>, loops' \subseteq loops,
         loops' = loops \/ (Stage = "free" /\ \E e : e # engine /\ loops' = loops \ {e}),
         poke' \in [Engines -> SUBSET Loops], pass' \in [Engines -> [Loops -> {"none", "waiting", "running"}]],
         \A e \in Engines : (poke'[e] \cap Pulls # {} \/ \E l \in Pulls : pass'[e][l] # "none") => Busy(e)
  PROVE  IInv'
<1>1. LockInv'
  BY DEF IInv, LockInv, LockTypes, Asking, OneHasIt, Waiters, EachOnce
<1>2. TypeOK'
  BY DEF IInv, TypeOK, Data
<1>3. Stage' = Stage /\ Wish' = Wish
  BY DEF Stage, Wish
<1>4. Whole => Whole'
  <2>1. faults = 0 /\ Whole => loops' = {engine} \ {None}
    BY DEF Whole
  <2>. QED
    BY <2>1 DEF Whole, Data
<1>5. Built'
  BY <1>3, <1>4 DEF IInv, Built, Rebuilding, Standing, Data, Stage
<1>6. Spared'
  <2>1. Stage' = "write" => ~Refused(lock)'
    BY <1>3 DEF IInv, Spared, Refused, TypeOK, Data, Busy
  <2>2. Stage' = "read back" /\ ~torn' /\ engine' # None /\ Busy(engine)' => settings' = config'
    BY <1>3 DEF IInv, Spared, TypeOK, Data, Busy
  <2>3. Stage' = "stop engine" /\ ~torn' /\ Wish'.engine # None => ~Busy(Wish.engine)'
    <3>1. Stage = "stop engine" /\ Wish.engine # None => Wish.engine \in Engines
      BY Holder DEF IInv
    <3>. QED
      BY <1>3, <3>1 DEF IInv, Spared, Data, Busy
  <2>. QED
    BY <2>1, <2>2, <2>3 DEF IInv, Spared, Data
<1>. QED
  BY <1>1, <1>2, <1>5, <1>6 DEF IInv

LEMMA EngineStepKeeps ==
  ASSUME IInv, NEW e \in Engines, Connected(e) \/ Over(e) \/ \E l \in Loops : Turn(e, l) \/ TakeLock(e, l)
  PROVE  IInv'
<1>1. poke \in [Engines -> SUBSET Loops] /\ pass \in [Engines -> [Loops -> {"none", "waiting", "running"}]]
  BY DEF IInv, TypeOK
<1>2. Pulls \subseteq Loops /\ "identity" \in Loops /\ "identity" \notin Pulls
  BY DEF Pulls, Loops
<1>3. CASE Connected(e)
  <2>1. /\ UNCHANGED <<Data, lock, queue, request, stopped, loops, pass>>
        /\ poke' = [poke EXCEPT ![e] = @ \cup {"identity"}]
    BY <1>3 DEF Connected, Data, connection
  <2>2. poke' \in [Engines -> SUBSET Loops] /\ \A d \in Engines : poke'[d] \cap Pulls = poke[d] \cap Pulls
    BY <1>1, <1>2, <2>1
  <2>3. \A d \in Engines : (poke'[d] \cap Pulls # {} \/ \E l \in Pulls : pass'[d][l] # "none") => Busy(d)
    BY <2>1, <2>2 DEF Busy
  <2>. QED
    BY <1>1, <2>1, <2>2, <2>3, PassesKeep
<1>4. CASE Over(e)
  <2>1. /\ UNCHANGED <<Data, lock, queue, request, stopped, poke, pass>>
        /\ loops' = loops \ {e} /\ e # engine /\ Stage = "free"
    BY <1>4 DEF Over, Data, engines, Stage
  <2>2. \A d \in Engines : (poke'[d] \cap Pulls # {} \/ \E l \in Pulls : pass'[d][l] # "none") => Busy(d)
    BY <2>1 DEF Busy
  <2>. QED
    BY <1>1, <2>1, <2>2, PassesKeep
<1>5. ASSUME NEW l \in Loops, Wake(e, l)
      PROVE  IInv'
  <2>1. /\ UNCHANGED <<Data, lock, queue, request, stopped, loops>> /\ l \in poke[e]
        /\ poke' = [poke EXCEPT ![e] = @ \ {l}] /\ pass' = [pass EXCEPT ![e][l] = "waiting"]
    BY <1>5 DEF Wake, Data, connection
  <2>2. /\ poke' \in [Engines -> SUBSET Loops]
        /\ pass' \in [Engines -> [Loops -> {"none", "waiting", "running"}]]
    BY <1>1, <2>1
  <2>3. \A d \in Engines : (poke'[d] \cap Pulls # {} \/ \E m \in Pulls : pass'[d][m] # "none") => Busy(d)
    <3>. SUFFICES ASSUME NEW d \in Engines, poke'[d] \cap Pulls # {} \/ \E m \in Pulls : pass'[d][m] # "none"
                  PROVE  Busy(d)
      OBVIOUS
    <3>1. poke'[d] \subseteq poke[d] /\ \A m \in Loops : pass'[d][m] = pass[d][m] \/ m \in poke[d]
      BY <1>1, <2>1
    <3>. QED
      BY <1>2, <3>1 DEF Busy
  <2>. QED
    BY <2>1, <2>2, <2>3, PassesKeep
<1>6. ASSUME NEW l \in Loops, Finish(e, l) \/ TakeLock(e, l)
      PROVE  IInv'
  <2>1. /\ UNCHANGED <<Data, lock, queue, request, stopped, loops, poke>> /\ pass[e][l] # "none"
        /\ \E to \in {"none", "running"} : pass' = [pass EXCEPT ![e][l] = to]
    BY <1>6 DEF Finish, TakeLock, Data, connection
  <2>2. pass' \in [Engines -> [Loops -> {"none", "waiting", "running"}]]
    BY <1>1, <2>1
  <2>3. \A d \in Engines : (poke'[d] \cap Pulls # {} \/ \E m \in Pulls : pass'[d][m] # "none") => Busy(d)
    <3>. SUFFICES ASSUME NEW d \in Engines, poke'[d] \cap Pulls # {} \/ \E m \in Pulls : pass'[d][m] # "none"
                  PROVE  Busy(d)
      OBVIOUS
    <3>1. \A m \in Loops : pass'[d][m] = pass[d][m] \/ pass[d][m] # "none"
      BY <1>1, <2>1
    <3>. QED
      BY <1>2, <2>1, <3>1 DEF Busy
  <2>. QED
    BY <1>1, <2>1, <2>2, <2>3, PassesKeep
<1>. QED
  BY <1>3, <1>4, <1>5, <1>6 DEF Turn

\* Somebody gets the lock, or nobody has it, and the connection is as it was.
LEMMA SettledKeeps ==
  ASSUME IInv, LockInv', UNCHANGED <<settings, config, client, engine, sockets, builds, loops, pass, cut, torn, stopped, faults>>,
         poke' \in [Engines -> SUBSET Loops],
         Stage' \in {"free", "pull", "check"}, Stage \in {"free", "pull", "check"} \/ (Stage = "read back" /\ settings = config)
  PROVE  IInv'
<1>1. TypeOK'
  BY TypesKept DEF IInv, TypeOK
<1>2. Whole' /\ (~torn => config \in {NoConfig, settings})
  BY DEF IInv, Built, Standing, Whole
<1>3. Built'
  BY <1>2 DEF Built, Rebuilding
<1>4. Spared'
  BY DEF IInv, Spared
<1>. QED
  BY <1>1, <1>3, <1>4 DEF IInv

\* Nobody got the lock, and the connection is as it was.
LEMMA UnmovedKeeps ==
  ASSUME IInv, LockInv', UNCHANGED <<settings, connection, engines, cut, torn, stopped, faults>>,
         Stage' = Stage, lock' = lock, lock # NoRequest => request'[lock] = request[lock]
  PROVE  IInv'
<1>1. TypeOK'
  BY TypesKept DEF IInv, TypeOK, connection, engines
<1>2. lock # NoRequest => Wish' = Wish
  BY DEF Wish
<1>3. Stage # "free" => lock # NoRequest
  BY DEF Stage
<1>4. Built'
  BY <1>2, <1>3 DEF IInv, Built, Rebuilding, Whole, connection
<1>5. Spared'
  BY <1>2, <1>3 DEF IInv, Spared, Refused, Busy, connection, engines
<1>. QED
  BY <1>1, <1>4, <1>5 DEF IInv

LEMMA AskKeeps ==
  ASSUME IInv, NEW r \in Requests,
         \/ \E pulls \in SUBSET Pulls : AskPull(r, pulls)
         \/ \E patch : IsPatch(patch) /\ AskChange(r, patch)
  PROVE  IInv'
<1>1. /\ request[r].at = "new"
      /\ UNCHANGED <<settings, connection, engines, cut, torn, stopped, faults>>
      /\ \E at \in {"pull", "check"} : \E wish :
            wish \in WishWith(wish.patch) /\ (at = "check" => Proposes(wish)) /\ Acquire(r, at, wish)
  <2>1. ASSUME NEW pulls \in SUBSET Pulls, AskPull(r, pulls)
        PROVE  \E at \in {"pull", "check"} : \E wish :
                  wish \in WishWith(wish.patch) /\ (at = "check" => Proposes(wish)) /\ Acquire(r, at, wish)
    <3>. DEFINE wish == [NoWish EXCEPT !.pulls = pulls]
    <3>1. wish \in WishWith(wish.patch)
      BY DEF NoWish, WishWith
    <3>2. Acquire(r, "pull", wish)
      BY <2>1 DEF AskPull
    <3>. HIDE DEF wish
    <3>. QED
      BY <3>1, <3>2
  <2>2. ASSUME NEW patch, IsPatch(patch), AskChange(r, patch)
        PROVE  \E at \in {"pull", "check"} : \E wish :
                  wish \in WishWith(wish.patch) /\ (at = "check" => Proposes(wish)) /\ Acquire(r, at, wish)
    <3>. DEFINE wish == [NoWish EXCEPT !.patch = patch, !.proposed = Patched(settings, patch)]
    <3>1. /\ Patched(settings, patch) \in Configs
          /\ Patched(Patched(settings, patch), patch) = Patched(settings, patch)
      BY <2>2, PatchedSettings DEF IInv, TypeOK
    <3>2. wish \in WishWith(wish.patch) /\ wish.patch = patch /\ wish.proposed = Patched(settings, patch)
      BY <3>1 DEF NoWish, WishWith
    <3>3. Acquire(r, "check", wish)
      BY <2>2 DEF AskChange
    <3>. HIDE DEF wish
    <3>4. Proposes(wish)
      BY <2>2, <3>1, <3>2 DEF Proposes
    <3>. QED
      BY <3>2, <3>3, <3>4
  <2>3. request[r].at = "new" /\ UNCHANGED <<settings, connection, engines, cut, torn, stopped, faults>>
    BY DEF AskPull, AskChange
  <2>. QED
    BY <2>1, <2>2, <2>3
<1>. PICK at \in {"pull", "check"} :
        \E wish : wish \in WishWith(wish.patch) /\ (at = "check" => Proposes(wish)) /\ Acquire(r, at, wish)
  BY <1>1
<1>2. PICK wish :
        wish \in WishWith(wish.patch) /\ (at = "check" => Proposes(wish)) /\ Acquire(r, at, wish)
  BY <1>1
<1>3. /\ LockInv'
      /\ \/ Stage' = Stage /\ lock' = lock /\ (lock # NoRequest => request'[lock] = request[lock])
         \/ Stage = "free" /\ Stage' = at /\ lock' = r
  BY <1>1, <1>2, AcquireKeeps DEF IInv
<1>4. CASE Stage' = Stage /\ lock' = lock /\ (lock # NoRequest => request'[lock] = request[lock])
  BY <1>1, <1>3, <1>4, UnmovedKeeps
<1>5. CASE Stage = "free" /\ Stage' = at
  BY <1>1, <1>3, <1>5, SettledKeeps DEF connection, engines, IInv, TypeOK
<1>. QED
  BY <1>3, <1>4, <1>5

\* What it means to hold the lock somewhere.
LEMMA HoldsIt ==
  ASSUME IInv, NEW r \in Requests, NEW at, Holds(r, at)
  PROVE  lock = r /\ Stage = at /\ Wish = request[r].wish /\ r # NoRequest
BY DEF Holds, Stage, Wish, Requests, NoRequest

\* It goes on there with the same wish.
LEMMA MovesOn ==
  ASSUME IInv, NEW r \in Requests, NEW from \in Changing, Holds(r, from), NEW to \in Changing, At(r, to), UNCHANGED <<lock, queue>>
  PROVE  LockInv' /\ Stage' = to /\ Wish' = Wish /\ request'[r].wish = request[r].wish
<1>. DEFINE q == [request[r] EXCEPT !.at = to]
<1>1. Stage = from /\ lock = r /\ Requested(request[r]) /\ Proposes(request[r].wish)
  BY HoldsIt, Holder DEF IInv, Changing
<1>2. request' = [request EXCEPT ![r] = q]
  BY DEF At
<1>3. Requested(q) /\ q.at = to /\ q.wish = request[r].wish
  BY <1>1 DEF Requested, Changing
<1>4. request[r].at \in Changing
  BY DEF Holds
<1>. HIDE DEF q
<1>5. LockInv' /\ Wish = request[r].wish /\ Wish' = q.wish /\ Stage' = q.at
  BY <1>1, <1>2, <1>3, <1>4, GoesOnKeeps DEF IInv
<1>6. request'[r].wish = q.wish
  BY <1>2 DEF IInv, LockInv, LockTypes
<1>. QED
  BY <1>3, <1>5, <1>6

LEMMA PullKeeps ==
  ASSUME IInv, NEW r \in Requests, Pull(r)
  PROVE  IInv'
<1>1. Holds(r, "pull") /\ Release(r) /\ UNCHANGED <<settings, connection, pass, cut, torn, stopped, faults>>
  BY DEF Pull
<1>2. Stage = "pull" /\ lock = r /\ Wish = request[r].wish /\ LockInv' /\ Stage' \in {"free", "pull", "check"}
  BY <1>1, HoldsIt, ReleaseKeeps DEF IInv
<1>3. Wish.pulls \subseteq Loops
  BY <1>2, Holder DEF IInv, Loops
<1>4. poke' \in [Engines -> SUBSET Loops]
  BY <1>2, <1>3 DEF Pull, IInv, TypeOK
<1>. QED
  BY <1>1, <1>2, <1>4, SettledKeeps DEF connection

LEMMA CheckBusyKeeps ==
  ASSUME IInv, NEW r \in Requests, CheckBusy(r)
  PROVE  IInv'
<1>1. Holds(r, "check") /\ UNCHANGED <<settings, connection, engines, cut, torn, stopped, faults>>
  BY DEF CheckBusy
<1>2. Stage = "check" /\ lock = r
  BY <1>1, HoldsIt
<1>3. CASE Refused(r)
  <2>1. LockInv' /\ Stage' \in {"free", "pull", "check"}
    BY <1>2, <1>3, ReleaseKeeps DEF CheckBusy, IInv
  <2>. QED
    BY <1>1, <1>2, <2>1, SettledKeeps DEF connection, engines, IInv, TypeOK
<1>4. CASE ~Refused(r)
  <2>1. At(r, "write") /\ UNCHANGED <<lock, queue>>
    BY <1>4 DEF CheckBusy
  <2>2. LockInv' /\ Stage' = "write" /\ request'[r].wish = request[r].wish
    BY <1>1, <2>1, MovesOn DEF Changing
  <2>3. TypeOK'
    BY <1>1, <2>2, TypesKept DEF IInv, TypeOK, connection, engines
  <2>4. Built'
    BY <1>1, <1>2, <2>2 DEF IInv, Built, Standing, Rebuilding, Whole, connection
  <2>5. ~Refused(lock)'
    BY <1>1, <1>2, <1>4, <2>1, <2>2 DEF Refused, Busy, connection, engines
  <2>6. Spared'
    BY <1>1, <2>2, <2>5 DEF IInv, Spared
  <2>. QED
    BY <2>2, <2>3, <2>4, <2>6 DEF IInv
<1>. QED
  BY <1>3, <1>4

LEMMA WriteKeeps ==
  ASSUME IInv, NEW r \in Requests, Write(r)
  PROVE  IInv'
<1>1. Holds(r, "write") /\ UNCHANGED <<connection, engines, cut, stopped>>
  BY DEF Write
<1>2. Stage = "write" /\ lock = r /\ Wish = request[r].wish
  BY <1>1, HoldsIt
<1>3. Proposes(Wish)
  BY <1>2, Holder DEF IInv, Changing
<1>4. settings \in Configs /\ config \in Configs \cup {NoConfig} /\ faults \in Nat /\ torn \in BOOLEAN
  BY ConnectionAssumption DEF IInv, TypeOK
<1>5. CASE Sound /\ settings' = Patched(settings, Wish.patch) /\ UNCHANGED torn
           /\ At(r, "read back") /\ UNCHANGED <<lock, queue>>
  <2>1. LockInv' /\ Stage' = "read back"
    BY <1>1, <1>5, MovesOn DEF Changing
  <2>2. settings' \in Configs
    BY <1>3, <1>4, <1>5, PatchedSettings DEF Proposes
  <2>3. TypeOK'
    BY <1>1, <1>5, <2>1, <2>2, TypesKept DEF IInv, TypeOK, connection, engines, Sound
  <2>4. Built'
    BY <1>1, <1>2, <1>5, <2>1 DEF IInv, Built, Standing, Rebuilding, Whole, connection, Sound
  <2>5. ASSUME ~torn, engine # None, Busy(engine)
        PROVE  settings' = config
    <3>1. Wish.proposed = config
      BY <1>2, <2>5 DEF IInv, Spared, Refused
    <3>2. config = settings
      BY <1>2, <1>3, <2>5, <3>1, ConnectionAssumption DEF IInv, Built, Proposes, Configs
    <3>. QED
      BY <1>3, <1>5, <3>1, <3>2 DEF Proposes
  <2>6. Spared'
    BY <1>1, <1>5, <2>1, <2>5 DEF IInv, Spared, Busy, connection, engines
  <2>. QED
    BY <2>1, <2>3, <2>4, <2>6 DEF IInv
<1>6. CASE /\ Fault /\ Release(r)
           /\ \E stored \in SUBSET DOMAIN Wish.patch \ {DOMAIN Wish.patch} :
                 /\ settings' = Patched(settings, [k \in stored |-> Wish.patch[k]])
                 /\ torn' = (torn \/ settings' # settings)
  <2>1. LockInv' /\ Stage' \in {"free", "pull", "check"}
    BY <1>2, <1>6, ReleaseKeeps DEF IInv
  <2>2. PICK stored \in SUBSET DOMAIN Wish.patch :
          /\ settings' = Patched(settings, [k \in stored |-> Wish.patch[k]])
          /\ torn' = (torn \/ settings' # settings)
    BY <1>6
  <2>3. settings' \in Configs
    BY <1>3, <1>4, <2>2, PartOfPatch, PatchedSettings DEF Proposes
  <2>4. faults' = faults + 1 /\ faults' \in 0..MaxFaults /\ faults' # 0
    BY <1>4, <1>6, ConnectionAssumption DEF Fault
  <2>5. torn' \in BOOLEAN
    BY <2>2
  <2>6. TypeOK'
    BY <1>1, <2>1, <2>3, <2>4, <2>5, TypesKept DEF IInv, TypeOK, connection, engines
  <2>7. Whole'
    BY <1>1, <1>2, <2>4 DEF IInv, Built, Standing, Whole, connection
  <2>8. ~torn' => config' \in {NoConfig, settings'}
    BY <1>1, <1>2, <1>4, <2>2 DEF IInv, Built, connection
  <2>9. Built'
    BY <2>1, <2>7, <2>8 DEF Built, Rebuilding
  <2>10. Spared'
    BY <1>1, <1>4, <2>1, <2>2 DEF IInv, Spared
  <2>. QED
    BY <2>1, <2>6, <2>9, <2>10 DEF IInv
<1>. QED
  BY <1>2, <1>5, <1>6 DEF Write

LEMMA ReadBackKeeps ==
  ASSUME IInv, NEW r \in Requests, ReadBack(r)
  PROVE  IInv'
<1>1. Holds(r, "read back") /\ UNCHANGED <<settings, config, sockets, loops, builds, engines, cut, torn, stopped, faults>>
  BY DEF ReadBack
<1>2. Stage = "read back" /\ lock = r /\ Wish = request[r].wish
  BY <1>1, HoldsIt
<1>3. CASE settings = config
  <2>1. LockInv' /\ Stage' \in {"free", "pull", "check"} /\ UNCHANGED <<client, engine>>
    BY <1>2, <1>3, ReleaseKeeps DEF ReadBack, IInv
  <2>. QED
    BY <1>1, <1>2, <1>3, <2>1, SettledKeeps DEF engines, IInv, TypeOK
<1>4. CASE settings # config
  <2>. DEFINE wish == [request[r].wish EXCEPT !.client = client, !.engine = engine, !.to = settings]
              q == [at |-> "stop engine", then |-> request[r].then, wish |-> wish]
  <2>1. Requested(request[r]) /\ Proposes(request[r].wish) /\ request[r].at = "read back"
    BY <1>2, Holder DEF IInv, Changing
  <2>2. /\ wish \in WishWith(wish.patch) /\ Proposes(wish)
        /\ wish.client = client /\ wish.engine = engine /\ wish.to = settings
    BY <2>1 DEF IInv, TypeOK, Requested, WishWith, Proposes
  <2>3. request' = [request EXCEPT ![r] = q] /\ client' = None /\ engine' = None /\ UNCHANGED <<lock, queue>>
    <3>1. /\ request' = [request EXCEPT ![r].at = "stop engine", ![r].wish.client = client,
                                        ![r].wish.engine = engine, ![r].wish.to = settings]
          /\ client' = None /\ engine' = None /\ UNCHANGED <<lock, queue>>
      BY <1>4 DEF ReadBack
    <3>2. request[r] = [at |-> request[r].at, then |-> request[r].then, wish |-> request[r].wish]
      BY <2>1 DEF Requested
    <3>3. /\ request' = [s \in Requests |-> request'[s]]
          /\ \A s \in Requests : s # r => request'[s] = request[s]
          /\ request'[r] = q
      BY <3>1, <3>2 DEF IInv, LockInv, LockTypes
    <3>. HIDE DEF q
    <3>4. request' = [request EXCEPT ![r] = q]
      BY <3>3 DEF IInv, LockInv, LockTypes
    <3>. QED
      BY <3>1, <3>4
  <2>. HIDE DEF wish
  <2>4. Requested(q) /\ q.at = "stop engine" /\ q.wish = wish
    BY <2>1, <2>2 DEF Requested, Changing
  <2>. HIDE DEF q
  <2>5. LockInv' /\ Stage' = "stop engine" /\ Wish' = wish
    BY <1>2, <2>1, <2>3, <2>4, GoesOnKeeps DEF IInv, Changing
  <2>6. TypeOK'
    BY <1>1, <2>3, <2>5, TypesKept DEF IInv, TypeOK, engines
  <2>7. Built'
    BY <1>1, <1>2, <2>2, <2>3, <2>5 DEF IInv, Built, Standing, Rebuilding, Whole
  <2>8. Spared'
    BY <1>1, <1>2, <1>4, <2>2, <2>3, <2>5 DEF IInv, Spared, Busy, engines
  <2>. QED
    BY <2>5, <2>6, <2>7, <2>8 DEF IInv
<1>. QED
  BY <1>3, <1>4

LEMMA StopEngineKeeps ==
  ASSUME IInv, NEW r \in Requests, StopEngine(r)
  PROVE  IInv'
<1>1. /\ Holds(r, "stop engine") /\ At(r, "stop client")
      /\ UNCHANGED <<settings, config, client, engine, sockets, builds, poke, lock, queue, torn, stopped>>
  BY DEF StopEngine
<1>2. Stage = "stop engine" /\ lock = r /\ Wish = request[r].wish
  BY <1>1, HoldsIt
<1>3. LockInv' /\ Stage' = "stop client" /\ Wish' = Wish
  BY <1>1, MovesOn DEF Changing
<1>4. faults \in Nat /\ cut \in BOOLEAN /\ pass \in [Engines -> [Loops -> {"none", "waiting", "running"}]] /\ loops \subseteq Engines
  BY ConnectionAssumption DEF IInv, TypeOK
<1>5. /\ faults' \in 0..MaxFaults /\ cut' \in BOOLEAN /\ loops' \subseteq Engines
      /\ pass' \in [Engines -> [Loops -> {"none", "waiting", "running"}]]
      /\ faults' = 0 => loops' = {}
      /\ cut' => cut \/ torn
  <2>1. CASE Wish.engine = None
    <3>1. UNCHANGED <<loops, pass, cut, faults>>
      BY <1>2, <2>1 DEF StopEngine, Sound
    <3>2. faults = 0 => loops = {}
      BY <1>2, <2>1 DEF IInv, Built
    <3>. QED
      BY <1>4, <3>1, <3>2 DEF IInv, TypeOK
  <2>2. CASE Wish.engine # None
    <3>1. Cancel(Wish.engine)
      BY <1>2, <2>2 DEF StopEngine
    <3>2. cut' \in BOOLEAN /\ (cut' => cut \/ torn)
      BY <1>2, <1>4, <2>2, <3>1 DEF Cancel, IInv, Spared
    <3>3. CASE Sound /\ loops' = {} /\ pass' = [d \in Engines |-> [l \in Loops |-> "none"]]
      BY <3>2, <3>3 DEF Sound, IInv, TypeOK
    <3>4. CASE Fault /\ UNCHANGED <<loops, pass>>
      BY <1>4, <3>2, <3>4, ConnectionAssumption DEF Fault
    <3>. QED
      BY <3>1, <3>3, <3>4 DEF Cancel
  <2>. QED
    BY <2>1, <2>2
<1>6. TypeOK'
  BY <1>1, <1>3, <1>5, TypesKept DEF IInv, TypeOK
<1>7. Built'
  BY <1>1, <1>2, <1>3, <1>5 DEF IInv, Built, Standing, Rebuilding
<1>8. Spared'
  BY <1>1, <1>3, <1>5 DEF IInv, Spared
<1>. QED
  BY <1>3, <1>6, <1>7, <1>8 DEF IInv

LEMMA StopClientKeeps ==
  ASSUME IInv, NEW r \in Requests, StopClient(r)
  PROVE  IInv'
<1>1. /\ Holds(r, "stop client") /\ At(r, "build") /\ sockets' = sockets \ {request[r].wish.client}
      /\ UNCHANGED <<settings, config, client, engine, loops, builds, engines, lock, queue, cut, torn, stopped, faults>>
  BY DEF StopClient
<1>2. Stage = "stop client" /\ lock = r /\ Wish = request[r].wish
  BY <1>1, HoldsIt
<1>3. LockInv' /\ Stage' = "build" /\ Wish' = Wish
  BY <1>1, MovesOn DEF Changing
<1>4. sockets' = {}
  BY <1>1, <1>2 DEF IInv, Built
<1>5. TypeOK'
  BY <1>1, <1>3, <1>4, TypesKept DEF IInv, TypeOK, engines
<1>6. Built'
  BY <1>1, <1>2, <1>3, <1>4 DEF IInv, Built, Standing, Rebuilding
<1>7. Spared'
  BY <1>1, <1>3 DEF IInv, Spared
<1>. QED
  BY <1>3, <1>5, <1>6, <1>7 DEF IInv

LEMMA BuildKeeps ==
  ASSUME IInv, NEW r \in Requests, Build(r)
  PROVE  IInv'
<1>1. Holds(r, "build") /\ UNCHANGED <<settings, client, engine, loops, engines, cut, torn, stopped>>
  BY DEF Build
<1>2. Stage = "build" /\ lock = r /\ Wish = request[r].wish
  BY <1>1, HoldsIt
<1>3. /\ Wish.to = settings /\ settings \in Configs /\ settings # NoConfig /\ client = None /\ engine = None
      /\ sockets = {} /\ (faults = 0 => loops = {}) /\ faults \in Nat /\ builds \in 0..MaxBuilds /\ loops \subseteq Engines
  BY <1>2, ConnectionAssumption DEF IInv, Built, Rebuilding, TypeOK, Configs
<1>4. CASE Wish.to.host = NoHost /\ config' = Wish.to /\ Release(r) /\ Sound /\ UNCHANGED <<sockets, builds>>
  <2>1. LockInv' /\ Stage' \in {"free", "pull", "check"}
    BY <1>2, <1>4, ReleaseKeeps DEF IInv
  <2>2. TypeOK'
    BY <1>1, <1>3, <1>4, <2>1, TypesKept DEF IInv, TypeOK, Sound, engines
  <2>3. Whole' /\ config' = settings'
    BY <1>1, <1>3, <1>4 DEF Whole, Sound
  <2>4. Built'
    BY <2>1, <2>3 DEF Built, Rebuilding
  <2>5. Spared'
    BY <1>1, <2>1 DEF IInv, Spared
  <2>. QED
    BY <2>1, <2>2, <2>4, <2>5 DEF IInv
<1>5. CASE /\ Wish.to.host # NoHost /\ builds < MaxBuilds /\ builds' = builds + 1
           /\ Sound /\ sockets' = sockets \cup {builds'} /\ UNCHANGED <<config, lock, queue>> /\ At(r, "start engine")
  <2>1. LockInv' /\ Stage' = "start engine" /\ Wish' = Wish
    BY <1>1, <1>5, MovesOn DEF Changing
  <2>2. builds' \in Engines /\ builds' \in 0..MaxBuilds /\ sockets' = {builds'}
    <3>1. builds' \in Engines /\ builds' \in 0..MaxBuilds
      <4>1. builds \in 0..MaxBuilds /\ builds < MaxBuilds /\ builds' = builds + 1
        BY <1>3, <1>5
      <4>2. MaxBuilds \in Nat
        BY ConnectionAssumption
      <4>. QED
        BY <4>1, <4>2 DEF Engines
    <3>. QED
      BY <1>3, <1>5, <3>1
  <2>3. TypeOK'
    BY <1>1, <1>5, <2>1, <2>2, TypesKept DEF IInv, TypeOK, Sound, engines
  <2>4. Built'
    BY <1>1, <1>3, <1>5, <2>1, <2>2 DEF Built, Standing, Rebuilding, Sound
  <2>5. Spared'
    BY <1>1, <2>1 DEF IInv, Spared
  <2>. QED
    BY <2>1, <2>3, <2>4, <2>5 DEF IInv
<1>6. CASE /\ Wish.to.host # NoHost /\ builds < MaxBuilds /\ builds' = builds + 1
           /\ Fault /\ config' = NoConfig /\ UNCHANGED sockets /\ Release(r)
  <2>1. LockInv' /\ Stage' \in {"free", "pull", "check"}
    BY <1>2, <1>6, ReleaseKeeps DEF IInv
  <2>2. builds' \in 0..MaxBuilds /\ faults' \in 0..MaxFaults /\ faults' # 0
    BY <1>3, <1>6, ConnectionAssumption DEF Fault
  <2>3. TypeOK'
    BY <1>1, <1>6, <2>1, <2>2, TypesKept DEF IInv, TypeOK, engines
  <2>4. Whole'
    BY <1>1, <1>3, <1>6, <2>2 DEF Whole
  <2>5. Built'
    BY <1>6, <2>1, <2>4 DEF Built, Rebuilding
  <2>6. Spared'
    BY <1>1, <2>1 DEF IInv, Spared
  <2>. QED
    BY <2>1, <2>3, <2>5, <2>6 DEF IInv
<1>. QED
  BY <1>2, <1>4, <1>5, <1>6 DEF Build

LEMMA StartEngineKeeps ==
  ASSUME IInv, NEW r \in Requests, StartEngine(r)
  PROVE  IInv'
<1>1. Holds(r, "start engine") /\ Release(r) /\ UNCHANGED <<settings, builds, pass, cut, torn, stopped>>
  BY DEF StartEngine
<1>2. Stage = "start engine" /\ lock = r /\ Wish = request[r].wish
  BY <1>1, HoldsIt
<1>3. LockInv' /\ Stage' \in {"free", "pull", "check"}
  BY <1>1, <1>2, ReleaseKeeps DEF IInv
<1>4. /\ Wish.to = settings /\ settings \in Configs /\ settings # NoConfig /\ settings.host # NoHost
      /\ client = None /\ engine = None /\ builds \in Engines /\ builds # None /\ sockets = {builds}
      /\ (faults = 0 => loops = {}) /\ faults \in 0..MaxFaults /\ faults \in Nat
      /\ poke \in [Engines -> SUBSET Loops] /\ "identity" \in Loops
  <2>1. /\ Wish.to = settings /\ settings \in Configs /\ settings.host # NoHost
        /\ client = None /\ engine = None /\ builds \in Engines /\ sockets = {builds}
        /\ (faults = 0 => loops = {}) /\ faults \in 0..MaxFaults /\ poke \in [Engines -> SUBSET Loops]
    BY <1>2 DEF IInv, Built, Rebuilding, TypeOK
  <2>2. settings # NoConfig
    BY <2>1, ConnectionAssumption DEF Configs
  <2>3. builds # None
    BY <2>1, ConnectionAssumption DEF Engines, None
  <2>4. faults \in Nat
    BY <2>1, ConnectionAssumption
  <2>. QED
    BY <2>1, <2>2, <2>3, <2>4 DEF Loops
<1>5. CASE /\ loops = {} /\ Sound /\ loops' = {builds} /\ client' = builds /\ engine' = builds
           /\ config' = Wish.to /\ poke' = [poke EXCEPT ![builds] = {"identity"}] /\ UNCHANGED sockets
  <2>1. poke' \in [Engines -> SUBSET Loops]
    BY <1>4, <1>5
  <2>2. TypeOK'
    BY <1>1, <1>3, <1>4, <1>5, <2>1, TypesKept DEF IInv, TypeOK, Sound
  <2>3. /\ sockets' = {client'} \ {None} /\ engine' = client' /\ loops' = {engine'} \ {None}
        /\ client' # None /\ config' = settings' /\ config' # NoConfig /\ config'.host # NoHost
    <3>1. client' = builds /\ engine' = builds /\ loops' = {builds} /\ sockets' = {builds} /\ builds # None
      BY <1>4, <1>5
    <3>2. config' = settings /\ settings' = settings
      BY <1>1, <1>4, <1>5
    <3>3. config' # NoConfig /\ config'.host # NoHost
      BY <1>4, <3>2
    <3>. QED
      BY <3>1, <3>2, <3>3
  <2>4. Built'
    <3>1. Whole'
      BY <2>3 DEF Whole
    <3>. QED
      BY <1>3, <2>3, <3>1 DEF Built, Rebuilding
  <2>5. Spared'
    BY <1>1, <1>3 DEF IInv, Spared
  <2>. QED
    BY <1>3, <2>2, <2>4, <2>5 DEF IInv
<1>6. CASE /\ loops # {} \/ faults < MaxFaults
           /\ IF loops = {} THEN Fault ELSE Sound
           /\ Failed /\ UNCHANGED <<client, engine, poke>>
  <2>1. config' = NoConfig /\ sockets' = {} /\ loops' = {}
    BY <1>4, <1>6 DEF Failed
  <2>2. faults' \in 0..MaxFaults
    BY <1>4, <1>6, ConnectionAssumption DEF Fault, Sound
  <2>3. TypeOK'
    BY <1>1, <1>3, <1>6, <2>1, <2>2, TypesKept DEF IInv, TypeOK
  <2>4. Whole'
    BY <1>4, <1>6, <2>1 DEF Whole
  <2>5. Built'
    BY <1>3, <2>1, <2>4 DEF Built, Rebuilding
  <2>6. Spared'
    BY <1>1, <1>3 DEF IInv, Spared
  <2>. QED
    BY <1>3, <2>3, <2>5, <2>6 DEF IInv
<1>. QED
  BY <1>2, <1>5, <1>6 DEF StartEngine

LEMMA StopKeeps ==
  ASSUME IInv, NEW r \in Requests, Stop(r)
  PROVE  IInv'
<1>1. /\ lock = NoRequest /\ request[r].at = "new" /\ request' = Done(r)
      /\ stopped' = TRUE /\ config' = NoConfig /\ client' = None /\ engine' = None /\ sockets' = {} /\ loops' = {}
      /\ pass' = [d \in Engines |-> [l \in Loops |-> "none"]] /\ poke' = [d \in Engines |-> {}]
      /\ UNCHANGED <<settings, builds, lock, queue, cut, torn, faults>>
  BY DEF Stop
<1>2. LockInv'
  <2>. DEFINE done == [at |-> "done", then |-> "done", wish |-> NoWish]
  <2>1. Requested(done) /\ done.at = "done"
    BY Answered
  <2>2. request' = [request EXCEPT ![r] = done] /\ request = [s \in Requests |-> request[s]]
    BY <1>1 DEF Done, IInv, LockInv, LockTypes
  <2>. HIDE DEF done
  <2>3. /\ request' = [s \in Requests |-> request'[s]] /\ request'[r] = done
        /\ \A s \in Requests : s # r => request'[s] = request[s]
    BY <2>2
  <2>4. LockTypes' /\ EachOnce'
    BY <1>1, <2>3 DEF IInv, LockInv, LockTypes, EachOnce
  <2>5. Asking'
    BY <2>1, <2>3 DEF IInv, LockInv, Asking
  <2>6. OneHasIt'
    <3>1. r # NoRequest
      BY DEF Requests, NoRequest
    <3>. QED
      BY <1>1, <2>1, <2>3, <3>1 DEF IInv, LockInv, OneHasIt, Changing
  <2>7. Waiters'
    BY <1>1, <2>1, <2>3 DEF IInv, LockInv, Waiters
  <2>. QED
    BY <2>4, <2>5, <2>6, <2>7 DEF LockInv
<1>3. Stage' = "free"
  BY <1>1 DEF Stage
<1>4. TypeOK'
  BY <1>1, <1>2, TypesKept DEF IInv, TypeOK
<1>5. Built'
  BY <1>1, <1>3 DEF Built, Rebuilding, Whole
<1>6. Spared'
  BY <1>1, <1>3 DEF IInv, Spared
<1>. QED
  BY <1>2, <1>4, <1>5, <1>6 DEF IInv

LEMMA ServeKeeps ==
  ASSUME IInv, NEW r \in Requests, Serve(r)
  PROVE  IInv'
BY PullKeeps, CheckBusyKeeps, WriteKeeps, ReadBackKeeps, StopEngineKeeps, StopClientKeeps, BuildKeeps, StartEngineKeeps DEF Serve

-----------------------------------------------------------------------------
(* The connection by itself. *)

LEMMA InitInvariant == Init => IInv
<1>. SUFFICES ASSUME Init
              PROVE  IInv
  OBVIOUS
<1>1. /\ settings \in Configs /\ config = settings /\ lock = NoRequest /\ queue = <<>> /\ stopped = FALSE
      /\ client = (IF settings.host = NoHost THEN None ELSE 1) /\ engine = client /\ builds = client
      /\ sockets = {client} \ {None} /\ loops = sockets /\ faults = 0 /\ cut = FALSE /\ torn = FALSE
  BY DEF Init
<1>2. \A r \in Requests : request[r] = [at |-> "new", then |-> "new", wish |-> NoWish]
  BY DEF Init
<1>3. LockInv
  <2>1. LockTypes /\ EachOnce
    BY <1>1 DEF Init, LockTypes, EachOnce
  <2>2. Asking
    BY <1>2, Answered DEF Asking
  <2>3. OneHasIt
    <3>1. \A r \in Requests : r # lock /\ request[r].at = "new"
      BY <1>1, <1>2 DEF Requests, NoRequest
    <3>. QED
      BY <3>1 DEF OneHasIt, Changing
  <2>4. Waiters
    BY <1>1, <1>2 DEF Waiters
  <2>. QED
    BY <2>1, <2>2, <2>3, <2>4 DEF LockInv
<1>4. TypeOK
  <2>1. 1 \in Engines /\ builds \in 0..MaxBuilds /\ client \in Engines \cup {None}
    BY <1>1, ConnectionAssumption DEF Engines, None
  <2>2. poke \in [Engines -> SUBSET Loops] /\ pass \in [Engines -> [Loops -> {"none", "waiting", "running"}]]
    BY DEF Init, Loops
  <2>3. sockets \subseteq Engines /\ loops \subseteq Engines
    BY <1>1, <2>1
  <2>4. faults \in 0..MaxFaults
    BY <1>1, ConnectionAssumption
  <2>. QED
    BY <1>1, <1>3, <2>1, <2>2, <2>3, <2>4 DEF TypeOK, LockInv, LockTypes
<1>5. Built /\ Spared
  <2>1. Stage = "free"
    BY <1>1 DEF Stage
  <2>2. Whole
    BY <1>1, ConnectionAssumption DEF Whole, None, Configs
  <2>. QED
    BY <1>1, <2>1, <2>2 DEF Built, Rebuilding, Spared
<1>. QED
  BY <1>3, <1>4, <1>5 DEF IInv

LEMMA StepInvariant == IInv /\ [Next]_vars => IInv'
<1>. SUFFICES ASSUME IInv, [Next]_vars
              PROVE  IInv'
  OBVIOUS
<1>1. ASSUME NEW r \in Requests, Ask(r)
      PROVE  IInv'
  <2>1. ASSUME NEW pulls \in {{"shots"}, {"profiles"}, Pulls}, AskPull(r, pulls)
        PROVE  IInv'
    <3>1. pulls \in SUBSET Pulls
      BY DEF Pulls
    <3>. QED
      BY <2>1, <3>1, AskKeeps
  <2>2. ASSUME NEW patch \in Patches, AskChange(r, patch)
        PROVE  IInv'
    BY <2>2, AskKeeps, ConnectionAssumption
  <2>3. CASE Stop(r)
    BY <2>3, StopKeeps
  <2>. QED
    BY <1>1, <2>1, <2>2, <2>3 DEF Ask
<1>2. ASSUME NEW r \in Requests, Serve(r)
      PROVE  IInv'
  BY <1>2, ServeKeeps
<1>3. ASSUME NEW e \in Engines, Connected(e) \/ Over(e) \/ \E l \in Loops : Turn(e, l) \/ TakeLock(e, l)
      PROVE  IInv'
  BY <1>3, EngineStepKeeps
<1>4. CASE UNCHANGED vars
  <2>1. /\ UNCHANGED <<Data, lock, queue, request, stopped, loops>> /\ UNCHANGED <<poke, pass>>
    BY <1>4 DEF vars, Data, connection, engines
  <2>. QED
    BY <2>1, PassesKeep DEF IInv, TypeOK, Busy
<1>. QED
  BY <1>1, <1>2, <1>3, <1>4 DEF Next

LEMMA Invariance == Spec => []IInv
BY InitInvariant, StepInvariant, PTL DEF Spec

\* What the invariant says of the connection.
LEMMA Consequences == IInv => ConnectionOK /\ PullsUncut
<1>. SUFFICES ASSUME IInv
              PROVE  ConnectionOK /\ PullsUncut
  OBVIOUS
<1>1. Stage \in Standing \cup Rebuilding
  BY Holder DEF IInv, Stage, Standing, Rebuilding, Changing
<1>2. \E e : sockets \subseteq {e}
  BY <1>1 DEF IInv, Built, Whole, Standing, Rebuilding
<1>3. Cardinality(sockets) <= 1
  <2>1. PICK e : sockets \subseteq {e}
    BY <1>2
  <2>2. IsFiniteSet({e}) /\ Cardinality({e}) = 1
    BY FS_Singleton
  <2>. QED
    BY <2>1, <2>2, FS_Subset
<1>4. AsSettings
  BY DEF IInv, Built, AsSettings, Stage
<1>5. WholeOrAbsent
  BY <1>3 DEF IInv, Built, Whole, WholeOrAbsent, Stage, Standing
<1>. QED
  BY <1>4, <1>5 DEF IInv, ConnectionOK, Spared, PullsUncut

\* A change of the machine's settings never cuts a pull, and whenever nobody is changing it the connection
\* is whole or plainly absent and what the settings say (`DeviceConnection.update`, `current_engine`).
THEOREM ConnectionIsWhole == Spec => [](ConnectionOK /\ PullsUncut)
BY Invariance, Consequences, PTL

-----------------------------------------------------------------------------
(* The link: what its numbers mean. *)

LEMMA ServedFinite == IsFiniteSet(Served) /\ Cardinality(Served) \in 0..MaxCalls
<1>1. IsFiniteSet(Calls) /\ Cardinality(Calls) = MaxCalls
  BY LinkAssumption, FS_Interval DEF Calls
<1>2. Served \subseteq Calls
  BY DEF Served
<1>3. IsFiniteSet(Served) /\ Cardinality(Served) <= MaxCalls
  BY <1>1, <1>2, FS_Subset
<1>. QED
  BY <1>3, FS_CardinalityType, LinkAssumption

\* The same of the next state.
LEMMA ServedFiniteNext == IsFiniteSet(Served') /\ Cardinality(Served') \in 0..MaxCalls
<1>1. IsFiniteSet(Calls) /\ Cardinality(Calls) = MaxCalls
  BY LinkAssumption, FS_Interval DEF Calls
<1>2. Served' \subseteq Calls
  BY DEF Served
<1>3. IsFiniteSet(Served') /\ Cardinality(Served') <= MaxCalls
  BY <1>1, <1>2, FS_Subset
<1>. QED
  BY <1>3, FS_CardinalityType, LinkAssumption

\* A process has a number that is one, and no number says that none was reported.
LEMMA ProcessIsOne ==
  ASSUME LinkTypes, Numbered
  PROVE  machine.process \in Processes /\ 0 \in Processes /\ NotReported \notin Processes
<1>1. /\ machine.process \in Nat /\ count.processes \in Nat /\ count.touches \in 0..MaxTouches
      /\ machine.process <= count.processes /\ count.processes <= count.touches + Cardinality(Served)
  <2>1. machine \in Machines /\ count \in Counts
    BY DEF LinkTypes
  <2>. QED
    BY <2>1 DEF Numbered, Machines, Counts
<1>. QED
  BY <1>1, ServedFinite, LinkAssumption DEF Processes, NotReported

\* A step that sends nothing and serves no frame.
LEMMA NumberedKept ==
  ASSUME LinkTypes, LinkTypes', Numbered, out' = out \/ out' = <<>>,
         \A c \in Calls : call[c].at \in Begun => call'[c].at \in Begun,
         machine'.process <= count'.processes,
         count'.processes + count.touches <= count.processes + count'.touches
  PROVE  Numbered'
<1>1. \A i \in 1..Len(out') : i \in 1..Len(out) /\ out'[i] = out[i]
  OBVIOUS
<1>2. \A i \in 1..Len(out) : out[i].of \in Calls
  <2>1. \A i \in 1..Len(out) : out[i] \in Sent
    BY ElementOfSeq DEF LinkTypes
  <2>. QED
    BY <2>1 DEF Sent
<1>3. Served \subseteq Served'
  BY <1>1 DEF Served
<1>4. Cardinality(Served) <= Cardinality(Served')
  BY <1>3, ServedFiniteNext, FS_Subset
<1>5. /\ count.processes \in Nat /\ count'.processes \in Nat /\ count.touches \in Nat /\ count'.touches \in Nat
      /\ Cardinality(Served) \in Nat /\ Cardinality(Served') \in Nat
      /\ count.processes <= count.touches + Cardinality(Served)
  <2>1. count \in Counts /\ count' \in Counts
    BY DEF LinkTypes
  <2>. QED
    BY <2>1, ServedFinite, ServedFiniteNext, LinkAssumption DEF Counts, Numbered
<1>6. count'.processes <= count'.touches + Cardinality(Served')
  BY <1>4, <1>5
<1>7. \A i \in 1..Len(out') : call'[out'[i].of].at \in Begun
  BY <1>1, <1>2 DEF Numbered
<1>8. \A i, j \in 1..Len(out') : out'[i].of = out'[j].of => i = j
  BY <1>1 DEF Numbered
<1>. QED
  BY <1>6, <1>7, <1>8 DEF Numbered

-----------------------------------------------------------------------------
(* The steps of the link. *)

\* No step of the link changes the connection, and it runs beside the calls.
AtCalls == scene = "calls" /\ UNCHANGED scene /\ UNCHANGED sockets

\* What the invariant of the link says of the numbers.
LEMMA LinkParts ==
  ASSUME LinkInv
  PROVE  /\ LinkTypes /\ link \in Links /\ machine \in Machines /\ count \in Counts /\ call \in [Calls -> CallSet]
         /\ out \in Seq(Sent) /\ in \in Seq(Received) /\ shown \in [Engines -> Statuses]
         /\ link.at # "stopped" => link.of # None
         /\ link.conn \in Nat /\ machine.process \in Nat /\ machine.mode \in Modes
         /\ count.drops \in 0..MaxDrops /\ count.touches \in 0..MaxTouches /\ count.processes \in Nat
         /\ count.drops \in Nat /\ count.touches \in Nat
         /\ machine.process <= count.processes
         /\ link.conn <= count.drops + 1 /\ (link.at \in {"connecting", "broken", "closing", "backoff"} => link.conn <= count.drops)
<1>1. LinkTypes /\ Numbered /\ Redialled /\ (link.of = None => link = Idle)
  BY DEF LinkInv
<1>2. /\ link \in Links /\ machine \in Machines /\ count \in Counts /\ call \in [Calls -> CallSet]
      /\ out \in Seq(Sent) /\ in \in Seq(Received) /\ shown \in [Engines -> Statuses]
  BY <1>1 DEF LinkTypes
<1>3. link.at # "stopped" => link.of # None
  BY <1>1 DEF Idle
<1>4. link.conn \in Nat /\ machine.process \in Nat /\ machine.mode \in Modes
  BY <1>2 DEF Links, Machines
<1>5. count.drops \in 0..MaxDrops /\ count.touches \in 0..MaxTouches /\ count.processes \in Nat
  BY <1>2 DEF Counts
<1>6. count.drops \in Nat /\ count.touches \in Nat
  BY <1>5, LinkAssumption
<1>7. machine.process <= count.processes
  BY <1>1 DEF Numbered
<1>8. link.conn <= count.drops + 1 /\ (link.at \in {"connecting", "broken", "closing", "backoff"} => link.conn <= count.drops)
  <2>1. CASE link.at \in {"up", "stopping", "cut short", "stopped"}
    <3>1. link.conn <= count.drops + 1
      BY <1>1, <2>1 DEF Redialled
    <3>. QED
      BY <2>1, <3>1
  <2>2. CASE link.at \notin {"up", "stopping", "cut short", "stopped"}
    <3>1. link.conn <= count.drops + 0
      BY <1>1, <2>2 DEF Redialled
    <3>. QED
      BY <1>4, <1>6, <3>1
  <2>. QED
    BY <2>1, <2>2
<1>. QED
  BY <1>1, <1>2, <1>3, <1>4, <1>5, <1>6, <1>7, <1>8

LEMMA LinkMoves ==
  ASSUME NEW l \in Links, NEW place \in Places
  PROVE  /\ [l EXCEPT !.at = place] \in Links /\ [l EXCEPT !.at = place].at = place
         /\ [l EXCEPT !.at = place].of = l.of /\ [l EXCEPT !.at = place].conn = l.conn
BY DEF Links

LEMMA CountsUp ==
  ASSUME NEW n \in Counts
  PROVE  /\ n.drops < MaxDrops => [n EXCEPT !.drops = @ + 1] \in Counts
         /\ n.touches < MaxTouches => [n EXCEPT !.touches = @ + 1] \in Counts
         /\ n.touches < MaxTouches => [n EXCEPT !.touches = @ + 1, !.processes = @ + 1] \in Counts
         /\ [n EXCEPT !.processes = @ + 1] \in Counts
<1>1. n.drops \in 0..MaxDrops /\ n.touches \in 0..MaxTouches /\ n.processes \in Nat
  BY DEF Counts
<1>2. n.drops < MaxDrops => n.drops + 1 \in 0..MaxDrops
  BY <1>1, LinkAssumption
<1>3. n.touches < MaxTouches => n.touches + 1 \in 0..MaxTouches
  BY <1>1, LinkAssumption
<1>4. n.processes + 1 \in Nat
  BY <1>1
<1>5. n.drops < MaxDrops => [n EXCEPT !.drops = @ + 1] \in Counts
  BY <1>2 DEF Counts
<1>6. n.touches < MaxTouches => [n EXCEPT !.touches = @ + 1] \in Counts
  BY <1>3 DEF Counts
<1>7. n.touches < MaxTouches => [n EXCEPT !.touches = @ + 1, !.processes = @ + 1] \in Counts
  BY <1>3, <1>4 DEF Counts
<1>8. [n EXCEPT !.processes = @ + 1] \in Counts
  BY <1>4 DEF Counts
<1>. QED
  BY <1>5, <1>6, <1>7, <1>8

\* Where somebody may wait for an answer.
Live == {"up", "broken", "closing", "stopping", "cut short"}

\* A step of the supervisor to another place, at which nobody begins to wait.
LEMMA MovingKeeps ==
  ASSUME LinkInv, Looked, AtCalls, UNCHANGED <<box, shown>>, out' \in {out, <<>>}, in' \in {in, <<>>},
         NEW place \in Places, link' = [link EXCEPT !.at = place], link.at # "stopped",
         count' = count \/ Dropped, Redialled',
         call' \in [Calls -> CallSet], \A c \in Calls : call[c].at \in Begun => call'[c].at \in Begun,
         call' = call \/ \A c \in Calls : call'[c].at # "waiting",
         place \in Live \/ \A c \in Calls : call'[c].at # "waiting"
  PROVE  LinkInv' /\ Looked'
<1>1. link.of # None
  BY LinkParts
<1>2. link' \in Links /\ link'.of = link.of /\ link'.conn = link.conn /\ link'.at = place
  <2>1. link \in Links
    BY LinkParts
  <2>. QED
    BY <2>1, LinkMoves
<1>3. count' \in Counts /\ count'.touches = count.touches /\ count'.processes = count.processes
  <2>1. count \in Counts
    BY LinkParts
  <2>2. CASE Dropped
    <3>1. count.drops < MaxDrops /\ count' = [count EXCEPT !.drops = @ + 1]
      BY <2>2 DEF Dropped
    <3>2. count' \in Counts
      BY <2>1, <3>1, CountsUp
    <3>. QED
      BY <2>1, <3>1, <3>2 DEF Counts
  <2>. QED
    BY <2>1, <2>2
<1>4. out' \in Seq(Sent) /\ in' \in Seq(Received)
  <2>1. (out' = out \/ out' = <<>>) /\ (in' = in \/ in' = <<>>)
    OBVIOUS
  <2>2. out \in Seq(Sent) /\ in \in Seq(Received) /\ <<>> \in Seq(Sent) /\ <<>> \in Seq(Received)
    BY LinkParts
  <2>. QED
    BY <2>1, <2>2
<1>5. LinkTypes'
  BY <1>2, <1>3, <1>4, LinkParts DEF LinkTypes, AtCalls, box
<1>6. Numbered'
  <2>1. machine' = machine /\ machine.process <= count.processes
    BY LinkParts DEF box
  <2>2. count.touches \in Nat /\ count.processes \in Nat
    BY LinkParts
  <2>3. machine'.process <= count'.processes /\ count'.processes + count.touches <= count.processes + count'.touches
    BY <1>3, <2>1, <2>2
  <2>4. out' = out \/ out' = <<>>
    OBVIOUS
  <2>. QED
    BY <1>5, <2>3, <2>4, NumberedKept DEF LinkInv
<1>8. NobodyWaitsInVain'
  <2>1. CASE call' = call /\ place \in Live
    BY <1>2, <2>1 DEF LinkInv, NobodyWaitsInVain, Live
  <2>2. CASE \A c \in Calls : call'[c].at # "waiting"
    BY <2>2 DEF NobodyWaitsInVain
  <2>. QED
    BY <2>1, <2>2
<1>9. OneLink' /\ scene' = "calls"
  <2>1. OneLink /\ scene = "calls" /\ scene' = scene /\ sockets' = sockets
    BY DEF LinkInv, AtCalls
  <2>. QED
    BY <1>2, <2>1 DEF OneLink
<1>10. Looked'
  <2>1. CASE out' = out
    BY <2>1 DEF Looked
  <2>2. CASE out' = <<>>
    BY <2>2 DEF Looked
  <2>. QED
    BY <2>1, <2>2
<1>. QED
  BY <1>1, <1>2, <1>5, <1>6, <1>8, <1>9, <1>10 DEF LinkInv
\* The supervisor goes on, and the socket may be lost.
LEMMA SupervisorKeeps ==
  ASSUME LinkInv, Looked, AtCalls, Refuse \/ Notice \/ Again \/ Stopping \/ Drop
  PROVE  LinkInv' /\ Looked'
<1>0. UNCHANGED <<box, shown>> /\ call' = call /\ out' \in {out, <<>>} /\ in' \in {in, <<>>}
  BY DEF Refuse, Notice, Again, Stopping, Drop
<1>1. /\ UNCHANGED <<box, shown>> /\ call' = call /\ out' \in {out, <<>>} /\ in' \in {in, <<>>}
      /\ call \in [Calls -> CallSet] /\ count.drops \in Nat /\ link.conn \in Nat
  BY <1>0, LinkParts
<1>2. link.conn <= count.drops + 1 /\ (link.at \in {"connecting", "broken", "closing", "backoff"} => link.conn <= count.drops)
  BY LinkParts
<1>3. link.at \in Live \/ \A c \in Calls : call[c].at # "waiting"
  BY DEF LinkInv, NobodyWaitsInVain, Live
<1>4. Dropped => count'.drops = count.drops + 1
  BY LinkParts DEF Dropped, Counts
<1>5. ASSUME NEW place \in Places, link' = [link EXCEPT !.at = place], link.at # "stopped", count' = count \/ Dropped,
             link.conn <= count'.drops \/ (place \in {"stopping", "cut short"} /\ link.conn <= count'.drops + 1),
             place \in Live \/ link.at \notin Live
      PROVE  LinkInv' /\ Looked'
  <2>1. place \in Live \/ \A c \in Calls : call'[c].at # "waiting"
    BY <1>1, <1>3, <1>5
  <2>2. Redialled'
    <3>1. link'.conn = link.conn /\ link'.at = place
      <4>1. link \in Links
        BY LinkParts
      <4>. QED
        BY <1>5, <4>1, LinkMoves
    <3>2. count'.drops \in Nat
      <4>1. count.drops + 1 \in Nat
        BY <1>1
      <4>. QED
        BY <1>1, <1>4, <1>5, <4>1
    <3>3. CASE link.conn <= count'.drops
      <4>1. link'.conn <= count'.drops + 0 /\ link'.conn <= count'.drops + 1
        BY <1>1, <3>1, <3>2, <3>3
      <4>. QED
        BY <4>1 DEF Redialled
    <3>4. CASE place \in {"stopping", "cut short"} /\ link.conn <= count'.drops + 1
      <4>1. link'.at \in {"up", "stopping", "cut short", "stopped"}
        BY <3>1, <3>4
      <4>2. link'.conn <= count'.drops + 1
        BY <3>1, <3>4
      <4>. QED
        BY <4>1, <4>2 DEF Redialled
    <3>. QED
      BY <1>5, <3>3, <3>4
  <2>. QED
    BY <1>1, <1>5, <2>1, <2>2, MovingKeeps
<1>6. CASE Refuse
  <2>1. link.at = "connecting" /\ Dropped /\ link' = [link EXCEPT !.at = "backoff"]
    BY <1>6 DEF Refuse, To
  <2>2. link.conn <= count'.drops
    BY <1>1, <1>2, <1>4, <2>1
  <2>. QED
    BY <1>5, <2>1, <2>2 DEF Places, Live
<1>7. CASE Drop
  <2>1. link.at = "up" /\ Dropped /\ link' = [link EXCEPT !.at = "broken"]
    BY <1>7 DEF Drop, To
  <2>2. link.conn <= count'.drops
    BY <1>1, <1>2, <1>4, <2>1
  <2>. QED
    BY <1>5, <2>1, <2>2 DEF Places, Live
<1>8. CASE Notice
  <2>1. link.at = "broken" /\ count' = count /\ link' = [link EXCEPT !.at = "closing"]
    BY <1>8 DEF Notice, To
  <2>2. link.conn <= count'.drops
    BY <1>1, <1>2, <2>1
  <2>. QED
    BY <1>5, <2>1, <2>2 DEF Places, Live
<1>9. CASE Again
  <2>1. link.at = "backoff" /\ count' = count /\ link' = [link EXCEPT !.at = "connecting"]
    BY <1>9 DEF Again, To
  <2>2. link.conn <= count'.drops
    BY <1>1, <1>2, <2>1
  <2>. QED
    BY <1>5, <2>1, <2>2 DEF Places, Live
<1>10. CASE Stopping
  <2>1. PICK place \in {"cut short", "stopping"} : link' = [link EXCEPT !.at = place]
    BY <1>10 DEF Stopping, To
  <2>2. link.at \notin {"stopping", "cut short", "stopped"} /\ count' = count
    BY <1>10 DEF Stopping
  <2>3. link.conn <= count'.drops + 1
    BY <1>2, <2>2
  <2>. QED
    BY <1>5, <2>1, <2>2, <2>3 DEF Places, Live
<1>. QED
  BY <1>6, <1>7, <1>8, <1>9, <1>10

\* The socket is up again: nobody waits then.
LEMMA DialKeeps ==
  ASSUME LinkInv, AtCalls, Dial
  PROVE  LinkInv' /\ Looked'
<1>1. /\ link.at = "connecting" /\ link' = [link EXCEPT !.at = "up", !.conn = @ + 1]
      /\ in' = <<[kind |-> "mode", value |-> machine.mode]>> /\ out' = <<>>
      /\ UNCHANGED <<machine, shown, call, count>>
  BY DEF Dial
<1>2. link \in Links /\ machine \in Machines /\ count \in Counts /\ link.of # None /\ count.drops \in Nat
  BY <1>1, LinkParts
<1>3. link'.of = link.of /\ link'.at = "up" /\ link'.conn = link.conn + 1 /\ link' \in Links /\ link.conn \in Nat
  <2>1. link.conn \in Nat /\ "up" \in Places
    BY LinkParts DEF Places
  <2>2. link.conn + 1 \in Nat
    BY <2>1
  <2>. QED
    BY <1>1, <1>2, <2>1, <2>2 DEF Links
<1>4. in' \in Seq(Received)
  BY <1>1, <1>2 DEF Received, Machines
<1>5. LinkTypes'
  BY <1>1, <1>3, <1>4 DEF LinkInv, LinkTypes, AtCalls
<1>6. Numbered'
  <2>1. machine'.process <= count'.processes /\ count'.processes + count.touches <= count.processes + count'.touches
    BY <1>1, LinkParts
  <2>2. \A c \in Calls : call[c].at \in Begun => call'[c].at \in Begun
    BY <1>1
  <2>. QED
    BY <1>1, <1>5, <2>1, <2>2, NumberedKept DEF LinkInv
<1>7. Redialled'
  <2>1. link.conn <= count.drops
    BY <1>1, LinkParts
  <2>. QED
    BY <1>1, <1>2, <1>3, <2>1 DEF Redialled
<1>8. NobodyWaitsInVain'
  BY <1>1 DEF LinkInv, NobodyWaitsInVain
<1>9. OneLink' /\ Looked'
  BY <1>1, <1>3 DEF LinkInv, OneLink, AtCalls, Looked
<1>. QED
  BY <1>2, <1>3, <1>5, <1>6, <1>7, <1>8, <1>9 DEF LinkInv, AtCalls

\* A call that began goes on to another place.
LEMMA GoesOn ==
  ASSUME NEW it \in CallSet, it.at # "new", NEW how \in Begun
  PROVE  [it EXCEPT !.at = how] \in CallSet /\ [it EXCEPT !.at = how].at = how
<1>1. it \in Made
  BY DEF CallSet, NoCall
<1>2. [it EXCEPT !.at = how] \in Made /\ [it EXCEPT !.at = how].at = how
  BY <1>1 DEF Made
<1>. QED
  BY <1>2 DEF CallSet

\* The socket closes, and whoever waits is told.
LEMMA FailedPending ==
  ASSUME LinkTypes
  PROVE  /\ FailPending \in [Calls -> CallSet]
         /\ \A c \in Calls : FailPending[c].at # "waiting" /\ (call[c].at \in Begun => FailPending[c].at \in Begun)
<1>1. \A c \in Calls : call[c] \in CallSet
  BY DEF LinkTypes
<1>2. \A c \in Calls : call[c].at = "waiting" => /\ [call[c] EXCEPT !.at = "failed"] \in CallSet
                                                 /\ [call[c] EXCEPT !.at = "failed"].at = "failed"
  <2>1. "failed" \in Begun
    BY DEF Begun
  <2>. QED
    BY <1>1, <2>1, GoesOn
<1>. QED
  BY <1>1, <1>2 DEF FailPending, Begun

LEMMA CloseKeeps ==
  ASSUME LinkInv, Looked, AtCalls, Closed \/ Stopped
  PROVE  LinkInv' /\ Looked'
<1>1. /\ call' = FailPending /\ UNCHANGED <<box, shown, count>> /\ out' \in {out, <<>>} /\ in' \in {in, <<>>}
  BY DEF Closed, Stopped, EndStop
<1>2. link.at \in {"closing", "stopping", "cut short"}
  BY DEF Closed, Stopped, EndStop
<1>3. PICK place \in {"backoff", "stopped"} : /\ link' = [link EXCEPT !.at = place]
                                              /\ place = "backoff" => link.at = "closing"
  BY DEF Closed, Stopped, EndStop, To
<1>4. /\ call' \in [Calls -> CallSet]
      /\ \A c \in Calls : call'[c].at # "waiting" /\ (call[c].at \in Begun => call'[c].at \in Begun)
  BY <1>1, FailedPending DEF LinkInv
<1>5. /\ link.conn <= count.drops + 1 /\ (link.at = "closing" => link.conn <= count.drops)
      /\ link.conn \in Nat /\ count.drops \in Nat
  BY LinkParts
<1>6. Redialled'
  <2>1. count' = count
    BY <1>1
  <2>2. link'.conn = link.conn /\ link'.at = place
    <3>1. place \in Places
      BY DEF Places
    <3>. QED
      BY <1>3, <3>1, LinkParts, LinkMoves
  <2>3. CASE place = "stopped"
    BY <1>5, <2>1, <2>2, <2>3 DEF Redialled
  <2>4. CASE place = "backoff"
    BY <1>3, <1>5, <2>1, <2>2, <2>4 DEF Redialled
  <2>. QED
    BY <2>3, <2>4
<1>7. place \in Places /\ UNCHANGED <<box, shown>> /\ count' = count
  BY <1>1 DEF Places
<1>. QED
  BY <1>1, <1>2, <1>3, <1>4, <1>6, <1>7, MovingKeeps

\* A step that leaves the supervisor where it is.
LEMMA StayingKeeps ==
  ASSUME LinkInv, AtCalls, link' = link, count'.drops = count.drops, LinkTypes', Numbered', NobodyWaitsInVain'
  PROVE  LinkInv'
<1>1. Redialled'
  BY DEF LinkInv, Redialled
<1>2. OneLink' /\ scene' = "calls" /\ (link'.of = None => link' = Idle)
  <2>1. OneLink /\ scene = "calls" /\ scene' = scene /\ sockets' = sockets /\ (link.of = None => link = Idle)
    BY DEF LinkInv, AtCalls
  <2>. QED
    BY <2>1 DEF OneLink
<1>. QED
  BY <1>1, <1>2 DEF LinkInv

\* Nobody begins to wait: those that do are where they were.
LEMMA WaitingOn ==
  ASSUME LinkInv, link' = link,
         \A c \in Calls : call'[c].at = "waiting" => call'[c] = call[c]
  PROVE  NobodyWaitsInVain'
<1>1. NobodyWaitsInVain
  BY DEF LinkInv
<1>. QED
  BY <1>1 DEF NobodyWaitsInVain

\* The machine handles a frame: what that changes at the machine, and that a new process has a new number.
LEMMA Handled ==
  ASSUME machine \in Machines, count \in Counts, machine.process <= count.processes, NEW frame \in Sent,
         machine' = CASE frame.kind \in Modes -> [mode |-> frame.kind, process |-> 0]
                      [] frame.kind = "flush" /\ machine.process = 0 -> [machine EXCEPT !.process = NewProcess]
                      [] OTHER -> machine,
         count' = IF machine'.process > machine.process THEN [count EXCEPT !.processes = @ + 1] ELSE count
  PROVE  /\ machine' \in Machines /\ count' \in Counts /\ machine'.process <= count'.processes
         /\ count'.touches = count.touches /\ count'.drops = count.drops /\ count'.processes <= count.processes + 1
<1>1. machine.process \in Nat /\ count.processes \in Nat /\ machine.mode \in Modes
  BY DEF Machines, Counts
<1>2. CASE frame.kind \in Modes
  <2>1. machine' = [mode |-> frame.kind, process |-> 0]
    BY <1>2 DEF Modes
  <2>2. machine' \in Machines /\ machine'.process = 0
    BY <1>2, <2>1 DEF Machines
  <2>3. count' = count
    BY <1>1, <2>2
  <2>. QED
    BY <1>1, <2>2, <2>3
<1>3. CASE frame.kind \notin Modes /\ frame.kind = "flush" /\ machine.process = 0
  <2>1. machine' = [machine EXCEPT !.process = NewProcess]
    BY <1>3
  <2>2. NewProcess \in Nat /\ NewProcess = count.processes + 1 /\ NewProcess > 0
    BY <1>1 DEF NewProcess
  <2>3. machine' \in Machines /\ machine'.process = NewProcess
    BY <2>1, <2>2 DEF Machines
  <2>4. count' = [count EXCEPT !.processes = @ + 1]
    BY <1>3, <2>2, <2>3
  <2>5. count' \in Counts
    BY <2>4, CountsUp
  <2>6. count'.processes = count.processes + 1 /\ count'.touches = count.touches /\ count'.drops = count.drops
    BY <2>4 DEF Counts
  <2>. QED
    BY <1>1, <2>2, <2>3, <2>5, <2>6
<1>4. CASE frame.kind \notin Modes /\ ~(frame.kind = "flush" /\ machine.process = 0)
  <2>1. machine' = machine
    BY <1>4
  <2>2. machine'.process = machine.process /\ machine'.process \in Nat
    BY <1>1, <2>1
  <2>3. ~(machine'.process > machine.process)
    BY <2>2
  <2>4. count' = count
    BY <2>3
  <2>5. count.processes <= count.processes + 1
    BY <1>1
  <2>. QED
    BY <2>1, <2>2, <2>4, <2>5
<1>. QED
  BY <1>2, <1>3, <1>4

\* The frame that was first in line is served, and no other.
LEMMA NumberedServed ==
  ASSUME LinkTypes, LinkTypes', Numbered, out # <<>>, out' = Tail(out), call' = call,
         machine'.process <= count'.processes, count'.touches = count.touches, count'.processes <= count.processes + 1
  PROVE  Numbered'
<1>1. /\ Head(out) = out[1] /\ Len(out) \in Nat /\ Len(out) > 0 /\ Len(out') = Len(out) - 1
      /\ \A i \in 1..Len(out') : out'[i] = out[i + 1]
  BY LenProperties, EmptySeq, HeadTailProperties DEF LinkTypes
<1>2. \A i \in 1..Len(out') : i + 1 \in 1..Len(out) /\ i + 1 # 1
  BY <1>1
<1>3. 1 \in 1..Len(out)
  BY <1>1
<1>4. \A i \in 1..Len(out) : i = 1 \/ (i - 1 \in 1..Len(out') /\ (i - 1) + 1 = i)
  BY <1>1
<1>5. \A i, j \in 1..Len(out') : out'[i].of = out'[j].of => i = j
  <2>. SUFFICES ASSUME NEW i \in 1..Len(out'), NEW j \in 1..Len(out'), out'[i].of = out'[j].of
                PROVE  i = j
    OBVIOUS
  <2>1. out[i + 1].of = out[j + 1].of
    BY <1>1
  <2>2. i + 1 = j + 1
    BY <1>2, <2>1 DEF Numbered
  <2>. QED
    BY <1>1, <2>2
<1>6. \A i \in 1..Len(out') : call'[out'[i].of].at \in Begun
  BY <1>1, <1>2 DEF Numbered
<1>7. Head(out).of \in Calls /\ call[Head(out).of].at \in Begun
  <2>1. out[1] \in Sent
    BY <1>3, ElementOfSeq DEF LinkTypes
  <2>. QED
    BY <1>1, <1>3, <2>1 DEF Sent, Numbered
<1>8. Head(out).of \notin Served
  BY <1>1, <1>3 DEF Served
<1>9. Head(out).of \in Served'
  <2>1. ASSUME NEW i \in 1..Len(out'), out'[i].of = Head(out).of
        PROVE  FALSE
    BY <1>1, <1>2, <1>3, <2>1 DEF Numbered
  <2>. QED
    BY <1>7, <2>1 DEF Served
<1>10. Served \subseteq Served'
  BY <1>1, <1>2 DEF Served
<1>11. Cardinality(Served) + 1 <= Cardinality(Served')
  <2>1. Cardinality(Served \cup {Head(out).of}) = Cardinality(Served) + 1
    BY <1>8, ServedFinite, FS_AddElement
  <2>2. Cardinality(Served \cup {Head(out).of}) <= Cardinality(Served')
    BY <1>9, <1>10, ServedFiniteNext, FS_Subset
  <2>. QED
    BY <2>1, <2>2
<1>12. count'.processes <= count'.touches + Cardinality(Served')
  <2>1. count \in Counts /\ count' \in Counts
    BY DEF LinkTypes
  <2>2. /\ count.processes \in Nat /\ count'.processes \in Nat /\ count.touches \in Nat /\ count'.touches \in Nat
        /\ Cardinality(Served) \in Nat /\ Cardinality(Served') \in Nat
        /\ count.processes <= count.touches + Cardinality(Served)
    BY <2>1, ServedFinite, ServedFiniteNext, LinkAssumption DEF Counts, Numbered
  <2>. QED
    BY <1>11, <2>2
<1>. QED
  BY <1>5, <1>6, <1>12 DEF Numbered

LEMMA HandleKeeps ==
  ASSUME LinkInv, Looked, AtCalls, Handle
  PROVE  LinkInv' /\ Looked'
<1>1. out # <<>> /\ out' = Tail(out) /\ link' = link /\ shown' = shown /\ call' = call
  BY DEF Handle
<1>2. /\ Head(out) = out[1] /\ Len(out) \in Nat /\ Len(out) > 0 /\ Len(out') = Len(out) - 1 /\ out' \in Seq(Sent)
      /\ \A i \in 1..Len(out') : out'[i] = out[i + 1]
  BY <1>1, LinkParts, LenProperties, EmptySeq, HeadTailProperties
<1>3. Head(out) \in Sent
  BY <1>2, LinkParts, ElementOfSeq
<1>4. /\ machine' \in Machines /\ count' \in Counts /\ machine'.process <= count'.processes
      /\ count'.touches = count.touches /\ count'.drops = count.drops /\ count'.processes <= count.processes + 1
  <2>1. machine \in Machines /\ count \in Counts /\ machine.process <= count.processes
    BY LinkParts
  <2>2. /\ machine' = CASE Head(out).kind \in Modes -> [mode |-> Head(out).kind, process |-> 0]
                      [] Head(out).kind = "flush" /\ machine.process = 0 -> [machine EXCEPT !.process = NewProcess]
                      [] OTHER -> machine
        /\ count' = IF machine'.process > machine.process THEN [count EXCEPT !.processes = @ + 1] ELSE count
    BY DEF Handle
  <2>. QED
    BY <1>3, <2>1, <2>2, Handled
<1>5. in' \in Seq(Received)
  <2>1. [kind |-> "answer", value |-> Head(out).of] \in Received
    BY <1>3 DEF Received, Sent
  <2>2. in' = in \/ in' = in \o <<>> \/ in' = in \o <<[kind |-> "answer", value |-> Head(out).of]>>
    BY DEF Handle, Says
  <2>3. in \in Seq(Received) /\ <<>> \in Seq(Received) /\ <<[kind |-> "answer", value |-> Head(out).of]>> \in Seq(Received)
    BY <2>1, LinkParts
  <2>. QED
    BY <2>2, <2>3, ConcatProperties
<1>6. LinkTypes /\ LinkTypes'
  <2>1. LinkTypes /\ scene' \in {"settings", "calls"} /\ link \in Links /\ shown \in [Engines -> Statuses] /\ call \in [Calls -> CallSet]
    BY LinkParts DEF AtCalls
  <2>. QED
    BY <1>1, <1>2, <1>4, <1>5, <2>1 DEF LinkTypes
<1>7. Numbered'
  <2>1. Numbered
    BY DEF LinkInv
  <2>. QED
    BY <1>1, <1>4, <1>6, <2>1, NumberedServed
<1>8. NobodyWaitsInVain'
  BY <1>1, WaitingOn
<1>9. Looked'
  <2>1. \A i \in 1..Len(out') : i + 1 \in 1..Len(out)
    BY <1>2
  <2>. QED
    BY <1>2, <2>1 DEF Looked
<1>. QED
  BY <1>1, <1>4, <1>6, <1>7, <1>8, <1>9, StayingKeeps

\* The machine reports, is touched, or comes to the end of its process.
LEMMA MachineKeeps ==
  ASSUME LinkInv, Looked, AtCalls, Report \/ SwitchMode \/ StartShot \/ ProcessEnds
  PROVE  LinkInv' /\ Looked'
<1>1. link' = link /\ out' = out /\ shown' = shown /\ call' = call
  BY DEF Report, SwitchMode, StartShot, ProcessEnds, wire
<1>2. /\ machine \in Machines /\ count \in Counts /\ machine.process \in Nat /\ machine.mode \in Modes
      /\ count.touches \in Nat /\ count.processes \in Nat /\ machine.process <= count.processes
      /\ machine.process \in Processes
  <2>1. Numbered
    BY DEF LinkInv
  <2>. QED
    BY <2>1, LinkParts, ProcessIsOne
<1>3. in' \in Seq(Received)
  <2>1. CASE Report
    <3>1. PICK what \in {"mode", "process"} : in' = Append(in, [kind |-> what, value |-> machine[what]])
      BY <2>1 DEF Report
    <3>2. [kind |-> what, value |-> machine[what]] \in Received
      BY <1>2 DEF Received
    <3>3. in \in Seq(Received)
      BY LinkParts
    <3>. QED
      BY <3>1, <3>2, <3>3
  <2>2. CASE SwitchMode \/ StartShot \/ ProcessEnds
    BY <2>2, LinkParts DEF SwitchMode, StartShot, ProcessEnds, wire
  <2>. QED
    BY <2>1, <2>2
<1>4. /\ machine' \in Machines /\ count' \in Counts /\ count'.drops = count.drops /\ machine'.process <= count'.processes
      /\ count'.processes + count.touches <= count.processes + count'.touches
  <2>1. CASE Report
    <3>1. machine' = machine /\ count' = count
      BY <2>1 DEF Report
    <3>. QED
      BY <1>2, <3>1
  <2>2. CASE SwitchMode
    <3>1. PICK mode \in Modes : machine' = [mode |-> mode, process |-> 0]
      BY <2>2 DEF SwitchMode
    <3>2. count.touches < MaxTouches /\ count' = [count EXCEPT !.touches = @ + 1]
      BY <2>2 DEF SwitchMode, Touched
    <3>3. count' \in Counts
      BY <1>2, <3>2, CountsUp
    <3>4. count'.drops = count.drops /\ count'.processes = count.processes /\ count'.touches = count.touches + 1
      BY <1>2, <3>2 DEF Counts
    <3>5. machine' \in Machines /\ machine'.process = 0
      BY <3>1 DEF Machines
    <3>. QED
      BY <1>2, <3>3, <3>4, <3>5
  <2>3. CASE StartShot
    <3>1. machine' = [machine EXCEPT !.process = NewProcess] /\ NewProcess = count.processes + 1
      BY <2>3 DEF StartShot, NewProcess
    <3>2. count.touches < MaxTouches /\ count' = [count EXCEPT !.touches = @ + 1, !.processes = @ + 1]
      BY <2>3 DEF StartShot, Touched
    <3>3. count' \in Counts
      BY <1>2, <3>2, CountsUp
    <3>4. count'.drops = count.drops /\ count'.processes = count.processes + 1 /\ count'.touches = count.touches + 1
      BY <1>2, <3>2 DEF Counts
    <3>5. machine' \in Machines /\ machine'.process = count.processes + 1
      <4>1. count.processes + 1 \in Nat
        BY <1>2
      <4>. QED
        BY <1>2, <3>1, <4>1 DEF Machines
    <3>. QED
      BY <1>2, <3>3, <3>4, <3>5
  <2>4. CASE ProcessEnds
    <3>1. machine' = [machine EXCEPT !.process = 0] /\ count' = count
      BY <2>4 DEF ProcessEnds
    <3>2. machine' \in Machines /\ machine'.process = 0
      BY <1>2, <3>1 DEF Machines
    <3>. QED
      BY <1>2, <3>1, <3>2
  <2>. QED
    BY <2>1, <2>2, <2>3, <2>4
<1>5. LinkTypes /\ LinkTypes'
  <2>1. /\ LinkTypes /\ scene' \in {"settings", "calls"} /\ link \in Links /\ out \in Seq(Sent)
        /\ shown \in [Engines -> Statuses] /\ call \in [Calls -> CallSet]
    BY LinkParts DEF AtCalls
  <2>. QED
    BY <1>1, <1>3, <1>4, <2>1 DEF LinkTypes
<1>6. Numbered'
  <2>1. Numbered
    BY DEF LinkInv
  <2>. QED
    BY <1>1, <1>4, <1>5, <2>1, NumberedKept
<1>7. NobodyWaitsInVain'
  BY <1>1, WaitingOn
<1>8. Looked'
  BY <1>1 DEF Looked
<1>. QED
  BY <1>1, <1>4, <1>5, <1>6, <1>7, <1>8, StayingKeeps

-----------------------------------------------------------------------------
(* What arrives, and the calls. *)

LEMMA ReadFrameKeeps ==
  ASSUME LinkInv, Looked, AtCalls, ReadFrame
  PROVE  LinkInv' /\ Looked'
<1>. DEFINE frame == Head(in)
<1>1. in # <<>> /\ in' = Tail(in) /\ link' = link /\ out' = out /\ machine' = machine /\ count' = count
  BY DEF ReadFrame, box
<1>2. frame \in Received /\ in' \in Seq(Received)
  BY <1>1, LinkParts, HeadTailProperties
<1>3. link.of \in Engines
  <2>1. link.of # None /\ link \in Links
    BY LinkParts DEF ReadFrame
  <2>. QED
    BY <2>1 DEF Links
<1>4. shown' \in [Engines -> Statuses]
  <2>1. shown \in [Engines -> Statuses] /\ shown[link.of] \in Statuses
    BY <1>3, LinkParts
  <2>2. shown' = IF frame.kind \in {"mode", "process"} THEN [shown EXCEPT ![link.of][frame.kind] = frame.value] ELSE shown
    BY DEF ReadFrame
  <2>3. CASE frame.kind = "mode"
    <3>1. frame.value \in Modes
      BY <1>2, <2>3 DEF Received
    <3>2. [shown[link.of] EXCEPT !["mode"] = frame.value] \in Statuses
      BY <2>1, <3>1 DEF Statuses
    <3>3. shown' = [shown EXCEPT ![link.of] = [shown[link.of] EXCEPT !["mode"] = frame.value]]
      BY <2>1, <2>2, <2>3
    <3>. QED
      BY <2>1, <3>2, <3>3
  <2>4. CASE frame.kind = "process"
    <3>1. frame.value \in Processes
      BY <1>2, <2>4 DEF Received
    <3>2. [shown[link.of] EXCEPT !["process"] = frame.value] \in Statuses
      BY <2>1, <3>1 DEF Statuses
    <3>3. shown' = [shown EXCEPT ![link.of] = [shown[link.of] EXCEPT !["process"] = frame.value]]
      BY <2>1, <2>2, <2>4
    <3>. QED
      BY <2>1, <3>2, <3>3
  <2>5. CASE frame.kind \notin {"mode", "process"}
    BY <2>1, <2>2, <2>5
  <2>. QED
    BY <2>3, <2>4, <2>5
<1>5. /\ call' \in [Calls -> CallSet]
      /\ \A c \in Calls : /\ call[c].at \in Begun => call'[c].at \in Begun
                          /\ call'[c].at = "waiting" => call'[c] = call[c]
  <2>1. \A c \in Calls : call[c] \in CallSet
    BY LinkParts
  <2>2. \A c \in Calls : call[c].at = "waiting" => /\ [call[c] EXCEPT !.at = "answered"] \in CallSet
                                                   /\ [call[c] EXCEPT !.at = "answered"].at = "answered"
    <3>1. "answered" \in Begun
      BY DEF Begun
    <3>. QED
      BY <2>1, <3>1, GoesOn
  <2>3. call' = [c \in Calls |-> IF call[c].at = "waiting" /\ frame.kind = "answer" /\ frame.value = c
                                 THEN [call[c] EXCEPT !.at = "answered"] ELSE call[c]]
    BY DEF ReadFrame
  <2>. HIDE DEF frame
  <2>. QED
    BY <2>1, <2>2, <2>3 DEF Begun
<1>6. LinkTypes /\ LinkTypes'
  <2>1. /\ LinkTypes /\ scene' \in {"settings", "calls"} /\ link \in Links /\ out \in Seq(Sent)
        /\ machine \in Machines /\ count \in Counts
    BY LinkParts DEF AtCalls
  <2>. QED
    BY <1>1, <1>2, <1>4, <1>5, <2>1 DEF LinkTypes
<1>7. Numbered'
  <2>1. Numbered /\ machine.process <= count.processes /\ count.processes \in Nat /\ count.touches \in Nat
    BY LinkParts DEF LinkInv
  <2>2. machine'.process <= count'.processes /\ count'.processes + count.touches <= count.processes + count'.touches
    BY <1>1, <2>1
  <2>. QED
    BY <1>1, <1>5, <1>6, <2>1, <2>2, NumberedKept
<1>8. NobodyWaitsInVain'
  BY <1>1, <1>5, WaitingOn
<1>9. Looked'
  BY <1>1 DEF Looked
<1>. QED
  BY <1>1, <1>6, <1>7, <1>8, <1>9, StayingKeeps

\* The frame of a call that had not begun goes last in line.
LEMMA NumberedSent ==
  ASSUME LinkTypes, LinkTypes', Numbered, NEW c \in Calls, call[c].at \notin Begun, call'[c].at \in Begun,
         \A d \in Calls \ {c} : call'[d] = call[d],
         NEW frame \in Sent, frame.of = c, out' = Append(out, frame),
         machine' = machine, count' = count
  PROVE  Numbered'
<1>1. /\ Len(out) \in Nat /\ Len(out') = Len(out) + 1 /\ out'[Len(out) + 1] = frame
      /\ \A i \in 1..Len(out) : out'[i] = out[i]
  BY AppendProperties, LenProperties DEF LinkTypes
<1>2. \A i \in 1..Len(out') : i \in 1..Len(out) \/ i = Len(out) + 1
  BY <1>1
<1>3. \A i \in 1..Len(out) : out[i].of \in Calls /\ out[i].of # c
  <2>1. \A i \in 1..Len(out) : out[i] \in Sent
    BY ElementOfSeq DEF LinkTypes
  <2>. QED
    BY <2>1 DEF Sent, Numbered
<1>4. \A i \in 1..Len(out') : call'[out'[i].of].at \in Begun
  BY <1>1, <1>2, <1>3 DEF Numbered
<1>5. \A i, j \in 1..Len(out') : out'[i].of = out'[j].of => i = j
  BY <1>1, <1>2, <1>3 DEF Numbered
<1>6. Served \subseteq Served'
  <2>. SUFFICES ASSUME NEW d \in Served
                PROVE  d \in Served'
    OBVIOUS
  <2>1. d \in Calls /\ d # c /\ call'[d].at \in Begun
    BY DEF Served
  <2>2. \A i \in 1..Len(out') : out'[i].of # d
    BY <1>1, <1>2, <2>1 DEF Served
  <2>. QED
    BY <2>1, <2>2 DEF Served
<1>7. Cardinality(Served) <= Cardinality(Served')
  BY <1>6, ServedFiniteNext, FS_Subset
<1>8. machine'.process <= count'.processes /\ count'.processes <= count'.touches + Cardinality(Served')
  <2>1. count \in Counts
    BY DEF LinkTypes
  <2>2. /\ count.processes \in Nat /\ count.touches \in Nat /\ Cardinality(Served) \in Nat /\ Cardinality(Served') \in Nat
        /\ count.processes <= count.touches + Cardinality(Served) /\ machine.process <= count.processes
    BY <2>1, ServedFinite, ServedFiniteNext, LinkAssumption DEF Counts, Numbered
  <2>. QED
    BY <1>7, <2>2
<1>. QED
  BY <1>4, <1>5, <1>8 DEF Numbered

\* A step of one call that sends no frame, and after which it does not begin to wait on a socket that is gone.
LEMMA CallingKeeps ==
  ASSUME LinkInv, Looked, AtCalls, CallsOnly, out' = out, NEW c \in Calls, NEW it \in CallSet,
         call' = [call EXCEPT ![c] = it], call[c].at \in Begun => it.at \in Begun,
         it.at = "waiting" => it.of = link.of /\ it.conn = link.conn /\ link.at \in Live
  PROVE  LinkInv' /\ Looked'
<1>1. link' = link /\ in' = in /\ machine' = machine /\ shown' = shown /\ count' = count
  BY DEF CallsOnly, box
<1>2. call' \in [Calls -> CallSet] /\ call'[c] = it /\ \A d \in Calls \ {c} : call'[d] = call[d]
  BY LinkParts
<1>3. LinkTypes /\ LinkTypes'
  <2>1. /\ LinkTypes /\ scene' \in {"settings", "calls"} /\ link \in Links /\ out \in Seq(Sent) /\ in \in Seq(Received)
        /\ machine \in Machines /\ count \in Counts /\ shown \in [Engines -> Statuses]
    BY LinkParts DEF AtCalls
  <2>. QED
    BY <1>1, <1>2, <2>1 DEF LinkTypes
<1>4. Numbered'
  <2>1. Numbered /\ machine.process <= count.processes /\ count.processes \in Nat /\ count.touches \in Nat
    BY LinkParts DEF LinkInv
  <2>2. machine'.process <= count'.processes /\ count'.processes + count.touches <= count.processes + count'.touches
    BY <1>1, <2>1
  <2>3. \A d \in Calls : call[d].at \in Begun => call'[d].at \in Begun
    BY <1>2
  <2>. QED
    BY <1>3, <2>1, <2>2, <2>3, NumberedKept
<1>5. NobodyWaitsInVain'
  <2>1. NobodyWaitsInVain
    BY DEF LinkInv
  <2>. QED
    BY <1>1, <1>2, <2>1 DEF NobodyWaitsInVain, Live
<1>6. Looked'
  BY DEF Looked
<1>. QED
  BY <1>1, <1>3, <1>4, <1>5, <1>6, StayingKeeps

LEMMA SendKeeps ==
  ASSUME LinkInv, Looked, AtCalls, CallsOnly, NEW c \in Calls, call[c].at \notin Begun,
         NEW it \in [at : {"new", "gate"}, of : Engines, kind : Kinds, conn : Nat], it.kind \in Writes => shown[it.of].process \in {0, NotReported}, Send(c, it)
  PROVE  LinkInv' /\ Looked'
<1>. DEFINE waits == [it EXCEPT !.at = IF it.kind \in Modes THEN "watching" ELSE "waiting", !.conn = link.conn]
            gone == [it EXCEPT !.at = "unavailable"]
            frame == [kind |-> it.kind, of |-> c, saw |-> shown[it.of].process]
<1>1. gone \in CallSet /\ gone.at = "unavailable"
  BY DEF CallSet, Made, Begun
<1>2. waits \in CallSet /\ waits.at \in {"watching", "waiting"} /\ waits.of = it.of /\ waits.conn = link.conn
  <2>1. link.conn \in Nat
    BY LinkParts
  <2>. QED
    BY <2>1 DEF CallSet, Made, Begun
<1>3. frame \in Sent /\ frame.of = c /\ frame.kind = it.kind /\ frame.saw = shown[it.of].process
  <2>1. shown[it.of] \in Statuses
    BY LinkParts
  <2>2. it.kind \in Kinds /\ shown[it.of].process \in Processes \cup {NotReported}
    BY <2>1 DEF Statuses
  <2>. QED
    BY <2>2 DEF Sent
<1>4. \/ call' = [call EXCEPT ![c] = gone] /\ out' = out
      \/ link.of = it.of /\ link.at = "broken" /\ call' = [call EXCEPT ![c] = waits] /\ out' = out
      \/ link.of = it.of /\ link.at = "up" /\ call' = [call EXCEPT ![c] = waits] /\ out' = Append(out, frame)
  BY DEF Send
<1>. HIDE DEF waits, gone, frame
<1>5. CASE call' = [call EXCEPT ![c] = gone] /\ out' = out
  BY <1>1, <1>5, CallingKeeps
<1>6. CASE link.of = it.of /\ link.at = "broken" /\ call' = [call EXCEPT ![c] = waits] /\ out' = out
  BY <1>2, <1>6, CallingKeeps DEF Live
<1>7. CASE link.of = it.of /\ link.at = "up" /\ call' = [call EXCEPT ![c] = waits] /\ out' = Append(out, frame)
  <2>1. link' = link /\ in' = in /\ machine' = machine /\ shown' = shown /\ count' = count
    BY DEF CallsOnly, box
  <2>2. call' \in [Calls -> CallSet] /\ call'[c] = waits /\ \A d \in Calls \ {c} : call'[d] = call[d]
    BY <1>2, <1>7, LinkParts
  <2>3. out' \in Seq(Sent)
    <3>1. out \in Seq(Sent)
      BY LinkParts
    <3>. QED
      BY <1>3, <1>7, <3>1
  <2>4. LinkTypes /\ LinkTypes'
    <3>1. /\ LinkTypes /\ scene' \in {"settings", "calls"} /\ link \in Links /\ in \in Seq(Received)
          /\ machine \in Machines /\ count \in Counts /\ shown \in [Engines -> Statuses]
      BY LinkParts DEF AtCalls
    <3>. QED
      BY <2>1, <2>2, <2>3, <3>1 DEF LinkTypes
  <2>5. Numbered'
    <3>1. Numbered
      BY DEF LinkInv
    <3>2. call'[c].at \in Begun
      BY <1>2, <2>2 DEF Begun
    <3>. QED
      BY <1>3, <1>7, <2>1, <2>2, <2>4, <3>1, <3>2, NumberedSent
  <2>6. NobodyWaitsInVain'
    <3>1. NobodyWaitsInVain
      BY DEF LinkInv
    <3>. QED
      BY <1>2, <1>7, <2>1, <2>2, <3>1 DEF NobodyWaitsInVain
  <2>7. Looked'
    <3>1. /\ Len(out) \in Nat /\ Len(out') = Len(out) + 1 /\ out'[Len(out) + 1] = frame
          /\ \A i \in 1..Len(out) : out'[i] = out[i]
      BY <1>3, <1>7, LinkParts, AppendProperties, LenProperties
    <3>2. \A i \in 1..Len(out') : i \in 1..Len(out) \/ i = Len(out) + 1
      BY <3>1
    <3>. QED
      BY <1>3, <3>1, <3>2 DEF Looked
  <2>. QED
    BY <2>1, <2>4, <2>5, <2>6, <2>7, StayingKeeps
<1>. QED
  BY <1>4, <1>5, <1>6, <1>7

LEMMA CallKeeps ==
  ASSUME LinkInv, Looked, AtCalls, client \in Engines \cup {None}, NEW c \in Calls, Call(c)
  PROVE  LinkInv' /\ Looked'
<1>1. call[c].at = "new" /\ client \in Engines /\ CallsOnly
  BY DEF Call
<1>2. PICK kind \in Kinds :
        LET it == [NoCall EXCEPT !.of = client, !.kind = kind]
        IN  IF kind \in Reads THEN Send(c, it)
            ELSE /\ UNCHANGED out
                 /\ call' = [call EXCEPT ![c] = [it EXCEPT !.at = IF shown[client].mode = kind THEN "gate, then ok" ELSE "gate"]]
  BY DEF Call, Kinds
<1>. DEFINE it == [NoCall EXCEPT !.of = client, !.kind = kind]
<1>3. it \in [at : {"new", "gate"}, of : Engines, kind : Kinds, conn : Nat] /\ it.of = client /\ it.kind = kind
  BY <1>1 DEF NoCall, Kinds
<1>4. call[c].at \notin Begun
  BY <1>1 DEF Begun
<1>5. CASE kind \in Reads
  <2>1. Send(c, it) /\ kind \notin Writes
    BY <1>2, <1>5 DEF Reads, Writes, Modes
  <2>. HIDE DEF it
  <2>. QED
    BY <1>1, <1>3, <1>4, <2>1, SendKeeps
<1>6. CASE kind \notin Reads
  <2>1. PICK place \in {"gate", "gate, then ok"} : call' = [call EXCEPT ![c] = [it EXCEPT !.at = place]]
    BY <1>2, <1>6
  <2>2. [it EXCEPT !.at = place] \in CallSet /\ [it EXCEPT !.at = place].at = place
    BY <1>3 DEF CallSet, Made
  <2>3. out' = out
    BY <1>2, <1>6
  <2>. HIDE DEF it
  <2>. QED
    BY <1>1, <1>4, <2>1, <2>2, <2>3, CallingKeeps
<1>. QED
  BY <1>5, <1>6

\* A call that goes on: past the gate, or to its answer.
LEMMA CallStepKeeps ==
  ASSUME LinkInv, Looked, AtCalls, NEW c \in Calls, CallStep(c)
  PROVE  LinkInv' /\ Looked'
<1>1. CallsOnly /\ call[c] \in Made
  <2>1. call[c] \in CallSet
    BY LinkParts
  <2>2. CallsOnly /\ call[c].at # "new"
    BY DEF CallStep, Gate, Return, TimeOut
  <2>. QED
    BY <2>1, <2>2 DEF CallSet, NoCall
<1>2. ASSUME NEW how \in {"refused", "ok", "unavailable", "timeout"}, Ends(c, how), out' = out
      PROVE  LinkInv' /\ Looked'
  <2>1. [call[c] EXCEPT !.at = how] \in CallSet /\ [call[c] EXCEPT !.at = how].at = how
    BY <1>1 DEF CallSet, Made, Begun
  <2>2. call' = [call EXCEPT ![c] = [call[c] EXCEPT !.at = how]]
    BY <1>2 DEF Ends
  <2>3. how \in Begun /\ how # "waiting"
    BY DEF Begun
  <2>. QED
    BY <1>1, <1>2, <2>1, <2>2, <2>3, CallingKeeps
<1>3. CASE Gate(c) /\ call[c].at = "gate" /\ Ready(c) /\ Send(c, call[c])
  <2>1. shown[call[c].of].process \in {0, NotReported}
    BY <1>3 DEF Ready
  <2>2. call[c].at \notin Begun
    BY <1>3 DEF Begun
  <2>3. call[c] \in [at : {"new", "gate"}, of : Engines, kind : Kinds, conn : Nat]
    BY <1>1, <1>3 DEF Made
  <2>. QED
    BY <1>1, <1>3, <2>1, <2>2, <2>3, SendKeeps
<1>4. \/ Gate(c) /\ call[c].at = "gate" /\ Ready(c) /\ Send(c, call[c])
      \/ \E how \in {"refused", "ok", "unavailable", "timeout"} : Ends(c, how) /\ out' = out
  BY DEF CallStep, Gate, Return, TimeOut
<1>. QED
  BY <1>2, <1>3, <1>4

-----------------------------------------------------------------------------
(* The link follows the connection. *)

\* What a step of the connection may do to the sockets: take them all, or give the first.
LEMMA SocketsStep ==
  ASSUME IInv, NEW r \in Requests, Ask(r) \/ Stop(r) \/ (\E patch : AskChange(r, patch)) \/ Serve(r)
  PROVE  sockets' = sockets \/ sockets' = {} \/ (sockets = {} /\ builds' \in Engines /\ sockets' = {builds'})
<1>1. CASE Ask(r) \/ Stop(r) \/ \E patch : AskChange(r, patch)
  BY <1>1 DEF Ask, Stop, AskChange, AskPull, connection
<1>2. CASE Pull(r) \/ CheckBusy(r) \/ Write(r) \/ ReadBack(r)
  BY <1>2 DEF Pull, CheckBusy, Write, ReadBack, connection
<1>3. CASE StopEngine(r)
  BY <1>3 DEF StopEngine
<1>4. CASE StopClient(r)
  <2>1. Stage = "stop client" /\ Wish = request[r].wish /\ sockets' = sockets \ {request[r].wish.client}
    BY <1>4, HoldsIt DEF StopClient
  <2>. QED
    BY <2>1 DEF IInv, Built
<1>5. CASE Build(r)
  <2>1. Stage = "build"
    BY <1>5, HoldsIt DEF Build
  <2>2. sockets = {} /\ builds \in 0..MaxBuilds
    BY <2>1 DEF IInv, Built, TypeOK
  <2>3. sockets' = sockets \/ (builds < MaxBuilds /\ builds' = builds + 1 /\ sockets' = sockets \cup {builds'})
    BY <1>5 DEF Build
  <2>. QED
    BY <2>2, <2>3, ConnectionAssumption DEF Engines
<1>6. CASE StartEngine(r)
  <2>1. Stage = "start engine"
    BY <1>6, HoldsIt DEF StartEngine
  <2>2. sockets = {builds}
    BY <2>1 DEF IInv, Built
  <2>3. sockets' = sockets \/ sockets' = sockets \ {builds}
    BY <1>6 DEF StartEngine, Failed
  <2>. QED
    BY <2>2, <2>3
<1>. QED
  BY <1>1, <1>2, <1>3, <1>4, <1>5, <1>6 DEF Serve

\* Nothing is known of the link, and nobody waits.
LEMMA NoLink ==
  ASSUME LinkInv, link.of = None
  PROVE  link = Idle /\ \A c \in Calls : call[c].at # "waiting"
<1>1. link = Idle /\ NobodyWaitsInVain
  BY DEF LinkInv
<1>2. link.at = "stopped"
  BY <1>1 DEF Idle
<1>. QED
  BY <1>1, <1>2 DEF NobodyWaitsInVain

LEMMA FollowsKeeps ==
  ASSUME LinkInv, Looked, UNCHANGED scene, Follows,
         sockets' = sockets \/ sockets' = {} \/ (sockets = {} /\ builds' \in Engines /\ sockets' = {builds'})
  PROVE  LinkInv' /\ Looked'
<1>0. scene \in {"settings", "calls"} /\ scene' = scene
  BY LinkParts DEF LinkTypes
<1>1. CASE UNCHANGED linkVars /\ (scene = "settings" \/ sockets' = sockets)
  <2>1. UNCHANGED <<link, out, in, machine, reported, shown, call, count>>
    BY <1>1 DEF linkVars, wire, box
  <2>2. LinkTypes' /\ Redialled' /\ NobodyWaitsInVain' /\ Looked'
    <3>1. LinkTypes /\ Redialled /\ NobodyWaitsInVain
      BY DEF LinkInv
    <3>. QED
      BY <1>0, <2>1, <3>1 DEF LinkTypes, Redialled, NobodyWaitsInVain, Looked
  <2>3. Numbered' /\ OneLink'
    <3>1. Numbered /\ OneLink
      BY DEF LinkInv
    <3>2. Served' = Served
      BY <2>1 DEF Served
    <3>. QED
      BY <1>0, <1>1, <2>1, <3>1, <3>2 DEF Numbered, OneLink
  <2>4. scene = "settings" => link' = Idle /\ \A c \in Calls : call'[c] = NoCall
    BY <2>1 DEF LinkInv
  <2>5. link'.of = None => link' = Idle
    BY <2>1, NoLink
  <2>. QED
    BY <1>0, <2>2, <2>3, <2>4, <2>5 DEF LinkInv
<1>2. CASE /\ scene = "calls" /\ sockets' = {} /\ UNCHANGED <<machine, count, shown>> /\ in' = <<>> /\ out' = out
           /\ link' = Idle /\ call' = FailPending
  <2>1. /\ call' \in [Calls -> CallSet]
        /\ \A c \in Calls : call'[c].at # "waiting" /\ (call[c].at \in Begun => call'[c].at \in Begun)
    BY <1>2, LinkParts, FailedPending
  <2>2. link' \in Links /\ link'.of = None /\ link'.conn = 0 /\ in' \in Seq(Received)
    BY <1>2 DEF Idle, Links, Places, None
  <2>3. LinkTypes /\ LinkTypes'
    <3>1. LinkTypes /\ out \in Seq(Sent) /\ machine \in Machines /\ count \in Counts /\ shown \in [Engines -> Statuses]
      BY LinkParts
    <3>. QED
      BY <1>0, <1>2, <2>1, <2>2, <3>1 DEF LinkTypes
  <2>4. Numbered'
    <3>1. Numbered /\ machine.process <= count.processes /\ count.processes \in Nat /\ count.touches \in Nat
      BY LinkParts DEF LinkInv
    <3>2. machine'.process <= count'.processes /\ count'.processes + count.touches <= count.processes + count'.touches
      BY <1>2, <3>1
    <3>. QED
      BY <1>2, <2>1, <2>3, <3>1, <3>2, NumberedKept
  <2>5. Redialled'
    <3>1. count'.drops \in Nat /\ link'.at = "stopped"
      BY <1>2, LinkParts DEF Idle
    <3>2. link'.conn <= count'.drops + 1
      BY <2>2, <3>1
    <3>. QED
      BY <3>1, <3>2 DEF Redialled
  <2>6. NobodyWaitsInVain' /\ OneLink' /\ Looked'
    BY <1>2, <2>1, <2>2 DEF NobodyWaitsInVain, OneLink, Looked
  <2>. QED
    BY <1>0, <1>2, <2>3, <2>4, <2>5, <2>6 DEF LinkInv
<1>3. CASE /\ scene = "calls" /\ sockets = {} /\ builds' \in Engines /\ sockets' = {builds'}
           /\ UNCHANGED <<machine, count, shown, call>> /\ in' = <<>> /\ out' = <<>> /\ link' = Fresh(builds')
  <2>1. link.of = None
    BY <1>3 DEF LinkInv, OneLink
  <2>2. builds' # None
    BY <1>3 DEF Engines, None
  <2>3. link' = [of |-> builds', at |-> "connecting", conn |-> 0]
    BY <1>3, <2>2 DEF Fresh
  <2>4. link' \in Links /\ link'.of = builds' /\ link'.conn = 0 /\ in' \in Seq(Received) /\ out' \in Seq(Sent)
    BY <1>3, <2>3 DEF Links, Places
  <2>5. LinkTypes /\ LinkTypes'
    <3>1. LinkTypes /\ machine \in Machines /\ count \in Counts /\ shown \in [Engines -> Statuses] /\ call \in [Calls -> CallSet]
      BY LinkParts
    <3>. QED
      BY <1>0, <1>3, <2>4, <3>1 DEF LinkTypes
  <2>6. Numbered'
    <3>1. Numbered /\ machine.process <= count.processes /\ count.processes \in Nat /\ count.touches \in Nat
      BY LinkParts DEF LinkInv
    <3>2. machine'.process <= count'.processes /\ count'.processes + count.touches <= count.processes + count'.touches
      BY <1>3, <3>1
    <3>. QED
      BY <1>3, <2>5, <3>1, <3>2, NumberedKept
  <2>7. Redialled'
    <3>1. count'.drops \in Nat /\ link'.at = "connecting"
      BY <1>3, <2>3, LinkParts
    <3>2. link'.conn <= count'.drops + 0
      BY <2>4, <3>1
    <3>. QED
      BY <3>1, <3>2 DEF Redialled
  <2>8. NobodyWaitsInVain' /\ OneLink' /\ Looked'
    <3>1. \A c \in Calls : call'[c].at # "waiting"
      BY <1>3, <2>1, NoLink
    <3>2. NobodyWaitsInVain'
      BY <3>1 DEF NobodyWaitsInVain
    <3>3. link'.of \in sockets'
      BY <1>3, <2>4
    <3>4. OneLink'
      BY <3>3 DEF OneLink
    <3>5. Looked'
      BY <1>3 DEF Looked
    <3>. QED
      BY <3>2, <3>4, <3>5
  <2>. QED
    BY <1>0, <1>3, <2>2, <2>4, <2>5, <2>6, <2>7, <2>8 DEF LinkInv
<1>4. \/ UNCHANGED linkVars /\ (scene = "settings" \/ sockets' = sockets)
      \/ /\ scene = "calls" /\ sockets' = {} /\ UNCHANGED <<machine, count, shown>> /\ in' = <<>> /\ out' = out
         /\ link' = Idle /\ call' = FailPending
      \/ /\ scene = "calls" /\ sockets = {} /\ builds' \in Engines /\ sockets' = {builds'}
         /\ UNCHANGED <<machine, count, shown, call>> /\ in' = <<>> /\ out' = <<>> /\ link' = Fresh(builds')
  BY <1>0 DEF Follows
<1>. QED
  BY <1>1, <1>2, <1>3, <1>4

-----------------------------------------------------------------------------
(* Both together. *)

LEMMA LinkedInit == LinkInit => LinkedInv
<1>. SUFFICES ASSUME LinkInit
              PROVE  LinkedInv
  OBVIOUS
<1>1. IInv
  BY InitInvariant DEF LinkInit
<1>2. /\ scene \in {"settings", "calls"} /\ out = <<>> /\ in = <<>> /\ machine.process = 0
      /\ machine \in Machines /\ count = [drops |-> 0, touches |-> 0, processes |-> 0]
      /\ shown = [e \in Engines |-> Unreported] /\ call = [c \in Calls |-> NoCall]
  BY DEF LinkInit, Machines, Modes
<1>3. /\ client \in Engines \cup {None} /\ sockets = {client} \ {None}
  <2>1. client \in Engines \cup {None}
    BY <1>1 DEF IInv, TypeOK
  <2>. QED
    BY <2>1 DEF LinkInit, Init
<1>4. link = Idle \/ (client # None /\ scene = "calls" /\ link = [of |-> client, at |-> "connecting", conn |-> 0])
  BY DEF LinkInit, Fresh
<1>5. link \in Links /\ link.conn = 0 /\ (link.of = None \/ link.of \in sockets) /\ (link.of = None => link = Idle)
  <2>1. CASE link = Idle
    BY <2>1 DEF Idle, Links, Places
  <2>2. CASE client # None /\ scene = "calls" /\ link = [of |-> client, at |-> "connecting", conn |-> 0]
    BY <1>3, <2>2 DEF Links, Places
  <2>. QED
    BY <1>4, <2>1, <2>2
<1>6. LinkTypes
  <2>1. count \in Counts
    BY <1>2, LinkAssumption DEF Counts
  <2>2. Unreported \in Statuses
    BY DEF Unreported, Statuses
  <2>3. shown \in [Engines -> Statuses] /\ call \in [Calls -> CallSet] /\ out \in Seq(Sent) /\ in \in Seq(Received)
    BY <1>2, <2>2 DEF CallSet
  <2>. QED
    BY <1>2, <1>5, <2>1, <2>3 DEF LinkTypes
<1>7. Numbered /\ Looked
  <2>1. Cardinality(Served) \in Nat
    BY ServedFinite
  <2>. QED
    BY <1>2, <2>1 DEF Numbered, Looked
<1>8. Redialled
  <2>1. link.conn <= count.drops + 0 /\ link.conn <= count.drops + 1
    BY <1>2, <1>5
  <2>. QED
    BY <2>1 DEF Redialled
<1>9. OneLink /\ NobodyWaitsInVain
  BY <1>2, <1>5 DEF OneLink, NobodyWaitsInVain, NoCall
<1>10. scene = "settings" => link = Idle /\ \A c \in Calls : call[c] = NoCall
  BY <1>2, <1>4
<1>. QED
  BY <1>1, <1>5, <1>6, <1>7, <1>8, <1>9, <1>10 DEF LinkedInv, LinkInv

LEMMA LinkedStep == LinkedInv /\ [LinkedNext]_allVars => LinkedInv'
<1>. SUFFICES ASSUME LinkedInv, [LinkedNext]_allVars
              PROVE  LinkedInv'
  OBVIOUS
<1>0. IInv /\ LinkInv /\ Looked
  BY DEF LinkedInv
<1>1. ASSUME UNCHANGED scene, Follows, NEW r \in Requests, Ask(r) \/ Stop(r) \/ AskChange(r, Away) \/ Serve(r)
      PROVE  LinkedInv'
  <2>1. IInv'
    <3>1. IsPatch(Away)
      BY DEF IsPatch, Away, Keys
    <3>2. CASE Ask(r)
      BY <1>0, <3>2, StepInvariant DEF Next
    <3>. QED
      BY <1>0, <1>1, <3>1, <3>2, StopKeeps, AskKeeps, ServeKeeps
  <2>2. sockets' = sockets \/ sockets' = {} \/ (sockets = {} /\ builds' \in Engines /\ sockets' = {builds'})
    BY <1>0, <1>1, SocketsStep
  <2>. QED
    BY <1>0, <1>1, <2>1, <2>2, FollowsKeeps DEF LinkedInv
<1>2. CASE UNCHANGED scene /\ EngineSteps /\ Follows
  <2>1. IInv' /\ sockets' = sockets
    <3>1. PICK e \in Engines : Connected(e) \/ Over(e) \/ \E l \in Loops : Turn(e, l) \/ TakeLock(e, l)
      BY <1>2 DEF EngineSteps
    <3>2. IInv'
      BY <1>0, <3>1, EngineStepKeeps
    <3>3. sockets' = sockets
      BY <3>1 DEF Connected, Over, Turn, Wake, Finish, TakeLock, connection
    <3>. QED
      BY <3>2, <3>3
  <2>. QED
    BY <1>0, <1>2, <2>1, FollowsKeeps DEF LinkedInv
<1>3. CASE UNCHANGED scene /\ scene = "calls" /\ Linked /\ UNCHANGED vars
  <2>1. IInv'
    BY <1>0, <1>3, StepInvariant
  <2>2. AtCalls /\ client \in Engines \cup {None}
    BY <1>0, <1>3 DEF AtCalls, vars, connection, IInv, TypeOK
  <2>3. LinkInv' /\ Looked'
    <3>1. CASE Refuse \/ Notice \/ Again \/ Stopping \/ Drop
      BY <1>0, <2>2, <3>1, SupervisorKeeps
    <3>2. CASE Closed \/ Stopped
      BY <1>0, <2>2, <3>2, CloseKeeps
    <3>3. CASE Dial
      BY <1>0, <2>2, <3>3, DialKeeps
    <3>4. CASE Handle
      BY <1>0, <2>2, <3>4, HandleKeeps
    <3>5. CASE Report \/ SwitchMode \/ StartShot \/ ProcessEnds
      BY <1>0, <2>2, <3>5, MachineKeeps
    <3>6. CASE ReadFrame
      BY <1>0, <2>2, <3>6, ReadFrameKeeps
    <3>7. CASE \E c \in Calls : Call(c) \/ CallStep(c)
      BY <1>0, <2>2, <3>7, CallKeeps, CallStepKeeps
    <3>. QED
      BY <1>3, <3>1, <3>2, <3>3, <3>4, <3>5, <3>6, <3>7 DEF Linked, Supervise
  <2>. QED
    BY <2>1, <2>3 DEF LinkedInv
<1>4. CASE UNCHANGED allVars
  <2>1. UNCHANGED vars /\ UNCHANGED scene /\ UNCHANGED linkVars /\ sockets' = sockets /\ faults' = faults
    BY <1>4 DEF allVars, vars, connection
  <2>2. IInv'
    BY <1>0, <2>1, StepInvariant
  <2>3. Follows
    BY <2>1 DEF Follows
  <2>. QED
    BY <1>0, <2>1, <2>2, <2>3, FollowsKeeps DEF LinkedInv
<1>. QED
  <2>1. CASE UNCHANGED scene /\ Asks /\ Follows
    <3>1. PICK r \in Requests : Ask(r) \/ Stop(r) \/ AskChange(r, Away)
      BY <2>1 DEF Asks
    <3>. QED
      BY <1>1, <2>1, <3>1
  <2>2. CASE UNCHANGED scene /\ Serves /\ Follows
    BY <1>1, <2>2 DEF Serves
  <2>. QED
    BY <1>2, <1>3, <1>4, <2>1, <2>2 DEF LinkedNext

LEMMA LinkedInvariance == LinkedSpec => []LinkedInv
BY LinkedInit, LinkedStep, PTL DEF LinkedSpec

\* What the invariant says of the link.
LEMMA LinkedConsequences == LinkedInv => LinkedOK /\ PullsUncut /\ NobodyWaitsInVain
<1>. SUFFICES ASSUME LinkedInv
              PROVE  LinkedOK /\ PullsUncut /\ NobodyWaitsInVain
  OBVIOUS
<1>1. IInv /\ LinkInv /\ Numbered /\ OneLink /\ NobodyWaitsInVain
  BY DEF LinkedInv, LinkInv
<1>2. ConnectionOK /\ PullsUncut
  BY <1>1, Consequences
<1>3. LinkTypeOK
  <2>1. scene \in {"settings", "calls"} /\ link.of \in Engines \cup {None} /\ link.at \in Places
    BY <1>1, LinkParts DEF LinkTypes, Links
  <2>2. link.conn \in 0..(MaxDrops + 1)
    BY <1>1, LinkParts, LinkAssumption
  <2>3. machine.mode \in Modes /\ machine.process \in Processes
    BY <1>1, LinkParts, ProcessIsOne
  <2>4. \A e \in Engines : shown[e].mode \in Modes \cup {"unknown"} /\ shown[e].process \in Processes \cup {NotReported}
    BY <1>1, LinkParts DEF Statuses
  <2>5. \A c \in Calls : call[c].of \in Engines \cup {None} /\ call[c].kind \in Reads \cup Writes
    <3>1. \A c \in Calls : call[c] \in CallSet
      BY <1>1, LinkParts
    <3>2. NoCall.of \in Engines \cup {None} /\ NoCall.kind \in Kinds
      BY DEF NoCall, Kinds, Reads
    <3>3. \A it \in Made : it.of \in Engines \cup {None} /\ it.kind \in Kinds
      BY DEF Made
    <3>. QED
      BY <3>1, <3>2, <3>3 DEF CallSet, Kinds
  <2>. QED
    BY <2>1, <2>2, <2>3, <2>4, <2>5 DEF LinkTypeOK
<1>. QED
  BY <1>1, <1>2, <1>3 DEF LinkedOK

\* The connection and its one link are of their types and whole, and the link is the connection's
\* (`DeviceConnection`, `DeviceClient.start`, `stop`).
THEOREM LinkIsOne == LinkedSpec => []LinkedOK
BY LinkedInvariance, LinkedConsequences, PTL

\* A change of the machine's settings never cuts a pull, beside the link too (`DeviceConnection.update`).
THEOREM NoPullIsCut == LinkedSpec => []PullsUncut
BY LinkedInvariance, LinkedConsequences, PTL

\* Nobody waits for an answer from a socket that is gone (`_close_socket`, `_fail_pending`).
THEOREM NobodyIsForgotten == LinkedSpec => []NobodyWaitsInVain
BY LinkedInvariance, LinkedConsequences, PTL

\* A step that takes a frame off the line and ends a process is the machine's handling of that frame.
LEMMA OnlyTheMachineEnds ==
  ASSUME LinkedInv, [LinkedNext]_allVars, machine.process # 0, machine'.process = 0, out # <<>>, out' = Tail(out)
  PROVE  Handle
<1>1. out' # out
  <2>1. out \in Seq(Sent)
    BY LinkParts DEF LinkedInv
  <2>. QED
    BY <2>1, EmptySeq, LenProperties, HeadTailProperties
<1>2. machine' # machine
  OBVIOUS
<1>3. ~Follows
  BY <1>1, <1>2 DEF Follows, linkVars, wire, box
<1>4. ~UNCHANGED allVars
  BY <1>1 DEF allVars, linkVars, wire
<1>5. ~(\E c \in Calls : Call(c) \/ CallStep(c))
  BY <1>2 DEF Call, CallStep, Gate, Return, TimeOut, CallsOnly, box
<1>6. ~(Supervise \/ Refuse \/ Drop \/ ReadFrame)
  BY <1>2 DEF Supervise, Dial, Notice, Closed, Again, Stopping, Stopped, EndStop, Refuse, Drop, ReadFrame, box
<1>7. ~(Report \/ SwitchMode \/ StartShot \/ ProcessEnds)
  BY <1>1 DEF Report, SwitchMode, StartShot, ProcessEnds, wire
<1>. QED
  BY <1>3, <1>4, <1>5, <1>6, <1>7 DEF LinkedNext, Linked

\* A mode switch never ends a process that the machine had reported when the frame went
\* (`DeviceClient.change_mode`, `merge_status`).
THEOREM ReportedShotsFinish == LinkedSpec => NoReportedShotCut
<1>. DEFINE Lasts == machine.process # 0 /\ machine'.process = 0 /\ out # <<>> /\ out' = Tail(out)
                       => Head(out).saw # machine.process
<1>1. LinkedInv /\ [LinkedNext]_allVars => [Lasts]_allVars
  <2>. SUFFICES ASSUME LinkedInv, [LinkedNext]_allVars, machine.process # 0, machine'.process = 0, out # <<>>, out' = Tail(out)
                PROVE  Head(out).saw # machine.process
    OBVIOUS
  <2>1. Handle /\ LinkInv /\ Looked /\ Numbered
    BY OnlyTheMachineEnds DEF LinkedInv, LinkInv
  <2>2. Head(out).kind \in Modes
    BY <2>1 DEF Handle
  <2>3. Head(out) = out[1] /\ 1 \in 1..Len(out)
    <3>1. out \in Seq(Sent)
      BY <2>1, LinkParts
    <3>. QED
      BY <3>1, EmptySeq, LenProperties, HeadTailProperties
  <2>4. Head(out).saw \in {0, NotReported}
    BY <2>1, <2>2, <2>3 DEF Looked, Writes
  <2>5. machine.process \in Processes /\ NotReported \notin Processes
    BY <2>1, LinkParts, ProcessIsOne
  <2>. QED
    BY <2>4, <2>5
<1>. QED
  BY <1>1, LinkedInvariance, PTL DEF LinkedSpec, NoReportedShotCut
=============================================================================
