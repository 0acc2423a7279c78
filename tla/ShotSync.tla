------------------------------ MODULE ShotSync ------------------------------
(* The shot pass of the sync engine (sync/engine.py): the diff of the machine's *)
(* index with the archive, the fetches, what is stored, the reconciliation, and *)
(* the pull a profile pass makes before it saves over a file.                   *)
(* Shots are numbered in the order they are brewed; that is their start time.   *)
(* The machine's own number of a shot can be used again.                        *)
EXTENDS Naturals, Sequences, FiniteSets

CONSTANTS MaxShots,      \* how many shots are brewed
          Numbers,       \* the machine's numbers
          Unreadable,    \* which shots' files may not parse: sets of shots
          Contents,      \* what the profile's file can hold
          NoContent,     \* a file never mirrored, a shot not linked
          GiveUp,        \* MAX_CONSECUTIVE_DEVICE_ERRORS
          MaxFaults, MaxTouches, MaxPasses

ASSUME ShotsAssumption ==
  /\ MaxShots \in Nat /\ GiveUp \in Nat \ {0}
  /\ MaxFaults \in Nat /\ MaxTouches \in Nat /\ MaxPasses \in Nat
  /\ Numbers \subseteq Nat \ {0} /\ 1 \in Numbers
  /\ NoContent \notin Contents /\ Unreadable \subseteq SUBSET (1..MaxShots)

Shots == 1..MaxShots
NoShot == 0
Unknown == 0             \* the start time of a file that did not parse
Rows == [shot : Shots, rating : {NoShot} \cup Shots, deleted : BOOLEAN]
NoRow == [shot |-> NoShot, rating |-> NoShot, deleted |-> TRUE]
Records == [shot : Shots, number : Numbers, start : {Unknown} \cup Shots, gone : BOOLEAN,
            rating : {NoShot} \cup Shots, link : Contents \cup {NoContent}]

VARIABLES
  files,       \* the machine's .slog files: number -> shot
  rows,        \* index.bin: number -> the last row of the number
  served,      \* whether there is an index to serve
  next,        \* the number the next shot gets
  current,     \* the shot being brewed or written, and
  running,     \* whether the status frame says that a process runs
  holds,       \* what the profile's file holds
  on,          \* shot -> what the file held when it was brewed
  unreadable,  \* the shots whose file does not parse
  archive,     \* the rows of the shots table, by id
  mirrored,    \* what the archive says the file holds
  pushed,      \* _pushed_ids
  announced,   \* _announced_since_pull
  pass,        \* the shot pass in progress
  sync,        \* the profile pass in progress
  calm,        \* history: the machine listed what it had when the last pass planned, and nothing changed since
  due,         \* history: the shots the app had been told of, or saw running, when it last looked before a save
  blurred,     \* history: the shots whose content the app could not know
  crossed,     \* history: the shots fetched for the row of another shot that had their number
  faults, touches, passes

machine == <<files, rows, served, next, current, running, holds, on, unreadable>>
app == <<archive, mirrored, pushed, announced, pass, sync>>
history == <<calm, due, blurred, crossed>>
counters == <<faults, touches, passes>>
vars == <<machine, app, history, counters>>

NoPass == [at |-> "idle"]
NoSync == [at |-> "idle"]

Init ==
  /\ files = [n \in Numbers |-> NoShot] /\ rows = [n \in Numbers |-> NoRow]
  /\ served = TRUE /\ next = 1 /\ current = NoShot /\ running = FALSE
  /\ holds \in Contents /\ on = <<>> /\ unreadable \in Unreadable
  /\ archive = <<>> /\ mirrored = NoContent /\ pushed = {} /\ announced = FALSE
  /\ pass = NoPass /\ sync = NoSync
  /\ calm = FALSE /\ due = {} /\ blurred = {} /\ crossed = {}
  /\ faults = 0 /\ touches = 0 /\ passes = 0

Fault == faults < MaxFaults /\ faults' = faults + 1
Sound == UNCHANGED faults
Touch == touches < MaxTouches /\ touches' = touches + 1

Archived(s) == \E i \in DOMAIN archive : archive[i].shot = s
Linked(s) == \E i \in DOMAIN archive : archive[i].shot = s /\ archive[i].link # NoContent

----------------------------------------------------------------------------
(* The machine and the people at it. *)

\* A shot starts on what the file holds. If the archive says something else, it cannot know.
Brew ==
  /\ current = NoShot /\ Len(on) < MaxShots /\ next \in Numbers
  /\ current' = Len(on) + 1 /\ running' = TRUE /\ on' = Append(on, holds)
  /\ blurred' = IF mirrored \in {NoContent, holds} THEN blurred ELSE blurred \cup {current'}
  /\ UNCHANGED <<files, rows, served, next, holds, unreadable, app, calm, due, crossed, counters>>

\* The process ends; the file is not written yet.
Finished ==
  /\ running /\ running' = FALSE
  /\ UNCHANGED <<files, rows, served, next, current, holds, on, unreadable, app, history, counters>>

\* The file is closed and the shot announced. The announcement may not arrive: no connection,
\* or a subscriber so far behind that it lost the event.
Saved ==
  /\ current # NoShot /\ ~running
  /\ files' = [files EXCEPT ![next] = current] /\ next' = next + 1 /\ current' = NoShot
  /\ \/ Sound /\ pushed' = pushed \cup {next} /\ announced' = TRUE
        /\ due' = IF sync.at = "save" THEN due ELSE due \cup {current}
     \/ Fault /\ UNCHANGED <<pushed, announced, due>>
  /\ calm' = FALSE
  /\ UNCHANGED <<rows, served, running, holds, on, unreadable, archive, mirrored, pass, sync, blurred,
                 crossed, touches, passes>>

Machine(action) == action /\ calm' = FALSE /\ UNCHANGED <<app, due, blurred, crossed, faults, passes>>

\* The index lists the file, which may be before or after a pass reads it.
List(n) == Machine(
  /\ files[n] # NoShot /\ rows[n].shot # files[n]
  /\ rows' = [rows EXCEPT ![n] = [shot |-> files[n], rating |-> NoShot, deleted |-> FALSE]]
  /\ UNCHANGED <<files, served, next, current, running, holds, on, unreadable, touches>>)

\* Somebody rates the shot; a rating of one shot is never that of another.
Rate(n) == Machine(
  /\ Touch /\ rows[n] # NoRow /\ ~rows[n].deleted /\ rows[n].rating = NoShot
  /\ rows' = [rows EXCEPT ![n].rating = rows[n].shot]
  /\ UNCHANGED <<files, served, next, current, running, holds, on, unreadable>>)

\* cleanupHistory makes room.
Cleanup(n) == Machine(
  /\ Touch /\ files[n] # NoShot
  /\ files' = [files EXCEPT ![n] = NoShot]
  /\ rows' = IF rows[n].shot = files[n] THEN [rows EXCEPT ![n].deleted = TRUE] ELSE rows
  /\ UNCHANGED <<served, next, current, running, holds, on, unreadable>>)

\* req:history:rebuild: no index for a while, then one made of the files.
Rebuild == Machine(
  /\ Touch /\ served /\ served' = FALSE
  /\ UNCHANGED <<files, rows, next, current, running, holds, on, unreadable>>)
Rebuilt == Machine(
  /\ ~served /\ served' = TRUE
  /\ rows' = [n \in Numbers |-> IF files[n] = NoShot THEN NoRow
                                ELSE [shot |-> files[n], deleted |-> FALSE,
                                      rating |-> IF rows[n].shot = files[n] THEN rows[n].rating ELSE NoShot]]
  /\ UNCHANGED <<files, next, current, running, holds, on, unreadable, touches>>)

\* An erase restarts the counter; the files stay.
Erase == Machine(
  /\ Touch /\ next # 1 /\ current = NoShot /\ next' = 1
  /\ UNCHANGED <<files, rows, served, current, running, holds, on, unreadable>>)

\* The profile is edited at the display: what the shots not linked yet were brewed on is lost.
Edit(c) ==
  /\ Touch /\ c # holds /\ holds' = c
  /\ blurred' = blurred \cup {s \in DOMAIN on : ~Linked(s)}
  /\ UNCHANGED <<files, rows, served, next, current, running, on, unreadable, app, calm, due, crossed,
                 faults, passes>>

----------------------------------------------------------------------------
(* The shot pass. *)

\* Mutant: the number alone tells the shots apart.
DescribesNumber(r, n, i) == r # NoRow /\ archive[i].number = n

Describes(r, n, i) == r # NoRow /\ archive[i].number = n /\ archive[i].start = r.shot
IsPaired(index, n) == \E i \in DOMAIN archive : Describes(index[n], n, i)
Pairs(index, i) == Describes(index[archive[i].number], archive[i].number, i)

\* What to fetch: the listed numbers without their shot, then the announced ones not listed.
Missing(index) ==
  {[number |-> n, row |-> index[n]] : n \in {m \in Numbers : ~index[m].deleted /\ ~IsPaired(index, m)}}
  \cup {[number |-> n, row |-> NoRow] : n \in {m \in pushed : index[m] = NoRow}}

Start(index, full) ==
  /\ pass' = [at |-> "fetch", index |-> index, full |-> full, todo |-> Missing(index),
              held |-> Len(archive), consecutive |-> 0, errors |-> FALSE]
  /\ pushed' = {}
  /\ calm' = (full /\ \A n \in Numbers : IF files[n] = NoShot THEN index[n].deleted
                                         ELSE index[n].shot = files[n])

Empty == [n \in Numbers |-> NoRow]

\* The index is read and the pass planned; without an index nothing is listed, and a failure ends the pass.
ReadIndex ==
  \/ Sound /\ Start(IF served THEN rows ELSE Empty, served)
  \/ Fault /\ pass' = [NoPass EXCEPT !.at = "failed"] /\ calm' = FALSE /\ UNCHANGED pushed

AskShots ==
  /\ pass.at = "idle" /\ sync.at = "idle" /\ passes < MaxPasses /\ passes' = passes + 1
  /\ ReadIndex
  /\ UNCHANGED <<machine, archive, mirrored, announced, sync, due, blurred, crossed, touches>>

\* Listed before announced, in the order of the numbers; two workers.
Before(i, j) == \/ i.row # NoRow /\ j.row = NoRow
                \/ (i.row = NoRow <=> j.row = NoRow) /\ i.number < j.number
Ready(i) == Cardinality({j \in pass.todo : Before(j, i)}) < 2

Held(n, start) == \E i \in DOMAIN archive : archive[i].number = n /\ archive[i].start = start
Record(i, s, start) ==
  [shot |-> s, number |-> i.number, start |-> start, gone |-> i.row # NoRow /\ i.row.deleted,
   rating |-> i.row.rating, link |-> IF s \in unreadable THEN NoContent ELSE mirrored]

\* A shot stored before any row listed it, which this row and these bytes are.
Adopted(i, s) == {k \in DOMAIN archive : /\ i.row # NoRow /\ archive[k].number = i.number
                                         /\ archive[k].start = Unknown /\ ~archive[k].gone
                                         /\ archive[k].shot = s}

StoreReadable(i, s) ==
  archive' = IF Held(i.number, s) THEN archive ELSE Append(archive, Record(i, s, s))

StoreQuarantined(i, s) ==
  archive' = IF Adopted(i, s) # {}
             THEN [k \in DOMAIN archive |->
                     IF k \in Adopted(i, s) THEN [archive[k] EXCEPT !.start = i.row.shot] ELSE archive[k]]
             ELSE IF IF i.row = NoRow THEN \E k \in DOMAIN archive : archive[k].number = i.number
                     ELSE Held(i.number, i.row.shot)
             THEN archive
             ELSE Append(archive, Record(i, s, i.row.shot))

\* A fetch that failed leaves its shot for the next pull; enough of them in a row end the fetching.
FetchFails(i) ==
  /\ Fault /\ UNCHANGED <<archive, crossed>>
  /\ \E retryable \in BOOLEAN :
       LET consecutive == IF retryable THEN pass.consecutive + 1 ELSE 0
           over == consecutive >= GiveUp
       IN  pass' = [pass EXCEPT !.consecutive = consecutive, !.errors = TRUE,
                                !.todo = IF over THEN {} ELSE pass.todo \ {i}]

FetchServes(i) ==
  /\ Sound
  /\ pass' = [pass EXCEPT !.consecutive = 0, !.todo = pass.todo \ {i}]
  /\ LET s == files[i.number]
     IN  crossed' = IF s \notin {NoShot, i.row.shot} /\ i.row # NoRow THEN crossed \cup {s} ELSE crossed
  /\ LET s == files[i.number]
     IN  \/ s = NoShot /\ UNCHANGED archive
         \/ s # NoShot /\ s \notin unreadable /\ StoreReadable(i, s)
         \/ s # NoShot /\ s \in unreadable /\ StoreQuarantined(i, s)

Fetch(i) ==
  /\ pass.at = "fetch" /\ i \in pass.todo /\ Ready(i)
  /\ FetchFails(i) \/ FetchServes(i)
  /\ UNCHANGED <<machine, mirrored, pushed, announced, sync, calm, due, blurred, touches, passes>>

\* Mutant: a shot that no row describes keeps what the archive says of it.
ReconciledListed(i) ==
  LET r == archive[i]
  IN  IF Pairs(pass.index, i)
      THEN [r EXCEPT !.rating = pass.index[r.number].rating, !.gone = pass.index[r.number].deleted]
      ELSE r

\* What the index says of the archived shots: of a shot its own row describes, that row's facts;
\* of one that no row describes, that the machine no longer has it.
Reconciled(i) ==
  LET r == archive[i]
  IN  IF Pairs(pass.index, i)
      THEN [r EXCEPT !.rating = pass.index[r.number].rating, !.gone = pass.index[r.number].deleted]
      ELSE [r EXCEPT !.gone = @ \/ (pass.full /\ i <= pass.held)]

Reconcile ==
  /\ pass.at = "fetch" /\ pass.todo = {}
  /\ archive' = [i \in DOMAIN archive |-> Reconciled(i)]
  /\ pass' = [pass EXCEPT !.at = IF pass.errors THEN "failed" ELSE "ok"]
  /\ calm' = (calm /\ ~pass.errors)
  /\ UNCHANGED <<machine, mirrored, pushed, announced, sync, due, blurred, crossed, counters>>

\* A pass somebody asked for is over.
EndPass ==
  /\ pass.at \in {"ok", "failed"} /\ sync.at = "idle" /\ pass' = NoPass
  /\ UNCHANGED <<machine, archive, mirrored, pushed, announced, sync, history, counters>>

----------------------------------------------------------------------------
(* The profile pass, as far as the shots are concerned. *)

\* Every shot of the file that is not linked is linked to what the file holds.
LinkUnlinked(c) ==
  archive' = [i \in DOMAIN archive |->
                IF archive[i].link = NoContent /\ archive[i].shot \notin unreadable
                THEN [archive[i] EXCEPT !.link = c] ELSE archive[i]]

AskProfiles ==
  /\ pass.at = "idle" /\ sync.at = "idle" /\ passes < MaxPasses /\ passes' = passes + 1
  /\ mirrored' = holds /\ LinkUnlinked(holds)
  /\ sync' = [at |-> "push", pulled |-> "not yet", tries |-> 0]
  /\ UNCHANGED <<machine, pushed, announced, pass, history, faults, touches>>

Step(at) == sync' = [sync EXCEPT !.at = at]
Leave == sync' = NoSync

\* The first look at whether a shot is running.
LookFirst ==
  /\ sync.at = "push"
  /\ IF running THEN Leave ELSE sync' = [sync EXCEPT !.at = "pull", !.tries = 0]
  /\ UNCHANGED <<machine, archive, mirrored, pushed, announced, pass, history, counters>>

MustPull == sync.pulled = "not yet" \/ (sync.pulled = "ok" /\ announced)

\* The pull, asked for when there was none or when a shot was announced since.
PullStarts ==
  /\ sync.at = "pull" /\ MustPull /\ pass.at = "idle"
  /\ announced' = FALSE /\ ReadIndex /\ Step("pulling")
  /\ due' = {s \in Shots : \E n \in Numbers : files[n] = s
                             /\ \/ n \in pushed /\ rows[n].shot \in {NoShot, s}
                                \/ served /\ rows[n].shot = s /\ ~rows[n].deleted}
  /\ UNCHANGED <<machine, archive, mirrored, blurred, crossed, touches, passes>>

\* A complete pull links what it found to what the file still holds.
Complete == pass.at = "ok" /\ (pass.full \/ archive = <<>>)

PullEnds ==
  /\ sync.at = "pulling" /\ pass.at \in {"ok", "failed"} /\ pass' = NoPass
  /\ IF Complete THEN LinkUnlinked(mirrored) ELSE UNCHANGED archive
  /\ sync' = [sync EXCEPT !.at = "pull", !.pulled = IF Complete THEN "ok" ELSE "failed",
                          !.tries = @ + 1]
  /\ UNCHANGED <<machine, mirrored, pushed, announced, history, counters>>

\* Mutant: a shot announced since the pull is not asked about.
LookAgainOnce ==
  /\ sync.at = "pull" /\ sync.pulled # "not yet"
  /\ due' = IF running THEN due \cup {current} ELSE due
  /\ IF sync.pulled # "ok" \/ running THEN Leave ELSE Step("save") \/ Step("push")
  /\ UNCHANGED <<machine, archive, mirrored, pushed, announced, pass, calm, blurred, crossed, counters>>

\* Nothing announced since the pull and nothing running: the save may start, of this file or of another.
LookAgain ==
  /\ sync.at = "pull" /\ ~(MustPull /\ sync.tries < 3)
  /\ due' = IF running THEN due \cup {current} ELSE due
  /\ IF sync.pulled # "ok" \/ announced \/ running THEN Leave ELSE Step("save") \/ Step("push")
  /\ UNCHANGED <<machine, archive, mirrored, pushed, announced, pass, calm, blurred, crossed, counters>>

\* The guarded save: nothing when the file holds something else, and its answer may be lost.
Save(c) ==
  /\ sync.at = "save" /\ c # mirrored
  /\ \/ holds # mirrored /\ Sound /\ UNCHANGED <<holds, mirrored, blurred>>
     \/ /\ holds = mirrored /\ holds' = c
        /\ blurred' = blurred \cup {s \in DOMAIN on : ~Archived(s) /\ s \notin due}
        /\ \/ Sound /\ mirrored' = c
           \/ Fault /\ UNCHANGED mirrored
  /\ Leave
  /\ UNCHANGED <<files, rows, served, next, current, running, on, unreadable,
                 archive, pushed, announced, pass, calm, due, crossed, touches, passes>>

----------------------------------------------------------------------------

\* The process stops and starts, or the engine is replaced: what was only in memory is gone.
Crash ==
  /\ Fault
  /\ pass' = NoPass /\ sync' = NoSync /\ pushed' = {} /\ announced' = FALSE
  /\ calm' = FALSE /\ due' = {}
  /\ UNCHANGED <<machine, archive, mirrored, blurred, crossed, touches, passes>>

AtMachine == \/ Brew \/ Finished \/ Saved \/ Rebuild \/ Rebuilt \/ Erase
             \/ \E n \in Numbers : List(n) \/ Rate(n) \/ Cleanup(n)
             \/ \E c \in Contents : Edit(c)
ShotPass == AskShots \/ Reconcile \/ EndPass
            \/ (pass.at = "fetch" /\ \E i \in pass.todo : Fetch(i))
ProfilePass == AskProfiles \/ LookFirst \/ PullStarts \/ PullEnds \/ LookAgain
               \/ \E c \in Contents : Save(c)
Next == AtMachine \/ ShotPass \/ ProfilePass \/ Crash
Spec == Init /\ [][Next]_vars

----------------------------------------------------------------------------

TypeOK ==
  /\ files \in [Numbers -> {NoShot} \cup Shots] /\ rows \in [Numbers -> Rows \cup {NoRow}]
  /\ served \in BOOLEAN /\ next \in Nat \ {0} /\ current \in {NoShot} \cup Shots /\ running \in BOOLEAN
  /\ holds \in Contents /\ on \in Seq(Contents) /\ Len(on) <= MaxShots /\ unreadable \subseteq Shots
  /\ archive \in Seq(Records) /\ mirrored \in Contents \cup {NoContent}
  /\ pushed \subseteq Numbers /\ announced \in BOOLEAN
  /\ pass.at \in {"idle", "fetch", "ok", "failed"}
  /\ sync.at \in {"idle", "push", "pull", "pulling", "save"}
  /\ calm \in BOOLEAN /\ due \subseteq Shots /\ blurred \subseteq Shots /\ crossed \subseteq Shots

\* What the machine says of a shot is written to that shot and to no other, however often a
\* number is used again (`pair_index`, `_reconcile`).
OwnFacts == \A i \in DOMAIN archive :
  LET r == archive[i] IN r.shot \notin crossed => r.rating \in {NoShot, r.shot} /\ r.start \in {Unknown, r.shot}

\* The archive is what the code takes it for: its types, and the facts of each shot its own.
ArchiveOK == TypeOK /\ OwnFacts

\* A shot is linked to what its file held when it was brewed. The app's own saves never come
\* between, unless the shot started during the save or the app was not told of it (`_pulled_the_shots`).
LinkedToBrewed == \A i \in DOMAIN archive :
  LET r == archive[i] IN r.link \in {NoContent, on[r.shot]} \/ r.shot \in blurred

\* After a complete pass over a machine that lists what it has, the archive has every shot the
\* machine has, with its rating, and marks every other one gone.
PassSettles == pass.at = "idle" /\ calm =>
  /\ \A n \in Numbers : files[n] # NoShot =>
       \E i \in DOMAIN archive : /\ archive[i].shot = files[n] /\ archive[i].start = files[n]
                                 /\ ~archive[i].gone /\ archive[i].rating = rows[n].rating
  /\ \A i \in DOMAIN archive : archive[i].gone \/ \E n \in Numbers : files[n] = archive[i].shot
=============================================================================
