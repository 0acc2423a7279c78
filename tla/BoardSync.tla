----------------------------- MODULE BoardSync -----------------------------
(***************************************************************************)
(* The sync of the profile list with the machine (drafts/board.py): the    *)
(* mirror, the plan of BoardPlan, and the write phase that walks it one    *)
(* profile at a time, while people change the list and the machine's       *)
(* display changes the files between any two steps.  An operation on the   *)
(* machine is one step here; its frames are the subject of MachineFiles.   *)
(***************************************************************************)
EXTENDS BoardPlan

CONSTANTS
  MaxFailures,   \* MAX_CONSECUTIVE_FAILURES
  Quiet,         \* bound: undisturbed syncs in a row counted
  Scenes         \* bound: the situations a run explores

\* A scene says which things people and the display do, under which names, how often, how often
\* something fails, and what the machine holds when the app first meets it.
ASSUME SyncAssumption ==
  /\ MaxFailures \in Nat \ {0} /\ Quiet \in Nat
  /\ \A s \in Scenes :
       /\ s.names \subseteq Names /\ IsFiniteSet(s.people) /\ IsFiniteSet(s.display)
       /\ {s.maxPeople, s.maxTouches, s.maxFaults} \subseteq Nat
       /\ s.first \in [Files -> Docs \cup {NoDoc}]

VARIABLES
  files,     \* [Files -> Docs \cup {NoDoc}]: what the machine holds
  starred, selected,
  mirror,    \* what the archive last saw it hold
  writes,    \* the switch deviceWritesEnabled
  adopted,   \* the machine's files were taken into the list once
  paused,    \* a sync found the machine reset, and nobody resumed it
  sync,      \* the sync in progress
  spent,     \* how much of the bounds is spent
  scene,     \* bound: the situation this behaviour is in
  quiet      \* undisturbed complete syncs in a row

listVars == <<rows, unsafe, resumePending, adopted, paused>>
machineVars == <<files, starred, selected>>
vars == <<listVars, machineVars, mirror, writes, sync, spent, scene, quiet>>

Held == {f \in Files : files[f] # NoDoc}

\* An id no file has had that anything still remembers.
Remembered ==
  Held \cup Claimed \cup starred \cup {selected} \cup {f \in Files : mirror[f] # NoDoc}
    \cup (IF sync.pc = "idle" THEN {} ELSE {f \in Files : sync.m.docs[f] # NoDoc})
    \cup {sync.file}
FreshIds == Files \ Remembered

\* Bound: a file the app does not know finds a row to join the list as.
Room == Cardinality(Held \ Claimed) < Cardinality(FreeRows)

-----------------------------------------------------------------------------
(* The sync in progress.                                                    *)

NoRead == [docs |-> [f \in Files |-> NoDoc], starred |-> {}, selected |-> NoFile,
           unreadable |-> {}]

\* `todo` is what is left of each part of the write phase.  `row` and `file` are the
\* profile being dealt with on the machine, and `blocked` what was said of its removal.
Idle == [pc |-> "idle", m |-> NoRead, plan |-> <<>>,
         todo |-> [join |-> {}, take |-> {}, on |-> {}, off |-> {}, deleted |-> {}, star |-> {}],
         names |-> <<>>, attached |-> <<>>, held |-> [r \in Rows |-> NoFile], fresh |-> {},
         failures |-> 0, wrote |-> FALSE, offline |-> FALSE, row |-> NoRow, file |-> NoFile,
         blocked |-> FALSE, since |-> [people |-> 0, touches |-> 0, faults |-> 0]]

Faulty ==
  /\ spent.faults < scene.maxFaults /\ spent' = [spent EXCEPT !.faults = @ + 1] /\ quiet' = 0
  /\ UNCHANGED scene
Sound == UNCHANGED <<spent, scene, quiet>>

\* Three failures in a row end the phase (the stars are still put right).
Stopped(s) ==
  IF s.failures < MaxFailures THEN s
  ELSE [s EXCEPT !.todo.on = {}, !.todo.off = {}, !.todo.deleted = {}]
Failed(s) == Stopped([s EXCEPT !.failures = @ + 1])

\* The parts of the write phase, in their order: nothing is removed before every save has
\* been tried.
Parts == <<"join", "take", "on", "off", "deleted">>
At(k) ==
  /\ sync.pc = "work"
  /\ sync.todo[Parts[k]] # {}
  /\ \A j \in 1 .. k - 1 : sync.todo[Parts[j]] = {}
NextOf(k, none) == First(sync.todo[Parts[k]], none)
Done(s, k, i) == [s EXCEPT !.todo[Parts[k]] = @ \ {i}]

-----------------------------------------------------------------------------
(* The start of a sync: the mirror, then the read the plan is made of.      *)

\* sync/engine.py, the profile pass.
Mirror ==
  /\ sync.pc = "idle"
  /\ mirror' = files
  /\ sync' = [Idle EXCEPT !.pc = "mirrored", !.since = spent]
  /\ UNCHANGED <<listVars, machineVars, writes, spent, scene, quiet>>

Taking(plan) == {r \in Rows : plan[r].what # "none" /\ plan[r].takes # <<>>}

\* With the switch off names are taken from what was mirrored, and nothing is sent.
TakeFromTheMirror ==
  /\ sync.pc = "mirrored" /\ ~writes
  /\ LET m == [NoRead EXCEPT !.docs = mirror, !.selected = selected]
         plan == [r \in Rows |-> PlanOf(r, m)]
     IN sync' = IF adopted /\ ~paused /\ (resumePending \/ ~LooksReset(m)) /\ Taking(plan) # {}
                THEN [sync EXCEPT !.pc = "work", !.m = m, !.plan = plan, !.offline = TRUE,
                                  !.todo.take = Taking(plan)]
                ELSE Idle
  /\ UNCHANGED <<listVars, machineVars, mirror, writes, spent, scene, quiet>>

\* A file that joins the list: a profile that is on, starred as the machine has it.
Joined(doc, f, name, star) ==
  [Free EXCEPT !.state = "live", !.label = name, !.current = doc.brew, !.listed = {doc.brew},
               !.file = f, !.recorded = doc, !.on = TRUE, !.home = star, !.chosen = {doc.brew}]

\* The rows these files become: ids are given out in order.
InOrder(joining) ==
  {row \in [joining -> FreeRows] :
     /\ \A f, g \in joining : f < g => row[f] < row[g]
     /\ \A f \in joining, x \in FreeRows : x < row[f] => \E g \in joining : row[g] = x}

\* The first sync takes all files in one transaction, and ends.
Adopt(m) ==
  /\ ~adopted
  /\ sync' = Idle
  /\ LET names == JoinNames(m)
     IN IF \A f \in Files : m.docs[f] = NoDoc
        THEN UNCHANGED <<rows, adopted>>   \* an empty list is a failed read
        ELSE /\ adopted' = TRUE
             /\ \E row \in InOrder(DOMAIN names) :
                  rows' = [r \in Rows |->
                    IF \E f \in DOMAIN names : row[f] = r
                    THEN LET f == CHOOSE f \in DOMAIN names : row[f] = r
                         IN Joined(m.docs[f], f, names[f], f \in m.starred)
                    ELSE rows[r]]
  /\ UNCHANGED paused

Pause(m) ==
  /\ adopted
  /\ paused \/ (~resumePending /\ LooksReset(m))
  /\ paused' = TRUE
  /\ sync' = Idle
  /\ UNCHANGED <<rows, adopted>>

Begin(m) ==
  /\ adopted /\ ~paused /\ (resumePending \/ ~LooksReset(m))
  /\ LET plan == [r \in Rows |-> PlanOf(r, m)]
         Does(r, whats) == plan[r].what \in whats \/ (plan[r].what # "none" /\ plan[r].edited)
     IN sync' =
          [sync EXCEPT
             !.pc = "work", !.m = m, !.plan = plan,
             !.names = JoinNames(m), !.attached = Attached(m),
             !.todo = [join |-> Unseen(m), take |-> Taking(plan),
                       on |-> {r \in Live : rows[r].on /\ Does(r, {"conflict", "push"})},
                       off |-> {r \in Live : ~rows[r].on
                                   /\ Does(r, {"conflict", "release", "remove"})},
                       deleted |-> {r \in Deleted : Does(r, {"release", "remove"})},
                       star |-> {rows[r].file : r \in StarsOff(m)}],
             !.held = [r \in Rows |-> IF plan[r].what = "held" THEN rows[r].file ELSE NoFile]]
  /\ UNCHANGED <<rows, adopted, paused>>

\* The machine is listed and every file loaded; a file that does not load is unreadable.
Read ==
  /\ sync.pc = "mirrored" /\ writes
  /\ \E unread \in SUBSET Held :
       /\ \/ unread = {} /\ Sound
          \/ Cardinality(unread) = 1 /\ Faulty
       /\ LET m == [docs |-> [f \in Files |-> IF f \in unread THEN NoDoc ELSE files[f]],
                    starred |-> starred, selected |-> selected, unreadable |-> unread]
          IN Adopt(m) \/ Pause(m) \/ Begin(m)
  /\ UNCHANGED <<machineVars, unsafe, resumePending, mirror, writes>>

-----------------------------------------------------------------------------
(* What the write phase does to the list only.                              *)

\* A version kept because its file held it; one the profile lists already stays as it was.
Keep(row, brew) == [row EXCEPT !.found = @ \cup ({brew} \ row.listed)]

StoodOn(f, r) == \E x \in Live \ {r} : rows[x].file = f

\* One file joins, as a new profile or, after a resumed reset, as the file of one that lost
\* its own.  The index on live rows' files refuses a second row on one file.
Join ==
  /\ At(1)
  /\ LET f == NextOf(1, NoFile)
         doc == sync.m.docs[f]
         r == IF sync.attached[f] # NoRow THEN sync.attached[f] ELSE First(FreeRows, NoRow)
         done == Done(sync, 1, f)
     IN IF StoodOn(f, r)
        THEN sync' = done /\ UNCHANGED rows
        ELSE /\ r # NoRow   \* bound: Room keeps a row for it
             /\ sync' = [done EXCEPT !.fresh = @ \cup {r}]
             /\ rows' = [rows EXCEPT ![r] =
                  IF sync.attached[f] # NoRow
                  THEN [Keep(@, doc.brew) EXCEPT !.file = f, !.recorded = doc]
                  ELSE Joined(doc, f, sync.names[f], f \in sync.m.starred)]
  /\ UNCHANGED <<unsafe, resumePending, adopted, paused, machineVars, mirror, writes, spent,
                 scene, quiet>>

\* The name the plan found free is asked again, and the profile must not have been renamed.
StillFree(r) ==
  LET p == sync.plan[r]
  IN /\ rows[r].state = "live" /\ rows[r].label = p.was.label
     /\ rows[r].recorded # NoDoc /\ p.was.recorded # NoDoc
     /\ p.takes \notin TakenNames(r, TRUE)

\* A profile whose file was renamed at the machine alone takes that name.
\* The plan then goes on with the row as it is now, switched or not since.
Take ==
  /\ At(2)
  /\ LET r == NextOf(2, NoRow)
         p == sync.plan[r]
         now == [brew |-> rows[r].recorded.brew, name |-> p.target.name]
         done == Done(sync, 2, r)
         part == IF rows[r].on THEN "on" ELSE "off"
     IN IF StillFree(r)
        THEN /\ rows' = [rows EXCEPT ![r].label = p.takes, ![r].recorded = now]
             /\ sync' = IF sync.offline THEN done
                        ELSE [done EXCEPT
                               !.plan[r].was.label = p.takes, !.plan[r].was.recorded = now,
                               !.todo.on = @ \ {r}, !.todo.off = @ \ {r}, !.todo[part] = @ \cup {r}]
        ELSE /\ sync' = [done EXCEPT !.plan[r].edited = FALSE,
                                     !.plan[r].target.name = p.was.shown]
             /\ UNCHANGED rows
  /\ UNCHANGED <<unsafe, resumePending, adopted, paused, machineVars, mirror, writes, spent,
                 scene, quiet>>

-----------------------------------------------------------------------------
(* One profile that is on.                                                  *)

\* What its file holds is kept as a version and recorded, before anything else.
Recorded(r) ==
  LET p == sync.plan[r]
      seen == sync.m.docs[p.was.file]
  IN IF p.edited THEN [Keep(rows[r], seen.brew) EXCEPT !.recorded = seen] ELSE rows[r]

\* A profile in conflict: the machine's content is kept as a version, and nothing else.
KeepBoth(r) ==
  /\ rows' = [rows EXCEPT ![r] = Keep(@, sync.m.docs[sync.plan[r].was.file].brew)]
  /\ UNCHANGED <<machineVars, spent, scene, quiet>>

\* Mutant: a push that landed on another file than the row's goes unnoticed.
SettledByContent(row, p, f) ==
  IF p.was.recorded # p.target THEN [row EXCEPT !.file = f, !.recorded = p.target] ELSE row

\* The row names the file and what it holds, when the row the plan read did not.
Settled(row, p, f) ==
  IF p.was.file # f \/ p.was.recorded # p.target
  THEN [row EXCEPT !.file = f, !.recorded = p.target] ELSE row

Landed(s, r, f) == [s EXCEPT !.pc = "settle", !.row = r, !.file = f, !.wrote = TRUE]

\* A save over the profile's own file, guarded by what is recorded for it now.
SaveOver(r, f, done) ==
  LET row == Recorded(r)
      sent == sync.plan[r].target
      Leave(s) == rows' = [rows EXCEPT ![r] = row] /\ sync' = s /\ UNCHANGED machineVars
      Writes(d) == files' = [files EXCEPT ![f] = d] /\ UNCHANGED <<starred, selected>>
  IN \/ row.recorded = NoDoc /\ Leave(done) /\ Sound
     \/ /\ row.recorded # NoDoc
        /\ \/ \* a shot is running, or the shots could not be pulled
              Leave(done) /\ Faulty
           \/ Leave(Failed(done)) /\ Faulty
           \/ files[f] = NoDoc /\ Leave(Failed(done)) /\ Sound
           \/ files[f] # NoDoc /\ files[f] # row.recorded /\ Leave(done) /\ Sound
           \/ files[f] = row.recorded /\ ~writes /\ Leave(Failed(done)) /\ Sound
           \/ /\ files[f] = row.recorded /\ writes
              /\ Writes(sent) /\ Sound
              /\ rows' = [rows EXCEPT ![r] = row]
              /\ sync' = Landed(done, r, f)
           \/ \* saved over, and the answer is lost
              /\ files[f] = row.recorded /\ writes
              /\ Writes(sent)
              /\ rows' = [rows EXCEPT ![r] = row]
              /\ sync' = Failed(done) /\ Faulty
           \/ \* not read back as sent: put back, or left as the machine stored it
              /\ files[f] = row.recorded /\ writes
              /\ \E d \in {row.recorded} \cup [brew: Brews, name: {sent.name}] : Writes(d)
              /\ rows' = [rows EXCEPT ![r] = [row EXCEPT !.failed = sent.brew]]
              /\ sync' = Failed([done EXCEPT !.wrote = TRUE]) /\ Faulty

\* A new file for a profile that has none.
SaveNew(r, done) ==
  LET row == Recorded(r)
      sent == sync.plan[r].target
      Leave(s) == rows' = [rows EXCEPT ![r] = row] /\ sync' = s /\ UNCHANGED machineVars
      Creates(f, d) == /\ files' = [files EXCEPT ![f] = d]
                       /\ starred' = starred \cup {f}
                       /\ UNCHANGED selected
  IN \/ ~writes /\ Leave(Failed(done)) /\ Sound
     \/ \E f \in FreshIds :
          /\ writes
          /\ \/ /\ Creates(f, sent) /\ Sound
                /\ rows' = [rows EXCEPT ![r] = row]
                /\ sync' = Landed(done, r, f)
             \/ \* the answer is lost: a file the app does not know is its own
                /\ Room /\ Creates(f, sent)
                /\ rows' = [rows EXCEPT ![r] = row]
                /\ sync' = Failed(done) /\ Faulty
             \/ \* not read back as sent, and not removed again: the profile stands on it
                /\ \E d \in [brew: Brews, name: {sent.name}] : Creates(f, d)
                /\ rows' = [rows EXCEPT ![r] =
                     [row EXCEPT !.failed = sent.brew, !.file = f, !.recorded = sent]]
                /\ sync' = Failed([done EXCEPT !.wrote = TRUE]) /\ Faulty
     \/ /\ writes /\ Faulty
        /\ UNCHANGED machineVars
        /\ \/ rows' = [rows EXCEPT ![r] = row] /\ sync' = Failed(done)
           \/ \* not read back as sent, and removed again
              /\ rows' = [rows EXCEPT ![r] = [row EXCEPT !.failed = sent.brew]]
              /\ sync' = Failed([done EXCEPT !.wrote = TRUE])

ApplyRow ==
  /\ At(3)
  /\ LET r == NextOf(3, NoRow)
         p == sync.plan[r]
         done == Done(sync, 3, r)
         f == rows[r].file
     IN \/ p.what = "conflict" /\ KeepBoth(r) /\ sync' = done
        \/ p.what = "report" /\ sync' = done /\ UNCHANGED <<rows, machineVars, spent, scene, quiet>>
        \/ \* planned as off: neither held nor pushed, and the assertion ends the phase
           /\ p.what \in {"leave", "remove"}
           /\ rows' = [rows EXCEPT ![r] = Recorded(r)]
           /\ sync' = Idle /\ UNCHANGED <<machineVars, spent, scene, quiet>>
        \/ /\ p.what = "held"
           /\ rows' = [rows EXCEPT ![r] = Settled(Recorded(r), p, p.was.file)]
           /\ sync' = done /\ UNCHANGED <<machineVars, spent, scene, quiet>>
        \/ \* outside the safety bounds, as they are now
           /\ p.what = "push" /\ p.target.brew \in unsafe
           /\ rows' = [rows EXCEPT ![r] = Recorded(r)]
           /\ sync' = done /\ UNCHANGED <<machineVars, spent, scene, quiet>>
        \/ /\ p.what = "push" /\ p.target.brew \notin unsafe
           /\ IF f # NoFile /\ sync.m.docs[f] # NoDoc
              THEN SaveOver(r, f, done)
              ELSE SaveNew(r, done)
  /\ UNCHANGED <<unsafe, resumePending, adopted, paused, mirror, writes>>

\* A save that verified is written down.
Settle ==
  /\ sync.pc = "settle"
  /\ LET r == sync.row
     IN /\ rows' = [rows EXCEPT ![r] = Settled(@, sync.plan[r], sync.file)]
        /\ mirror' = [mirror EXCEPT ![sync.file] = sync.plan[r].target]
        /\ sync' = [sync EXCEPT !.pc = "work", !.failures = 0, !.held[r] = sync.file,
                                !.row = NoRow, !.file = NoFile]
  /\ UNCHANGED <<unsafe, resumePending, adopted, paused, machineVars, writes, spent, scene, quiet>>


-----------------------------------------------------------------------------
(* One profile that is off, and one deleted row.                            *)

Release(row) == [row EXCEPT !.file = NoFile, !.recorded = NoDoc]

\* Who stands on the file is asked again before its removal.
Ask(r, done) ==
  /\ rows' = [rows EXCEPT ![r] = Recorded(r)]
  /\ sync' = [done EXCEPT
       !.pc = "remove", !.row = r, !.file = sync.plan[r].was.file,
       !.blocked = \/ StoodOn(sync.plan[r].was.file, r)
                   \/ IF sync.plan[r].was.deleted THEN rows[r].state # "deleted"
                      ELSE ~(rows[r].state = "live" /\ ~rows[r].on)]
  /\ UNCHANGED <<machineVars, spent, scene, quiet>>

\* Mutants: the file is not loaded again; the selection is not looked at.
MustStayUnloaded(f, successor) == sync.blocked \/ (selected = f /\ successor \in {NoFile, f})
MustStayUnselected(f, successor) == files[f] # sync.m.docs[f] \/ sync.blocked

MustStay(f, successor) ==
  \/ files[f] # sync.m.docs[f]
  \/ sync.blocked
  \/ selected = f /\ successor \in {NoFile, f}

\* The removal, guarded by what the plan read; the selection moves to the successor first.
Remove ==
  /\ sync.pc = "remove"
  /\ LET f == sync.file
         p == sync.plan[sync.row]
         successor == IF p.successor = NoRow THEN NoFile ELSE sync.held[p.successor]
         stays == MustStay(f, successor)
         over == [sync EXCEPT !.pc = "work", !.row = NoRow, !.file = NoFile, !.blocked = FALSE]
         Carry == selected' = IF selected = f THEN successor ELSE selected
         Drop == files' = [files EXCEPT ![f] = NoDoc] /\ starred' = starred \ {f}
     IN \/ /\ files[f] = NoDoc /\ Sound /\ UNCHANGED machineVars
           /\ sync' = [sync EXCEPT !.pc = "drop", !.file = NoFile]
        \/ files[f] # NoDoc /\ stays /\ sync' = over /\ Sound /\ UNCHANGED machineVars
        \/ /\ files[f] # NoDoc /\ ~stays /\ ~writes
           /\ sync' = Failed(over) /\ Sound /\ UNCHANGED machineVars
        \/ /\ files[f] # NoDoc /\ ~stays /\ writes
           /\ Carry /\ Drop /\ Sound
           /\ sync' = [sync EXCEPT !.pc = "drop", !.failures = 0, !.wrote = TRUE]
        \/ \* no answer to a load
           Faulty /\ sync' = Failed(over) /\ UNCHANGED machineVars
        \/ \* or to a later frame
           /\ files[f] # NoDoc /\ ~stays /\ writes /\ Faulty
           /\ Carry
           /\ Drop \/ UNCHANGED <<files, starred>>
           /\ sync' = Failed([over EXCEPT !.wrote = @ \/ selected = f])
  /\ UNCHANGED <<listVars, mirror, writes>>

ApplyOff ==
  /\ At(4)
  /\ LET r == NextOf(4, NoRow)
         what == sync.plan[r].what
         done == Done(sync, 4, r)
     IN \/ what = "conflict" /\ KeepBoth(r) /\ sync' = done
        \/ /\ what \notin {"conflict", "remove"}
           /\ rows' = [rows EXCEPT ![r] = IF what = "release" THEN Release(@) ELSE Recorded(r)]
           /\ sync' = done /\ UNCHANGED <<machineVars, spent, scene, quiet>>
        \/ what = "remove" /\ Ask(r, done)
  /\ UNCHANGED <<unsafe, resumePending, adopted, paused, mirror, writes>>

\* A row put back on the list since the plan is a live profile again.
ApplyDeleted ==
  /\ At(5)
  /\ LET r == NextOf(5, NoRow)
         what == sync.plan[r].what
         done == Done(sync, 5, r)
         still == rows[r].state = "deleted"
     IN \/ /\ ~still \/ what \in {"leave", "release"}
           /\ rows' = [rows EXCEPT ![r] =
                IF ~still THEN @
                ELSE IF what = "release" THEN Release(@)
                ELSE [Recorded(r) EXCEPT !.chosen = @ \cup {Recorded(r).recorded.brew}]]
           /\ sync' = done /\ UNCHANGED <<machineVars, spent, scene, quiet>>
        \/ still /\ what = "remove" /\ Ask(r, done)
  /\ UNCHANGED <<unsafe, resumePending, adopted, paused, mirror, writes>>

\* The row lets go of a file that is off the machine, whatever the row is by now.
LetGo ==
  /\ sync.pc = "drop"
  /\ rows' = [rows EXCEPT ![sync.row] = Release(@)]
  /\ mirror' = IF sync.file = NoFile THEN mirror ELSE [mirror EXCEPT ![sync.file] = NoDoc]
  /\ sync' = [sync EXCEPT !.pc = "work", !.row = NoRow, !.file = NoFile, !.blocked = FALSE]
  /\ UNCHANGED <<unsafe, resumePending, adopted, paused, machineVars, writes, spent, scene, quiet>>

-----------------------------------------------------------------------------
(* The stars, and the end.                                                  *)

WorkDone == sync.pc = "work" /\ \A k \in 1 .. Len(Parts) : sync.todo[Parts[k]] = {}

EndOffline ==
  /\ WorkDone /\ sync.offline
  /\ sync' = Idle
  /\ UNCHANGED <<listVars, machineVars, mirror, writes, spent, scene, quiet>>

\* Judged on a fresh read when anything was written; a profile found in this sync keeps its
\* star as it is.
Stars ==
  /\ WorkDone /\ ~sync.offline
  /\ LET m == [docs |-> files, starred |-> starred, selected |-> selected, unreadable |-> {}]
     IN sync' = IF sync.wrote
                THEN [sync EXCEPT !.pc = "stars", !.m = m,
                                  !.todo.star = {rows[r].file : r \in StarsOff(m) \ sync.fresh}]
                ELSE [sync EXCEPT !.pc = "stars"]
  /\ UNCHANGED <<listVars, machineVars, mirror, writes, spent, scene, quiet>>

PutStar ==
  /\ sync.pc = "stars" /\ sync.todo.star # {}
  /\ LET f == First(sync.todo.star, NoFile)
     IN /\ sync' = [sync EXCEPT !.todo.star = @ \ {f}]
        /\ \/ /\ writes /\ Sound
              /\ starred' = IF f \in sync.m.starred THEN starred \ {f} ELSE starred \cup {f}
           \/ ~writes /\ Sound /\ UNCHANGED starred
           \/ Faulty /\ UNCHANGED starred
  /\ UNCHANGED <<listVars, files, selected, mirror, writes>>

\* The phase has run: a reset is judged again from now on.
End ==
  /\ sync.pc = "stars" /\ sync.todo.star = {}
  /\ resumePending' = FALSE
  /\ sync' = Idle
  /\ quiet' = IF sync.since # spent THEN 0 ELSE IF quiet < Quiet THEN quiet + 1 ELSE quiet
  /\ UNCHANGED <<rows, unsafe, adopted, paused, machineVars, mirror, writes, spent, scene>>

\* The process stops, or the machine stops answering, between two steps.
Crash ==
  /\ sync.pc # "idle"
  /\ sync' = Idle
  /\ Faulty
  /\ UNCHANGED <<listVars, machineVars, mirror, writes>>

SyncStep ==
  \/ Mirror \/ TakeFromTheMirror \/ Read
  \/ Join \/ Take \/ ApplyRow \/ Settle \/ ApplyOff \/ ApplyDeleted \/ Remove \/ LetGo
  \/ EndOffline \/ Stars \/ PutStar \/ End

=============================================================================
