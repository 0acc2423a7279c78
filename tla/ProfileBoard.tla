---------------------------- MODULE ProfileBoard ----------------------------
(***************************************************************************)
(* The profile list, the machine, and everybody who changes either: the    *)
(* sync of BoardSync, the people at the app's pages, and whoever stands at *)
(* the machine's display.                                                  *)
(***************************************************************************)
EXTENDS BoardSync

-----------------------------------------------------------------------------
(* People at the app.  Each of these writes the list in one transaction and *)
(* sends nothing to the machine.                                            *)

Person(kind) ==
  /\ kind \in scene.people
  /\ spent.people < scene.maxPeople
  /\ spent' = [spent EXCEPT !.people = @ + 1]
  /\ quiet' = 0
  /\ UNCHANGED <<machineVars, mirror, sync, scene>>

\* Changes one row and nothing else.
Row(r, row) ==
  /\ rows' = [rows EXCEPT ![r] = row]
  /\ UNCHANGED <<unsafe, resumePending, adopted, paused, writes>>

Pinned(r) == rows[r].pinOf # NoRow
HasRecipe(row) == row.version # NoVersion

\* The profile's Recipe gets a new version when its active brew changes.
Follows(r, row) ==
  {[row EXCEPT !.version = v] :
     v \in IF HasRecipe(row) THEN Versions \ {row.version} ELSE {NoVersion}}

SwitchRow(r) ==
  /\ Person("switch") /\ r \in Live /\ ~Pinned(r)
  /\ Row(r, [rows[r] EXCEPT !.on = ~@])

Star(r) ==
  /\ Person("star") /\ r \in Live
  /\ Row(r, [rows[r] EXCEPT !.home = ~@])

MirrorConflict(r) ==
  /\ r \in Live /\ rows[r].file # NoFile
  /\ mirror[rows[r].file] # NoDoc
  /\ InConflict(r, mirror[rows[r].file])
NameOnly(r) == NameInConflict(r, mirror[rows[r].file])

\* In a conflict about the name alone, a rename keeps the app's side of it.
Rename(r, name) ==
  /\ Person("rename") /\ r \in Live
  /\ name # rows[r].label /\ name \notin TakenNames(r, FALSE)
  /\ Row(r, [rows[r] EXCEPT !.label = name,
               !.overruled = IF MirrorConflict(r) /\ NameOnly(r) THEN mirror[rows[r].file] ELSE @])

Active(row, brew) ==
  [row EXCEPT !.current = brew, !.failed = NoBrew, !.chosen = @ \cup {brew}]

\* One of the versions the profile has had; the active one again asks for one more try.
MakeActive(r, brew) ==
  /\ Person("activate") /\ r \in Live /\ ~Pinned(r)
  /\ brew \in rows[r].listed \cup rows[r].found
  /\ IF brew = rows[r].current
     THEN rows[r].failed # NoBrew /\ Row(r, [rows[r] EXCEPT !.failed = NoBrew])
     ELSE /\ brew \notin unsafe
          /\ \E row \in Follows(r, Active(rows[r], brew)) : Row(r, row)

\* A proposal that changes a profile is approved: a new active version, and the profile is on.
Put(r, brew) ==
  /\ Person("put") /\ r \in Live /\ ~Pinned(r) /\ brew # rows[r].current
  /\ \E row \in Follows(r, Active(rows[r], brew)) :
       Row(r, [row EXCEPT !.listed = @ \cup ({brew} \ row.found), !.on = TRUE])

\* A proposal of a new profile is approved.  Of the names, only the live profiles' own are
\* asked; the exact copy a pin froze is refused.
PutNew(r, brew, name) ==
  /\ Person("new") /\ r = First(FreeRows, NoRow) /\ r # NoRow
  /\ Cardinality(Held \ Claimed) < Cardinality(FreeRows) - 1
  /\ \A x \in Live : rows[x].label # name
  /\ \A x \in Rows : Pinned(x) => ~(rows[x].label = name /\ rows[x].current = brew)
  /\ Row(r, [Free EXCEPT !.state = "live", !.label = name, !.current = brew,
               !.listed = {brew}, !.on = TRUE, !.home = TRUE, !.chosen = {brew}])

\* A conflict is resolved for the app: that document is overruled.
KeepApp(r) ==
  /\ Person("keep_app") /\ MirrorConflict(r)
  /\ LET doc == mirror[rows[r].file]
     IN Row(r, [Keep(rows[r], doc.brew) EXCEPT !.overruled = doc, !.chosen = @ \cup {doc.brew}])

\* ... for the machine, about the name alone: only the name is written.
KeepMachinesName(r) ==
  /\ Person("keep_machine") /\ MirrorConflict(r) /\ NameOnly(r) /\ rows[r].recorded # NoDoc
  /\ LET doc == mirror[rows[r].file]
         name == MachinesName(r, doc)
     IN /\ name = rows[r].label \/ name \notin TakenNames(r, TRUE)
        /\ Row(r, [rows[r] EXCEPT !.label = name, !.recorded.name = doc.name,
                                  !.overruled = NoDoc])

\* ... for the machine: the profile becomes what the file is, and its Recipe follows.  Of a
\* pin's copy, the Recipe's own profile gets the brew too.
KeepMachine(r) ==
  /\ Person("keep_machine") /\ MirrorConflict(r)
  /\ ~(NameOnly(r) /\ rows[r].recorded # NoDoc)
  /\ LET doc == mirror[rows[r].file]
         name == MachinesName(r, doc)
         owner == rows[r].pinOf
         kept == [Active(Keep(rows[r], doc.brew), doc.brew)
                    EXCEPT !.label = name, !.recorded = doc, !.overruled = NoDoc]
     IN /\ name = rows[r].label \/ name \notin TakenNames(r, TRUE)
        /\ IF Pinned(r) /\ doc.brew # rows[owner].current
           THEN /\ doc.brew \notin unsafe
                /\ \E row \in Follows(owner, Active(Keep(rows[owner], doc.brew), doc.brew)) :
                     rows' = [rows EXCEPT ![r] = kept, ![owner] = row]
           ELSE \E row \in IF doc.brew = rows[r].current THEN {kept} ELSE Follows(r, kept) :
                     rows' = [rows EXCEPT ![r] = row]
        /\ UNCHANGED <<unsafe, resumePending, adopted, paused, writes>>

\* A sync paused for a reset may write again.
Resume ==
  /\ Person("resume") /\ paused
  /\ paused' = FALSE /\ resumePending' = TRUE
  /\ UNCHANGED <<rows, unsafe, adopted, writes>>

\* The Recipe a profile is brewed by gets another version, or its first.
RecipeMoves(r) ==
  /\ Person("recipe") /\ r \in Live /\ ~Pinned(r)
  /\ \E v \in Versions \ {rows[r].version} : Row(r, [rows[r] EXCEPT !.version = v])

SetBounds ==
  /\ Person("bounds")
  /\ \E brews \in SUBSET Brews : brews # unsafe /\ unsafe' = brews
  /\ UNCHANGED <<rows, resumePending, adopted, paused, writes>>

TurnWrites ==
  /\ Person("writes")
  /\ writes' = ~writes
  /\ UNCHANGED listVars

\* A Recipe's version is pinned: a copy of its brew joins the list under a name of its own.
Pin(owner, brew, name) ==
  /\ Person("pin") /\ owner \in Live /\ ~Pinned(owner) /\ HasRecipe(rows[owner])
  /\ brew \in rows[owner].listed \cup rows[owner].found /\ brew \notin unsafe
  /\ \A x \in Live : rows[x].label # name
  /\ \A x \in Deleted : ~(Pinned(x) /\ rows[x].label = name /\ rows[x].current = brew)
  /\ Cardinality(Held \ Claimed) < Cardinality(FreeRows) - 1
  /\ Row(First(FreeRows, NoRow),
         [Free EXCEPT !.state = "live", !.label = name, !.current = brew, !.listed = {brew},
            !.on = TRUE, !.home = TRUE, !.pinOf = owner, !.chosen = {brew}])

Unpin(r) ==
  /\ Person("unpin") /\ r \in Live /\ Pinned(r)
  /\ Row(r, [rows[r] EXCEPT !.state = "deleted"])

\* The same version pinned again under the same name: its row is back on the list, without its
\* file when another profile stands on that now.
BringBack(r) ==
  /\ Person("pin") /\ r \in Deleted
  /\ rows[r].current \notin unsafe
  /\ \A x \in Live : rows[x].label # rows[r].label
  /\ LET row == [rows[r] EXCEPT !.state = "live", !.on = TRUE, !.failed = NoBrew]
     IN Row(r, IF rows[r].file # NoFile /\ StoodOn(rows[r].file, r) THEN Release(row) ELSE row)

PersonActs ==
  \/ \E r \in Rows :
       \/ SwitchRow(r) \/ Star(r) \/ RecipeMoves(r)
       \/ KeepApp(r) \/ KeepMachinesName(r) \/ KeepMachine(r)
       \/ Unpin(r) \/ BringBack(r)
       \/ \E name \in scene.names : Rename(r, name)
       \/ \E brew \in Brews : MakeActive(r, brew) \/ Put(r, brew)
       \/ \E brew \in Brews, name \in scene.names : PutNew(r, brew, name) \/ Pin(r, brew, name)
  \/ Resume \/ SetBounds \/ TurnWrites

-----------------------------------------------------------------------------
(* Whoever stands at the machine's display.                                 *)

Touch(kind) ==
  /\ kind \in scene.display
  /\ spent.touches < scene.maxTouches
  /\ spent' = [spent EXCEPT !.touches = @ + 1]
  /\ quiet' = 0
  /\ UNCHANGED <<listVars, mirror, writes, sync, scene>>

EditFile(f, doc) ==
  /\ Touch("edit") /\ f \in Held
  /\ doc # files[f]
  /\ files' = [files EXCEPT ![f] = doc]
  /\ UNCHANGED <<starred, selected>>

CreateFile(doc) ==
  /\ Touch("create") /\ Room
  /\ \E f \in FreshIds :
       files' = [files EXCEPT ![f] = doc] /\ starred' = starred \cup {f}
  /\ UNCHANGED selected

DeleteFile(f) ==
  /\ Touch("delete") /\ f \in Held
  /\ files' = [files EXCEPT ![f] = NoDoc] /\ starred' = starred \ {f}
  /\ UNCHANGED selected

SelectFile(f) ==
  /\ Touch("select") /\ f \in Held \ {selected}
  /\ selected' = f
  /\ UNCHANGED <<files, starred>>

StarFile(f) ==
  /\ Touch("star") /\ f \in Held
  /\ starred' = IF f \in starred THEN starred \ {f} ELSE starred \cup {f}
  /\ UNCHANGED <<files, selected>>

\* The filesystem is gone; the firmware makes one profile of its own.
FactoryReset(doc) ==
  /\ Touch("reset")
  /\ Cardinality(FreeRows) > 0
  /\ \E f \in FreshIds :
       /\ files' = [g \in Files |-> IF g = f THEN doc ELSE NoDoc]
       /\ starred' = {f} /\ selected' = f

DisplayActs ==
  \/ \E f \in Held :
       \/ DeleteFile(f) \/ SelectFile(f) \/ StarFile(f)
       \/ \E brew \in Brews, name \in scene.names \cup {files[f].name} :
            EditFile(f, [brew |-> brew, name |-> name])
  \/ \E brew \in Brews, name \in scene.names :
       CreateFile([brew |-> brew, name |-> name]) \/ FactoryReset([brew |-> brew, name |-> name])

-----------------------------------------------------------------------------
(* A fresh install beside a machine that is in use.                         *)

Init ==
  /\ rows = [r \in Rows |-> Free]
  /\ unsafe = {} /\ resumePending = FALSE /\ adopted = FALSE /\ paused = FALSE
  /\ mirror = [f \in Files |-> NoDoc] /\ writes = TRUE
  /\ sync = Idle
  /\ spent = [people |-> 0, touches |-> 0, faults |-> 0]
  /\ quiet = 0
  /\ scene \in Scenes
  /\ files = scene.first /\ starred = Held /\ selected = First(Held, NoFile)

Next == SyncStep \/ Crash \/ PersonActs \/ DisplayActs
Spec == Init /\ [][Next]_vars

-----------------------------------------------------------------------------
MaybeDocs == [Files -> Docs \cup {NoDoc}]

TypeOK ==
  /\ rows \in [Rows -> Profiles]
  /\ unsafe \subseteq Brews
  /\ {resumePending, adopted, paused, writes} \subseteq BOOLEAN
  /\ {files, mirror} \subseteq MaybeDocs
  /\ starred \subseteq Files /\ selected \in Files \cup {NoFile}
  /\ sync.pc \in {"idle", "mirrored", "work", "settle", "remove", "drop", "stars"}
  /\ sync.m.docs \in MaybeDocs
  /\ sync.failures \in 0 .. MaxFailures
  /\ sync.row \in Rows \cup {NoRow} /\ sync.file \in Files \cup {NoFile}
  /\ sync.held \in [Rows -> Files \cup {NoFile}]
  /\ spent \in [people: 0 .. scene.maxPeople, touches: 0 .. scene.maxTouches,
                faults: 0 .. scene.maxFaults]
  /\ quiet \in 0 .. Quiet

-----------------------------------------------------------------------------
(* What the list and the sync promise.                                      *)

\* A file that is to join the list is still nobody's when its turn comes, whatever people did
\* since the plan: the unique index on the live rows' files never refuses one.
JoiningFilesAreNobodys ==
  \A f \in sync.todo.join, r \in Live \cup Deleted : rows[r].file # f

\* The list and the plan in progress are what the code takes them for: of their types, and with
\* no file in the plan to join that a profile already stands on.
ListOK == TypeOK /\ JoiningFilesAreNobodys

\* A step of the app, on what the machine holds.
ByTheApp == spent'.touches = spent.touches
TakesAway(f) == ByTheApp /\ files[f] # NoDoc /\ files'[f] # files[f]

\* The brew the app takes off a file stays a version of the profile that stood on the file.
NothingLost ==
  [][\A f \in Files : TakesAway(f) =>
       \E r \in Rows : /\ rows[r].file = f
                       /\ files[f].brew \in rows'[r].listed \cup rows'[r].found]_vars

\* A brew a person gave the profile here, or gave up here: never one the file was given at the
\* machine while it was a live profile's.
BrewOfAPerson(f, r) == files[f].brew \in rows[r].chosen

\* A name the profile has or had recorded, or one a person overruled, now or as this sync read it:
\* another was given at the machine, and is taken or asked about.
NameOf(row, doc) ==
  \/ IsAppName(doc.name, row.label)
  \/ row.recorded # NoDoc /\ row.recorded.name = doc.name
  \/ row.overruled = doc
NameOfTheApp(f, r) ==
  \/ NameOf(rows[r], files[f])
  \/ sync.plan[r].what # "none" /\ NameOf(sync.plan[r].was, files[f])

\* The sync that finds a file leaves it, and its star, as they are.
LeavesWhatItFound ==
  \A r \in sync.fresh :
    LET f == rows[r].file
    IN ByTheApp /\ f # NoFile => files'[f] = files[f] /\ (f \in starred' <=> f \in starred)

\* What was put on the machine at its display the app never takes away on its own: the brew it
\* takes off a file, and the name it saves over, are the app's or a person was asked, and of a file it
\* has only just found it takes nothing.
NeverUnasked ==
  [][/\ LeavesWhatItFound
     /\ \A f \in Files : TakesAway(f) =>
          \E r \in Rows :
            /\ rows[r].file = f /\ BrewOfAPerson(f, r)
            /\ files'[f] # NoDoc /\ files'[f].name # files[f].name => NameOfTheApp(f, r)]_vars

\* The app takes the selected file off the machine only after selecting another profile's file,
\* and that one is there unless somebody was at the display during the sync.
SelectionStays ==
  [][ByTheApp /\ selected \in Held /\ files'[selected] = NoDoc =>
       /\ selected' \in Claimed \ {selected}
       /\ files'[selected'] = NoDoc => sync.since.touches # spent.touches]_vars

\* The app writes nothing to a machine that holds none of the files it left there, until a
\* person resumes: but in a sync during which somebody changes the list or is at the display, or
\* that has itself taken a profile's file off.
LostEverything ==
  /\ \E r \in Live : rows[r].file # NoFile
  /\ \A r \in Live : rows[r].file # NoFile => files[rows[r].file] = NoDoc
TookNone ==
  \A r \in Rows : sync.plan[r].what = "remove" /\ ~sync.plan[r].was.deleted => r \in sync.todo.off
NobodyActed == sync.since.people = spent.people /\ sync.since.touches = spent.touches
ResetIsAsked ==
  [][ByTheApp /\ files' # files /\ LostEverything /\ NobodyActed /\ TookNone
       => resumePending]_vars

\* What the sync is to bring about for a row.
AtRest(r) ==
  LET m == [docs |-> files, starred |-> starred, selected |-> selected, unreadable |-> {}]
      f == rows[r].file
  IN \/ r \in Live /\ There(r, m) /\ InConflict(r, files[f])
     \/ /\ r \in Live /\ rows[r].on
        /\ \/ rows[r].current \in unsafe \cup {rows[r].failed}
           \/ /\ f # NoFile
              /\ files[f] = [brew |-> rows[r].current, name |-> MachineName(r)]
              /\ f \in starred <=> rows[r].home
     \/ /\ ~(r \in Live /\ rows[r].on)
        /\ \/ f = NoFile
           \/ StoodOn(f, r)
           \/ There(r, m) /\ selected = f /\ Successor(r, m) = NoRow

\* Undisturbed, two complete syncs bring the machine and the list together, whatever happened
\* before them: every file has a profile, and every profile is on its file as the list says, or
\* a person is asked.
Settles ==
  quiet >= 2 /\ sync.pc = "idle" =>
    Held \subseteq Claimed /\ \A r \in Rows : AtRest(r)

=============================================================================
