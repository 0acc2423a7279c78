----------------------------- MODULE BoardPlan -----------------------------
(***************************************************************************)
(* The profile list and the plan of a sync: what the next sync does for    *)
(* every profile, as a function of the list and of what the machine        *)
(* served (drafts/board_plan.py), with the rule about a file that differs  *)
(* from what was recorded for it (judge_file) and the names               *)
(* (domain/machine_names.py, drafts/taken_names.py).                       *)
(*                                                                         *)
(* A name is a sequence of words; a Recipe's version label is a word, and  *)
(* so is the number a second profile of one name gets.  A document is what *)
(* a file holds: a brew under a name.                                      *)
(***************************************************************************)
EXTENDS Naturals, Sequences, FiniteSets

CONSTANTS
  Rows,       \* the ids the list's rows may have, in list order
  Files,      \* the ids the machine may give a file, in their sorted order
  Brews,      \* the brews there are
  Utility,    \* the brews of utility profiles
  Words,      \* the words names are made of
  Versions,   \* the words that are a Recipe's version label
  NoBrew, NoDoc, NoVersion,
  NoRow, NoFile

Names == Seq(Words \cup Versions \cup Nat)
Docs == [brew: Brews, name: Names]

ASSUME PlanAssumption ==
  /\ Rows \subseteq Nat /\ IsFiniteSet(Rows) /\ NoRow \notin Rows
  /\ Files \subseteq Nat /\ IsFiniteSet(Files) /\ NoFile \notin Files
  /\ Utility \subseteq Brews /\ NoBrew \notin Brews
  /\ NoVersion \notin Versions /\ NoDoc \notin Docs

VARIABLES
  rows,           \* [Rows -> Profiles]: the list (profile_board and its versions)
  unsafe,         \* the brews outside the safety bounds as they are now
  resumePending   \* a person resumed a paused sync, and no write phase has run since

\* A row of the list.  `recorded` is what the archive last recorded its file as holding.
\* `chosen` is history: the brews the profile has had active, whose file a person overruled, or
\* that its file was given after the profile was deleted.
Profiles ==
  [state: {"free", "live", "deleted"},
   label: Names, current: Brews \cup {NoBrew},
   listed: SUBSET Brews,                \* versions it has had
   found: SUBSET Brews,                 \* versions kept because its file held them
   file: Files \cup {NoFile}, recorded: Docs \cup {NoDoc},
   on: BOOLEAN, home: BOOLEAN,
   failed: Brews \cup {NoBrew},         \* the version that did not verify
   overruled: Docs \cup {NoDoc},        \* the file a person chose the app's side of
   version: Versions \cup {NoVersion},  \* its Recipe's current version label
   pinOf: Rows \cup {NoRow},            \* the profile a pin's copy was made of
   chosen: SUBSET Brews]

Free == [state |-> "free", label |-> <<>>, current |-> NoBrew, listed |-> {}, found |-> {},
         file |-> NoFile, recorded |-> NoDoc, on |-> FALSE, home |-> FALSE, failed |-> NoBrew,
         overruled |-> NoDoc, version |-> NoVersion, pinOf |-> NoRow, chosen |-> {}]

Live == {r \in Rows : rows[r].state = "live"}
Deleted == {r \in Rows : rows[r].state = "deleted"}
FreeRows == {r \in Rows : rows[r].state = "free"}

\* The least of a set of ids, or `none`.
First(ids, none) == IF ids = {} THEN none ELSE CHOOSE i \in ids : \A j \in ids : i <= j

-----------------------------------------------------------------------------
(* Names.                                                                   *)

\* The name the machine shows for a profile.
MachineName(r) ==
  IF rows[r].version = NoVersion THEN rows[r].label
  ELSE Append(rows[r].label, rows[r].version)

\* The profile's own name, with or without a version after it.
IsAppName(name, label) == name = label \/ \E v \in Versions : name = Append(label, v)

\* A name given at the machine, without the version the app expected or recorded after it.
TakenFrom(seen, label, written) ==
  IF /\ Len(seen) > 1
     /\ \E v \in Versions : seen[Len(seen)] = v /\ Append(label, v) \in written
  THEN SubSeq(seen, 1, Len(seen) - 1)
  ELSE seen

\* What a live profile is called: its own name; on the machine when a Recipe brews it; and
\* on its file until the next save.
NamesOf(r, onFile) ==
  {rows[r].label}
    \cup (IF rows[r].version = NoVersion THEN {}
          ELSE {MachineName(r)}
                 \cup (IF onFile /\ rows[r].recorded # NoDoc THEN {rows[r].recorded.name}
                       ELSE {}))

\* The names taken by another live profile than r.
TakenNames(r, onFile) == UNION {NamesOf(x, onFile) : x \in Live \ {r}}

\* "<name>", or "<name> (2)" and on.
FreeName(name, taken) ==
  IF name \notin taken THEN name
  ELSE Append(name, First({k \in 2 .. Cardinality(taken) + 2 : Append(name, k) \notin taken}, 0))

-----------------------------------------------------------------------------
(* The one rule for a profile's own file that is not what was recorded for  *)
(* it: the brew and the name are decided separately.                        *)

\* Mutant: a brew kept from the file counts as the profile's own.
KnowsFound(r, brew) ==
  \/ brew \in rows[r].listed \cup rows[r].found \cup {rows[r].current}
  \/ rows[r].recorded # NoDoc /\ brew = rows[r].recorded.brew

Knows(r, brew) ==
  \/ brew \in rows[r].listed \cup {rows[r].current}
  \/ rows[r].recorded # NoDoc /\ brew = rows[r].recorded.brew

\* The file is called what the app wrote, last or just now.
NameIsTheApps(r, name) ==
  \/ name = MachineName(r)
  \/ rows[r].version # NoVersion /\ IsAppName(name, rows[r].label)
  \/ rows[r].recorded # NoDoc /\ name = rows[r].recorded.name

\* A person renamed the profile since the app last recorded its file, or nothing says.
AppRenamed(r) ==
  \/ rows[r].recorded = NoDoc
  \/ IF rows[r].version = NoVersion THEN rows[r].recorded.name # rows[r].label
     ELSE ~IsAppName(rows[r].recorded.name, rows[r].label)

\* The profile's name when the machine's is taken.
MachinesName(r, doc) ==
  TakenFrom(doc.name, rows[r].label,
            {MachineName(r)} \cup (IF rows[r].recorded = NoDoc THEN {} ELSE {rows[r].recorded.name}))

BrewInConflict(r, doc) == ~Knows(r, doc.brew) /\ doc # rows[r].overruled

\* Mutant: of a name changed on both sides, the app's wins.
NameInConflictTaken(r, doc) ==
  /\ Knows(r, doc.brew)
  /\ ~NameIsTheApps(r, doc.name)
  /\ ~AppRenamed(r) /\ MachinesName(r, doc) \in TakenNames(r, TRUE)
  /\ doc # rows[r].overruled

NameInConflict(r, doc) ==
  /\ Knows(r, doc.brew)
  /\ ~NameIsTheApps(r, doc.name)
  /\ AppRenamed(r) \/ MachinesName(r, doc) \in TakenNames(r, TRUE)
  /\ doc # rows[r].overruled

TakesTheName(r, doc) ==
  /\ Knows(r, doc.brew)
  /\ ~NameIsTheApps(r, doc.name)
  /\ ~AppRenamed(r)
  /\ MachinesName(r, doc) \notin TakenNames(r, TRUE)

InConflict(r, doc) ==
  doc # rows[r].recorded /\ (BrewInConflict(r, doc) \/ NameInConflict(r, doc))

-----------------------------------------------------------------------------
(* The plan of one row, over what the machine m served: m.docs, m.starred,  *)
(* m.selected, and m.unreadable (listed, but could not be loaded).          *)

There(r, m) == rows[r].file # NoFile /\ m.docs[rows[r].file] # NoDoc
Seen(r, m) == m.docs[rows[r].file]
Unreadable(r, m) == rows[r].file \in m.unreadable
Edited(r, m) == There(r, m) /\ Seen(r, m) # rows[r].recorded
Takes(r, m) == Edited(r, m) /\ TakesTheName(r, Seen(r, m))

\* What the profile is to be on the machine after this sync.
Target(r, m) == [brew |-> rows[r].current,
                 name |-> IF Takes(r, m) THEN Seen(r, m).name ELSE MachineName(r)]

\* Mutant: by its brew alone.
IsHeldByBrew(r, m) == rows[r].on /\ There(r, m) /\ Seen(r, m).brew = Target(r, m).brew

\* Its own file holds the profile's active brew under its name.
IsHeld(r, m) == rows[r].on /\ There(r, m) /\ Seen(r, m) = Target(r, m)

\* Mutant: a deleted row's file is nobody's.
ClaimedByLive == {rows[r].file : r \in Live}

\* Files no row stands on, deleted rows included: the app has never seen them.
Claimed == {rows[r].file : r \in Live \cup Deleted}
Unseen(m) == {f \in Files : m.docs[f] # NoDoc} \ Claimed

\* Profiles whose file is gone, and the file of its brew each takes when a reset is resumed:
\* of the active brew first, then of any it has had.
Lost(m) == {r \in Live : rows[r].file # NoFile /\ ~There(r, m) /\ ~Unreadable(r, m)}
Attached(m) ==
  LET byActive[f \in Unseen(m)] ==
        First({r \in Lost(m) : rows[r].current = m.docs[f].brew}
                \ {byActive[g] : g \in {h \in Unseen(m) : h < f}}, NoRow)
      actives == {byActive[f] : f \in Unseen(m)}
      byAny[f \in Unseen(m)] ==
        IF byActive[f] # NoRow THEN byActive[f]
        ELSE First({r \in Lost(m) : m.docs[f].brew \in rows[r].listed \cup {rows[r].current}}
                     \ (actives \cup {byAny[g] : g \in {h \in Unseen(m) : h < f}}), NoRow)
  IN IF resumePending THEN byAny ELSE [f \in Unseen(m) |-> NoRow]

\* The name each unseen file joins the list under.
JoinNames(m) ==
  LET joining == {f \in Unseen(m) : Attached(m)[f] = NoRow}
      name[f \in joining] ==
        FreeName(m.docs[f].name,
                 TakenNames(NoRow, TRUE) \cup {name[g] : g \in {h \in joining : h < f}})
  IN name

\* Mutant: looks at the files that did not load.
LooksResetUnread(m) ==
  LET standing == {rows[r].file : r \in Live} \ {NoFile}
  IN standing # {} /\ \A f \in standing : m.docs[f] = NoDoc /\ f \in m.unreadable

\* None of the files the last sync left is there any more.
LooksReset(m) ==
  LET standing == {rows[r].file : r \in Live} \ {NoFile}
  IN standing # {} /\ \A f \in standing : m.docs[f] = NoDoc /\ f \notin m.unreadable

\* A push that is needed and not allowed: out of the safety bounds, or it failed before.
MayNotBePushed(r, m) ==
  /\ rows[r].on /\ ~IsHeld(r, m)
  /\ rows[r].current \in unsafe \cup {rows[r].failed}

\* Mutant: an attached profile is dealt with in the same sync.
OutcomeAtOnce(r, m) ==
  IF Unreadable(r, m) THEN "report"
  ELSE IF There(r, m) /\ InConflict(r, Seen(r, m)) THEN "conflict"
  ELSE IF MayNotBePushed(r, m) THEN "report"
  ELSE "go"

\* What a live row's plan comes to.
Outcome(r, m) ==
  IF Unreadable(r, m) THEN "report"
  ELSE IF There(r, m) /\ InConflict(r, Seen(r, m)) THEN "conflict"
  ELSE IF \E f \in DOMAIN Attached(m) : Attached(m)[f] = r THEN "attached"
  ELSE IF MayNotBePushed(r, m) THEN "report"
  ELSE "go"

\* The profile that takes the selection over: the first that is on and will be held.
Successor(r, m) ==
  First({x \in Live \ {r} : /\ rows[x].on
                            /\ rows[x].current \notin Utility
                            /\ Outcome(x, m) = "go"}, NoRow)

\* Why a file that is to go would stay: another stands on it, or nothing takes the selection.
Stays(r, m) ==
  \/ \E x \in Live \ {r} : rows[x].file = rows[r].file
  \/ m.selected = rows[r].file /\ Successor(r, m) = NoRow

\* The plan of row r.  `was` is the row as the plan read it; `what`:
\*   none, report, attached, conflict;
\*   held, push        a profile that is on;
\*   remove, leave     a profile that is off, or a deleted row, whose file is there;
\*   release           its file is gone.
WhatLive(r, m) ==
  IF Outcome(r, m) # "go" THEN Outcome(r, m)
  ELSE IF rows[r].on THEN IF IsHeld(r, m) THEN "held" ELSE "push"
  ELSE IF rows[r].file = NoFile THEN "none"
  ELSE IF ~There(r, m) THEN "release"
  ELSE IF Stays(r, m) THEN "leave"
  ELSE "remove"

WhatDeleted(r, m) ==
  IF rows[r].file = NoFile THEN "none"
  ELSE IF Unreadable(r, m) THEN "report"
  ELSE IF ~There(r, m) THEN "release"
  ELSE IF Edited(r, m) \/ Stays(r, m) THEN "leave"
  ELSE "remove"

NoPlan == [what |-> "none"]

PlanOf(r, m) ==
  LET what == IF r \in Live THEN WhatLive(r, m)
              ELSE IF r \in Deleted THEN WhatDeleted(r, m)
              ELSE "none"
  IN IF what = "none" THEN NoPlan
     ELSE [what |-> what,
           was |-> [label |-> rows[r].label, file |-> rows[r].file,
                    recorded |-> rows[r].recorded, overruled |-> rows[r].overruled,
                    shown |-> MachineName(r), deleted |-> r \in Deleted],
           target |-> Target(r, m),
           edited |-> Edited(r, m) /\ what # "report",
           takes |-> IF r \in Live /\ Takes(r, m) THEN MachinesName(r, Seen(r, m)) ELSE <<>>,
           successor |-> IF what = "remove" THEN Successor(r, m) ELSE NoRow]

\* The stars that are wrong: only of profiles that are on, whose file is there.
StarsOff(m) ==
  {r \in Live : /\ rows[r].on /\ There(r, m) /\ Outcome(r, m) = "go"
                /\ rows[r].home # (rows[r].file \in m.starred)}
=============================================================================
