-------------------------- MODULE ProfileBoard_proofs --------------------------
(***************************************************************************)
(* The safety properties of ProfileBoard for every list, every machine and *)
(* every scene.  The inductive invariant (WholeInv) has three parts: what  *)
(* every row and every plan is (WellFormed), that no file is two profiles' *)
(* (FilesApart), and that a plan which is carried out still fits the list  *)
(* and the machine it is carried out on when nobody acted since it was     *)
(* made (AsRead); and it says that a sync begins with nothing done         *)
(* (Started).  Each step of the write phase is first brought to what it    *)
(* does to one row, one file and what is left to do (AppliesRow, DealsOff, *)
(* Removes, JoinsAs, TakesName), and the invariant is shown of that.       *)
(***************************************************************************)
EXTENDS ProfileBoard, TLAPS, FiniteSetTheorems, WellFoundedInduction

-----------------------------------------------------------------------------
(* What the invariant is made of.                                           *)

\* The brews a row has had as versions, and those of them a person gave it.
Had(row) == row.listed \cup row.found
Asked(row) == Had(row) \cap row.chosen
\* The write phase is under way.
Working == sync.pc \in {"work", "settle", "remove", "drop"}

\* The types: what was read of the machine, a row as the plan found it, a plan, what is left to do,
\* and a sync in progress with them.
Reads == [docs: MaybeDocs, starred: SUBSET Files, selected: Files \cup {NoFile},
          unreadable: SUBSET Files]
WasRows == [label: Names, file: Files \cup {NoFile}, recorded: Docs \cup {NoDoc},
            overruled: Docs \cup {NoDoc}, shown: Names, deleted: BOOLEAN]
RowPlans == [what: {"report", "attached", "conflict", "held", "push", "remove", "leave", "release"},
             was: WasRows, target: Docs, edited: BOOLEAN, takes: Names,
             successor: Rows \cup {NoRow}]
Plans == RowPlans \cup {NoPlan}
Todos == [join: SUBSET Files, take: SUBSET Rows, on: SUBSET Rows, off: SUBSET Rows,
          deleted: SUBSET Rows, star: SUBSET Files]
Counts == [people: Nat, touches: Nat, faults: Nat]
Syncs == [pc: {"idle", "mirrored", "work", "settle", "remove", "drop", "stars"},
          m: Reads, plan: [Rows -> Plans] \cup {<<>>}, todo: Todos, names: {sync.names},
          attached: {sync.attached}, held: [Rows -> Files \cup {NoFile}],
          fresh: SUBSET Rows, failures: 0 .. MaxFailures, wrote: BOOLEAN, offline: BOOLEAN,
          row: Rows \cup {NoRow}, file: Files \cup {NoFile}, blocked: BOOLEAN, since: Counts]
\* What may be spent of a scene's bounds.
Bounds == [people: 0 .. scene.maxPeople, touches: 0 .. scene.maxTouches, faults: 0 .. scene.maxFaults]

\* A row that is taken has had its active brew, and what is recorded of its file is one of its versions;
\* whatever it has had or holds was chosen by a person.
RowOK(row) ==
  /\ row.state = "free" => row = Free
  /\ row.state # "free" => row.current \in Asked(row)
  /\ row.listed \subseteq row.chosen
  /\ row.recorded # NoDoc => row.recorded.brew \in Asked(row)
  /\ row.overruled # NoDoc => row.overruled.brew \in row.chosen

\* Every row is so, and a pin's copy is of a profile.
RowsOK == \A r \in Rows : /\ RowOK(rows[r])
                          /\ rows[r].pinOf # NoRow => rows[rows[r].pinOf].state # "free"

\* What a plan may rely on, for the row as it is by now: what it sends is one of the row's versions; a
\* file it judges was read; what it saves over or removes a person gave the profile, and it is kept or
\* about to be; and a name it replaces is the app's.
Fits(p, r, docs) ==
  LET seen == docs[p.was.file]
  IN p.what # "none" =>
       /\ rows[r].state # "free"
       /\ p.target.brew \in Asked(rows[r])
       /\ p.edited \/ p.what \in {"conflict", "remove"} => p.was.file \in Files /\ seen # NoDoc
       /\ p.edited /\ p.what # "conflict" /\ ~p.was.deleted =>
            /\ seen.brew \in rows[r].chosen
            /\ p.target.name # seen.name => NameOf(p.was, seen)
       /\ p.takes # <<>> => /\ seen.brew \in Had(rows[r])
                            /\ p.edited => p.target.name = seen.name
       /\ p.what = "remove" => /\ seen.brew \in rows[r].chosen
                               /\ p.edited \/ seen.brew \in Had(rows[r])
PlanOK(r) == Fits(sync.plan[r], r, sync.m.docs)

\* What is left of the write phase: the parts in their order, nobody in two of them, and the profile
\* dealt with on the machine in none.
TodoOK ==
  LET t == sync.todo
      p == sync.plan
  IN /\ t.join \cup t.take # {} => sync.pc = "work"
     /\ t.on \cap t.off = {}
     /\ \A r \in t.take \cup t.on \cup t.off : p[r].what \notin {"none", "attached"} /\ ~p[r].was.deleted
     /\ \A r \in t.take : p[r].takes # <<>>
     /\ \A r \in t.deleted : /\ p[r].was.deleted
                               /\ \/ p[r].what \in {"release", "remove"}
                                  \/ p[r].what = "leave" /\ p[r].edited
     /\ t.take \cup t.on \cup t.off \cup t.deleted # {} \/ sync.pc = "remove" => sync.failures < MaxFailures
     /\ sync.pc \in {"settle", "remove", "drop"} =>
          /\ sync.row \in Rows \ (t.take \cup t.on \cup t.off \cup t.deleted)
          /\ p[sync.row].what = (IF sync.pc = "settle" THEN "push" ELSE "remove")
     /\ sync.pc \in {"settle", "remove"} => sync.file \in Files
     /\ sync.pc = "remove" =>
          sync.m.docs[sync.file].brew \in Had(rows[sync.row]) /\ sync.file = p[sync.row].was.file
     /\ sync.offline => sync.pc = "work" /\ t.join \cup t.on \cup t.off \cup t.deleted = {}

\* A file that is to join was read, and has a name or the lost profile of its brew.
AttachedOK ==
  \A f \in sync.todo.join :
    /\ sync.m.docs[f] # NoDoc
    /\ sync.attached[f] \in Rows \cup {NoRow}
    /\ sync.attached[f] = NoRow => sync.names[f] \in Names
    /\ sync.attached[f] # NoRow =>
         /\ sync.plan[sync.attached[f]].what = "attached"
         /\ sync.m.docs[f].brew \in Asked(rows[sync.attached[f]])
         /\ resumePending

\* The sync in progress.
SyncOK ==
  /\ sync \in Syncs
  /\ Working \/ sync.pc = "stars" => sync.plan \in [Rows -> Plans]
  /\ sync.since.people <= spent.people /\ sync.since.touches <= spent.touches
  /\ Working => (\A r \in Rows : PlanOK(r)) /\ TodoOK /\ AttachedOK
  /\ ~Working => sync.todo.join = {}

\* Well formed: the types, the rows, and the sync.
WellFormed == TypeOK /\ scene \in Scenes /\ RowsOK /\ SyncOK

\* No two rows, deleted ones included, stand on one file.
Distinct == \A r, x \in Rows : rows[r].file # NoFile /\ rows[r].file = rows[x].file => r = x
\* What a new file was made for, nobody else stands on.
Settling == sync.pc = "settle" => \A x \in Rows \ {sync.row} : rows[x].file # sync.file
\* The profiles still to be dealt with.
Waiting == sync.todo.take \cup sync.todo.on \cup sync.todo.off \cup sync.todo.deleted
             \cup (IF sync.pc \in {"settle", "remove"} THEN {sync.row} ELSE {})
\* A profile still to be dealt with is on the file the plan found it on.
FileKept ==
  \A r \in Rows : \/ sync.plan[r].what = "held"
                  \/ sync.plan[r].what \in {"push", "remove", "release"} /\ r \in Waiting
    => rows[r].file = sync.plan[r].was.file
\* The profile a held file is said to be of stands on it.
HeldOK ==
  \A r \in Rows : sync.held[r] # NoFile =>
    /\ rows[r].file = sync.held[r]
    /\ \/ sync.plan[r].what = "held"
       \/ sync.plan[r].what = "push" /\ r \notin sync.todo.on \cup sync.todo.take
\* What this sync has found, the plan does nothing about, and no star is put right for it.
FreshOK ==
  /\ sync.todo.join \cap sync.todo.star = {}
  /\ \A r \in sync.fresh : /\ sync.plan[r].what \in {"none", "attached"}
                           /\ rows[r].state # "free"
                           /\ rows[r].file \notin sync.todo.star
\* Files are kept apart: no file is two profiles', and none is one the plan takes for nobody's.
FilesApart ==
  /\ Distinct /\ JoiningFilesAreNobodys /\ Settling
  /\ Working => FileKept /\ HeldOK
  /\ Working \/ sync.pc = "stars" => FreshOK

\* With nobody at the display, what the plan takes to be on the machine still is, and what it takes to
\* be gone is gone.
ThereYet ==
  /\ \A r \in Rows : sync.held[r] # NoFile => files[sync.held[r]] # NoDoc
  /\ \A f \in sync.todo.join : files[f] # NoDoc
  /\ sync.pc = "settle" => files[sync.file] # NoDoc
  /\ \A r \in Waiting : sync.plan[r].what = "release" =>
       sync.plan[r].was.file \in Files /\ files[sync.plan[r].was.file] = NoDoc
\* With nobody changing the list, a row planned as deleted still is.
DeletedYet == \A r \in Rows : sync.plan[r].what # "none" /\ sync.plan[r].was.deleted
                => rows[r].state = "deleted"
\* A profile that takes a name and is to go is still to be dealt with as off.
TakesAndGoes == \A r \in sync.todo.take : sync.plan[r].what = "remove" => r \in sync.todo.off
\* The files of the list.
Standing == {rows[r].file : r \in Live} \ {NoFile}
\* The machine holds one of the files the app left there: or a person resumed, somebody acted, the sync
\* has itself taken one off, or there was none.
LeftThere == \/ resumePending \/ ~NobodyActed \/ ~TookNone
             \/ Standing = {}
             \/ \E f \in Standing : files[f] # NoDoc
\* As it was read: what the plan says of the machine and the list still holds when nobody acted.
AsRead ==
  Working /\ ~sync.offline =>
    /\ sync.since.touches = spent.touches => ThereYet
    /\ sync.since.people = spent.people => DeletedYet
    /\ TakesAndGoes /\ LeftThere
\* Together.
IInv == WellFormed /\ FilesApart /\ AsRead

\* A set of numbers has a least one.
LEMMA LeastNumber ==
  ASSUME NEW S, S \subseteq Nat, S # {}
  PROVE  \E m \in S : \A k \in S : m <= k
<1>1. IsWellFoundedOn(OpToRel(<, Nat), Nat)
  BY NatLessThanWellFounded
<1>2. PICK m \in S : \A k \in S : <<k, m>> \notin OpToRel(<, Nat)
  BY <1>1, WFMin
<1>3. \A k \in S : <<k, m>> \notin OpToRel(<, Nat) => m <= k
  BY DEF OpToRel
<1>. QED
  BY <1>2, <1>3

\* The first of a set of ids is one of them.
LEMMA FirstIsOne ==
  ASSUME NEW ids, ids \subseteq Nat, NEW none
  PROVE  /\ ids # {} => First(ids, none) \in ids
         /\ ids = {} => First(ids, none) = none
BY LeastNumber DEF First

\* What is defined over the values before it is defined for every number.
Before(h, S, f) == {h[g] : g \in {k \in S : k < f}}
\* ... from the values before.
DefinedBy(h, S, G) == h = [f \in S |-> G[<<f, Before(h, S, f)>>]]

\* Such a definition over numbers has a solution.
LEMMA Fixpoint ==
  ASSUME NEW S, S \subseteq Nat, NEW V, NEW G \in [S \X SUBSET V -> V]
  PROVE  \E h \in [S -> V] : DefinedBy(h, S, G)
<1> DEFINE Upto(n) == {k \in S : k < n}
           Part(h, n) == /\ h \in [Upto(n) -> V]
                         /\ \A f \in Upto(n) : h[f] = G[<<f, {h[g] : g \in {k \in S : k < f}}>>]
<1>0. \A k \in S : k \in Nat
  OBVIOUS
<1>1. ASSUME NEW n \in Nat PROVE \E h : Part(h, n)
  <2> DEFINE Bad == {i \in Nat : ~\E h : Part(h, i)}
  <2>1. SUFFICES ASSUME Bad # {} PROVE FALSE
    OBVIOUS
  <2>2. PICK i \in Bad : \A j \in Bad : i <= j
    <3> HIDE DEF Bad
    <3>1. Bad \subseteq Nat
      BY DEF Bad
    <3> QED BY <2>1, <3>1, LeastNumber
  <2>3. CASE i = 0
    <3>0. \A k \in S : ~(k < 0)
      BY <1>0
    <3>1. Upto(0) = {}
      BY <3>0
    <3>2. Part([x \in {} |-> x], 0)
      BY <3>1
    <3> QED BY <2>2, <2>3, <3>2
  <2>4. CASE i # 0
    <3>0. i \in Nat /\ \A j \in Bad : i <= j
      BY <2>2
    <3>1. i - 1 \in Nat /\ i - 1 \notin Bad
      <4> HIDE DEF Bad
      <4> QED BY <3>0, <2>4
    <3>2. PICK h : Part(h, i - 1)
      BY <3>1
    <3> DEFINE top == G[<<i - 1, {h[g] : g \in Upto(i - 1)}>>]
               hh == [f \in Upto(i) |-> IF f = i - 1 THEN top ELSE h[f]]
    <3>3. ASSUME NEW f \in Upto(i), f # i - 1 PROVE f \in Upto(i - 1)
      BY <3>3, <2>2
    <3>4. i - 1 \in S => top \in V
      BY <3>2
    <3>5. hh \in [Upto(i) -> V]
      BY <3>2, <3>3, <3>4
    <3>6. ASSUME NEW f \in Upto(i) PROVE hh[f] = G[<<f, {hh[g] : g \in {k \in S : k < f}}>>]
      <4>1. ASSUME NEW g \in {k \in S : k < f} PROVE g \in Upto(i) /\ g # i - 1 /\ hh[g] = h[g]
        <5>1. g \in S /\ g \in Nat /\ g < f /\ f \in Nat /\ f < i /\ i \in Nat
          BY <3>0, <3>6, <4>1, <1>0
        <5>2. g < i /\ g # i - 1
          BY <5>1
        <5>3. g \in Upto(i)
          BY <5>1, <5>2
        <5> QED BY <5>2, <5>3
      <4>2. {hh[g] : g \in {k \in S : k < f}} = {h[g] : g \in {k \in S : k < f}}
        BY <4>1
      <4>3. CASE f = i - 1
        BY <4>2, <4>3
      <4>4. CASE f # i - 1
        BY <4>2, <4>4, <3>2, <3>3
      <4> QED BY <4>3, <4>4
    <3>7. Part(hh, i)
      BY <3>5, <3>6
    <3> QED BY <3>7, <2>2
  <2> QED BY <2>3, <2>4
<1>2. ASSUME NEW n \in Nat, NEW m \in Nat, NEW h, NEW k, Part(h, n), Part(k, m),
             NEW f \in Upto(n) \cap Upto(m)
      PROVE  h[f] = k[f]
  <2> DEFINE Bad == {i \in Upto(n) \cap Upto(m) : h[i] # k[i]}
  <2>1. SUFFICES ASSUME Bad # {} PROVE FALSE
    OBVIOUS
  <2>2. PICK i \in Bad : \A j \in Bad : i <= j
    <3> HIDE DEF Bad
    <3>1. Bad \subseteq Nat
      BY DEF Bad
    <3> QED BY <2>1, <3>1, LeastNumber
  <2>3. \A g \in {x \in S : x < i} : g \in Upto(n) \cap Upto(m) /\ h[g] = k[g]
    BY <2>2
  <2>4. {h[g] : g \in {x \in S : x < i}} = {k[g] : g \in {x \in S : x < i}}
    BY <2>3
  <2>5. h[i] = k[i]
    BY <2>4, <1>2
  <2> QED BY <2>5, <2>2
<1> DEFINE of == [f \in S |-> CHOOSE h : Part(h, f + 1)]
           all == [f \in S |-> of[f][f]]
<1>3. ASSUME NEW f \in S PROVE Part(of[f], f + 1) /\ f \in Upto(f + 1)
  <2>1. f + 1 \in Nat
    BY <1>3
  <2> HIDE DEF Part
  <2>2. \E h : Part(h, f + 1)
    BY <2>1, <1>1
  <2>3. f \in Upto(f + 1)
    BY <1>3
  <2> QED BY <2>2, <2>3
<1>4. ASSUME NEW f \in S, NEW g \in S, g < f PROVE all[g] = of[f][g]
  <2>1. g \in Upto(g + 1) \cap Upto(f + 1) /\ g + 1 \in Nat /\ f + 1 \in Nat
    BY <1>4
  <2> HIDE DEF Part, Upto, of
  <2>2. of[g][g] = of[f][g]
    BY <2>1, <1>2, <1>3
  <2> QED BY <2>2
<1>5. all \in [S -> V]
  BY <1>3
<1>6. ASSUME NEW f \in S PROVE all[f] = G[<<f, {all[g] : g \in {k \in S : k < f}}>>]
  <2>1. {all[g] : g \in {k \in S : k < f}} = {of[f][g] : g \in {k \in S : k < f}}
    <3>1. \A g \in {k \in S : k < f} : all[g] = of[f][g]
      BY <1>4
    <3> HIDE DEF all, of
    <3> QED BY <3>1
  <2>2. all[f] = of[f][f]
    OBVIOUS
  <2>3. of[f][f] = G[<<f, {of[f][g] : g \in {k \in S : k < f}}>>]
    BY <1>3
  <2> HIDE DEF of, all
  <2> QED BY <2>1, <2>2, <2>3
<1> HIDE DEF all
<1>7. all = [f \in S |-> G[<<f, {all[g] : g \in {k \in S : k < f}}>>]]
  BY <1>5, <1>6
<1> QED BY <1>5, <1>7 DEF DefinedBy, Before

-----------------------------------------------------------------------------
(* Names, and what joins the list.                                          *)

\* Names: a word more, a word less, and none at all.
LEMMA NamesGrow ==
  ASSUME NEW name \in Names, NEW w \in Words \cup Versions \cup Nat
  PROVE  Append(name, w) \in Names
BY DEF Names

LEMMA NamesShrink ==
  ASSUME NEW name \in Names, Len(name) > 1
  PROVE  SubSeq(name, 1, Len(name) - 1) \in Names
BY DEF Names

LEMMA NoNameIsOne == <<>> \in Names
BY DEF Names

\* Every name the app makes or takes is one.
LEMMA MachineNames ==
  ASSUME rows \in [Rows -> Profiles], NEW r \in Rows
  PROVE  MachineName(r) \in Names
<1>1. rows[r].label \in Names /\ rows[r].version \in Versions \cup {NoVersion}
  BY DEF Profiles
<1> QED BY <1>1, NamesGrow DEF MachineName

LEMMA TakenNamesAre ==
  ASSUME NEW seen \in Names, NEW label, NEW written
  PROVE  TakenFrom(seen, label, written) \in Names
BY NamesShrink DEF TakenFrom

LEMMA MachinesNames ==
  ASSUME NEW r, NEW doc \in Docs
  PROVE  MachinesName(r, doc) \in Names
BY TakenNamesAre DEF MachinesName, Docs

LEMMA FreeNames ==
  ASSUME NEW name \in Names, NEW taken
  PROVE  FreeName(name, taken) \in Names
<1> DEFINE ids == {k \in 2 .. Cardinality(taken) + 2 : Append(name, k) \notin taken}
<1>1. ids \subseteq Nat
  OBVIOUS
<1> HIDE DEF ids
<1>2. First(ids, 0) \in Nat
  <2>1. (ids # {} => First(ids, 0) \in ids) /\ (ids = {} => First(ids, 0) = 0)
    BY <1>1, FirstIsOne
  <2>2. CASE ids = {}
    BY <2>1, <2>2
  <2>3. CASE ids # {}
    <3>1. First(ids, 0) \in ids
      BY <2>1, <2>3
    <3> QED BY <1>1, <3>1
  <2> QED BY <2>2, <2>3
<1>3. Append(name, First(ids, 0)) \in Names
  BY <1>2, NamesGrow
<1> QED BY <1>3 DEF FreeName, ids

\* Which lost profile a file is attached to, and what the others join as.
LEMMA AttachedTyped ==
  ASSUME NEW m \in Reads
  PROVE  /\ Attached(m) \in [Unseen(m) -> Rows \cup {NoRow}]
         /\ \A f \in Unseen(m) : Attached(m)[f] # NoRow =>
              /\ resumePending /\ Attached(m)[f] \in Lost(m)
              /\ m.docs[f].brew \in rows[Attached(m)[f]].listed \cup {rows[Attached(m)[f]].current}
<1> DEFINE S == Unseen(m)
           V == Rows \cup {NoRow}
           C(f) == {r \in Lost(m) : rows[r].current = m.docs[f].brew}
           D(f) == {r \in Lost(m) : m.docs[f].brew \in rows[r].listed \cup {rows[r].current}}
<1>1. S \subseteq Nat /\ Lost(m) \subseteq Rows /\ Rows \subseteq Nat
  BY PlanAssumption DEF Unseen, Lost, Live
<1>2. \A T, f : /\ First(C(f) \ T, NoRow) \in V
                /\ First(C(f) \ T, NoRow) # NoRow => First(C(f) \ T, NoRow) \in C(f)
  <2> TAKE T, f
  <2>1. C(f) \ T \subseteq Nat /\ C(f) \ T \subseteq V
    BY <1>1
  <2> QED BY <2>1, FirstIsOne
<1>3. \A T, f : /\ First(D(f) \ T, NoRow) \in V
                /\ First(D(f) \ T, NoRow) # NoRow => First(D(f) \ T, NoRow) \in D(f)
  <2> TAKE T, f
  <2>1. D(f) \ T \subseteq Nat /\ D(f) \ T \subseteq V
    BY <1>1
  <2> QED BY <2>1, FirstIsOne
<1>4. PICK a \in [S -> V] : a = [f \in S |-> First(C(f) \ {a[g] : g \in {k \in S : k < f}}, NoRow)]
  <2> DEFINE G == [p \in S \X SUBSET V |-> First(C(p[1]) \ p[2], NoRow)]
  <2>1. G \in [S \X SUBSET V -> V]
    <3> HIDE DEF S, V, C
    <3> QED BY <1>2
  <2>2. PICK h \in [S -> V] : DefinedBy(h, S, G)
    <3> HIDE DEF G, S, V
    <3> QED BY <1>1, <2>1, Fixpoint
  <2>3. \A f \in S : G[<<f, Before(h, S, f)>>] = First(C(f) \ Before(h, S, f), NoRow)
    <3> TAKE f \in S
    <3>1. Before(h, S, f) \in SUBSET V
      BY DEF Before
    <3> QED BY <3>1
  <2> HIDE DEF G, C
  <2>4. h = [f \in S |-> First(C(f) \ Before(h, S, f), NoRow)]
    BY <2>2, <2>3 DEF DefinedBy
  <2> QED BY <2>4 DEF Before
<1> DEFINE byActive[f \in S] == First(C(f) \ {byActive[g] : g \in {k \in S : k < f}}, NoRow)
<1>5. byActive = [f \in S |-> First(C(f) \ {byActive[g] : g \in {k \in S : k < f}}, NoRow)]
  <2> HIDE DEF C, S
  <2> QED BY <1>4 DEF byActive
<1> DEFINE actives == {byActive[f] : f \in S}
<1>6. \A f \in S : /\ byActive[f] \in V
                   /\ byActive[f] # NoRow => byActive[f] \in C(f)
  <2> HIDE DEF byActive, C
  <2> QED BY <1>2, <1>5
<1>7. PICK b \in [S -> V] : b = [f \in S |-> IF byActive[f] # NoRow THEN byActive[f]
                                  ELSE First(D(f) \ (actives \cup {b[g] : g \in {k \in S : k < f}}), NoRow)]
  <2> HIDE DEF byActive, C, actives
  <2> DEFINE E(f, T) == IF byActive[f] # NoRow THEN byActive[f] ELSE First(D(f) \ (actives \cup T), NoRow)
             G == [p \in S \X SUBSET V |-> E(p[1], p[2])]
  <2>1. G \in [S \X SUBSET V -> V]
    <3>1. \A f \in S : \A T : E(f, T) \in V
      BY <1>3, <1>6
    <3> HIDE DEF E, S, V
    <3> QED BY <3>1
  <2>2. PICK h \in [S -> V] : DefinedBy(h, S, G)
    <3> HIDE DEF G, S, V
    <3> QED BY <1>1, <2>1, Fixpoint
  <2>3. \A f \in S : G[<<f, Before(h, S, f)>>] = E(f, Before(h, S, f))
    <3> TAKE f \in S
    <3>1. Before(h, S, f) \in SUBSET V
      BY DEF Before
    <3> QED BY <3>1
  <2> HIDE DEF G, D
  <2>4. h = [f \in S |-> E(f, Before(h, S, f))]
    <3> HIDE DEF E
    <3> QED BY <2>2, <2>3 DEF DefinedBy
  <2> QED BY <2>4 DEF Before
<1> DEFINE byAny[f \in S] == IF byActive[f] # NoRow THEN byActive[f]
                             ELSE First(D(f) \ (actives \cup {byAny[g] : g \in {k \in S : k < f}}), NoRow)
<1>8. byAny = [f \in S |-> IF byActive[f] # NoRow THEN byActive[f]
                             ELSE First(D(f) \ (actives \cup {byAny[g] : g \in {k \in S : k < f}}), NoRow)]
  <2> HIDE DEF D, S, byActive, actives
  <2> QED BY <1>7 DEF byAny
<1>9. /\ byAny \in [S -> V]
      /\ \A f \in S : byAny[f] # NoRow => byAny[f] \in D(f)
  <2> DEFINE rest(f) == actives \cup {byAny[g] : g \in {k \in S : k < f}}
  <2>0. byAny = [f \in S |-> IF byActive[f] # NoRow THEN byActive[f] ELSE First(D(f) \ rest(f), NoRow)]
    BY <1>8
  <2> HIDE DEF byActive, actives, byAny, C, D, V, rest
  <2>1. byAny \in [S -> V]
    BY <1>3, <1>6, <2>0
  <2>2. ASSUME NEW f \in S, byAny[f] # NoRow PROVE byAny[f] \in D(f)
    <3>1. C(f) \subseteq D(f)
      BY DEF C, D
    <3> QED BY <1>3, <1>6, <2>0, <2>2, <3>1
  <2> QED BY <2>1, <2>2
<1>10. Attached(m) = IF resumePending THEN byAny ELSE [f \in Unseen(m) |-> NoRow]
  BY DEF Attached
<1> HIDE DEF byAny
<1> QED BY <1>9, <1>10

LEMMA JoinNamesTyped ==
  ASSUME NEW m \in Reads
  PROVE  JoinNames(m) \in [{f \in Unseen(m) : Attached(m)[f] = NoRow} -> Names]
<1> DEFINE S == {f \in Unseen(m) : Attached(m)[f] = NoRow}
           E(f, T) == FreeName(m.docs[f].name, TakenNames(NoRow, TRUE) \cup T)
<1>1. S \subseteq Nat
  BY PlanAssumption DEF Unseen
<1>2. \A f \in S : \A T : E(f, T) \in Names
  <2> TAKE f \in S
  <2> TAKE T
  <2>1. m.docs[f].name \in Names
    BY DEF Unseen, Reads, MaybeDocs, Docs
  <2> QED BY <2>1, FreeNames
<1>3. PICK a \in [S -> Names] : a = [f \in S |-> E(f, {a[g] : g \in {k \in S : k < f}})]
  <2> DEFINE G == [p \in S \X SUBSET Names |-> E(p[1], p[2])]
  <2> HIDE DEF E, S
  <2>1. G \in [S \X SUBSET Names -> Names]
    BY <1>2
  <2>2. PICK h \in [S -> Names] : DefinedBy(h, S, G)
    <3> HIDE DEF G
    <3> QED BY <1>1, <2>1, Fixpoint
  <2>3. \A f \in S : G[<<f, Before(h, S, f)>>] = E(f, Before(h, S, f))
    <3> TAKE f \in S
    <3>1. Before(h, S, f) \in SUBSET Names
      BY DEF Before
    <3> QED BY <3>1
  <2> HIDE DEF G
  <2>4. h = [f \in S |-> E(f, Before(h, S, f))]
    BY <2>2, <2>3 DEF DefinedBy
  <2> QED BY <2>4 DEF Before
<1> DEFINE name[f \in S] == E(f, {name[g] : g \in {k \in S : k < f}})
<1>4. name = [f \in S |-> E(f, {name[g] : g \in {k \in S : k < f}})]
  <2> HIDE DEF E, S
  <2> QED BY <1>3 DEF name
<1>5. name \in [S -> Names]
  <2> HIDE DEF E, S, name
  <2> QED BY <1>2, <1>4
<1>6. JoinNames(m) = name
  BY DEF JoinNames
<1> HIDE DEF name
<1> QED BY <1>5, <1>6

-----------------------------------------------------------------------------
(* Rows that get better.                                                    *)

\* What a row has had, and what it was given, it keeps.
Better(row, new) ==
  /\ new \in Profiles /\ RowOK(new)
  /\ row.state # "free" => new.state # "free"
  /\ Had(row) \subseteq Had(new) /\ row.chosen \subseteq new.chosen

\* Every row is as it was or better, and pins are of profiles.
Evolves ==
  /\ rows' \in [Rows -> Profiles]
  /\ \A r \in Rows : Better(rows[r], rows'[r])
  /\ \A r \in Rows : rows'[r].pinOf # NoRow => rows'[rows'[r].pinOf].state # "free"

\* The rows of the list, whatever else is going on.
RowsTyped == rows \in [Rows -> Profiles] /\ RowsOK

\* As it is, is better.
LEMMA SameIsBetter ==
  ASSUME NEW row \in Profiles, RowOK(row)
  PROVE  Better(row, row)
BY DEF Better

\* A list of which one row gets better, or none.
LEMMA OneRow ==
  ASSUME RowsTyped, NEW r \in Rows, NEW new, Better(rows[r], new),
         new.pinOf # NoRow /\ new.pinOf # rows[r].pinOf => rows[new.pinOf].state # "free",
         rows' = [rows EXCEPT ![r] = new]
  PROVE  Evolves
<1>1. \A x \in Rows : rows[x] \in Profiles /\ rows'[x] = IF x = r THEN new ELSE rows[x]
  BY DEF RowsTyped
<1>2. \A x \in Rows : Better(rows[x], rows'[x])
  BY <1>1, SameIsBetter DEF RowsTyped, RowsOK
<1>3. rows' \in [Rows -> Profiles]
  BY <1>2 DEF Better, RowsTyped
<1>4. ASSUME NEW x \in Rows, rows'[x].pinOf # NoRow PROVE rows'[rows'[x].pinOf].state # "free"
  <2>1. rows'[x].pinOf \in Rows
    BY <1>3, <1>4 DEF Profiles
  <2>2. rows[rows'[x].pinOf].state # "free"
    BY <1>1, <1>4 DEF RowsTyped, RowsOK
  <2> QED BY <1>2, <2>1, <2>2 DEF Better
<1> QED BY <1>2, <1>3, <1>4 DEF Evolves

LEMMA NoRowChanges ==
  ASSUME RowsTyped, rows' = rows
  PROVE  Evolves
BY SameIsBetter DEF RowsTyped, RowsOK, Evolves

LEMMA EvolvesTyped ==
  ASSUME Evolves
  PROVE  RowsTyped'
BY DEF Evolves, RowsTyped, RowsOK, Better

\* A brew of a row that is taken is a brew.
LEMMA RowTyped ==
  ASSUME RowsTyped, NEW r \in Rows
  PROVE  /\ rows[r] \in Profiles /\ RowOK(rows[r])
         /\ Had(rows[r]) \subseteq Brews /\ Asked(rows[r]) \subseteq Brews
BY DEF RowsTyped, RowsOK, Had, Asked, Profiles

\* A version kept from the file.
LEMMA KeepBetter ==
  ASSUME NEW row \in Profiles, RowOK(row), row.state # "free", NEW brew \in Brews
  PROVE  /\ Better(row, Keep(row, brew))
         /\ Had(Keep(row, brew)) = Had(row) \cup {brew}
         /\ Keep(row, brew) = [row EXCEPT !.found = Keep(row, brew).found]
         /\ Keep(row, brew).found \in SUBSET Brews
BY DEF Better, Keep, Had, Asked, Profiles, RowOK

\* A row that is taken, with another file or none.
OnFile(row, f, doc) == [row EXCEPT !.file = f, !.recorded = doc]
\* A row whose active brew did not verify.
Unverified(row, brew) == [row EXCEPT !.failed = brew]
\* A row put on a file it may stand on, one that lets go of it, one that joins, one that failed.
LEMMA FileBetter ==
  ASSUME NEW row \in Profiles, RowOK(row), row.state # "free",
         NEW f \in Files \cup {NoFile}, NEW doc \in Docs \cup {NoDoc},
         doc # NoDoc => doc.brew \in Asked(row)
  PROVE  LET new == OnFile(row, f, doc)
         IN  Better(row, new) /\ new.file = f /\ new.recorded = doc /\ new.pinOf = row.pinOf
               /\ new.state = row.state /\ Had(new) = Had(row) /\ new.chosen = row.chosen /\ new.on = row.on
<1> DEFINE new == OnFile(row, f, doc)
<1>1. new \in Profiles
  BY DEF Profiles, OnFile
<1>2. /\ new.file = f /\ new.recorded = doc /\ new.pinOf = row.pinOf
      /\ new.state = row.state /\ new.chosen = row.chosen /\ new.on = row.on
      /\ new.listed = row.listed /\ new.found = row.found /\ new.current = row.current
      /\ new.overruled = row.overruled
  BY DEF Profiles, OnFile
<1> HIDE DEF new
<1>3. RowOK(new)
  BY <1>2 DEF RowOK, Asked, Had
<1> QED BY <1>1, <1>2, <1>3 DEF Better, Had, new

LEMMA ReleaseBetter ==
  ASSUME NEW row \in Profiles, RowOK(row)
  PROVE  Better(row, Release(row)) /\ Release(row).file = NoFile /\ Release(row).pinOf = row.pinOf
           /\ Release(row).state = row.state
<1>1. CASE row.state # "free"
  <2>1. NoFile \in Files \cup {NoFile} /\ NoDoc \in Docs \cup {NoDoc}
    OBVIOUS
  <2>2. Release(row) = OnFile(row, NoFile, NoDoc)
    BY DEF Release, OnFile
  <2> QED BY <1>1, <2>1, <2>2, FileBetter
<1>2. CASE row.state = "free"
  <2>1. row = Free
    BY <1>2 DEF RowOK
  <2>3. row.file = NoFile /\ row.recorded = NoDoc
    BY <2>1 DEF Free
  <2>2. Release(row) = row
    BY <2>3 DEF Release, Profiles
  <2> QED BY <2>2, <2>3, SameIsBetter
<1> QED BY <1>1, <1>2

LEMMA JoinedBetter ==
  ASSUME NEW row \in Profiles, RowOK(row), row.state = "free",
         NEW doc \in Docs, NEW f \in Files, NEW name \in Names, NEW star \in BOOLEAN
  PROVE  LET new == Joined(doc, f, name, star)
         IN  Better(row, new) /\ new.file = f /\ new.pinOf = NoRow /\ new.state = "live"
<1> DEFINE new == Joined(doc, f, name, star)
<1>1. new \in Profiles
  BY NoNameIsOne DEF Joined, Free, Docs, Profiles
<1>2. /\ new.state = "live" /\ new.file = f /\ new.pinOf = NoRow /\ new.recorded = doc
      /\ new.overruled = NoDoc /\ new.current = doc.brew /\ new.listed = {doc.brew}
      /\ new.found = {} /\ new.chosen = {doc.brew}
  BY DEF Joined, Free
<1>3. row.listed = {} /\ row.found = {} /\ row.chosen = {}
  BY DEF RowOK, Free
<1> HIDE DEF new
<1>4. RowOK(new)
  BY <1>2 DEF RowOK, Asked, Had
<1> QED BY <1>1, <1>2, <1>3, <1>4 DEF Better, Had, new

LEMMA FailedBetter ==
  ASSUME NEW row \in Profiles, RowOK(row), row.state # "free", NEW brew \in Brews
  PROVE  LET new == Unverified(row, brew)
         IN  Better(row, new) /\ new.file = row.file /\ new.pinOf = row.pinOf /\ new.state = row.state
               /\ Had(new) = Had(row) /\ new.chosen = row.chosen /\ new.recorded = row.recorded
BY DEF Better, Had, Asked, Profiles, RowOK, Unverified

\* Better than better is better.
LEMMA BetterStill ==
  ASSUME NEW a, NEW b, NEW c, Better(a, b), Better(b, c)
  PROVE  Better(a, c)
BY DEF Better

-----------------------------------------------------------------------------
(* The plan.                                                                *)

\* The profile the selection goes to is one of the list.
LEMMA Successors ==
  ASSUME NEW r, NEW m
  PROVE  Successor(r, m) \in Rows \cup {NoRow}
<1> DEFINE ids == {x \in Live \ {r} : /\ rows[x].on
                                      /\ rows[x].current \notin Utility
                                      /\ Outcome(x, m) = "go"}
<1>1. ids \subseteq Nat /\ ids \subseteq Rows
  BY PlanAssumption DEF Live
<1> HIDE DEF ids
<1>2. First(ids, NoRow) \in Rows \cup {NoRow}
  BY <1>1, FirstIsOne
<1> QED BY <1>2 DEF Successor, ids

\* What a plan says of its row.
PlanSays(p, r, m) ==
  /\ r \in Live \cup Deleted
  /\ p = [what |-> p.what, was |-> p.was, target |-> p.target, edited |-> p.edited,
          takes |-> p.takes, successor |-> p.successor]
  /\ p.was = [label |-> rows[r].label, file |-> rows[r].file,
              recorded |-> rows[r].recorded, overruled |-> rows[r].overruled,
              shown |-> MachineName(r), deleted |-> r \in Deleted]
  /\ p.target = Target(r, m)
  /\ p.edited = (Edited(r, m) /\ p.what # "report")
  /\ p.takes = IF r \in Live /\ Takes(r, m) THEN MachinesName(r, Seen(r, m)) ELSE <<>>
  /\ p.successor = IF p.what = "remove" THEN Successor(r, m) ELSE NoRow
  /\ p.what = IF r \in Live THEN WhatLive(r, m) ELSE WhatDeleted(r, m)

\* A plan is made of the row and of what was read.
LEMMA WhatIsPlanned ==
  ASSUME NEW r \in Rows, NEW m, PlanOf(r, m).what # "none"
  PROVE  PlanSays(PlanOf(r, m), r, m)
<1>1. CASE r \in Live
  BY <1>1 DEF PlanOf, NoPlan, PlanSays
<1>2. CASE r \notin Live
  <2>1. r \in Deleted
    BY <1>2 DEF PlanOf, NoPlan
  <2> QED BY <1>2, <2>1 DEF PlanOf, NoPlan, PlanSays
<1> QED BY <1>1, <1>2

\* The cases of the plan, and what each means.
LEMMA Outcomes ==
  ASSUME NEW r, NEW m
  PROVE  /\ Outcome(r, m) \in {"report", "conflict", "attached", "go"}
         /\ Outcome(r, m) = "conflict" => There(r, m) /\ InConflict(r, Seen(r, m))
         /\ Outcome(r, m) \in {"attached", "go"} => ~(There(r, m) /\ InConflict(r, Seen(r, m)))
         /\ Outcome(r, m) \in {"conflict", "attached", "go"} => ~Unreadable(r, m)
BY DEF Outcome

LEMMA WhatLiveIs ==
  ASSUME NEW r, NEW m
  PROVE  LET what == WhatLive(r, m) IN
         /\ what \in {"none", "report", "attached", "conflict", "held", "push", "remove", "leave", "release"}
         /\ what = "conflict" => There(r, m) /\ InConflict(r, Seen(r, m))
         /\ what \notin {"conflict", "report"} => ~(There(r, m) /\ InConflict(r, Seen(r, m)))
         /\ what = "held" => IsHeld(r, m)
         /\ what = "remove" => There(r, m) /\ ~rows[r].on
         /\ what = "release" => rows[r].file # NoFile /\ ~There(r, m) /\ ~Unreadable(r, m)
         /\ Outcome(r, m) = "attached" => what = "attached"
BY Outcomes DEF WhatLive

LEMMA WhatDeletedIs ==
  ASSUME NEW r, NEW m
  PROVE  LET what == WhatDeleted(r, m) IN
         /\ what \in {"none", "report", "remove", "leave", "release"}
         /\ what = "remove" => There(r, m) /\ ~Edited(r, m)
         /\ what = "release" => rows[r].file # NoFile /\ ~There(r, m) /\ ~Unreadable(r, m)
BY DEF WhatDeleted

\* What a plan sends is a document: the active brew, under the name the machine is to show.
LEMMA TargetTyped ==
  ASSUME RowsTyped, NEW m \in Reads, NEW r \in Live \cup Deleted
  PROVE  /\ Target(r, m) \in Docs
         /\ Target(r, m).brew = rows[r].current
         /\ Target(r, m).name = IF Takes(r, m) THEN Seen(r, m).name ELSE MachineName(r)
<1>1. r \in Rows /\ rows[r].state # "free"
  BY DEF Live, Deleted
<1>2. rows[r].current \in Brews
  BY <1>1, RowTyped DEF RowOK
<1>3. MachineName(r) \in Names
  BY <1>1, MachineNames DEF RowsTyped
<1>4. There(r, m) => Seen(r, m) \in Docs
  <2>1. rows[r].file \in Files \cup {NoFile}
    BY <1>1, RowTyped DEF Profiles
  <2> QED BY <2>1 DEF There, Seen, Reads, MaybeDocs
<1>5. Takes(r, m) => Seen(r, m).name \in Names
  BY <1>4 DEF Takes, Edited, Docs
<1> QED BY <1>2, <1>3, <1>5 DEF Target, Docs

\* A plan has its type.
LEMMA PlanTyped ==
  ASSUME RowsTyped, NEW m \in Reads, NEW r \in Rows
  PROVE  PlanOf(r, m) \in Plans
<1> DEFINE p == PlanOf(r, m)
<1>1. CASE p.what = "none"
  <2>1. p = NoPlan
    BY <1>1 DEF PlanOf
  <2> QED BY <2>1 DEF Plans
<1>2. CASE p.what # "none"
  <2>0. PlanSays(p, r, m)
    BY <1>2, WhatIsPlanned
  <2> HIDE DEF p
  <2>1. p.what \in {"report", "attached", "conflict", "held", "push", "remove", "leave", "release"}
    <3>1. p.what = WhatLive(r, m) \/ p.what = WhatDeleted(r, m)
      BY <2>0 DEF PlanSays
    <3> QED BY <1>2, <3>1, WhatLiveIs, WhatDeletedIs
  <2>2. p.was \in WasRows
    <3>1. rows[r] \in Profiles /\ MachineName(r) \in Names
      BY RowTyped, MachineNames DEF RowsTyped
    <3> QED BY <2>0, <3>1 DEF WasRows, Profiles, PlanSays
  <2>3. p.target \in Docs
    BY <2>0, TargetTyped DEF PlanSays
  <2>4. p.takes \in Names
    <3>1. rows[r].file \in Files \cup {NoFile}
      BY RowTyped DEF Profiles
    <3>2. Takes(r, m) => Seen(r, m) \in Docs
      BY <3>1 DEF Takes, Edited, There, Seen, Reads, MaybeDocs
    <3>3. Takes(r, m) => MachinesName(r, Seen(r, m)) \in Names
      BY <3>2, MachinesNames
    <3> QED BY <2>0, <3>3, NoNameIsOne DEF PlanSays
  <2>5. p.edited \in BOOLEAN
    BY <2>0 DEF PlanSays
  <2>6. p.successor \in Rows \cup {NoRow}
    BY <2>0, Successors DEF PlanSays
  <2>7. p = [what |-> p.what, was |-> p.was, target |-> p.target, edited |-> p.edited,
             takes |-> p.takes, successor |-> p.successor]
    BY <2>0 DEF PlanSays
  <2>8. p \in RowPlans
    BY <2>1, <2>2, <2>3, <2>4, <2>5, <2>6, <2>7 DEF RowPlans
  <2> QED BY <2>8 DEF Plans, p
<1> QED BY <1>1, <1>2

\* A brew the profile knows is one of its own, that a person gave it.
LEMMA KnownBrew ==
  ASSUME RowsTyped, NEW r \in Rows, rows[r].state # "free", NEW brew, Knows(r, brew)
  PROVE  brew \in Asked(rows[r])
<1>1. RowOK(rows[r])
  BY RowTyped
<1> QED BY <1>1 DEF Knows, RowOK, Asked, Had

\* A name that is neither taken nor asked about is the app's.
LEMMA NameKnown ==
  ASSUME RowsTyped, NEW r \in Rows, NEW doc, Knows(r, doc.brew), doc # rows[r].overruled,
         ~NameInConflict(r, doc), ~TakesTheName(r, doc)
  PROVE  \/ IsAppName(doc.name, rows[r].label)
         \/ rows[r].recorded # NoDoc /\ rows[r].recorded.name = doc.name
<1>1. NameIsTheApps(r, doc.name)
  BY DEF NameInConflict, TakesTheName
<1>2. MachineName(r) = rows[r].label \/ \E v \in Versions : MachineName(r) = Append(rows[r].label, v)
  <2>1. rows[r].version \in Versions \cup {NoVersion}
    BY RowTyped DEF Profiles
  <2> QED BY <2>1 DEF MachineName
<1> QED BY <1>1, <1>2 DEF NameIsTheApps, IsAppName

\* What the planner plans may be relied on.
LEMMA PlanFits ==
  ASSUME RowsTyped, NEW m \in Reads, NEW r \in Rows
  PROVE  Fits(PlanOf(r, m), r, m.docs)
<1> DEFINE p == PlanOf(r, m)
           seen == m.docs[p.was.file]
<1>1. SUFFICES ASSUME p.what # "none" PROVE Fits(p, r, m.docs)
  BY DEF Fits
<1>0. PlanSays(p, r, m)
  BY <1>1, WhatIsPlanned
<1> HIDE DEF p
<1>2. /\ r \in Live \cup Deleted /\ p.was.file = rows[r].file /\ p.was.deleted = (r \in Deleted)
      /\ p.was.label = rows[r].label /\ p.was.recorded = rows[r].recorded
      /\ p.was.overruled = rows[r].overruled
      /\ p.target = Target(r, m) /\ p.edited = (Edited(r, m) /\ p.what # "report")
      /\ p.takes # <<>> => r \in Live /\ Takes(r, m)
      /\ p.what = IF r \in Live THEN WhatLive(r, m) ELSE WhatDeleted(r, m)
      /\ seen = Seen(r, m)
  BY <1>0 DEF PlanSays, Seen
<1> HIDE DEF seen
<1>3. rows[r].state # "free" /\ (r \in Live <=> r \notin Deleted)
  BY <1>2 DEF Live, Deleted
<1>4. p.target.brew \in Asked(rows[r])
  BY <1>2, <1>3, TargetTyped, RowTyped DEF RowOK
<1>5. p.edited \/ p.what \in {"conflict", "remove"} => There(r, m)
  BY <1>2, WhatLiveIs, WhatDeletedIs DEF Edited
<1>6. There(r, m) => p.was.file \in Files /\ seen # NoDoc
  <2>1. rows[r].file \in Files \cup {NoFile}
    BY RowTyped DEF Profiles
  <2> QED BY <1>2, <2>1 DEF There, Seen
<1>7. ASSUME p.edited, p.what # "conflict", ~p.was.deleted
      PROVE  /\ seen.brew \in rows[r].chosen
             /\ p.target.name # seen.name => NameOf(p.was, seen)
  <2>1. r \in Live /\ Edited(r, m) /\ p.what = WhatLive(r, m) /\ p.what \notin {"conflict", "report"}
    BY <1>7, <1>2, <1>3
  <2>2. ~InConflict(r, seen)
    BY <2>1, <1>2, WhatLiveIs DEF Edited
  <2>3. seen # rows[r].recorded
    BY <2>1, <1>2 DEF Edited
  <2>4. ~BrewInConflict(r, seen) /\ ~NameInConflict(r, seen)
    BY <2>2, <2>3 DEF InConflict
  <2>5. CASE seen = rows[r].overruled
    <3>1. seen # NoDoc
      BY <1>5, <1>6, <1>7
    <3>2. seen.brew \in rows[r].chosen
      BY <2>5, <3>1, RowTyped DEF RowOK
    <3>3. NameOf(p.was, seen)
      BY <2>5, <1>2 DEF NameOf
    <3> QED BY <3>2, <3>3
  <2>6. CASE seen # rows[r].overruled
    <3>1. Knows(r, seen.brew)
      BY <2>4, <2>6 DEF BrewInConflict
    <3>2. seen.brew \in rows[r].chosen
      BY <3>1, <1>3, KnownBrew DEF Asked
    <3>3. ASSUME p.target.name # seen.name PROVE NameOf(p.was, seen)
      <4>1. ~Takes(r, m)
        BY <3>3, <1>2, TargetTyped
      <4>2. ~TakesTheName(r, seen)
        BY <4>1, <2>1, <1>2 DEF Takes
      <4>3. \/ IsAppName(seen.name, rows[r].label)
            \/ rows[r].recorded # NoDoc /\ rows[r].recorded.name = seen.name
        BY <4>2, <2>4, <2>6, <3>1, NameKnown
      <4> QED BY <4>3, <1>2 DEF NameOf
    <3> QED BY <3>2, <3>3
  <2> QED BY <2>5, <2>6
<1>8. ASSUME p.takes # <<>>
      PROVE  seen.brew \in Had(rows[r]) /\ p.target.name = seen.name
  <2>1. Knows(r, seen.brew)
    BY <1>8, <1>2 DEF Takes, TakesTheName
  <2>2. seen.brew \in Had(rows[r])
    BY <2>1, <1>3, KnownBrew DEF Asked
  <2> QED BY <2>2, <1>8, <1>2, TargetTyped
<1>9. ASSUME p.what = "remove"
      PROVE  seen.brew \in rows[r].chosen /\ (p.edited \/ seen.brew \in Had(rows[r]))
  <2>1. There(r, m)
    BY <1>5, <1>9
  <2>2. CASE Edited(r, m)
    <3>1. p.edited /\ ~p.was.deleted
      BY <2>2, <1>2, <1>3, <1>9, WhatDeletedIs
    <3> QED BY <3>1, <1>7, <1>9
  <2>3. CASE ~Edited(r, m)
    <3>1. seen = rows[r].recorded /\ seen # NoDoc
      BY <2>1, <2>3, <1>2, <1>6 DEF Edited
    <3>2. seen.brew \in Asked(rows[r])
      BY <3>1, RowTyped DEF RowOK
    <3> QED BY <3>2 DEF Asked
  <2> QED BY <2>2, <2>3
<1> QED BY <1>3, <1>4, <1>5, <1>6, <1>7, <1>8, <1>9 DEF Fits, seen, p

-----------------------------------------------------------------------------
(* A step of the write phase.                                               *)

\* A step of the write phase: the plan and what was read stay, and what is left shrinks.
Walks(s) ==
  /\ s \in Syncs
  /\ s.m = sync.m /\ s.plan = sync.plan /\ s.offline = sync.offline /\ s.since = sync.since
  /\ s.todo.join \subseteq sync.todo.join /\ s.todo.take = sync.todo.take /\ s.todo.star = sync.todo.star
  /\ s.todo.on \subseteq sync.todo.on /\ s.todo.off \subseteq sync.todo.off
  /\ s.todo.deleted \subseteq sync.todo.deleted
  /\ s.todo.take \cup s.todo.on \cup s.todo.off \cup s.todo.deleted # {} => s.failures < MaxFailures
\* The profile dealt with stays, and what is held and was found.
Same(s, t) ==
  /\ s.pc = t.pc /\ s.row = t.row /\ s.file = t.file /\ s.held = t.held /\ s.fresh = t.fresh

\* The parts of a sync.
LEMMA SyncTyped ==
  ASSUME NEW s \in Syncs
  PROVE  /\ s.pc \in {"idle", "mirrored", "work", "settle", "remove", "drop", "stars"}
         /\ s.m \in Reads /\ s.m.docs \in MaybeDocs /\ s.m.starred \subseteq Files
         /\ s.m.unreadable \subseteq Files /\ s.m.selected \in Files \cup {NoFile}
         /\ s.plan \in [Rows -> Plans] \cup {<<>>} /\ s.todo \in Todos
         /\ s.todo.join \subseteq Files /\ s.todo.take \subseteq Rows /\ s.todo.on \subseteq Rows
         /\ s.todo.off \subseteq Rows /\ s.todo.deleted \subseteq Rows /\ s.todo.star \subseteq Files
         /\ s.held \in [Rows -> Files \cup {NoFile}] /\ s.fresh \subseteq Rows
         /\ s.failures \in 0 .. MaxFailures /\ s.wrote \in BOOLEAN /\ s.offline \in BOOLEAN
         /\ s.row \in Rows \cup {NoRow} /\ s.file \in Files \cup {NoFile} /\ s.blocked \in BOOLEAN
         /\ s.since \in Counts /\ s.names = sync.names /\ s.attached = sync.attached
BY DEF Syncs, Todos, Reads

LEMMA PartsAre ==
  /\ Parts[1] = "join" /\ Parts[2] = "take" /\ Parts[3] = "on" /\ Parts[4] = "off" /\ Parts[5] = "deleted"
  /\ Len(Parts) = 5
BY DEF Parts

\* What is left, with one thing done or the phase stopped.
LEMMA TodoWithout ==
  ASSUME NEW t \in Todos, NEW i
  PROVE  /\ [t EXCEPT !.join = @ \ {i}] \in Todos
         /\ [t EXCEPT !.take = @ \ {i}] \in Todos
         /\ [t EXCEPT !.on = @ \ {i}] \in Todos
         /\ [t EXCEPT !.off = @ \ {i}] \in Todos
         /\ [t EXCEPT !.deleted = @ \ {i}] \in Todos
         /\ [t EXCEPT !.star = @ \ {i}] \in Todos
         /\ [t EXCEPT !.on = {}, !.off = {}, !.deleted = {}] \in Todos
BY DEF Todos

\* A sync with another list of what is left.
WithTodo(s, t) == [s EXCEPT !.todo = t]
\* Only what is left changes.
LEMMA WithTodoIs ==
  ASSUME NEW s \in Syncs, NEW t \in Todos
  PROVE  /\ WithTodo(s, t) \in Syncs /\ WithTodo(s, t).todo = t /\ Same(WithTodo(s, t), s)
         /\ WithTodo(s, t).m = s.m /\ WithTodo(s, t).plan = s.plan /\ WithTodo(s, t).offline = s.offline
         /\ WithTodo(s, t).since = s.since /\ WithTodo(s, t).failures = s.failures
         /\ WithTodo(s, t).blocked = s.blocked
BY DEF WithTodo, Syncs, Same

LEMMA DoneIs ==
  ASSUME NEW s \in Syncs, NEW i
  PROVE  /\ Done(s, 1, i) = WithTodo(s, [s.todo EXCEPT !.join = @ \ {i}])
         /\ Done(s, 2, i) = WithTodo(s, [s.todo EXCEPT !.take = @ \ {i}])
         /\ Done(s, 3, i) = WithTodo(s, [s.todo EXCEPT !.on = @ \ {i}])
         /\ Done(s, 4, i) = WithTodo(s, [s.todo EXCEPT !.off = @ \ {i}])
         /\ Done(s, 5, i) = WithTodo(s, [s.todo EXCEPT !.deleted = @ \ {i}])
BY PartsAre DEF Done, WithTodo

\* To have dealt with a profile, or to have failed, is a step of the walk.
LEMMA DoneWalks ==
  ASSUME IInv, Working, NEW i, NEW k \in {3, 4, 5}
  PROVE  LET s == Done(sync, k, i) IN
         /\ Walks(s) /\ Same(s, sync) /\ s.failures = sync.failures /\ s.todo.join = sync.todo.join
         /\ k = 3 => i \notin s.todo.on
         /\ k = 4 => i \notin s.todo.off
         /\ k = 5 => i \notin s.todo.deleted
<1> DEFINE s == Done(sync, k, i)
<1>1. sync \in Syncs /\ sync.todo \in Todos /\ TodoOK
  BY SyncTyped DEF IInv, WellFormed, SyncOK
<1>2. PICK t \in Todos :
        /\ s = WithTodo(sync, t)
        /\ t.join = sync.todo.join /\ t.take = sync.todo.take /\ t.star = sync.todo.star
        /\ t.on \subseteq sync.todo.on /\ t.off \subseteq sync.todo.off /\ t.deleted \subseteq sync.todo.deleted
        /\ k = 3 => i \notin t.on
        /\ k = 4 => i \notin t.off
        /\ k = 5 => i \notin t.deleted
  <2>1. CASE k = 3
    <3> DEFINE t == [sync.todo EXCEPT !.on = @ \ {i}]
    <3>1. /\ t.join = sync.todo.join /\ t.take = sync.todo.take /\ t.star = sync.todo.star
          /\ t.on = sync.todo.on \ {i} /\ t.off = sync.todo.off /\ t.deleted = sync.todo.deleted
      BY <1>1 DEF Todos
    <3>2. t \in Todos /\ s = WithTodo(sync, t)
      BY <1>1, <2>1, TodoWithout, DoneIs
    <3> HIDE DEF t, s
    <3> QED BY <2>1, <3>1, <3>2
  <2>2. CASE k = 4
    <3> DEFINE t == [sync.todo EXCEPT !.off = @ \ {i}]
    <3>1. /\ t.join = sync.todo.join /\ t.take = sync.todo.take /\ t.star = sync.todo.star
          /\ t.off = sync.todo.off \ {i} /\ t.on = sync.todo.on /\ t.deleted = sync.todo.deleted
      BY <1>1 DEF Todos
    <3>2. t \in Todos /\ s = WithTodo(sync, t)
      BY <1>1, <2>2, TodoWithout, DoneIs
    <3> HIDE DEF t, s
    <3> QED BY <2>2, <3>1, <3>2
  <2>3. CASE k = 5
    <3> DEFINE t == [sync.todo EXCEPT !.deleted = @ \ {i}]
    <3>1. /\ t.join = sync.todo.join /\ t.take = sync.todo.take /\ t.star = sync.todo.star
          /\ t.deleted = sync.todo.deleted \ {i} /\ t.on = sync.todo.on /\ t.off = sync.todo.off
      BY <1>1 DEF Todos
    <3>2. t \in Todos /\ s = WithTodo(sync, t)
      BY <1>1, <2>3, TodoWithout, DoneIs
    <3> HIDE DEF t, s
    <3> QED BY <2>3, <3>1, <3>2
  <2> QED BY <2>1, <2>2, <2>3
<1> HIDE DEF s
<1>3. s \in Syncs /\ s.todo = t /\ Same(s, sync) /\ s.m = sync.m /\ s.plan = sync.plan
      /\ s.offline = sync.offline /\ s.since = sync.since /\ s.failures = sync.failures
  BY <1>1, <1>2, WithTodoIs
<1>4. t.take \cup t.on \cup t.off \cup t.deleted # {} => s.failures < MaxFailures
  BY <1>1, <1>2, <1>3 DEF TodoOK
<1>5. Walks(s)
  BY <1>2, <1>3, <1>4 DEF Walks
<1> QED BY <1>2, <1>3, <1>5 DEF s

LEMMA FailedWalks ==
  ASSUME NEW s, Walks(s), s.todo.take = {}, s.failures < MaxFailures
  PROVE  /\ Walks(Failed(s)) /\ Same(Failed(s), s) /\ Failed(s).blocked = s.blocked
         /\ Failed(s).todo.join = s.todo.join
         /\ Failed(s).todo.on \subseteq s.todo.on /\ Failed(s).todo.off \subseteq s.todo.off
         /\ Failed(s).todo.deleted \subseteq s.todo.deleted
<1> DEFINE u == [s EXCEPT !.failures = @ + 1]
           t == [s.todo EXCEPT !.on = {}, !.off = {}, !.deleted = {}]
<1>1. s \in Syncs /\ s.failures \in 0 .. MaxFailures /\ MaxFailures \in Nat /\ s.todo \in Todos
  BY SyncTyped, SyncAssumption DEF Walks
<1>2. u \in Syncs /\ u.failures = s.failures + 1 /\ u.todo = s.todo /\ Same(u, s) /\ u.m = s.m
      /\ u.plan = s.plan /\ u.offline = s.offline /\ u.since = s.since /\ u.blocked = s.blocked
  <2>1. s.failures + 1 \in 0 .. MaxFailures
    BY <1>1
  <2> QED BY <1>1, <2>1 DEF Syncs, Same
<1>3. Failed(s) = Stopped(u)
  BY DEF Failed
<1>4. Stopped(u) = IF u.failures < MaxFailures THEN u ELSE WithTodo(u, t)
  BY <1>1, <1>2 DEF Stopped, WithTodo
<1>5. t \in Todos /\ t.join = s.todo.join /\ t.take = s.todo.take /\ t.star = s.todo.star
      /\ t.on = {} /\ t.off = {} /\ t.deleted = {}
  BY <1>1 DEF Todos
<1> HIDE DEF u, t
<1>6. CASE u.failures < MaxFailures
  BY <1>2, <1>3, <1>4, <1>6 DEF Walks, Same
<1>7. CASE ~(u.failures < MaxFailures)
  <2> DEFINE w == WithTodo(u, t)
  <2>1. /\ w \in Syncs /\ w.todo = t /\ Same(w, u) /\ w.m = u.m /\ w.plan = u.plan
        /\ w.offline = u.offline /\ w.since = u.since /\ w.blocked = u.blocked
    BY <1>2, <1>5, WithTodoIs
  <2>2. Failed(s) = w
    BY <1>3, <1>4, <1>7
  <2> HIDE DEF w
  <2> QED BY <1>2, <1>5, <2>1, <2>2 DEF Walks, Same
<1> QED BY <1>6, <1>7

\* A plan of a row that gets better may still be relied on.
LEMMA PlanKept ==
  ASSUME NEW r \in Rows, PlanOK(r), Better(rows[r], rows'[r]),
         sync'.plan[r] = sync.plan[r], sync'.m = sync.m
  PROVE  PlanOK(r)'
<1>1. /\ rows[r].state # "free" => rows'[r].state # "free"
      /\ Asked(rows[r]) \subseteq Asked(rows'[r]) /\ Had(rows[r]) \subseteq Had(rows'[r])
      /\ rows[r].chosen \subseteq rows'[r].chosen
  BY DEF Better, Asked
<1> DEFINE p == sync.plan[r]
           docs == sync.m.docs
<1>2. Fits(p, r, docs)
  BY DEF PlanOK
<1> HIDE DEF p, docs
<1>3. /\ p.what # "none" => rows'[r].state # "free" /\ p.target.brew \in Asked(rows'[r])
      /\ p.what # "none" /\ p.edited /\ p.what # "conflict" /\ ~p.was.deleted => docs[p.was.file].brew \in rows'[r].chosen
      /\ p.what # "none" /\ p.takes # <<>> => docs[p.was.file].brew \in Had(rows'[r])
      /\ p.what = "remove" => /\ docs[p.was.file].brew \in rows'[r].chosen
                              /\ p.edited \/ docs[p.was.file].brew \in Had(rows'[r])
  BY <1>1, <1>2 DEF Fits
<1>4. sync'.plan[r] = p /\ sync'.m.docs = docs
  BY DEF p, docs
<1> QED BY <1>2, <1>3, <1>4 DEF PlanOK, Fits

\* What the profile dealt with on the machine is in.
Dealing ==
  LET t == sync.todo
      p == sync.plan
  IN /\ t.join \cup t.take # {} => sync.pc = "work"
     /\ sync.pc = "remove" => sync.failures < MaxFailures
     /\ sync.pc \in {"settle", "remove", "drop"} =>
          /\ sync.row \in Rows \ (t.take \cup t.on \cup t.off \cup t.deleted)
          /\ p[sync.row].what = (IF sync.pc = "settle" THEN "push" ELSE "remove")
     /\ sync.pc \in {"settle", "remove"} => sync.file \in Files
     /\ sync.pc = "remove" =>
          sync.m.docs[sync.file].brew \in Had(rows[sync.row]) /\ sync.file = p[sync.row].was.file
     /\ sync.offline => sync.pc = "work"

\* A step that stays within the bounds.
Calm == /\ spent' \in Bounds /\ scene' = scene /\ quiet' \in 0 .. Quiet
        /\ spent.people <= spent'.people /\ spent.touches <= spent'.touches

\* A step of the walk keeps the sync well formed.
LEMMA WalkKeepsSync ==
  ASSUME IInv, Working, Evolves, Walks(sync'), Working', Dealing', Calm,
         resumePending => resumePending'
  PROVE  SyncOK'
<1>1. /\ sync \in Syncs /\ sync.plan \in [Rows -> Plans] /\ TodoOK /\ AttachedOK
      /\ \A r \in Rows : PlanOK(r)
      /\ sync.since.people <= spent.people /\ sync.since.touches <= spent.touches
      /\ spent \in Bounds /\ scene \in Scenes
  BY DEF IInv, WellFormed, SyncOK, Working, TypeOK, Bounds
<1>2. /\ sync' \in Syncs /\ sync'.names = sync.names /\ sync'.attached = sync.attached
      /\ sync'.m = sync.m /\ sync'.plan = sync.plan /\ sync'.offline = sync.offline /\ sync'.since = sync.since
  BY SyncTyped DEF Walks
<1>3. (sync \in Syncs)'
  BY <1>2 DEF Syncs
<1>4. \A r \in Rows : PlanOK(r)'
  BY <1>1, <1>2, PlanKept DEF Evolves
<1>5. AttachedOK'
  <2> SUFFICES ASSUME NEW f \in sync'.todo.join
               PROVE  /\ sync'.m.docs[f] # NoDoc
                      /\ sync'.attached[f] \in Rows \cup {NoRow}
                      /\ sync'.attached[f] = NoRow => sync'.names[f] \in Names
                      /\ sync'.attached[f] # NoRow =>
                           /\ sync'.plan[sync'.attached[f]].what = "attached"
                           /\ sync'.m.docs[f].brew \in Asked(rows'[sync'.attached[f]])
                           /\ resumePending'
    BY DEF AttachedOK, Asked, Had
  <2>1. f \in sync.todo.join
    BY DEF Walks
  <2>2. \A r \in Rows : Asked(rows[r]) \subseteq Asked(rows'[r])
    BY DEF Evolves, Better, Asked
  <2> QED BY <1>1, <1>2, <2>1, <2>2 DEF AttachedOK
<1>6. TodoOK'
  <2>1. /\ sync'.todo.on \cap sync'.todo.off = {}
        /\ \A r \in sync'.todo.take \cup sync'.todo.on \cup sync'.todo.off :
             sync'.plan[r].what \notin {"none", "attached"} /\ ~sync'.plan[r].was.deleted
        /\ \A r \in sync'.todo.take : sync'.plan[r].takes # <<>>
        /\ \A r \in sync'.todo.deleted :
             /\ sync'.plan[r].was.deleted
             /\ \/ sync'.plan[r].what \in {"release", "remove"}
                \/ sync'.plan[r].what = "leave" /\ sync'.plan[r].edited
        /\ sync'.offline => sync'.todo.join \cup sync'.todo.on \cup sync'.todo.off \cup sync'.todo.deleted = {}
    BY <1>1, <1>2 DEF TodoOK, Walks
  <2>2. sync'.todo.take \cup sync'.todo.on \cup sync'.todo.off \cup sync'.todo.deleted # {} \/ sync'.pc = "remove"
          => sync'.failures < MaxFailures
    BY DEF Walks, Dealing
  <2> QED BY <2>1, <2>2 DEF TodoOK, Dealing
<1>7. sync'.since.people <= spent'.people /\ sync'.since.touches <= spent'.touches
  <2>1. sync.since \in Counts
    BY <1>1, SyncTyped
  <2>2. spent.people \in Nat /\ spent.touches \in Nat /\ spent'.people \in Nat /\ spent'.touches \in Nat
    BY <1>1, SyncAssumption DEF Calm, Bounds
  <2> QED BY <1>1, <1>2, <2>1, <2>2 DEF Calm, Counts
<1> QED BY <1>1, <1>2, <1>3, <1>4, <1>5, <1>6, <1>7 DEF SyncOK, Working

\* The list, and the machine with what was seen of it.
OfTheList ==
  /\ unsafe \subseteq Brews
  /\ {resumePending, adopted, paused, writes} \subseteq BOOLEAN
  /\ {files, mirror} \subseteq MaybeDocs
  /\ starred \subseteq Files /\ selected \in Files \cup {NoFile}

\* Well formed again, from its parts.
LEMMA TypesFrom ==
  ASSUME scene \in Scenes, Evolves, OfTheList', Calm, SyncOK'
  PROVE  WellFormed'
<1>1. RowsTyped'
  BY EvolvesTyped
<1>2. spent' \in Bounds' /\ scene' \in Scenes
  BY DEF Calm, Bounds
<1>3. (sync \in Syncs)'
  BY DEF SyncOK
<1>4. /\ sync'.pc \in {"idle", "mirrored", "work", "settle", "remove", "drop", "stars"}
      /\ sync'.m.docs \in MaybeDocs
      /\ sync'.failures \in 0 .. MaxFailures
      /\ sync'.row \in Rows \cup {NoRow} /\ sync'.file \in Files \cup {NoFile}
      /\ sync'.held \in [Rows -> Files \cup {NoFile}]
  BY <1>3 DEF Syncs, Reads
<1>5. TypeOK'
  BY <1>1, <1>2, <1>4 DEF TypeOK, OfTheList, RowsTyped, Calm, Bounds
<1> QED BY <1>1, <1>2, <1>5 DEF WellFormed, RowsTyped

\* What well formed means of each part.
LEMMA NowTyped ==
  ASSUME IInv
  PROVE  /\ scene \in Scenes /\ RowsTyped /\ OfTheList /\ sync \in Syncs /\ SyncOK
         /\ spent \in Bounds /\ quiet \in 0 .. Quiet
         /\ spent.people \in Nat /\ spent.touches \in Nat /\ spent.faults \in Nat
BY SyncAssumption DEF IInv, WellFormed, TypeOK, RowsTyped, OfTheList, SyncOK, Bounds

\* A step without a failure, and one with.
LEMMA SoundIsCalm ==
  ASSUME IInv, Sound
  PROVE  Calm /\ spent' = spent
BY NowTyped DEF Calm, Sound

LEMMA FaultyIsCalm ==
  ASSUME IInv, Faulty
  PROVE  Calm /\ spent'.people = spent.people /\ spent'.touches = spent.touches
BY NowTyped, SyncAssumption DEF Calm, Faulty, Bounds

-----------------------------------------------------------------------------
(* A save.                                                                  *)

\* What the archive records for a row, the row stays on its file.
LEMMA RecordAnew ==
  ASSUME NEW row \in Profiles, NEW doc \in Docs \cup {NoDoc}
  PROVE  [row EXCEPT !.recorded = doc] = OnFile(row, row.file, doc)
BY DEF Profiles, OnFile

\* What is recorded for a profile before anything else is done.
LEMMA RecordedBetter ==
  ASSUME IInv, Working, NEW r \in Rows, sync.plan[r].what \notin {"none", "conflict"},
         ~sync.plan[r].was.deleted \/ sync.plan[r].what = "remove"
  PROVE  LET row == Recorded(r)
             p == sync.plan[r]
             seen == sync.m.docs[p.was.file]
         IN /\ Better(rows[r], row) /\ row.state = rows[r].state /\ row.pinOf = rows[r].pinOf
            /\ row.file = rows[r].file /\ row.chosen = rows[r].chosen
            /\ row.recorded = IF p.edited THEN seen ELSE rows[r].recorded
            /\ p.edited => seen.brew \in Had(row)
<1> DEFINE p == sync.plan[r]
           seen == sync.m.docs[p.was.file]
<1>1. /\ Fits(p, r, sync.m.docs) /\ rows[r] \in Profiles /\ RowOK(rows[r]) /\ p.what # "none"
      /\ p.what # "conflict" /\ (~p.was.deleted \/ p.what = "remove")
  BY NowTyped, RowTyped DEF SyncOK, PlanOK
<1>2. rows[r].state # "free"
  BY <1>1 DEF Fits
<1>3. CASE ~p.edited
  <2>1. Recorded(r) = rows[r]
    BY <1>3 DEF Recorded
  <2> HIDE DEF p, seen
  <2> QED BY <2>1, <1>1, <1>3, SameIsBetter DEF p, seen
<1>4. CASE p.edited
  <2>1. seen \in Docs /\ seen # NoDoc /\ seen.brew \in rows[r].chosen
    <3>1. sync.m.docs \in MaybeDocs
      BY NowTyped, SyncTyped
    <3> QED BY <1>1, <1>4, <3>1 DEF Fits, MaybeDocs
  <2> DEFINE kept == Keep(rows[r], seen.brew)
  <2>2. /\ Better(rows[r], kept) /\ Had(kept) = Had(rows[r]) \cup {seen.brew}
        /\ kept = [rows[r] EXCEPT !.found = kept.found]
    BY <1>1, <1>2, <2>1, KeepBetter DEF Docs
  <2>3. /\ kept.state = rows[r].state /\ kept.pinOf = rows[r].pinOf /\ kept.file = rows[r].file
        /\ kept.chosen = rows[r].chosen /\ kept.on = rows[r].on
    BY <1>1, <2>2 DEF Profiles
  <2>4. kept \in Profiles /\ RowOK(kept) /\ kept.state # "free"
    BY <1>2, <2>2, <2>3 DEF Better
  <2>5. Recorded(r) = [kept EXCEPT !.recorded = seen]
    BY <1>4 DEF Recorded
  <2> HIDE DEF kept, seen, p
  <2>6. Recorded(r) = OnFile(kept, kept.file, seen)
    BY <2>4, <2>5, <2>1, RecordAnew
  <2>7. seen.brew \in Asked(kept)
    BY <2>1, <2>2, <2>3 DEF Asked
  <2>8. kept.file \in Files \cup {NoFile}
    BY <2>4 DEF Profiles
  <2> DEFINE row == OnFile(kept, kept.file, seen)
  <2>9. /\ Better(kept, row) /\ row.file = kept.file /\ row.recorded = seen /\ row.pinOf = kept.pinOf
        /\ row.state = kept.state /\ Had(row) = Had(kept) /\ row.chosen = kept.chosen
    BY <2>1, <2>4, <2>7, <2>8, FileBetter
  <2> HIDE DEF row
  <2>10. Better(rows[r], row)
    BY <2>2, <2>9, BetterStill
  <2>11. Recorded(r) = row
    BY <2>6 DEF row
  <2>12. seen.brew \in Had(row)
    BY <2>2, <2>9
  <2> QED BY <1>4, <2>2, <2>3, <2>9, <2>10, <2>11, <2>12 DEF p, seen
<1> QED BY <1>3, <1>4

\* A save that landed on a file, a write that was tried.
Wrote(s) == [s EXCEPT !.wrote = TRUE]
\* A save that was tried, or that landed, is a step of the walk.
LEMMA WroteWalks ==
  ASSUME NEW s, Walks(s)
  PROVE  /\ Walks(Wrote(s)) /\ Same(Wrote(s), s) /\ Wrote(s).todo = s.todo
         /\ Wrote(s).failures = s.failures /\ Wrote(s).blocked = s.blocked
<1> DEFINE w == Wrote(s)
<1>1. /\ w \in Syncs /\ Same(w, s) /\ w.todo = s.todo /\ w.failures = s.failures /\ w.blocked = s.blocked
      /\ w.m = s.m /\ w.plan = s.plan /\ w.offline = s.offline /\ w.since = s.since
  BY DEF Walks, Wrote, Syncs, Same
<1> HIDE DEF w
<1> QED BY <1>1 DEF Walks, w

LEMMA LandedWalks ==
  ASSUME NEW s, Walks(s), NEW r \in Rows, NEW f \in Files
  PROVE  LET l == Landed(s, r, f)
         IN /\ Walks(l) /\ l.pc = "settle" /\ l.row = r /\ l.file = f /\ l.held = s.held /\ l.fresh = s.fresh
            /\ l.todo = s.todo
<1> DEFINE l == Landed(s, r, f)
<1>1. /\ l \in Syncs /\ l.pc = "settle" /\ l.row = r /\ l.file = f /\ l.held = s.held /\ l.fresh = s.fresh
      /\ l.todo = s.todo /\ l.failures = s.failures
      /\ l.m = s.m /\ l.plan = s.plan /\ l.offline = s.offline /\ l.since = s.since
  BY DEF Walks, Landed, Syncs
<1> HIDE DEF l
<1> QED BY <1>1 DEF Walks, l

\* One row is dealt with.
Deals(r, new) ==
  /\ rows' = [rows EXCEPT ![r] = new]
  /\ Better(rows[r], new) /\ new.pinOf = rows[r].pinOf /\ new.state = rows[r].state

\* A save over the profile's own file: what it takes off is kept and a person's, and so is the name.
SavesOver(r, new) ==
  LET f == rows[r].file
  IN /\ f \in Files /\ files[f] # NoDoc /\ new.file = f
     /\ starred' = starred /\ selected' = selected
     /\ files[f].brew \in Had(new) /\ files[f].brew \in rows[r].chosen
     /\ \E d \in Docs : /\ files' = [files EXCEPT ![f] = d]
                        /\ d.name # files[f].name => NameOfTheApp(f, r)
     /\ sync'.pc = "settle" => sync'.file = f

\* A save to an id nothing remembers.
SavesNew(r, new) ==
  /\ rows[r].file = NoFile \/ sync.m.docs[rows[r].file] = NoDoc
  /\ \E f \in FreshIds :
       /\ starred' = starred \cup {f} /\ selected' = selected
       /\ \E d \in Docs : files' = [files EXCEPT ![f] = d]
       /\ new.file \in {rows[r].file, f}
       /\ sync'.pc = "settle" => sync'.file = f /\ new.file = rows[r].file

\* What dealing with a profile that is on comes to.
AppliesRow(r, new) ==
  /\ r \in sync.todo.on /\ Deals(r, new) /\ sync.plan[r].what # "none"
  /\ \/ sync' = Idle /\ new.file = rows[r].file /\ UNCHANGED machineVars
     \/ /\ Walks(sync') /\ r \notin sync'.todo.on /\ sync'.held = sync.held /\ sync'.fresh = sync.fresh
        /\ sync'.todo.join = {} /\ sync'.todo.take = {} /\ sync'.pc \in {"work", "settle"}
        /\ sync'.pc = "settle" => sync'.row = r
        /\ \/ /\ sync'.pc = "work" /\ UNCHANGED machineVars
              /\ new.file = rows[r].file \/ (sync.plan[r].what = "held" /\ new.file = sync.plan[r].was.file)
           \/ sync.plan[r].what = "push" /\ SavesOver(r, new)
           \/ sync.plan[r].what = "push" /\ SavesNew(r, new)
  /\ sync.pc = "work" /\ sync.todo.join = {} /\ sync.todo.take = {} /\ ~sync.offline
  /\ Calm /\ spent'.people = spent.people /\ spent'.touches = spent.touches
  /\ UNCHANGED <<unsafe, resumePending, adopted, paused, mirror, writes>>

\* What SaveOver comes to.
LEMMA SaveOverDoes ==
  ASSUME IInv, Working, NEW r \in sync.todo.on, sync.plan[r].what = "push",
         NEW done, done = Done(sync, 3, r), sync.todo.take = {}, sync.pc = "work",
         rows[r].file # NoFile, SaveOver(r, rows[r].file, done)
  PROVE  \E new :
           /\ Deals(r, new)
           /\ Calm /\ spent'.people = spent.people /\ spent'.touches = spent.touches
           /\ Walks(sync') /\ sync'.todo.on \subseteq done.todo.on /\ sync'.todo.join = sync.todo.join
           /\ sync'.held = sync.held /\ sync'.fresh = sync.fresh /\ sync'.pc \in {"work", "settle"}
           /\ sync'.pc = "settle" => sync'.row = r
           /\ \/ sync'.pc = "work" /\ UNCHANGED machineVars /\ new.file = rows[r].file
              \/ SavesOver(r, new)
<1> DEFINE row == Recorded(r)
           p == sync.plan[r]
           sent == p.target
           f == rows[r].file
           seen == sync.m.docs[p.was.file]
<1>1. /\ TodoOK /\ r \in Rows /\ sync \in Syncs /\ p \in Plans /\ Fits(p, r, sync.m.docs)
      /\ p.what \notin {"none", "conflict"} /\ ~p.was.deleted /\ sync.failures < MaxFailures
  <2>1. TodoOK /\ sync \in Syncs /\ sync.plan \in [Rows -> Plans] /\ \A x \in Rows : PlanOK(x)
    BY NowTyped DEF SyncOK
  <2>2. r \in Rows
    BY <2>1, SyncTyped
  <2> QED BY <2>1, <2>2 DEF TodoOK, PlanOK
<1>2. /\ Better(rows[r], row) /\ row.state = rows[r].state /\ row.pinOf = rows[r].pinOf
      /\ row.file = f /\ row.chosen = rows[r].chosen
      /\ row.recorded = IF p.edited THEN seen ELSE rows[r].recorded
  BY <1>1, RecordedBetter
<1>3. sent \in Docs
  BY <1>1 DEF Plans, RowPlans, NoPlan
<1>4. f \in Files
  BY <1>1, NowTyped, RowTyped DEF Profiles
<1>5. row \in Profiles /\ RowOK(row) /\ row.state # "free" /\ rows[r].state # "free"
  BY <1>1, <1>2 DEF Better, Fits
<1>6. /\ Walks(done) /\ Same(done, sync) /\ done.failures < MaxFailures /\ done.todo.join = sync.todo.join
      /\ done.todo.take = {}
  <2>1. Walks(done) /\ Same(done, sync) /\ done.failures = sync.failures /\ done.todo.join = sync.todo.join
    BY DoneWalks
  <2> QED BY <1>1, <2>1 DEF Walks
<1> DEFINE Off(s) == /\ Walks(s) /\ Same(s, sync) /\ s.todo.on \subseteq done.todo.on /\ s.todo.join = sync.todo.join
<1>7. Off(done)
  BY <1>6
<1>8. Off(Failed(done))
  BY <1>6, FailedWalks DEF Same
<1>9. Off(Failed(Wrote(done)))
  <2>1. /\ Walks(Wrote(done)) /\ Same(Wrote(done), done) /\ Wrote(done).todo = done.todo
        /\ Wrote(done).failures = done.failures
    BY <1>6, WroteWalks
  <2>2. Walks(Wrote(done)) /\ Wrote(done).todo.take = {} /\ Wrote(done).failures < MaxFailures
    BY <1>6, <2>1
  <2>3. /\ Walks(Failed(Wrote(done))) /\ Same(Failed(Wrote(done)), Wrote(done))
        /\ Failed(Wrote(done)).todo.join = Wrote(done).todo.join
        /\ Failed(Wrote(done)).todo.on \subseteq Wrote(done).todo.on
    BY <2>2, FailedWalks
  <2> QED BY <1>6, <2>1, <2>3 DEF Same
<1>10. Walks(Landed(done, r, f)) /\ Landed(done, r, f).pc = "settle" /\ Landed(done, r, f).row = r
       /\ Landed(done, r, f).file = f /\ Landed(done, r, f).held = sync.held
       /\ Landed(done, r, f).fresh = sync.fresh /\ Landed(done, r, f).todo = done.todo
  BY <1>1, <1>4, <1>6, LandedWalks DEF Same
<1>11. \A s : Off(s) => s.pc = "work" /\ s.held = sync.held /\ s.fresh = sync.fresh
  BY DEF Same
<1>12. Sound => Calm /\ spent' = spent
  BY SoundIsCalm
<1>13. Faulty => Calm /\ spent'.people = spent.people /\ spent'.touches = spent.touches
  BY FaultyIsCalm
<1>14. ASSUME row.recorded # NoDoc, files[f] = row.recorded,
              NEW d \in {row.recorded} \cup [brew : Brews, name : {sent.name}]
       PROVE  /\ files[f] # NoDoc /\ d \in Docs
              /\ files[f].brew \in Had(row) /\ files[f].brew \in rows[r].chosen
              /\ d.name # files[f].name => NameOfTheApp(f, r)
  <2>1. row.recorded \in Docs
    BY <1>5, <1>14 DEF Profiles
  <2>2. d \in Docs /\ d.name \in {row.recorded.name, sent.name}
    BY <1>3, <2>1 DEF Docs
  <2>3. row.recorded.brew \in Asked(row)
    BY <1>5, <1>14 DEF RowOK
  <2>4. ASSUME sent.name # row.recorded.name PROVE NameOfTheApp(f, r)
    <3>1. CASE p.edited
      <4>1. row.recorded = seen /\ NameOf(p.was, seen)
        BY <1>1, <1>2, <2>4, <3>1 DEF Fits
      <4> QED BY <1>1, <1>14, <4>1 DEF NameOfTheApp
    <3>2. CASE ~p.edited
      <4>1. row.recorded = rows[r].recorded
        BY <1>2, <3>2
      <4>2. NameOf(rows[r], files[f])
        BY <1>14, <4>1 DEF NameOf
      <4> QED BY <4>2 DEF NameOfTheApp
    <3> QED BY <3>1, <3>2
  <2> QED BY <1>2, <1>14, <2>2, <2>3, <2>4 DEF Asked
<1>15. sent \in [brew : Brews, name : {sent.name}]
  BY <1>3 DEF Docs
<1>16. Deals(r, row) <=> rows' = [rows EXCEPT ![r] = row]
  BY <1>2 DEF Deals
<1> DEFINE Does(new) ==
           /\ Deals(r, new)
           /\ Calm /\ spent'.people = spent.people /\ spent'.touches = spent.touches
           /\ Walks(sync') /\ sync'.todo.on \subseteq done.todo.on /\ sync'.todo.join = sync.todo.join
           /\ sync'.held = sync.held /\ sync'.fresh = sync.fresh /\ sync'.pc \in {"work", "settle"}
           /\ sync'.pc = "settle" => sync'.row = r
           /\ \/ sync'.pc = "work" /\ UNCHANGED machineVars /\ new.file = rows[r].file
              \/ SavesOver(r, new)
<1>a. \A s : Off(s) => Walks(s) /\ s.todo.on \subseteq done.todo.on /\ s.todo.join = sync.todo.join
  OBVIOUS
<1> HIDE DEF Off
<1>17. ASSUME NEW s, Off(s), rows' = [rows EXCEPT ![r] = row], sync' = s, UNCHANGED machineVars, Sound \/ Faulty
       PROVE Does(row)
  <2>1. Calm /\ spent'.people = spent.people /\ spent'.touches = spent.touches
    BY <1>12, <1>13, <1>17
  <2>2. Deals(r, row) /\ row.file = rows[r].file
    BY <1>2, <1>16, <1>17
  <2> HIDE DEF row
  <2> QED BY <1>a, <1>11, <1>17, <2>1, <2>2
<1>18. ASSUME NEW new, Better(rows[r], new), new.pinOf = row.pinOf, new.state = row.state, new.file = f, Had(new) = Had(row),
              rows' = [rows EXCEPT ![r] = new], Sound \/ Faulty,
              NEW d \in {row.recorded} \cup [brew : Brews, name : {sent.name}],
              row.recorded # NoDoc, files[f] = row.recorded,
              files' = [files EXCEPT ![f] = d], UNCHANGED <<starred, selected>>,
              Off(sync') \/ sync' = Landed(done, r, f)
       PROVE Does(new)
  <2>1. Calm /\ spent'.people = spent.people /\ spent'.touches = spent.touches
    BY <1>12, <1>13, <1>18
  <2>2. Deals(r, new)
    BY <1>2, <1>18 DEF Deals
  <2>3. /\ Walks(sync') /\ sync'.todo.on \subseteq done.todo.on /\ sync'.todo.join = sync.todo.join
        /\ sync'.held = sync.held /\ sync'.fresh = sync.fresh /\ sync'.pc \in {"work", "settle"}
        /\ sync'.pc = "settle" => sync'.row = r /\ sync'.file = f
    BY <1>a, <1>6, <1>10, <1>11, <1>18
  <2>4. /\ files[f] # NoDoc /\ d \in Docs
        /\ files[f].brew \in Had(row) /\ files[f].brew \in rows[r].chosen
        /\ d.name # files[f].name => NameOfTheApp(f, r)
    BY <1>14, <1>18
  <2>5. SavesOver(r, new)
    BY <1>4, <1>18, <2>3, <2>4 DEF SavesOver
  <2> QED BY <2>1, <2>2, <2>3, <2>5
<1>19. Better(rows[r], row) /\ row.pinOf = row.pinOf /\ row.file = f
  BY <1>2
<1> DEFINE bad == Unverified(row, sent.brew)
<1>20. /\ Better(rows[r], bad) /\ bad.pinOf = row.pinOf /\ bad.state = row.state /\ bad.file = f /\ Had(bad) = Had(row)
       /\ bad = [row EXCEPT !.failed = sent.brew]
  <2>1. sent.brew \in Brews
    BY <1>3 DEF Docs
  <2>2. /\ Better(row, bad) /\ bad.file = row.file /\ bad.pinOf = row.pinOf /\ bad.state = row.state /\ Had(bad) = Had(row)
    BY <1>5, <2>1, FailedBetter
  <2> QED BY <1>2, <2>2, BetterStill DEF Unverified
<1> SUFFICES \E new : Does(new)
  OBVIOUS
<1> HIDE DEF Does, bad
<1>21. CASE row.recorded = NoDoc /\ rows' = [rows EXCEPT ![r] = row] /\ sync' = done /\ UNCHANGED machineVars /\ Sound
  BY <1>7, <1>17, <1>21
<1>22. CASE rows' = [rows EXCEPT ![r] = row] /\ sync' \in {done, Failed(done)} /\ UNCHANGED machineVars /\ (Sound \/ Faulty)
  BY <1>7, <1>8, <1>17, <1>22
<1>23. CASE /\ row.recorded # NoDoc /\ files[f] = row.recorded /\ files' = [files EXCEPT ![f] = sent]
            /\ UNCHANGED <<starred, selected>>
            /\ rows' = [rows EXCEPT ![r] = row] /\ (Sound \/ Faulty)
            /\ sync' \in {Landed(done, r, f), Failed(done)}
  <2>1. Off(sync') \/ sync' = Landed(done, r, f)
    BY <1>8, <1>23
  <2> QED BY <1>15, <1>18, <1>19, <1>23, <2>1
<1>24. CASE /\ row.recorded # NoDoc /\ files[f] = row.recorded
            /\ \E d \in {row.recorded} \cup [brew : Brews, name : {sent.name}] : files' = [files EXCEPT ![f] = d]
            /\ UNCHANGED <<starred, selected>>
            /\ rows' = [rows EXCEPT ![r] = bad] /\ Faulty
            /\ sync' = Failed(Wrote(done))
  <2>1. Off(sync')
    BY <1>9, <1>24
  <2> QED BY <1>18, <1>20, <1>24, <2>1
<1>25. Wrote(done) = [done EXCEPT !.wrote = TRUE]
  BY DEF Wrote
<1>26. \/ row.recorded = NoDoc /\ rows' = [rows EXCEPT ![r] = row] /\ sync' = done /\ UNCHANGED machineVars /\ Sound
       \/ rows' = [rows EXCEPT ![r] = row] /\ sync' \in {done, Failed(done)} /\ UNCHANGED machineVars /\ (Sound \/ Faulty)
       \/ /\ row.recorded # NoDoc /\ files[f] = row.recorded /\ files' = [files EXCEPT ![f] = sent]
          /\ UNCHANGED <<starred, selected>>
          /\ rows' = [rows EXCEPT ![r] = row] /\ (Sound \/ Faulty)
          /\ sync' \in {Landed(done, r, f), Failed(done)}
       \/ /\ row.recorded # NoDoc /\ files[f] = row.recorded
          /\ \E d \in {row.recorded} \cup [brew : Brews, name : {sent.name}] : files' = [files EXCEPT ![f] = d]
          /\ UNCHANGED <<starred, selected>>
          /\ rows' = [rows EXCEPT ![r] = bad] /\ Faulty
          /\ sync' = Failed(Wrote(done))
  BY <1>20, <1>25 DEF SaveOver
<1> QED BY <1>21, <1>22, <1>23, <1>24, <1>26

\* What SaveNew comes to.
LEMMA SaveNewDoes ==
  ASSUME IInv, Working, NEW r \in sync.todo.on, sync.plan[r].what = "push",
         NEW done, done = Done(sync, 3, r), sync.todo.take = {}, sync.pc = "work",
         ~(rows[r].file # NoFile /\ sync.m.docs[rows[r].file] # NoDoc), SaveNew(r, done)
  PROVE  \E new :
           /\ Deals(r, new)
           /\ Calm /\ spent'.people = spent.people /\ spent'.touches = spent.touches
           /\ Walks(sync') /\ sync'.todo.on \subseteq done.todo.on /\ sync'.todo.join = sync.todo.join
           /\ sync'.held = sync.held /\ sync'.fresh = sync.fresh /\ sync'.pc \in {"work", "settle"}
           /\ sync'.pc = "settle" => sync'.row = r
           /\ \/ sync'.pc = "work" /\ UNCHANGED machineVars /\ new.file = rows[r].file
              \/ SavesNew(r, new)
<1> DEFINE row == Recorded(r)
           p == sync.plan[r]
           sent == p.target
<1>1. /\ TodoOK /\ r \in Rows /\ sync \in Syncs /\ p \in Plans /\ Fits(p, r, sync.m.docs)
      /\ p.what \notin {"none", "conflict"} /\ ~p.was.deleted /\ sync.failures < MaxFailures
  <2>1. TodoOK /\ sync \in Syncs /\ sync.plan \in [Rows -> Plans] /\ \A x \in Rows : PlanOK(x)
    BY NowTyped DEF SyncOK
  <2>2. r \in Rows
    BY <2>1, SyncTyped
  <2> QED BY <2>1, <2>2 DEF TodoOK, PlanOK
<1>2. /\ Better(rows[r], row) /\ row.state = rows[r].state /\ row.pinOf = rows[r].pinOf
      /\ row.file = rows[r].file /\ row.chosen = rows[r].chosen
  BY <1>1, RecordedBetter
<1>3. sent \in Docs /\ sent.brew \in Asked(rows[r])
  BY <1>1 DEF Plans, RowPlans, NoPlan, Fits
<1>5. row \in Profiles /\ RowOK(row) /\ row.state # "free" /\ rows[r].state # "free"
  BY <1>1, <1>2 DEF Better, Fits
<1>6. /\ Walks(done) /\ Same(done, sync) /\ done.failures < MaxFailures /\ done.todo.join = sync.todo.join
      /\ done.todo.take = {}
  <2>1. Walks(done) /\ Same(done, sync) /\ done.failures = sync.failures /\ done.todo.join = sync.todo.join
    BY DoneWalks
  <2> QED BY <1>1, <2>1 DEF Walks
<1> DEFINE Off(s) == /\ Walks(s) /\ Same(s, sync) /\ s.todo.on \subseteq done.todo.on /\ s.todo.join = sync.todo.join
<1>8. Off(Failed(done))
  BY <1>6, FailedWalks DEF Same
<1>9. Off(Failed(Wrote(done)))
  <2>1. /\ Walks(Wrote(done)) /\ Same(Wrote(done), done) /\ Wrote(done).todo = done.todo
        /\ Wrote(done).failures = done.failures
    BY <1>6, WroteWalks
  <2>2. Walks(Wrote(done)) /\ Wrote(done).todo.take = {} /\ Wrote(done).failures < MaxFailures
    BY <1>6, <2>1
  <2>3. /\ Walks(Failed(Wrote(done))) /\ Same(Failed(Wrote(done)), Wrote(done))
        /\ Failed(Wrote(done)).todo.join = Wrote(done).todo.join
        /\ Failed(Wrote(done)).todo.on \subseteq Wrote(done).todo.on
    BY <2>2, FailedWalks
  <2> QED BY <1>6, <2>1, <2>3 DEF Same
<1>10. ASSUME NEW f \in Files
       PROVE  /\ Walks(Landed(done, r, f)) /\ Landed(done, r, f).pc = "settle" /\ Landed(done, r, f).row = r
              /\ Landed(done, r, f).file = f /\ Landed(done, r, f).held = sync.held
              /\ Landed(done, r, f).fresh = sync.fresh /\ Landed(done, r, f).todo = done.todo
  BY <1>1, <1>6, LandedWalks DEF Same
<1>11. \A s : Off(s) => /\ s.pc = "work" /\ s.held = sync.held /\ s.fresh = sync.fresh
                        /\ Walks(s) /\ s.todo.on \subseteq done.todo.on /\ s.todo.join = sync.todo.join
  BY DEF Same
<1>12. Sound \/ Faulty => Calm /\ spent'.people = spent.people /\ spent'.touches = spent.touches
  BY SoundIsCalm, FaultyIsCalm
<1>16. sent \in [brew : Brews, name : {sent.name}] /\ [brew : Brews, name : {sent.name}] \subseteq Docs
  BY <1>3 DEF Docs
<1> DEFINE Does(new) ==
           /\ Deals(r, new)
           /\ Calm /\ spent'.people = spent.people /\ spent'.touches = spent.touches
           /\ Walks(sync') /\ sync'.todo.on \subseteq done.todo.on /\ sync'.todo.join = sync.todo.join
           /\ sync'.held = sync.held /\ sync'.fresh = sync.fresh /\ sync'.pc \in {"work", "settle"}
           /\ sync'.pc = "settle" => sync'.row = r
           /\ \/ sync'.pc = "work" /\ UNCHANGED machineVars /\ new.file = rows[r].file
              \/ SavesNew(r, new)
<1> HIDE DEF Off
<1>17. ASSUME NEW new, Better(rows[r], new), new.pinOf = row.pinOf, new.state = row.state, new.file = rows[r].file,
              rows' = [rows EXCEPT ![r] = new], Off(sync'), UNCHANGED machineVars, Sound \/ Faulty
       PROVE  Does(new)
  <2>1. Deals(r, new)
    BY <1>2, <1>17 DEF Deals
  <2> HIDE DEF row
  <2> QED BY <1>11, <1>12, <1>17, <2>1
<1>18. ASSUME NEW f \in FreshIds, NEW new, Better(rows[r], new), new.pinOf = row.pinOf, new.state = row.state,
              new.file \in {rows[r].file, f}, new.file = rows[r].file \/ Off(sync'),
              rows' = [rows EXCEPT ![r] = new], Sound \/ Faulty,
              NEW d \in [brew : Brews, name : {sent.name}],
              files' = [files EXCEPT ![f] = d], starred' = starred \cup {f}, selected' = selected,
              Off(sync') \/ sync' = Landed(done, r, f)
       PROVE Does(new)
  <2>2. Deals(r, new)
    BY <1>2, <1>18 DEF Deals
  <2>3. f \in Files
    BY DEF FreshIds
  <2>4. /\ Walks(sync') /\ sync'.todo.on \subseteq done.todo.on /\ sync'.todo.join = sync.todo.join
        /\ sync'.held = sync.held /\ sync'.fresh = sync.fresh /\ sync'.pc \in {"work", "settle"}
        /\ sync'.pc = "settle" => sync'.row = r /\ sync'.file = f /\ new.file = rows[r].file
    BY <1>6, <1>10, <1>11, <1>18, <2>3
  <2>5. d \in Docs
    BY <1>16
  <2>6. rows[r].file = NoFile \/ sync.m.docs[rows[r].file] = NoDoc
    OBVIOUS
  <2>7. SavesNew(r, new)
    BY <1>18, <2>4, <2>5, <2>6 DEF SavesNew
  <2> QED BY <1>12, <1>18, <2>2, <2>4, <2>7
<1>19. Better(rows[r], row) /\ row.pinOf = row.pinOf /\ row.file = rows[r].file
  BY <1>2
<1> DEFINE bad == Unverified(row, sent.brew)
           stuck(f) == OnFile(bad, f, sent)
<1>20. /\ Better(rows[r], bad) /\ bad.pinOf = row.pinOf /\ bad.state = row.state /\ bad.file = rows[r].file
       /\ bad = [row EXCEPT !.failed = sent.brew] /\ Had(bad) = Had(row) /\ bad.chosen = row.chosen
  <2>1. sent.brew \in Brews
    BY <1>3 DEF Docs
  <2>2. /\ Better(row, bad) /\ bad.file = row.file /\ bad.pinOf = row.pinOf /\ bad.state = row.state
        /\ Had(bad) = Had(row) /\ bad.chosen = row.chosen
    BY <1>5, <2>1, FailedBetter
  <2> QED BY <1>2, <2>2, BetterStill DEF Unverified
<1>21. ASSUME NEW f \in Files
       PROVE  /\ Better(rows[r], stuck(f)) /\ stuck(f).pinOf = row.pinOf /\ stuck(f).state = row.state
              /\ stuck(f).file = f
              /\ stuck(f) = [row EXCEPT !.failed = sent.brew, !.file = f, !.recorded = sent]
  <2>1. bad \in Profiles /\ RowOK(bad) /\ bad.state # "free"
    BY <1>5, <1>20 DEF Better
  <2>2. sent.brew \in Asked(bad)
    BY <1>2, <1>3, <1>20 DEF Better, Asked
  <2> HIDE DEF bad, sent
  <2>3. /\ Better(bad, stuck(f)) /\ stuck(f).file = f /\ stuck(f).pinOf = bad.pinOf /\ stuck(f).state = bad.state
    BY <1>3, <2>1, <2>2, FileBetter
  <2>4. stuck(f) = [row EXCEPT !.failed = sent.brew, !.file = f, !.recorded = sent]
    BY <1>20 DEF OnFile
  <2> QED BY <1>20, <2>3, <2>4, BetterStill
<1>22. Wrote(done) = [done EXCEPT !.wrote = TRUE] /\ \A f \in FreshIds : f \in Files
  BY DEF Wrote, FreshIds
<1> SUFFICES \E new : Does(new)
  OBVIOUS
<1> HIDE DEF Does, bad, stuck
<1>23. CASE rows' = [rows EXCEPT ![r] = row] /\ sync' = Failed(done) /\ UNCHANGED machineVars /\ (Sound \/ Faulty)
  BY <1>8, <1>17, <1>19, <1>23
<1>24. CASE rows' = [rows EXCEPT ![r] = bad] /\ sync' = Failed(Wrote(done)) /\ UNCHANGED machineVars /\ Faulty
  BY <1>9, <1>17, <1>20, <1>24
<1>25. ASSUME NEW f \in FreshIds, files' = [files EXCEPT ![f] = sent], starred' = starred \cup {f}, selected' = selected,
              rows' = [rows EXCEPT ![r] = row], Sound \/ Faulty,
              sync' \in {Landed(done, r, f), Failed(done)}
       PROVE  \E new : Does(new)
  <2>1. Off(sync') \/ sync' = Landed(done, r, f)
    BY <1>8, <1>25
  <2> QED BY <1>16, <1>18, <1>19, <1>25, <2>1
<1>26. ASSUME NEW f \in FreshIds, NEW d \in [brew : Brews, name : {sent.name}],
              files' = [files EXCEPT ![f] = d], starred' = starred \cup {f}, selected' = selected,
              rows' = [rows EXCEPT ![r] = stuck(f)], Faulty, sync' = Failed(Wrote(done))
       PROVE  \E new : Does(new)
  <2>1. Off(sync') /\ f \in Files
    BY <1>9, <1>22, <1>26
  <2> QED BY <1>18, <1>21, <1>26, <2>1
<1>27. \/ rows' = [rows EXCEPT ![r] = row] /\ sync' = Failed(done) /\ UNCHANGED machineVars /\ (Sound \/ Faulty)
       \/ rows' = [rows EXCEPT ![r] = bad] /\ sync' = Failed(Wrote(done)) /\ UNCHANGED machineVars /\ Faulty
       \/ \E f \in FreshIds :
            /\ starred' = starred \cup {f} /\ selected' = selected
            /\ \/ /\ files' = [files EXCEPT ![f] = sent]
                  /\ rows' = [rows EXCEPT ![r] = row] /\ (Sound \/ Faulty)
                  /\ sync' \in {Landed(done, r, f), Failed(done)}
               \/ /\ \E d \in [brew : Brews, name : {sent.name}] : files' = [files EXCEPT ![f] = d]
                  /\ rows' = [rows EXCEPT ![r] = stuck(f)] /\ Faulty /\ sync' = Failed(Wrote(done))
  BY <1>20, <1>21, <1>22 DEF SaveNew
<1> QED BY <1>23, <1>24, <1>25, <1>26, <1>27

-----------------------------------------------------------------------------
(* One profile at a time.                                                   *)

\* A step of the write phase that deals with row r only, after everything has joined and names are taken.
WalksOn(r) ==
  /\ Working /\ Working' /\ r \in Rows /\ sync.plan[r].what \notin {"none", "attached"}
  /\ ~sync.offline
  /\ Walks(sync') /\ sync'.fresh = sync.fresh /\ sync'.todo.join = {} /\ sync'.todo.take = {}
  /\ sync'.pc \in {"settle", "remove"} => sync'.row = r
  /\ spent'.people = spent.people /\ spent'.touches = spent.touches
  /\ resumePending' = resumePending
  /\ \A x \in Rows : rows'[x].state = rows[x].state
  /\ \A x \in Rows \ {r} : rows'[x].file = rows[x].file /\ sync'.held[x] = sync.held[x]
  /\ \A x \in Rows \ {r} : rows[x].file # NoFile => files'[rows[x].file] = files[rows[x].file]

\* What such a step does to the row's own file keeps the files apart.
KeepsApart(r) ==
  LET f == rows'[r].file
      p == sync.plan[r]
  IN /\ f \in {rows[r].file, NoFile} \/ \A x \in Rows \ {r} : rows[x].file # f
     /\ sync'.pc = "settle" => \A x \in Rows \ {r} : rows[x].file # sync'.file
     /\ p.what = "held" \/ (p.what \in {"push", "remove", "release"} /\ r \in Waiting') => f = p.was.file
     /\ sync'.held[r] # NoFile =>
          /\ f = sync'.held[r]
          /\ p.what = "held" \/ (p.what = "push" /\ r \notin sync'.todo.on)

\* What a step of the walk leaves.
LEMMA WalkIs ==
  ASSUME NEW s, Walks(s)
  PROVE  /\ s.m = sync.m /\ s.plan = sync.plan /\ s.offline = sync.offline /\ s.since = sync.since
         /\ s.todo.join \subseteq sync.todo.join /\ s.todo.take = sync.todo.take /\ s.todo.star = sync.todo.star
         /\ s.todo.on \subseteq sync.todo.on /\ s.todo.off \subseteq sync.todo.off
         /\ s.todo.deleted \subseteq sync.todo.deleted /\ s \in Syncs
BY DEF Walks

\* Nobody is put back among those still to be dealt with.
LEMMA WaitingStill ==
  ASSUME NEW r, WalksOn(r)
  PROVE  \A x \in Waiting' \ {r} : x \in Waiting
BY WalkIs DEF WalksOn, Waiting

\* Such a step keeps the files apart ...
LEMMA WalkKeepsApart ==
  ASSUME IInv, NEW r, WalksOn(r), KeepsApart(r)
  PROVE  FilesApart'
<1>1. /\ r \in Rows /\ Working /\ Working' /\ FilesApart /\ FileKept /\ HeldOK /\ FreshOK /\ Distinct
      /\ sync'.plan = sync.plan /\ sync'.todo.star = sync.todo.star /\ sync'.fresh = sync.fresh
      /\ sync'.todo.join = {} /\ sync'.todo.on \subseteq sync.todo.on /\ sync'.todo.take = sync.todo.take
      /\ sync'.todo.take = {}
  BY WalkIs DEF IInv, FilesApart, WalksOn
<1>2. \A x \in Rows \ {r} : rows'[x].file = rows[x].file /\ sync'.held[x] = sync.held[x]
  BY DEF WalksOn
<1>3. Distinct'
  BY <1>1, <1>2 DEF Distinct, KeepsApart
<1>4. JoiningFilesAreNobodys'
  BY <1>1 DEF JoiningFilesAreNobodys
<1>5. Settling'
  BY <1>2 DEF Settling, KeepsApart, WalksOn
<1>6. FileKept'
  BY <1>1, <1>2, WaitingStill DEF FileKept, KeepsApart
<1>7. HeldOK'
  BY <1>1, <1>2 DEF HeldOK, KeepsApart
<1>8. FreshOK'
  <2>1. r \notin sync.fresh /\ sync.fresh \subseteq Rows
    BY <1>1, NowTyped, SyncTyped DEF FreshOK, WalksOn
  <2>2. \A x \in sync.fresh : rows'[x].file = rows[x].file /\ rows'[x].state = rows[x].state
    BY <1>2, <2>1 DEF WalksOn
  <2> QED BY <1>1, <2>2 DEF FreshOK
<1> QED BY <1>1, <1>3, <1>4, <1>5, <1>6, <1>7, <1>8 DEF FilesApart

\* What such a step does to the machine keeps there what the plan goes by.
KeepsThere(r) ==
  LET f == rows[r].file
      g == rows'[r].file
  IN /\ sync.since.touches = spent.touches =>
          /\ sync'.held[r] # NoFile => files'[sync'.held[r]] # NoDoc
          /\ sync'.pc = "settle" => files'[sync'.file] # NoDoc
          /\ r \in Waiting' => sync.plan[r].what # "release"
     /\ NobodyActed /\ TookNone' /\ rows[r].state = "live" =>
          /\ f # NoFile /\ files[f] # NoDoc => g # NoFile /\ files'[g] # NoDoc
          /\ g \notin {NoFile, f} => files'[g] # NoDoc

\* ... and what was read as it was.
LEMMA WalkKeepsThere ==
  ASSUME IInv, NEW r, WalksOn(r), KeepsThere(r)
  PROVE  AsRead'
<1>1. /\ r \in Rows /\ Working /\ Working' /\ FileKept /\ HeldOK /\ AsRead /\ ~sync.offline
      /\ sync'.plan = sync.plan /\ sync'.offline = sync.offline /\ sync'.since = sync.since
      /\ sync'.todo.join = {} /\ sync'.todo.off \subseteq sync.todo.off
      /\ sync'.todo.take = {} /\ spent'.people = spent.people /\ spent'.touches = spent.touches
      /\ resumePending' = resumePending
  BY WalkIs DEF IInv, FilesApart, WalksOn
<1>2. \A x \in Rows \ {r} : /\ rows'[x].file = rows[x].file /\ sync'.held[x] = sync.held[x]
                            /\ rows[x].file # NoFile => files'[rows[x].file] = files[rows[x].file]
  BY DEF WalksOn
<1>3. \A x \in Rows : rows'[x].state = rows[x].state
  BY DEF WalksOn
<1>4. ASSUME sync.since.touches = spent.touches PROVE ThereYet'
  <2>1. ThereYet
    BY <1>1, <1>4 DEF AsRead
  <2>2. \A x \in Rows : sync'.held[x] # NoFile => files'[sync'.held[x]] # NoDoc
    BY <1>1, <1>2, <1>4, <2>1 DEF ThereYet, HeldOK, KeepsThere
  <2>3. ASSUME NEW x \in Waiting', sync.plan[x].what = "release"
        PROVE  sync.plan[x].was.file \in Files /\ files'[sync.plan[x].was.file] = NoDoc
    <3>1. x # r /\ x \in Waiting
      BY <1>4, <2>3, WaitingStill DEF KeepsThere
    <3>2. sync.plan[x].was.file \in Files /\ files[sync.plan[x].was.file] = NoDoc
      BY <2>1, <2>3, <3>1 DEF ThereYet
    <3>3. x \in Rows
      <4>1. sync \in Syncs /\ TodoOK
        BY <1>1, NowTyped DEF SyncOK
      <4> QED BY <3>1, <4>1, SyncTyped DEF Waiting, TodoOK
    <3>4. rows[x].file = sync.plan[x].was.file
      BY <1>1, <2>3, <3>1, <3>3 DEF FileKept
    <3>5. sync.plan[x].was.file # NoFile
      BY <3>2, PlanAssumption
    <3> QED BY <1>2, <3>1, <3>2, <3>3, <3>4, <3>5
  <2>4. sync'.pc = "settle" => files'[sync'.file] # NoDoc
    BY <1>4 DEF KeepsThere
  <2> QED BY <1>1, <2>2, <2>3, <2>4 DEF ThereYet
<1>5. sync.since.people = spent.people => DeletedYet'
  BY <1>1, <1>3 DEF AsRead, DeletedYet
<1>6. TakesAndGoes'
  BY <1>1 DEF TakesAndGoes
<1>7. LeftThere'
  <2>1. SUFFICES ASSUME ~resumePending, NobodyActed, TookNone'
                 PROVE  Standing' = {} \/ \E f \in Standing' : files'[f] # NoDoc
    BY <1>1 DEF LeftThere, NobodyActed
  <2>2. TookNone
    BY <1>1, <2>1 DEF TookNone
  <2>3. LeftThere
    BY <1>1 DEF AsRead
  <2>4. \A x \in Rows : x \in Live' <=> x \in Live
    BY <1>3 DEF Live
  <2>5. CASE Standing = {}
    <3>1. \A x \in Live : rows[x].file = NoFile
      BY <2>5 DEF Standing
    <3>2. ASSUME NEW f \in Standing' PROVE files'[f] # NoDoc
      <4>1. PICK x \in Live' : f = rows'[x].file /\ f # NoFile
        BY DEF Standing
      <4>2. x \in Live /\ x \in Rows /\ rows[x].state = "live"
        BY <2>4 DEF Live
      <4>3. x = r
        BY <1>2, <3>1, <4>1, <4>2
      <4> QED BY <2>1, <3>1, <4>1, <4>2, <4>3 DEF KeepsThere
    <3> QED BY <3>2
  <2>6. CASE \E f \in Standing : files[f] # NoDoc
    <3>1. PICK x \in Live : rows[x].file # NoFile /\ files[rows[x].file] # NoDoc
      BY <2>6 DEF Standing
    <3>2. x \in Rows /\ rows[x].state = "live" /\ x \in Live'
      BY <2>4 DEF Live
    <3>3. rows'[x].file # NoFile /\ files'[rows'[x].file] # NoDoc
      BY <1>2, <2>1, <3>1, <3>2 DEF KeepsThere
    <3> QED BY <3>2, <3>3 DEF Standing
  <2> QED BY <2>1, <2>2, <2>3, <2>5, <2>6 DEF LeftThere
<1> QED BY <1>1, <1>4, <1>5, <1>6, <1>7 DEF AsRead, Working

\* Together, with what is dealt with on the machine.
LEMMA WalkKeepsAll ==
  ASSUME IInv, NEW r, WalksOn(r), KeepsApart(r), KeepsThere(r), Evolves, Dealing', Calm, OfTheList'
  PROVE  IInv'
<1>1. SyncOK'
  BY WalkKeepsSync DEF WalksOn
<1>2. WellFormed'
  BY <1>1, NowTyped, TypesFrom
<1> QED BY <1>2, WalkKeepsApart, WalkKeepsThere DEF IInv

-----------------------------------------------------------------------------
(* A profile that is on.                                                    *)

\* Where the write phase is, and who is next.
LEMMA AtIs ==
  /\ At(1) => sync.pc = "work" /\ sync.todo.join # {}
  /\ At(2) => sync.pc = "work" /\ sync.todo.join = {} /\ sync.todo.take # {}
  /\ At(3) => sync.pc = "work" /\ sync.todo.join = {} /\ sync.todo.take = {} /\ sync.todo.on # {}
  /\ At(4) => sync.pc = "work" /\ sync.todo.join = {} /\ sync.todo.take = {} /\ sync.todo.on = {}
                /\ sync.todo.off # {}
  /\ At(5) => sync.pc = "work" /\ sync.todo.join = {} /\ sync.todo.take = {} /\ sync.todo.on = {}
                /\ sync.todo.off = {} /\ sync.todo.deleted # {}
BY PartsAre DEF At

LEMMA NextIs ==
  ASSUME IInv, NEW none
  PROVE  /\ At(1) => NextOf(1, none) \in sync.todo.join
         /\ At(2) => NextOf(2, none) \in sync.todo.take
         /\ At(3) => NextOf(3, none) \in sync.todo.on
         /\ At(4) => NextOf(4, none) \in sync.todo.off
         /\ At(5) => NextOf(5, none) \in sync.todo.deleted
<1>1. /\ sync.todo.join \subseteq Nat /\ sync.todo.take \subseteq Nat /\ sync.todo.on \subseteq Nat
      /\ sync.todo.off \subseteq Nat /\ sync.todo.deleted \subseteq Nat
  BY NowTyped, SyncTyped, PlanAssumption
<1>2. /\ NextOf(1, none) = First(sync.todo.join, none) /\ NextOf(2, none) = First(sync.todo.take, none)
      /\ NextOf(3, none) = First(sync.todo.on, none) /\ NextOf(4, none) = First(sync.todo.off, none)
      /\ NextOf(5, none) = First(sync.todo.deleted, none)
  BY PartsAre DEF NextOf
<1> QED BY <1>1, <1>2, AtIs, FirstIsOne

\* Machine content kept as a version of a profile.
LEMMA KeepBothDeals ==
  ASSUME IInv, Working, NEW r \in Rows, sync.plan[r].what = "conflict", KeepBoth(r)
  PROVE  \E new : Deals(r, new) /\ new.file = rows[r].file
<1> DEFINE p == sync.plan[r]
           seen == sync.m.docs[p.was.file]
           new == Keep(rows[r], seen.brew)
<1>1. Fits(p, r, sync.m.docs) /\ rows[r] \in Profiles /\ RowOK(rows[r]) /\ sync.m.docs \in MaybeDocs
  BY NowTyped, RowTyped, SyncTyped DEF SyncOK, PlanOK
<1>2. rows[r].state # "free" /\ seen \in Docs
  BY <1>1 DEF Fits, MaybeDocs
<1>3. Better(rows[r], new) /\ new = [rows[r] EXCEPT !.found = new.found] /\ new.found \in SUBSET Brews
  BY <1>1, <1>2, KeepBetter DEF Docs
<1>4. new.file = rows[r].file /\ new.pinOf = rows[r].pinOf /\ new.state = rows[r].state
  <2> HIDE DEF new
  <2> QED BY <1>1, <1>3 DEF Profiles
<1>5. rows' = [rows EXCEPT ![r] = new]
  BY DEF KeepBoth
<1> HIDE DEF new
<1> QED BY <1>3, <1>4, <1>5 DEF Deals

\* The parts of a plan.
LEMMA PlanIs ==
  ASSUME NEW p \in Plans, p.what # "none"
  PROVE  /\ p.target \in Docs /\ p.target.brew \in Brews /\ p.target.name \in Names
         /\ p.was \in WasRows /\ p.was.file \in Files \cup {NoFile} /\ p.was.deleted \in BOOLEAN
         /\ p.was.label \in Names /\ p.was.recorded \in Docs \cup {NoDoc} /\ p.was.shown \in Names
         /\ p.takes \in Names /\ p.edited \in BOOLEAN /\ p.successor \in Rows \cup {NoRow}
         /\ p \in RowPlans
<1>1. p \in RowPlans
  BY DEF Plans, NoPlan
<1>2. p.target \in Docs /\ p.was \in WasRows
  BY <1>1 DEF RowPlans
<1> QED BY <1>1, <1>2 DEF RowPlans, WasRows, Docs

\* What is dealt with of the parts that go profile by profile is planned, and not offline.
LEMMA DealtWith ==
  ASSUME IInv, Working
  PROVE  /\ \A r \in sync.todo.on \cup sync.todo.off :
              r \in Rows /\ sync.plan[r].what \notin {"none", "attached"} /\ ~sync.plan[r].was.deleted
                /\ r \notin sync.todo.deleted /\ ~sync.offline
         /\ \A r \in sync.todo.deleted :
              /\ r \in Rows /\ sync.plan[r].was.deleted /\ sync.plan[r].what \in {"release", "remove", "leave"}
              /\ sync.plan[r].what = "leave" => sync.plan[r].edited
              /\ ~sync.offline
         /\ sync.todo.on \cap sync.todo.off = {}
         /\ sync.plan \in [Rows -> Plans] /\ sync \in Syncs /\ TodoOK /\ \A r \in Rows : PlanOK(r)
<1>1. TodoOK /\ sync \in Syncs /\ sync.plan \in [Rows -> Plans] /\ \A x \in Rows : PlanOK(x)
  BY NowTyped DEF SyncOK
<1> QED BY <1>1, SyncTyped DEF TodoOK

\* Every branch for a profile that is on comes to that.
LEMMA ApplyRowDoes ==
  ASSUME IInv, ApplyRow
  PROVE  \E r, new : AppliesRow(r, new)
<1> DEFINE r == NextOf(3, NoRow)
           p == sync.plan[r]
           done == Done(sync, 3, r)
           f == rows[r].file
<1>1. /\ sync.pc = "work" /\ sync.todo.join = {} /\ sync.todo.take = {} /\ r \in sync.todo.on /\ Working
      /\ UNCHANGED <<unsafe, resumePending, adopted, paused, mirror, writes>>
  BY AtIs, NextIs DEF ApplyRow, Working
<1>2. /\ r \in Rows /\ p.what # "none" /\ ~p.was.deleted /\ ~sync.offline
  BY <1>1, DealtWith
<1>3. /\ Walks(done) /\ Same(done, sync) /\ done.todo.join = {} /\ r \notin done.todo.on /\ done.todo.take = {}
  <2>1. Walks(done) /\ Same(done, sync) /\ done.todo.join = sync.todo.join /\ r \notin done.todo.on
    BY <1>1, DoneWalks
  <2> QED BY <1>1, <2>1, WalkIs
<1>4. rows[r] \in Profiles /\ RowOK(rows[r]) /\ RowsTyped
  BY <1>2, NowTyped, RowTyped
<1> DEFINE Frame == /\ Calm /\ spent'.people = spent.people /\ spent'.touches = spent.touches
           Same1(new) == Deals(r, new) /\ new.file = rows[r].file
           Quietly == UNCHANGED <<machineVars, spent, scene, quiet>>
<1>5. Quietly => Frame /\ UNCHANGED machineVars
  BY NowTyped DEF Calm
<1>6. ASSUME NEW new, Deals(r, new), Quietly, sync' = done,
             new.file = rows[r].file \/ (p.what = "held" /\ new.file = p.was.file)
      PROVE  AppliesRow(r, new)
  <2>1. /\ Walks(sync') /\ r \notin sync'.todo.on /\ sync'.held = sync.held /\ sync'.fresh = sync.fresh
        /\ sync'.todo.join = {} /\ sync'.todo.take = {} /\ sync'.pc = "work"
    BY <1>1, <1>3, <1>6 DEF Same
  <2>2. Frame /\ UNCHANGED machineVars
    BY <1>5, <1>6
  <2> QED BY <1>1, <1>2, <1>6, <2>1, <2>2 DEF AppliesRow
<1>7. ASSUME p.what \notin {"none", "conflict"}
      PROVE  LET row == Recorded(r) IN
             /\ Better(rows[r], row) /\ row.state = rows[r].state /\ row.pinOf = rows[r].pinOf /\ row.file = rows[r].file
             /\ row \in Profiles /\ RowOK(row) /\ rows[r].state # "free"
  <2>1. rows[r].state # "free"
    BY <1>1, <1>2, DealtWith DEF PlanOK, Fits
  <2> QED BY <1>1, <1>2, <1>7, <2>1, RecordedBetter DEF Better
<1>8. CASE p.what = "conflict" /\ KeepBoth(r) /\ sync' = done
  <2>1. PICK new : Deals(r, new) /\ new.file = rows[r].file
    BY <1>1, <1>2, <1>8, KeepBothDeals
  <2>2. Quietly
    BY <1>8 DEF KeepBoth
  <2> QED BY <1>6, <1>8, <2>1, <2>2
<1>9. CASE p.what = "report" /\ sync' = done /\ UNCHANGED <<rows, machineVars, spent, scene, quiet>>
  <2>1. rows' = [rows EXCEPT ![r] = rows[r]]
    BY <1>2, <1>4, <1>9 DEF RowsTyped
  <2>2. Deals(r, rows[r])
    BY <1>4, <2>1, SameIsBetter DEF Deals
  <2> QED BY <1>6, <1>9, <2>2
<1>10. CASE /\ p.what \in {"leave", "remove"} /\ rows' = [rows EXCEPT ![r] = Recorded(r)]
            /\ sync' = Idle /\ UNCHANGED <<machineVars, spent, scene, quiet>>
  <2>1. Deals(r, Recorded(r)) /\ Recorded(r).file = rows[r].file
    BY <1>7, <1>10 DEF Deals
  <2>2. Frame /\ UNCHANGED machineVars
    BY <1>5, <1>10
  <2> QED BY <1>1, <1>2, <1>10, <2>1, <2>2 DEF AppliesRow
<1>11. CASE /\ p.what = "held" /\ rows' = [rows EXCEPT ![r] = Settled(Recorded(r), p, p.was.file)]
            /\ sync' = done /\ UNCHANGED <<machineVars, spent, scene, quiet>>
  <2> DEFINE row == Recorded(r)
             new == Settled(row, p, p.was.file)
  <2>1. /\ Better(rows[r], row) /\ row.state = rows[r].state /\ row.pinOf = rows[r].pinOf /\ row.file = rows[r].file
        /\ row \in Profiles /\ RowOK(row) /\ row.state # "free" /\ p \in Plans /\ Fits(p, r, sync.m.docs)
    BY <1>1, <1>2, <1>7, <1>11, DealtWith DEF PlanOK
  <2>2. /\ p.was.file \in Files \cup {NoFile} /\ p.target \in Docs /\ p.target.brew \in Asked(row)
    <3>1. p.what # "none" /\ p.target.brew \in Asked(rows[r])
      BY <1>11, <2>1 DEF Fits
    <3>2. Asked(rows[r]) \subseteq Asked(row)
      BY <2>1 DEF Better, Asked
    <3> QED BY <2>1, <3>1, <3>2, PlanIs
  <2> HIDE DEF row, p
  <2>3. /\ Better(row, OnFile(row, p.was.file, p.target)) /\ OnFile(row, p.was.file, p.target).file = p.was.file
        /\ OnFile(row, p.was.file, p.target).pinOf = row.pinOf /\ OnFile(row, p.was.file, p.target).state = row.state
    BY <2>1, <2>2, FileBetter
  <2>4. new \in {row, OnFile(row, p.was.file, p.target)}
    BY DEF Settled, OnFile
  <2>5. Better(rows[r], new) /\ new.pinOf = rows[r].pinOf /\ new.state = rows[r].state
        /\ new.file \in {rows[r].file, p.was.file}
    BY <2>1, <2>3, <2>4, BetterStill
  <2>6. rows' = [rows EXCEPT ![r] = new]
    BY <1>11 DEF row, p
  <2> HIDE DEF new
  <2>7. Deals(r, new)
    BY <2>5, <2>6 DEF Deals
  <2>8. new.file = rows[r].file \/ (p.what = "held" /\ new.file = p.was.file)
    BY <1>11, <2>5
  <2> QED BY <1>6, <1>11, <2>7, <2>8 DEF p
<1>12. CASE /\ p.what = "push" /\ rows' = [rows EXCEPT ![r] = Recorded(r)]
            /\ sync' = done /\ UNCHANGED <<machineVars, spent, scene, quiet>>
  <2>1. Deals(r, Recorded(r)) /\ Recorded(r).file = rows[r].file
    BY <1>7, <1>12 DEF Deals
  <2> QED BY <1>6, <1>12, <2>1
<1>13. ASSUME NEW new, p.what = "push", Deals(r, new), Frame,
              Walks(sync'), sync'.todo.on \subseteq done.todo.on, sync'.todo.join = sync.todo.join,
              sync'.held = sync.held, sync'.fresh = sync.fresh, sync'.pc \in {"work", "settle"},
              sync'.pc = "settle" => sync'.row = r,
              \/ sync'.pc = "work" /\ UNCHANGED machineVars /\ new.file = rows[r].file
              \/ SavesOver(r, new)
              \/ SavesNew(r, new)
       PROVE  AppliesRow(r, new)
  <2>1. /\ r \notin sync'.todo.on /\ sync'.todo.join = {} /\ sync'.todo.take = {}
    BY <1>1, <1>3, <1>13, WalkIs
  <2> QED BY <1>1, <1>2, <1>13, <2>1 DEF AppliesRow
<1>14. CASE p.what = "push" /\ f # NoFile /\ sync.m.docs[f] # NoDoc /\ SaveOver(r, f, done)
  BY <1>1, <1>13, <1>14, SaveOverDoes
<1>15. CASE p.what = "push" /\ ~(f # NoFile /\ sync.m.docs[f] # NoDoc) /\ SaveNew(r, done)
  BY <1>1, <1>13, <1>15, SaveNewDoes
<1> HIDE DEF done, Frame, Quietly
<1>16. \/ p.what = "conflict" /\ KeepBoth(r) /\ sync' = done
       \/ p.what = "report" /\ sync' = done /\ UNCHANGED <<rows, machineVars, spent, scene, quiet>>
       \/ /\ p.what \in {"leave", "remove"} /\ rows' = [rows EXCEPT ![r] = Recorded(r)]
          /\ sync' = Idle /\ UNCHANGED <<machineVars, spent, scene, quiet>>
       \/ /\ p.what = "held" /\ rows' = [rows EXCEPT ![r] = Settled(Recorded(r), p, p.was.file)]
          /\ sync' = done /\ UNCHANGED <<machineVars, spent, scene, quiet>>
       \/ /\ p.what = "push" /\ rows' = [rows EXCEPT ![r] = Recorded(r)]
          /\ sync' = done /\ UNCHANGED <<machineVars, spent, scene, quiet>>
       \/ p.what = "push" /\ f # NoFile /\ sync.m.docs[f] # NoDoc /\ SaveOver(r, f, done)
       \/ p.what = "push" /\ ~(f # NoFile /\ sync.m.docs[f] # NoDoc) /\ SaveNew(r, done)
  BY DEF ApplyRow, done
<1> QED BY <1>8, <1>9, <1>10, <1>11, <1>12, <1>14, <1>15, <1>16

-----------------------------------------------------------------------------
(* The ends of a sync, and the rest of what dealing with a profile leaves.  *)

\* No sync under way.
LEMMA IdleIs ==
  /\ Idle.pc = "idle" /\ Idle.m = NoRead /\ Idle.plan = <<>> /\ Idle.todo.join = {} /\ Idle.failures = 0
  /\ Idle.row = NoRow /\ Idle.file = NoFile /\ Idle.held = [r \in Rows |-> NoFile] /\ Idle.fresh = {}
  /\ Idle.since = [people |-> 0, touches |-> 0, faults |-> 0] /\ NoRead \in Reads /\ Idle.todo \in Todos
  /\ Idle.since \in Counts /\ Idle.since.people = 0 /\ Idle.since.touches = 0
  /\ Idle.names = <<>> /\ Idle.attached = <<>> /\ Idle.wrote = FALSE /\ Idle.offline = FALSE /\ Idle.blocked = FALSE
<1>1. NoRead \in Reads
  BY DEF NoRead, Reads, MaybeDocs
<1> QED BY <1>1 DEF Idle, Todos, Counts

\* Without a sync under way the invariant says little of it.
LEMMA Resting ==
  ASSUME IInv, Evolves, Calm, OfTheList', Distinct', (sync \in Syncs)',
         sync'.pc \in {"idle", "mirrored"}, sync'.todo.join = {},
         sync'.since.people <= spent'.people, sync'.since.touches <= spent'.touches
  PROVE  IInv'
<1>1. ~Working' /\ sync'.pc # "stars"
  BY DEF Working
<1>2. SyncOK'
  BY <1>1 DEF SyncOK
<1>3. WellFormed'
  BY <1>2, NowTyped, TypesFrom
<1>4. FilesApart'
  BY <1>1 DEF FilesApart, JoiningFilesAreNobodys, Settling
<1>5. AsRead'
  BY <1>1 DEF AsRead
<1> QED BY <1>3, <1>4, <1>5 DEF IInv

LEMMA IdleTyped ==
  ASSUME sync' = Idle
  PROVE  (sync \in Syncs)'
<1>1. sync' = [pc |-> "idle", m |-> NoRead, plan |-> <<>>, todo |-> Idle.todo, names |-> sync'.names,
               attached |-> sync'.attached, held |-> Idle.held, fresh |-> {},
               failures |-> 0, wrote |-> FALSE, offline |-> FALSE, row |-> NoRow, file |-> NoFile,
               blocked |-> FALSE, since |-> Idle.since]
  BY DEF Idle
<1>2. 0 \in 0 .. MaxFailures
  BY SyncAssumption
<1>3. Idle.held \in [Rows -> Files \cup {NoFile}]
  BY IdleIs
<1> QED BY <1>1, <1>2, <1>3, IdleIs DEF Syncs

\* A step that ends the sync.
LEMMA AtIdle ==
  ASSUME IInv, sync' = Idle, Evolves, Calm, OfTheList', Distinct'
  PROVE  IInv'
<1>1. (sync \in Syncs)' /\ sync'.pc = "idle" /\ sync'.todo.join = {}
      /\ sync'.since.people = 0 /\ sync'.since.touches = 0
  BY IdleTyped, IdleIs
<1>2. 0 <= spent'.people /\ 0 <= spent'.touches
  BY NowTyped, SyncAssumption DEF Calm, Bounds
<1> QED BY <1>1, <1>2, Resting

\* A row keeps the file it has, or lets go of it.
LEMMA StillDistinct ==
  ASSUME IInv, \A r \in Rows : rows'[r].file \in {rows[r].file, NoFile}
  PROVE  Distinct'
BY DEF IInv, FilesApart, Distinct

\* Nothing of the machine changes, nor of what was seen of it.
LEMMA ListSame ==
  ASSUME IInv, UNCHANGED <<unsafe, resumePending, adopted, paused, mirror, writes>>,
         (files \in MaybeDocs /\ starred \subseteq Files /\ selected \in Files \cup {NoFile})'
  PROVE  OfTheList'
BY NowTyped DEF OfTheList

\* Nothing of the machine changes.
LEMMA MachineSame ==
  ASSUME IInv, UNCHANGED machineVars
  PROVE  (files \in MaybeDocs /\ starred \subseteq Files /\ selected \in Files \cup {NoFile})'
BY NowTyped DEF OfTheList, machineVars

\* The one row that changes.
LEMMA DealsIs ==
  ASSUME IInv, NEW r \in Rows, NEW new, Deals(r, new)
  PROVE  /\ Evolves
         /\ rows'[r] = new
         /\ \A x \in Rows : rows'[x].state = rows[x].state
         /\ \A x \in Rows \ {r} : rows'[x] = rows[x]
<1>1. RowsTyped
  BY NowTyped
<1>2. Evolves
  BY <1>1, OneRow DEF Deals
<1> QED BY <1>1, <1>2 DEF Deals, RowsTyped

\* An id nothing remembers holds nothing, and no profile stands on it.
LEMMA FreshIs ==
  ASSUME IInv, NEW f \in FreshIds
  PROVE  /\ f \in Files /\ f # NoFile /\ files[f] = NoDoc /\ f \notin starred /\ selected # f
         /\ \A x \in Rows : rows[x].file # f
<1>1. f \in Files /\ f \notin Held /\ f \notin Claimed /\ f \notin starred /\ selected # f
  BY DEF FreshIds, Remembered
<1>2. f # NoFile
  BY <1>1, PlanAssumption
<1>3. files[f] = NoDoc
  BY <1>1 DEF Held
<1>4. ASSUME NEW x \in Rows PROVE rows[x].file # f
  <2>1. rows[x] \in Profiles /\ RowOK(rows[x])
    BY NowTyped, RowTyped
  <2>2. CASE rows[x].state = "free"
    BY <1>2, <2>1, <2>2 DEF RowOK, Free
  <2>3. CASE rows[x].state # "free"
    <3>1. x \in Live \cup Deleted
      BY <2>1, <2>3 DEF Profiles, Live, Deleted
    <3> QED BY <1>1, <3>1 DEF Claimed
  <2> QED BY <2>2, <2>3
<1> QED BY <1>1, <1>2, <1>3, <1>4

\* A plan of one of the profiles that go one by one is under way.
LEMMA ApplyRowKeeps ==
  ASSUME IInv, NEW r, NEW new, AppliesRow(r, new)
  PROVE  IInv'
<1> DEFINE p == sync.plan[r]
<1>1. /\ sync.pc = "work" /\ sync.todo.join = {} /\ sync.todo.take = {} /\ r \in sync.todo.on /\ Working
      /\ UNCHANGED <<unsafe, resumePending, adopted, paused, mirror, writes>> /\ ~sync.offline
      /\ Calm /\ spent'.people = spent.people /\ spent'.touches = spent.touches /\ Deals(r, new)
  BY DEF AppliesRow, Working
<1>2. /\ r \in Rows /\ p.what # "none" /\ ~p.was.deleted /\ r \notin sync.todo.deleted /\ r \notin sync.todo.off
      /\ FilesApart /\ FileKept /\ HeldOK /\ Distinct /\ p \in Plans /\ r \in Waiting
  BY <1>1, DealtWith DEF IInv, FilesApart, Waiting
<1>3. /\ Evolves /\ rows'[r] = new /\ \A x \in Rows : rows'[x].state = rows[x].state
      /\ \A x \in Rows \ {r} : rows'[x] = rows[x]
  BY <1>1, <1>2, DealsIs
<1>4. CASE sync' = Idle /\ new.file = rows[r].file /\ UNCHANGED machineVars
  <2>1. Distinct'
    BY <1>3, <1>4, StillDistinct
  <2>2. OfTheList'
    BY <1>1, <1>4, ListSame, MachineSame
  <2> QED BY <1>1, <1>3, <1>4, <2>1, <2>2, AtIdle
<1>5. ASSUME Walks(sync'), r \notin sync'.todo.on, sync'.held = sync.held, sync'.fresh = sync.fresh,
             sync'.todo.join = {}, sync'.todo.take = {}, sync'.pc \in {"work", "settle"},
             sync'.pc = "settle" => sync'.row = r,
             \/ /\ sync'.pc = "work" /\ UNCHANGED machineVars
                /\ new.file = rows[r].file \/ (p.what = "held" /\ new.file = p.was.file)
             \/ p.what = "push" /\ SavesOver(r, new)
             \/ p.what = "push" /\ SavesNew(r, new)
      PROVE  IInv'
  <2>0. p.what # "attached" /\ (sync'.held[r] # NoFile => p.what = "held" /\ rows[r].file = sync'.held[r])
    <3>1. sync.plan[r].what # "attached"
      BY <1>1, DealtWith
    <3> QED BY <1>1, <1>2, <1>5, <3>1 DEF HeldOK
  <2>1. /\ Working' /\ sync'.plan = sync.plan /\ sync'.m = sync.m /\ sync'.offline = sync.offline
        /\ sync'.todo.on \subseteq sync.todo.on /\ sync'.todo.off \subseteq sync.todo.off
        /\ sync'.todo.deleted \subseteq sync.todo.deleted /\ sync'.since = sync.since
    BY <1>5, WalkIs DEF Working
  <2>2. /\ (files \in MaybeDocs /\ starred \subseteq Files /\ selected \in Files \cup {NoFile})'
        /\ \A x \in Rows \ {r} : rows[x].file # NoFile => files'[rows[x].file] = files[rows[x].file]
        /\ new.file = rows[r].file \/ (new.file \in Files /\ \A x \in Rows \ {r} : rows[x].file # new.file)
        /\ new.file \notin {NoFile, rows[r].file} => files'[new.file] # NoDoc
        /\ new.file # rows[r].file => p.what # "held" /\ sync'.pc = "work"
        /\ sync'.pc = "settle" => /\ p.what = "push" /\ new.file = rows[r].file
                                  /\ sync'.file \in Files /\ files'[sync'.file] # NoDoc
                                  /\ \A x \in Rows \ {r} : rows[x].file # sync'.file
        /\ rows[r].file # NoFile /\ files[rows[r].file] # NoDoc => files'[rows[r].file] # NoDoc /\ new.file # NoFile
    <3>0. files \in MaybeDocs /\ starred \subseteq Files /\ selected \in Files \cup {NoFile}
      BY NowTyped DEF OfTheList
    <3>1. CASE /\ sync'.pc = "work" /\ UNCHANGED machineVars
               /\ new.file = rows[r].file \/ (p.what = "held" /\ new.file = p.was.file)
      <4>1. new.file = rows[r].file
        BY <1>2, <3>1 DEF FileKept
      <4> QED BY <3>0, <3>1, <4>1 DEF machineVars
    <3>2. CASE p.what = "push" /\ SavesOver(r, new)
      <4>1. PICK d \in Docs : files' = [files EXCEPT ![rows[r].file] = d]
        BY <3>2 DEF SavesOver
      <4>2. /\ rows[r].file \in Files /\ new.file = rows[r].file /\ starred' = starred /\ selected' = selected
            /\ sync'.pc = "settle" => sync'.file = rows[r].file
        BY <3>2 DEF SavesOver
      <4>3. \A x \in Rows \ {r} : rows[x].file # rows[r].file
        BY <1>2, <4>2, PlanAssumption DEF Distinct
      <4>4. d # NoDoc
        BY PlanAssumption
      <4> QED BY <3>0, <3>2, <4>1, <4>2, <4>3, <4>4 DEF MaybeDocs
    <3>3. CASE p.what = "push" /\ SavesNew(r, new)
      <4>1. PICK f \in FreshIds :
               /\ starred' = starred \cup {f} /\ selected' = selected
               /\ \E d \in Docs : files' = [files EXCEPT ![f] = d]
               /\ new.file \in {rows[r].file, f}
               /\ sync'.pc = "settle" => sync'.file = f /\ new.file = rows[r].file
        BY <3>3 DEF SavesNew
      <4>2. PICK d \in Docs : files' = [files EXCEPT ![f] = d]
        BY <4>1
      <4>3. d # NoDoc /\ f \in Files /\ f # NoFile /\ (\A x \in Rows : rows[x].file # f)
        BY PlanAssumption, FreshIs
      <4>4. files' \in MaybeDocs /\ files'[f] = d /\ \A g : g # f => files'[g] = files[g]
        BY <3>0, <4>2, <4>3 DEF MaybeDocs
      <4> QED BY <1>2, <1>5, <3>0, <3>3, <4>1, <4>3, <4>4
    <3> QED BY <1>5, <3>1, <3>2, <3>3
  <2>3. WalksOn(r)
    BY <1>1, <1>2, <1>3, <1>5, <2>0, <2>1, <2>2 DEF WalksOn
  <2>4. r \in Waiting' => sync'.pc = "settle"
    BY <1>2, <1>5, <2>1 DEF Waiting
  <2>5. KeepsApart(r)
    <3>1. p.what = "held" \/ (p.what \in {"push", "remove", "release"} /\ r \in Waiting') => new.file = p.was.file
      BY <1>2, <2>2, <2>4 DEF FileKept
    <3>2. sync'.held[r] # NoFile => new.file = sync'.held[r] /\ p.what = "held"
      BY <2>0, <2>2
    <3> QED BY <1>3, <2>2, <3>1, <3>2 DEF KeepsApart
  <2>6. KeepsThere(r)
    <3>1. sync.since.touches = spent.touches /\ sync'.held[r] # NoFile => files'[sync'.held[r]] # NoDoc
      <4> SUFFICES ASSUME sync.since.touches = spent.touches, sync'.held[r] # NoFile PROVE files'[sync'.held[r]] # NoDoc
        OBVIOUS
      <4>1. files[sync.held[r]] # NoDoc /\ sync'.held[r] = sync.held[r]
        BY <1>1, <1>2, <1>5 DEF IInv, AsRead, ThereYet
      <4> QED BY <2>0, <2>2, <4>1
    <3>2. r \in Waiting' => p.what # "release"
      BY <2>2, <2>4
    <3> QED BY <1>3, <2>2, <3>1, <3>2 DEF KeepsThere
  <2>7. Dealing'
    BY <1>1, <1>2, <1>5, <2>1, <2>2 DEF Dealing
  <2>8. OfTheList'
    BY <1>1, <2>2, ListSame
  <2> QED BY <1>1, <1>3, <2>3, <2>5, <2>6, <2>7, <2>8, WalkKeepsAll
<1> QED BY <1>4, <1>5 DEF AppliesRow

-----------------------------------------------------------------------------
(* A save that settles, a file let go of.                                   *)

\* The profile dealt with on the machine is none of those still to be dealt with.
LEMMA DealtOnMachine ==
  ASSUME IInv, sync.pc \in {"settle", "remove", "drop"}
  PROVE  /\ Working /\ sync.todo.join = {} /\ sync.todo.take = {} /\ ~sync.offline
         /\ sync.row \in Rows \ (sync.todo.take \cup sync.todo.on \cup sync.todo.off \cup sync.todo.deleted)
         /\ sync.plan[sync.row].what = IF sync.pc = "settle" THEN "push" ELSE "remove"
         /\ sync.plan[sync.row] \in Plans /\ sync \in Syncs /\ sync.todo \in Todos
         /\ sync.pc \in {"settle", "remove"} => sync.file \in Files
         /\ sync.pc = "remove" => /\ sync.file = sync.plan[sync.row].was.file /\ sync.failures < MaxFailures
                                  /\ sync.m.docs[sync.file].brew \in Had(rows[sync.row])
         /\ FilesApart /\ FileKept /\ HeldOK /\ Distinct /\ AsRead
         /\ PlanOK(sync.row)
<1>1. Working
  BY DEF Working
<1> QED BY <1>1, DealtWith, SyncTyped DEF TodoOK, IInv, FilesApart

\* The profile whose save has verified stands on the file it was saved to.
Worked(s) == [s EXCEPT !.pc = "work", !.failures = 0, !.held[s.row] = s.file, !.row = NoRow, !.file = NoFile]
\* A save that settled.
LEMMA WorkedWalks ==
  ASSUME IInv, sync.pc = "settle"
  PROVE  LET s == Worked(sync)
         IN /\ Walks(s) /\ s.pc = "work" /\ s.fresh = sync.fresh /\ s.todo = sync.todo /\ s.failures = 0
            /\ s.held[sync.row] = sync.file
            /\ \A x \in Rows \ {sync.row} : s.held[x] = sync.held[x]
<1> DEFINE s == Worked(sync)
<1>1. sync \in Syncs /\ sync.row \in Rows /\ sync.file \in Files
  BY DealtOnMachine
<1>2. 0 \in 0 .. MaxFailures /\ 0 < MaxFailures
  BY SyncAssumption
<1>3. [sync.held EXCEPT ![sync.row] = sync.file] \in [Rows -> Files \cup {NoFile}]
  BY <1>1, SyncTyped
<1>4. /\ s \in Syncs /\ s.pc = "work" /\ s.fresh = sync.fresh /\ s.todo = sync.todo /\ s.failures = 0
      /\ s.held = [sync.held EXCEPT ![sync.row] = sync.file]
      /\ s.m = sync.m /\ s.plan = sync.plan /\ s.offline = sync.offline /\ s.since = sync.since
  BY <1>1, <1>2, <1>3 DEF Syncs, Worked
<1>5. sync.held \in [Rows -> Files \cup {NoFile}]
  BY <1>1, SyncTyped
<1> HIDE DEF s
<1> QED BY <1>1, <1>2, <1>4, <1>5 DEF Walks, s

\* Settling it, and letting go of a file that was removed, keep the invariant.
LEMMA SettleKeeps ==
  ASSUME IInv, Settle
  PROVE  IInv'
<1> DEFINE r == sync.row
           p == sync.plan[r]
           f == sync.file
           new == Settled(rows[r], p, f)
<1>1. /\ sync.pc = "settle" /\ rows' = [rows EXCEPT ![r] = new]
      /\ mirror' = [mirror EXCEPT ![f] = p.target] /\ sync' = Worked(sync)
      /\ UNCHANGED <<unsafe, resumePending, adopted, paused, machineVars, writes, spent, scene, quiet>>
  BY DEF Settle, Worked
<1>2. /\ Working /\ sync.todo.join = {} /\ sync.todo.take = {} /\ ~sync.offline
      /\ r \in Rows /\ r \notin sync.todo.on /\ r \notin sync.todo.off /\ r \notin sync.todo.deleted
      /\ p.what = "push" /\ p \in Plans /\ f \in Files /\ FileKept /\ HeldOK /\ Distinct /\ FilesApart /\ AsRead /\ PlanOK(r)
  BY <1>1, DealtOnMachine
<1>3. rows[r] \in Profiles /\ RowOK(rows[r]) /\ rows[r].state # "free" /\ p.target.brew \in Asked(rows[r])
  BY <1>2, NowTyped, RowTyped DEF PlanOK, Fits
<1>4. p.target \in Docs
  BY <1>2, PlanIs
<1>5. rows[r].file = p.was.file
  BY <1>1, <1>2 DEF FileKept, Waiting
<1> HIDE DEF p, f, r
<1>6. new = rows[r] \/ new = OnFile(rows[r], f, p.target)
  BY DEF Settled, OnFile
<1>7. new = rows[r] => p.was.file = f \/ new.file = f
  <2>1. p.was.file # f => new = OnFile(rows[r], f, p.target)
    BY DEF Settled, OnFile
  <2>2. OnFile(rows[r], f, p.target).file = f
    BY <1>3 DEF OnFile, Profiles
  <2> QED BY <2>1, <2>2
<1>8. /\ Better(rows[r], OnFile(rows[r], f, p.target)) /\ OnFile(rows[r], f, p.target).file = f
      /\ OnFile(rows[r], f, p.target).pinOf = rows[r].pinOf /\ OnFile(rows[r], f, p.target).state = rows[r].state
  BY <1>2, <1>3, <1>4, FileBetter
<1>9. Better(rows[r], new) /\ new.file = f /\ new.pinOf = rows[r].pinOf /\ new.state = rows[r].state
  BY <1>3, <1>5, <1>6, <1>7, <1>8, SameIsBetter
<1> HIDE DEF new
<1>10. Deals(r, new)
  BY <1>1, <1>9 DEF Deals, r, p, f, new
<1>11. /\ Evolves /\ rows'[r] = new /\ \A x \in Rows : rows'[x].state = rows[x].state
       /\ \A x \in Rows \ {r} : rows'[x] = rows[x]
  BY <1>2, <1>10, DealsIs
<1>12. /\ Walks(sync') /\ sync'.pc = "work" /\ sync'.fresh = sync.fresh /\ sync'.todo = sync.todo /\ sync'.failures = 0
       /\ sync'.held[r] = f /\ \A x \in Rows \ {r} : sync'.held[x] = sync.held[x]
  BY <1>1, WorkedWalks DEF r, f
<1>13. Working' /\ sync'.offline = sync.offline /\ sync'.plan = sync.plan
  BY <1>12, WalkIs DEF Working
<1>14. WalksOn(r)
  BY <1>1, <1>2, <1>11, <1>12, <1>13 DEF WalksOn, p, machineVars
<1>15. r \notin Waiting'
  BY <1>2, <1>12 DEF Waiting
<1>16. KeepsApart(r)
  <2>1. \A x \in Rows \ {r} : rows[x].file # f
    BY <1>1, <1>2 DEF FilesApart, Settling, r, f
  <2> QED BY <1>2, <1>9, <1>11, <1>12, <1>15, <2>1 DEF KeepsApart, p
<1>17. KeepsThere(r)
  <2>1. sync.since.touches = spent.touches => files[f] # NoDoc
    BY <1>1, <1>2 DEF AsRead, ThereYet, f
  <2>2. files' = files
    BY <1>1 DEF machineVars
  <2>3. rows'[r].file = f /\ f # NoFile
    BY <1>2, <1>9, <1>11, PlanAssumption
  <2>4. NobodyActed => files[f] # NoDoc
    BY <2>1 DEF NobodyActed
  <2> HIDE DEF r, f
  <2> QED BY <1>12, <1>15, <2>1, <2>2, <2>3, <2>4 DEF KeepsThere
<1>18. Dealing'
  BY <1>2, <1>12, <1>13 DEF Dealing
<1>19. OfTheList' /\ Calm
  <2>1. mirror' \in MaybeDocs
    BY <1>1, <1>2, <1>4, NowTyped DEF OfTheList, MaybeDocs
  <2> QED BY <1>1, <2>1, NowTyped DEF OfTheList, machineVars, Calm
<1> QED BY <1>2, <1>11, <1>14, <1>16, <1>17, <1>18, <1>19, WalkKeepsAll

LEMMA LetGoKeeps ==
  ASSUME IInv, LetGo
  PROVE  IInv'
<1> DEFINE r == sync.row
           p == sync.plan[r]
           new == Release(rows[r])
           s == [sync EXCEPT !.pc = "work", !.row = NoRow, !.file = NoFile, !.blocked = FALSE]
<1>1. /\ sync.pc = "drop" /\ rows' = [rows EXCEPT ![r] = new]
      /\ mirror' = (IF sync.file = NoFile THEN mirror ELSE [mirror EXCEPT ![sync.file] = NoDoc])
      /\ sync' = s
      /\ UNCHANGED <<unsafe, resumePending, adopted, paused, machineVars, writes, spent, scene, quiet>>
  BY DEF LetGo
<1>2. /\ Working /\ sync.todo.join = {} /\ sync.todo.take = {} /\ ~sync.offline
      /\ r \in Rows /\ r \notin sync.todo.on /\ r \notin sync.todo.off /\ r \notin sync.todo.deleted
      /\ p.what = "remove" /\ FileKept /\ HeldOK /\ Distinct /\ FilesApart /\ AsRead /\ sync \in Syncs
  BY <1>1, DealtOnMachine
<1>3. rows[r] \in Profiles /\ RowOK(rows[r])
  BY <1>2, NowTyped, RowTyped
<1>4. Better(rows[r], new) /\ new.file = NoFile /\ new.pinOf = rows[r].pinOf /\ new.state = rows[r].state
  BY <1>3, ReleaseBetter
<1>5. Deals(r, new)
  BY <1>1, <1>4 DEF Deals
<1> HIDE DEF new
<1>6. /\ Evolves /\ rows'[r] = new /\ \A x \in Rows : rows'[x].state = rows[x].state
      /\ \A x \in Rows \ {r} : rows'[x] = rows[x]
  BY <1>2, <1>5, DealsIs
<1>7. /\ s \in Syncs /\ s.m = sync.m /\ s.plan = sync.plan /\ s.offline = sync.offline /\ s.since = sync.since
      /\ s.todo = sync.todo /\ s.failures = sync.failures /\ s.held = sync.held /\ s.fresh = sync.fresh
      /\ s.pc = "work"
  BY <1>2 DEF Syncs
<1> HIDE DEF s
<1>8. Walks(s)
  <2>1. sync.todo.take \cup sync.todo.on \cup sync.todo.off \cup sync.todo.deleted # {} => sync.failures < MaxFailures
    BY <1>2, DealtWith DEF TodoOK
  <2> QED BY <1>7, <2>1 DEF Walks
<1>9. Working' /\ sync'.offline = sync.offline /\ sync'.plan = sync.plan
  BY <1>1, <1>7 DEF Working
<1>10. WalksOn(r)
  BY <1>1, <1>2, <1>6, <1>7, <1>8, <1>9 DEF WalksOn, machineVars
<1>11. r \notin Waiting'
  BY <1>1, <1>2, <1>7 DEF Waiting
<1>12. sync'.held[r] = NoFile
  BY <1>1, <1>2, <1>7 DEF HeldOK
<1>13. KeepsApart(r)
  BY <1>1, <1>2, <1>4, <1>6, <1>7, <1>11, <1>12 DEF KeepsApart
<1>14. KeepsThere(r)
  <2>1. ASSUME NobodyActed, TookNone', rows[r].state = "live" PROVE FALSE
    <3>1. p.was.deleted \/ r \in sync'.todo.off
      BY <1>2, <1>9, <2>1 DEF TookNone
    <3>2. p.was.deleted => rows[r].state = "deleted"
      BY <1>2, <2>1 DEF AsRead, DeletedYet, NobodyActed
    <3> QED BY <1>1, <1>2, <1>7, <2>1, <3>1, <3>2
  <2> QED BY <1>1, <1>7, <1>11, <1>12, <2>1 DEF KeepsThere
<1>15. Dealing'
  BY <1>1, <1>2, <1>7 DEF Dealing
<1>16. OfTheList' /\ Calm
  <2>1. mirror' \in MaybeDocs
    <3>1. mirror \in MaybeDocs /\ sync.file \in Files \cup {NoFile}
      BY <1>2, NowTyped, SyncTyped DEF OfTheList
    <3> QED BY <1>1, <3>1 DEF MaybeDocs
  <2> QED BY <1>1, <2>1, NowTyped DEF OfTheList, machineVars, Calm
<1> QED BY <1>2, <1>6, <1>10, <1>13, <1>14, <1>15, <1>16, WalkKeepsAll

-----------------------------------------------------------------------------
(* A profile that is off, and a deleted row.                                *)

\* A profile that is off, or a deleted row, is dealt with, or asked about before its file is removed.
DealsOff(r, new) ==
  /\ Deals(r, new) /\ sync.pc = "work" /\ sync.todo.join = {} /\ sync.todo.take = {} /\ sync.todo.on = {}
  /\ r \in sync.todo.off \/ (sync.todo.off = {} /\ r \in sync.todo.deleted)
  /\ Walks(sync') /\ sync'.held = sync.held /\ sync'.fresh = sync.fresh /\ sync'.pc \in {"work", "remove"}
  /\ r \notin sync'.todo.off /\ r \notin sync'.todo.deleted
  /\ \/ new.file = rows[r].file
     \/ new.file = NoFile /\ sync.plan[r].what = "release"
  /\ sync'.pc = "remove" =>
       /\ sync'.row = r /\ sync.plan[r].what = "remove" /\ sync'.file = sync.plan[r].was.file
       /\ sync'.failures < MaxFailures /\ new.file = rows[r].file
       /\ sync.m.docs[sync.plan[r].was.file].brew \in Had(new)
  /\ UNCHANGED <<unsafe, resumePending, adopted, paused, mirror, writes>>
  /\ UNCHANGED <<machineVars, spent, scene, quiet>>

\* Dealing with a profile that is off keeps the invariant.
LEMMA DealsOffKeeps ==
  ASSUME IInv, NEW r, NEW new, DealsOff(r, new)
  PROVE  IInv'
<1> DEFINE p == sync.plan[r]
<1>1. /\ Working /\ sync.todo.join = {} /\ sync.todo.take = {} /\ sync.todo.on = {}
      /\ Deals(r, new) /\ Walks(sync')
      /\ sync'.held = sync.held /\ sync'.fresh = sync.fresh /\ sync'.pc \in {"work", "remove"}
      /\ UNCHANGED <<unsafe, resumePending, adopted, paused, mirror, writes>>
      /\ UNCHANGED <<machineVars, spent, scene, quiet>>
  BY DEF DealsOff, Working
<1>2. /\ r \in Rows /\ p.what \notin {"none", "attached"} /\ ~sync.offline /\ FilesApart /\ FileKept /\ HeldOK /\ AsRead
      /\ r \in Waiting /\ PlanOK(r) /\ p \in Plans
  BY <1>1, DealtWith DEF DealsOff, IInv, FilesApart, Waiting
<1>3. /\ Evolves /\ rows'[r] = new /\ \A x \in Rows : rows'[x].state = rows[x].state
      /\ \A x \in Rows \ {r} : rows'[x] = rows[x]
  BY <1>1, <1>2, DealsIs
<1>4. /\ Working' /\ sync'.plan = sync.plan /\ sync'.m = sync.m /\ sync'.offline = sync.offline
      /\ sync'.todo.join = {} /\ sync'.todo.take = {} /\ sync'.todo.on = {} /\ sync'.since = sync.since
      /\ sync'.todo.off \subseteq sync.todo.off /\ sync'.todo.deleted \subseteq sync.todo.deleted
  BY <1>1, WalkIs DEF Working
<1>5. sync'.pc = "remove" =>
       /\ sync'.row = r /\ p.what = "remove" /\ sync'.file = p.was.file
       /\ sync'.failures < MaxFailures /\ new.file = rows[r].file
       /\ sync.m.docs[p.was.file].brew \in Had(new)
  BY DEF DealsOff
<1>6. r \notin sync'.todo.off /\ r \notin sync'.todo.deleted /\ r \notin sync'.todo.on /\ r \notin sync'.todo.take
  BY <1>4 DEF DealsOff
<1>7. r \in Waiting' => sync'.pc = "remove"
  BY <1>1, <1>6 DEF Waiting
<1>8. new.file = rows[r].file \/ (new.file = NoFile /\ p.what = "release")
  BY DEF DealsOff
<1>9. WalksOn(r)
  BY <1>1, <1>2, <1>3, <1>4, <1>5 DEF WalksOn, machineVars
<1>10. sync'.held[r] # NoFile =>
         /\ rows[r].file = sync'.held[r] /\ p.what \in {"held", "push"}
  BY <1>1, <1>2 DEF HeldOK
<1>11. KeepsApart(r)
  <2>1. p.what = "held" \/ (p.what \in {"push", "remove", "release"} /\ r \in Waiting') => new.file = p.was.file
    BY <1>2, <1>5, <1>7, <1>8 DEF FileKept
  <2>2. sync'.held[r] # NoFile =>
          /\ new.file = sync'.held[r]
          /\ p.what = "held" \/ (p.what = "push" /\ r \notin sync'.todo.on)
    BY <1>6, <1>8, <1>10
  <2> HIDE DEF p
  <2> QED BY <1>1, <1>3, <1>8, <2>1, <2>2 DEF KeepsApart, p
<1>12. KeepsThere(r)
  <2>1. sync.since.touches = spent.touches /\ sync'.held[r] # NoFile => files[sync'.held[r]] # NoDoc
    <3> SUFFICES ASSUME sync.since.touches = spent.touches, sync'.held[r] # NoFile PROVE files[sync'.held[r]] # NoDoc
      OBVIOUS
    <3> QED BY <1>1, <1>2 DEF AsRead, ThereYet
  <2>2. r \in Waiting' => p.what # "release"
    BY <1>5, <1>7
  <2>3. sync.since.touches = spent.touches /\ p.what = "release" => files[rows[r].file] = NoDoc
    BY <1>1, <1>2 DEF AsRead, ThereYet, FileKept
  <2>4. NobodyActed /\ rows[r].file # NoFile /\ files[rows[r].file] # NoDoc => new.file = rows[r].file
    BY <1>8, <2>3 DEF NobodyActed
  <2>5. files' = files /\ rows'[r].file \in {rows[r].file, NoFile}
    BY <1>1, <1>3, <1>8 DEF machineVars
  <2> HIDE DEF p
  <2> QED BY <1>1, <1>3, <2>1, <2>2, <2>4, <2>5 DEF KeepsThere, p
<1>13. Dealing'
  <2>1. sync'.pc = "remove" => p.was.file \in Files
    BY <1>2, <1>5 DEF PlanOK, Fits
  <2> QED BY <1>1, <1>2, <1>3, <1>4, <1>5, <1>6, <2>1 DEF Dealing
<1>14. OfTheList' /\ Calm
  BY <1>1, NowTyped DEF OfTheList, machineVars, Calm
<1> QED BY <1>1, <1>3, <1>9, <1>11, <1>12, <1>13, <1>14, WalkKeepsAll

\* A profile whose file is to be removed, unless it is blocked.
AskAbout(s, r, f, b) == [s EXCEPT !.pc = "remove", !.row = r, !.file = f, !.blocked = b]
\* Asking about a removal is a step of the walk.
LEMMA AskWalks ==
  ASSUME NEW s, Walks(s), NEW r \in Rows, NEW f \in Files, NEW b \in BOOLEAN
  PROVE  LET a == AskAbout(s, r, f, b)
         IN /\ Walks(a) /\ a.pc = "remove" /\ a.row = r /\ a.file = f /\ a.held = s.held /\ a.fresh = s.fresh
            /\ a.todo = s.todo /\ a.failures = s.failures
<1> DEFINE a == AskAbout(s, r, f, b)
<1>1. /\ a \in Syncs /\ a.pc = "remove" /\ a.row = r /\ a.file = f /\ a.held = s.held /\ a.fresh = s.fresh
      /\ a.todo = s.todo /\ a.failures = s.failures
      /\ a.m = s.m /\ a.plan = s.plan /\ a.offline = s.offline /\ a.since = s.since
  BY DEF Walks, AskAbout, Syncs
<1> HIDE DEF a
<1> QED BY <1>1 DEF Walks, a

\* What Ask comes to.
LEMMA AskDealsOff ==
  ASSUME IInv, sync.pc = "work", sync.todo.join = {}, sync.todo.take = {}, sync.todo.on = {},
         NEW r \in Rows, r \in sync.todo.off \/ (sync.todo.off = {} /\ r \in sync.todo.deleted),
         NEW done, Walks(done), Same(done, sync), r \notin done.todo.off, r \notin done.todo.deleted,
         done.failures < MaxFailures,
         sync.plan[r].what = "remove", Ask(r, done),
         UNCHANGED <<unsafe, resumePending, adopted, paused, mirror, writes>>
  PROVE  DealsOff(r, Recorded(r))
<1> DEFINE p == sync.plan[r]
           row == Recorded(r)
           b == \/ StoodOn(sync.plan[r].was.file, r)
                \/ IF sync.plan[r].was.deleted THEN rows[r].state # "deleted"
                   ELSE ~(rows[r].state = "live" /\ ~rows[r].on)
<1>1. Working /\ Fits(p, r, sync.m.docs) /\ p \in Plans
  <2>1. Working
    BY DEF Working
  <2> QED BY <2>1, DealtWith DEF PlanOK
<1>2. p.was.file \in Files
  BY <1>1 DEF Fits
<1>3. /\ Better(rows[r], row) /\ row.state = rows[r].state /\ row.pinOf = rows[r].pinOf /\ row.file = rows[r].file
      /\ p.edited => sync.m.docs[p.was.file].brew \in Had(row)
  BY <1>1, RecordedBetter
<1>4. sync.m.docs[p.was.file].brew \in Had(row)
  BY <1>1, <1>3 DEF Fits, Better
<1>5. /\ rows' = [rows EXCEPT ![r] = row] /\ sync' = AskAbout(done, r, p.was.file, b)
      /\ UNCHANGED <<machineVars, spent, scene, quiet>>
  BY DEF Ask, AskAbout
<1>6. b \in BOOLEAN
  OBVIOUS
<1> HIDE DEF b, row
<1>7. /\ Walks(sync') /\ sync'.pc = "remove" /\ sync'.row = r /\ sync'.file = p.was.file /\ sync'.held = done.held
      /\ sync'.fresh = done.fresh /\ sync'.todo = done.todo /\ sync'.failures = done.failures
  BY <1>2, <1>5, <1>6, AskWalks
<1>8. Deals(r, row)
  BY <1>3, <1>5 DEF Deals
<1> QED BY <1>3, <1>4, <1>5, <1>7, <1>8 DEF DealsOff, Same, row

\* Every branch for a profile that is off comes to that.
LEMMA ApplyOffDoes ==
  ASSUME IInv, ApplyOff
  PROVE  \E r, new : DealsOff(r, new)
<1> DEFINE r == NextOf(4, NoRow)
           p == sync.plan[r]
           done == Done(sync, 4, r)
<1>1. /\ sync.pc = "work" /\ sync.todo.join = {} /\ sync.todo.take = {} /\ sync.todo.on = {} /\ r \in sync.todo.off
      /\ Working /\ UNCHANGED <<unsafe, resumePending, adopted, paused, mirror, writes>>
  BY AtIs, NextIs DEF ApplyOff, Working
<1>2. /\ r \in Rows /\ p.what \notin {"none", "attached"} /\ ~p.was.deleted /\ r \notin sync.todo.deleted
      /\ sync.failures < MaxFailures
  BY <1>1, DealtWith DEF TodoOK
<1>3. /\ Walks(done) /\ Same(done, sync) /\ done.failures < MaxFailures
      /\ r \notin done.todo.off /\ r \notin done.todo.deleted
  <2>1. Walks(done) /\ Same(done, sync) /\ done.failures = sync.failures /\ r \notin done.todo.off
    BY <1>1, DoneWalks
  <2> QED BY <1>2, <2>1, WalkIs
<1>4. rows[r] \in Profiles /\ RowOK(rows[r])
  BY <1>2, NowTyped, RowTyped
<1>5. ASSUME NEW new, Deals(r, new), sync' = done, UNCHANGED <<machineVars, spent, scene, quiet>>,
             new.file = rows[r].file \/ (new.file = NoFile /\ p.what = "release")
      PROVE  DealsOff(r, new)
  BY <1>1, <1>3, <1>5 DEF DealsOff, Same
<1> HIDE DEF done
<1>6. CASE p.what = "conflict" /\ KeepBoth(r) /\ sync' = done
  <2>1. PICK new : Deals(r, new) /\ new.file = rows[r].file
    BY <1>1, <1>2, <1>6, KeepBothDeals
  <2>2. UNCHANGED <<machineVars, spent, scene, quiet>>
    BY <1>6 DEF KeepBoth
  <2> QED BY <1>5, <1>6, <2>1, <2>2
<1>7. CASE /\ p.what = "release" /\ rows' = [rows EXCEPT ![r] = Release(rows[r])]
           /\ sync' = done /\ UNCHANGED <<machineVars, spent, scene, quiet>>
  <2>1. Deals(r, Release(rows[r])) /\ Release(rows[r]).file = NoFile
    BY <1>4, <1>7, ReleaseBetter DEF Deals
  <2> QED BY <1>5, <1>7, <2>1
<1>8. CASE /\ p.what \notin {"conflict", "remove", "release"} /\ rows' = [rows EXCEPT ![r] = Recorded(r)]
           /\ sync' = done /\ UNCHANGED <<machineVars, spent, scene, quiet>>
  <2>1. Deals(r, Recorded(r)) /\ Recorded(r).file = rows[r].file
    BY <1>1, <1>2, <1>8, RecordedBetter DEF Deals
  <2> QED BY <1>5, <1>8, <2>1
<1>9. CASE p.what = "remove" /\ Ask(r, done)
  BY <1>1, <1>2, <1>3, <1>9, AskDealsOff
<1>10. \/ p.what = "conflict" /\ KeepBoth(r) /\ sync' = done
       \/ /\ p.what = "release" /\ rows' = [rows EXCEPT ![r] = Release(rows[r])]
          /\ sync' = done /\ UNCHANGED <<machineVars, spent, scene, quiet>>
       \/ /\ p.what \notin {"conflict", "remove", "release"} /\ rows' = [rows EXCEPT ![r] = Recorded(r)]
          /\ sync' = done /\ UNCHANGED <<machineVars, spent, scene, quiet>>
       \/ p.what = "remove" /\ Ask(r, done)
  BY DEF ApplyOff, done
<1> QED BY <1>6, <1>7, <1>8, <1>9, <1>10

\* A deleted row's file that changed at the machine is kept, and what it holds was chosen here.
Chosen(row, brew) == [row EXCEPT !.chosen = @ \cup {brew}]
\* Only what was chosen changes.
LEMMA ChosenIs ==
  ASSUME NEW row \in Profiles, NEW brew \in Brews
  PROVE  LET new == Chosen(row, brew)
         IN /\ new \in Profiles /\ new.file = row.file /\ new.pinOf = row.pinOf /\ new.state = row.state
            /\ new.listed = row.listed /\ new.found = row.found /\ new.current = row.current
            /\ new.overruled = row.overruled /\ new.recorded = row.recorded /\ new.chosen = row.chosen \cup {brew}
BY DEF Chosen, Profiles

\* A deleted row's changed file is left, and its brew kept.
LEMMA LeftFile ==
  ASSUME IInv, Working, NEW r \in Rows, sync.plan[r].what = "leave", sync.plan[r].edited
  PROVE  LET new == Chosen(Recorded(r), Recorded(r).recorded.brew)
         IN /\ Better(rows[r], new) /\ new.file = rows[r].file /\ new.pinOf = rows[r].pinOf
            /\ new.state = rows[r].state
<1> DEFINE p == sync.plan[r]
           seen == sync.m.docs[p.was.file]
           kept == Keep(rows[r], seen.brew)
           new == Chosen(Recorded(r), Recorded(r).recorded.brew)
<1>1. Fits(p, r, sync.m.docs) /\ rows[r] \in Profiles /\ RowOK(rows[r]) /\ sync.m.docs \in MaybeDocs
  BY NowTyped, RowTyped, SyncTyped DEF SyncOK, PlanOK
<1>2. rows[r].state # "free" /\ seen \in Docs /\ seen # NoDoc
  BY <1>1 DEF Fits, MaybeDocs
<1>3. /\ Better(rows[r], kept) /\ Had(kept) = Had(rows[r]) \cup {seen.brew}
      /\ kept = [rows[r] EXCEPT !.found = kept.found] /\ kept.found \in SUBSET Brews /\ seen.brew \in Brews
  BY <1>1, <1>2, KeepBetter DEF Docs
<1>4. Recorded(r) = [kept EXCEPT !.recorded = seen]
  BY DEF Recorded
<1> HIDE DEF kept, seen
<1>a. /\ kept \in Profiles /\ kept.file = rows[r].file /\ kept.pinOf = rows[r].pinOf /\ kept.state = rows[r].state
      /\ kept.listed = rows[r].listed /\ kept.current = rows[r].current
      /\ kept.overruled = rows[r].overruled /\ kept.chosen = rows[r].chosen
  BY <1>1, <1>3 DEF Profiles
<1> DEFINE row == Recorded(r)
<1>b. /\ row \in Profiles /\ row.file = kept.file /\ row.pinOf = kept.pinOf /\ row.state = kept.state
      /\ row.listed = kept.listed /\ row.found = kept.found /\ row.current = kept.current
      /\ row.overruled = kept.overruled /\ row.recorded = seen /\ row.chosen = kept.chosen
  BY <1>2, <1>a, <1>4 DEF Profiles
<1> HIDE DEF row
<1>6. new = Chosen(row, seen.brew)
  BY <1>b DEF row
<1>7. /\ new \in Profiles /\ new.file = rows[r].file /\ new.pinOf = rows[r].pinOf /\ new.state = rows[r].state
      /\ new.listed = rows[r].listed /\ new.found = kept.found /\ new.current = rows[r].current
      /\ new.overruled = rows[r].overruled /\ new.recorded = seen /\ new.chosen = rows[r].chosen \cup {seen.brew}
  BY <1>3, <1>6, <1>a, <1>b, ChosenIs
<1> HIDE DEF new
<1>8. Had(new) = Had(rows[r]) \cup {seen.brew}
  BY <1>3, <1>7, <1>a DEF Had
<1>9. RowOK(new)
  <2>1. Asked(rows[r]) \subseteq Asked(new) /\ seen.brew \in Asked(new)
    BY <1>7, <1>8 DEF Asked
  <2> QED BY <1>1, <1>2, <1>7, <2>1 DEF RowOK
<1>10. Better(rows[r], new)
  BY <1>2, <1>7, <1>8, <1>9 DEF Better
<1> QED BY <1>7, <1>10 DEF new

\* Every branch for a deleted row comes to that.
LEMMA ApplyDeletedDoes ==
  ASSUME IInv, ApplyDeleted
  PROVE  \E r, new : DealsOff(r, new)
<1> DEFINE r == NextOf(5, NoRow)
           p == sync.plan[r]
           done == Done(sync, 5, r)
<1>1. /\ sync.pc = "work" /\ sync.todo.join = {} /\ sync.todo.take = {} /\ sync.todo.on = {} /\ sync.todo.off = {}
      /\ r \in sync.todo.deleted
      /\ Working /\ UNCHANGED <<unsafe, resumePending, adopted, paused, mirror, writes>>
  BY AtIs, NextIs DEF ApplyDeleted, Working
<1>2. /\ r \in Rows /\ p.was.deleted /\ p.what \in {"release", "remove", "leave"} /\ (p.what = "leave" => p.edited)
      /\ sync.failures < MaxFailures
  BY <1>1, DealtWith DEF TodoOK
<1>3. /\ Walks(done) /\ Same(done, sync) /\ done.failures < MaxFailures
      /\ r \notin done.todo.off /\ r \notin done.todo.deleted
  <2>1. Walks(done) /\ Same(done, sync) /\ done.failures = sync.failures /\ r \notin done.todo.deleted
    BY <1>1, DoneWalks
  <2> QED BY <1>1, <1>2, <2>1, WalkIs
<1>4. rows[r] \in Profiles /\ RowOK(rows[r])
  BY <1>2, NowTyped, RowTyped
<1>5. ASSUME NEW new, Deals(r, new), sync' = done, UNCHANGED <<machineVars, spent, scene, quiet>>,
             new.file = rows[r].file \/ (new.file = NoFile /\ p.what = "release")
      PROVE  DealsOff(r, new)
  BY <1>1, <1>3, <1>5 DEF DealsOff, Same
<1> HIDE DEF done
<1>6. CASE /\ rows' = [rows EXCEPT ![r] = rows[r]]
           /\ sync' = done /\ UNCHANGED <<machineVars, spent, scene, quiet>>
  <2>1. Deals(r, rows[r])
    BY <1>4, <1>6, SameIsBetter DEF Deals
  <2> QED BY <1>5, <1>6, <2>1
<1>7. CASE /\ p.what = "release" /\ rows' = [rows EXCEPT ![r] = Release(rows[r])]
           /\ sync' = done /\ UNCHANGED <<machineVars, spent, scene, quiet>>
  <2>1. Deals(r, Release(rows[r])) /\ Release(rows[r]).file = NoFile
    BY <1>4, <1>7, ReleaseBetter DEF Deals
  <2> QED BY <1>5, <1>7, <2>1
<1>8. CASE /\ p.what = "leave" /\ rows' = [rows EXCEPT ![r] = Chosen(Recorded(r), Recorded(r).recorded.brew)]
           /\ sync' = done /\ UNCHANGED <<machineVars, spent, scene, quiet>>
  <2> DEFINE new == Chosen(Recorded(r), Recorded(r).recorded.brew)
  <2>1. Better(rows[r], new) /\ new.file = rows[r].file /\ new.pinOf = rows[r].pinOf /\ new.state = rows[r].state
    BY <1>1, <1>2, <1>8, LeftFile
  <2> HIDE DEF new
  <2>2. Deals(r, new)
    BY <1>8, <2>1 DEF Deals, new
  <2> QED BY <1>5, <1>8, <2>1, <2>2
<1>9. CASE p.what = "remove" /\ Ask(r, done)
  BY <1>1, <1>2, <1>3, <1>9, AskDealsOff
<1>10. \/ /\ rows' = [rows EXCEPT ![r] = rows[r]]
          /\ sync' = done /\ UNCHANGED <<machineVars, spent, scene, quiet>>
       \/ /\ p.what = "release" /\ rows' = [rows EXCEPT ![r] = Release(rows[r])]
          /\ sync' = done /\ UNCHANGED <<machineVars, spent, scene, quiet>>
       \/ /\ p.what = "leave" /\ rows' = [rows EXCEPT ![r] = Chosen(Recorded(r), Recorded(r).recorded.brew)]
          /\ sync' = done /\ UNCHANGED <<machineVars, spent, scene, quiet>>
       \/ p.what = "remove" /\ Ask(r, done)
  BY DEF ApplyDeleted, done, Chosen
<1> QED BY <1>6, <1>7, <1>8, <1>9, <1>10

-----------------------------------------------------------------------------
(* A removal.                                                               *)

\* The profile whose file takes the selection over, as it is held by now.
SuccessorsFile ==
  LET p == sync.plan[sync.row] IN IF p.successor = NoRow THEN NoFile ELSE sync.held[p.successor]

\* What a removal does to the machine: nothing, or the file the plan read goes, the selection first.
TakesOff(f) ==
  /\ files[f] # NoDoc /\ files[f] = sync.m.docs[f]
  /\ selected = f => SuccessorsFile \notin {NoFile, f}
  /\ selected' = (IF selected = f THEN SuccessorsFile ELSE selected)
  /\ \/ files' = [files EXCEPT ![f] = NoDoc] /\ starred' = starred \ {f}
     \/ UNCHANGED <<files, starred>>

\* A removal, with whatever may fail of it.
Removes ==
  /\ sync.pc = "remove" /\ Walks(sync') /\ sync'.held = sync.held /\ sync'.fresh = sync.fresh
  /\ sync'.pc \in {"work", "drop"} /\ (sync'.pc = "drop" => sync'.row = sync.row)
  /\ UNCHANGED machineVars \/ TakesOff(sync.file)
  /\ Calm /\ spent'.people = spent.people /\ spent'.touches = spent.touches
  /\ UNCHANGED <<listVars, mirror, writes>>

\* The sync after a removal that did not take place, that was not needed, that did, that failed.
Over(s) == [s EXCEPT !.pc = "work", !.row = NoRow, !.file = NoFile, !.blocked = FALSE]
Gone(s) == [s EXCEPT !.pc = "drop", !.file = NoFile]
TakenOff(s) == [s EXCEPT !.pc = "drop", !.failures = 0, !.wrote = TRUE]
Tried(s, b) == [s EXCEPT !.wrote = b]

\* Standing still is a step of the walk, and so is each end of a removal.
LEMMA SelfWalks ==
  ASSUME IInv, Working
  PROVE  Walks(sync)
BY DealtWith DEF Walks, TodoOK

LEMMA RemovalWalks ==
  ASSUME NEW s, Walks(s)
  PROVE  /\ Walks(Over(s)) /\ Over(s).pc = "work" /\ Over(s).held = s.held /\ Over(s).fresh = s.fresh
         /\ Over(s).todo = s.todo /\ Over(s).failures = s.failures
         /\ Walks(Gone(s)) /\ Gone(s).pc = "drop" /\ Gone(s).held = s.held /\ Gone(s).fresh = s.fresh
         /\ Gone(s).row = s.row
         /\ Walks(TakenOff(s)) /\ TakenOff(s).pc = "drop" /\ TakenOff(s).held = s.held
         /\ TakenOff(s).fresh = s.fresh /\ TakenOff(s).row = s.row
         /\ \A b \in BOOLEAN : /\ Walks(Tried(s, b)) /\ Same(Tried(s, b), s) /\ Tried(s, b).todo = s.todo
                               /\ Tried(s, b).failures = s.failures
<1>0. 0 \in 0 .. MaxFailures /\ 0 < MaxFailures
  BY SyncAssumption
<1>1. /\ Over(s) \in Syncs /\ Over(s).pc = "work" /\ Over(s).held = s.held /\ Over(s).fresh = s.fresh
      /\ Over(s).todo = s.todo /\ Over(s).failures = s.failures
      /\ Over(s).m = s.m /\ Over(s).plan = s.plan /\ Over(s).offline = s.offline /\ Over(s).since = s.since
  BY DEF Walks, Syncs, Over
<1>2. Walks(Over(s))
  <2> HIDE DEF Over
  <2> QED BY <1>1 DEF Walks
<1>3. /\ Gone(s) \in Syncs /\ Gone(s).pc = "drop" /\ Gone(s).held = s.held /\ Gone(s).fresh = s.fresh
      /\ Gone(s).todo = s.todo /\ Gone(s).failures = s.failures /\ Gone(s).row = s.row
      /\ Gone(s).m = s.m /\ Gone(s).plan = s.plan /\ Gone(s).offline = s.offline /\ Gone(s).since = s.since
  BY DEF Walks, Syncs, Gone
<1>4. Walks(Gone(s))
  <2> HIDE DEF Gone
  <2> QED BY <1>3 DEF Walks
<1>5. /\ TakenOff(s) \in Syncs /\ TakenOff(s).pc = "drop" /\ TakenOff(s).held = s.held /\ TakenOff(s).fresh = s.fresh
      /\ TakenOff(s).todo = s.todo /\ TakenOff(s).failures = 0 /\ TakenOff(s).row = s.row
      /\ TakenOff(s).m = s.m /\ TakenOff(s).plan = s.plan /\ TakenOff(s).offline = s.offline
      /\ TakenOff(s).since = s.since
  BY <1>0 DEF Walks, Syncs, TakenOff
<1>6. Walks(TakenOff(s))
  <2> HIDE DEF TakenOff
  <2> QED BY <1>0, <1>5 DEF Walks
<1>7. ASSUME NEW b \in BOOLEAN
      PROVE /\ Tried(s, b) \in Syncs /\ Same(Tried(s, b), s) /\ Tried(s, b).todo = s.todo
            /\ Tried(s, b).failures = s.failures /\ Tried(s, b).m = s.m /\ Tried(s, b).plan = s.plan
            /\ Tried(s, b).offline = s.offline /\ Tried(s, b).since = s.since
  BY DEF Walks, Syncs, Tried, Same
<1>8. ASSUME NEW b \in BOOLEAN PROVE Walks(Tried(s, b))
  <2> HIDE DEF Tried
  <2> QED BY <1>7 DEF Walks
<1> QED BY <1>1, <1>2, <1>3, <1>4, <1>5, <1>6, <1>7, <1>8

\* Every branch of a removal comes to that.
LEMMA RemoveDoes ==
  ASSUME IInv, Remove
  PROVE  Removes
<1> DEFINE f == sync.file
           over == Over(sync)
<1>1. sync.pc = "remove" /\ UNCHANGED <<listVars, mirror, writes>>
  BY DEF Remove
<1>2. /\ Working /\ sync.failures < MaxFailures /\ sync.todo.take = {} /\ sync \in Syncs
  BY <1>1, DealtOnMachine
<1>3. Walks(sync)
  BY <1>2, SelfWalks
<1> DEFINE Off(s) == /\ Walks(s) /\ s.held = sync.held /\ s.fresh = sync.fresh
                     /\ s.pc \in {"work", "drop"} /\ (s.pc = "drop" => s.row = sync.row)
<1>4. /\ Walks(over) /\ over.pc = "work" /\ over.held = sync.held /\ over.fresh = sync.fresh
      /\ over.todo = sync.todo /\ over.failures = sync.failures
      /\ Off(over) /\ Off(Gone(sync)) /\ Off(TakenOff(sync))
  BY <1>3, RemovalWalks
<1> HIDE DEF over
<1>5. Off(Failed(over))
  BY <1>2, <1>4, FailedWalks DEF Same
<1>6. ASSUME NEW b \in BOOLEAN PROVE Off(Failed(Tried(over, b)))
  <2>1. /\ Walks(Tried(over, b)) /\ Same(Tried(over, b), over) /\ Tried(over, b).todo = over.todo
        /\ Tried(over, b).failures = over.failures
    BY <1>4, RemovalWalks
  <2> QED BY <1>2, <1>4, <2>1, FailedWalks DEF Same
<1>7. Sound \/ Faulty => Calm /\ spent'.people = spent.people /\ spent'.touches = spent.touches
  BY SoundIsCalm, FaultyIsCalm
<1>8. \/ Sound /\ UNCHANGED machineVars /\ sync' \in {Gone(sync), over, Failed(over)}
      \/ Sound /\ TakesOff(f) /\ sync' = TakenOff(sync)
      \/ Faulty /\ sync' = Failed(over) /\ UNCHANGED machineVars
      \/ Faulty /\ TakesOff(f) /\ sync' = Failed(Tried(over, over.wrote \/ selected = f))
  <2> DEFINE p == sync.plan[sync.row]
             successor == IF p.successor = NoRow THEN NoFile ELSE sync.held[p.successor]
             stays == MustStay(f, successor)
             over2 == [sync EXCEPT !.pc = "work", !.row = NoRow, !.file = NoFile, !.blocked = FALSE]
             Carry == selected' = IF selected = f THEN successor ELSE selected
             Drop == files' = [files EXCEPT ![f] = NoDoc] /\ starred' = starred \ {f}
  <2>1. \/ /\ files[f] = NoDoc /\ Sound /\ UNCHANGED machineVars
           /\ sync' = [sync EXCEPT !.pc = "drop", !.file = NoFile]
        \/ files[f] # NoDoc /\ stays /\ sync' = over2 /\ Sound /\ UNCHANGED machineVars
        \/ /\ files[f] # NoDoc /\ ~stays /\ ~writes
           /\ sync' = Failed(over2) /\ Sound /\ UNCHANGED machineVars
        \/ /\ files[f] # NoDoc /\ ~stays /\ writes
           /\ Carry /\ Drop /\ Sound
           /\ sync' = [sync EXCEPT !.pc = "drop", !.failures = 0, !.wrote = TRUE]
        \/ Faulty /\ sync' = Failed(over2) /\ UNCHANGED machineVars
        \/ /\ files[f] # NoDoc /\ ~stays /\ writes /\ Faulty
           /\ Carry
           /\ Drop \/ UNCHANGED <<files, starred>>
           /\ sync' = Failed([over2 EXCEPT !.wrote = @ \/ selected = f])
    BY DEF Remove
  <2>2. over2 = over /\ successor = SuccessorsFile
    BY DEF Over, over, SuccessorsFile
  <2>3. [over2 EXCEPT !.wrote = @ \/ selected = f] = Tried(over, over.wrote \/ selected = f)
    BY <2>2 DEF Tried
  <2>4. [sync EXCEPT !.pc = "drop", !.file = NoFile] = Gone(sync)
        /\ [sync EXCEPT !.pc = "drop", !.failures = 0, !.wrote = TRUE] = TakenOff(sync)
    BY DEF Gone, TakenOff
  <2>5. files[f] # NoDoc /\ ~stays /\ Carry /\ (Drop \/ UNCHANGED <<files, starred>>) => TakesOff(f)
    BY <2>2 DEF MustStay, TakesOff
  <2> HIDE DEF over2, stays, Carry, Drop, successor, p, f
  <2> QED BY <2>1, <2>2, <2>3, <2>4, <2>5
<1>9. (over.wrote \/ selected = f) \in BOOLEAN
  OBVIOUS
<1>10. Off(sync') /\ (UNCHANGED machineVars \/ TakesOff(f)) /\ (Sound \/ Faulty)
  <2> HIDE DEF Off
  <2> QED BY <1>4, <1>5, <1>6, <1>8, <1>9
<1> QED BY <1>1, <1>7, <1>10 DEF Removes

\* A removal keeps the invariant.
LEMMA RemovesKeeps ==
  ASSUME IInv, Removes
  PROVE  IInv'
<1> DEFINE r == sync.row
           p == sync.plan[r]
           f == sync.file
<1>1. /\ sync.pc = "remove" /\ UNCHANGED <<listVars, mirror, writes>> /\ rows' = rows
      /\ Walks(sync') /\ sync'.held = sync.held /\ sync'.fresh = sync.fresh
      /\ sync'.pc \in {"work", "drop"} /\ (sync'.pc = "drop" => sync'.row = r)
      /\ Calm /\ spent'.people = spent.people /\ spent'.touches = spent.touches
      /\ UNCHANGED <<unsafe, resumePending, adopted, paused, mirror, writes>>
  BY DEF Removes, listVars
<1>2. /\ Working /\ sync.todo.join = {} /\ sync.todo.take = {} /\ ~sync.offline
      /\ r \in Rows /\ r \notin sync.todo.on /\ r \notin sync.todo.off /\ r \notin sync.todo.deleted
      /\ p.what = "remove" /\ FileKept /\ HeldOK /\ Distinct /\ FilesApart /\ AsRead /\ sync \in Syncs
      /\ f \in Files /\ f = p.was.file
  BY <1>1, DealtOnMachine
<1>3. rows[r].file = f
  BY <1>1, <1>2 DEF FileKept, Waiting
<1>4. /\ Working' /\ sync'.offline = sync.offline /\ sync'.plan = sync.plan
      /\ sync'.todo.on \subseteq sync.todo.on /\ sync'.todo.off \subseteq sync.todo.off
      /\ sync'.todo.deleted \subseteq sync.todo.deleted /\ sync'.todo.join = {} /\ sync'.todo.take = {}
  BY <1>1, <1>2, WalkIs DEF Working
<1>5. Evolves
  BY <1>1, NoRowChanges, NowTyped
<1>6. /\ (files \in MaybeDocs /\ starred \subseteq Files /\ selected \in Files \cup {NoFile})'
      /\ \A g \in Files : g # f => files'[g] = files[g]
  <2>0. files \in MaybeDocs /\ starred \subseteq Files /\ selected \in Files \cup {NoFile}
    BY NowTyped DEF OfTheList
  <2>1. CASE UNCHANGED machineVars
    BY <2>0, <2>1 DEF machineVars
  <2>2. CASE TakesOff(f)
    <3>1. SuccessorsFile \in Files \cup {NoFile}
      <4>1. p.successor \in Rows \cup {NoRow}
        BY <1>1, <1>2, DealtOnMachine, PlanIs
      <4>2. sync.held \in [Rows -> Files \cup {NoFile}]
        BY <1>2, SyncTyped
      <4> QED BY <4>1, <4>2 DEF SuccessorsFile
    <3>2. files' \in {files, [files EXCEPT ![f] = NoDoc]} /\ starred' \in {starred, starred \ {f}}
          /\ selected' \in {SuccessorsFile, selected}
      BY <2>2 DEF TakesOff
    <3> QED BY <2>0, <3>1, <3>2 DEF MaybeDocs
  <2> QED BY <2>1, <2>2 DEF Removes
<1>7. \A x \in Rows \ {r} : rows[x].file # NoFile => files'[rows[x].file] = files[rows[x].file]
  <2>1. \A x \in Rows : rows[x].file \in Files \cup {NoFile}
    BY NowTyped, RowTyped DEF Profiles
  <2> QED BY <1>2, <1>3, <1>6, <2>1, PlanAssumption DEF Distinct
<1>8. WalksOn(r)
  BY <1>1, <1>2, <1>4, <1>7 DEF WalksOn
<1>9. r \notin Waiting' /\ sync'.held[r] = NoFile
  BY <1>1, <1>2, <1>4 DEF Waiting, HeldOK
<1>10. KeepsApart(r)
  BY <1>1, <1>2, <1>9 DEF KeepsApart
<1>11. KeepsThere(r)
  <2>1. ASSUME NobodyActed, TookNone', rows[r].state = "live" PROVE FALSE
    <3>1. p.was.deleted \/ r \in sync'.todo.off
      BY <1>2, <1>4, <2>1 DEF TookNone
    <3>2. p.was.deleted => rows[r].state = "deleted"
      BY <1>2, <2>1 DEF AsRead, DeletedYet, NobodyActed
    <3> QED BY <1>2, <1>4, <2>1, <3>1, <3>2
  <2> QED BY <1>1, <1>9, <2>1 DEF KeepsThere
<1>12. Dealing'
  BY <1>1, <1>2, <1>4 DEF Dealing
<1>13. OfTheList'
  BY <1>1, <1>6, ListSame
<1> QED BY <1>1, <1>2, <1>5, <1>8, <1>10, <1>11, <1>12, <1>13, WalkKeepsAll

-----------------------------------------------------------------------------
(* People and the display.                                                  *)

\* What a person does to the list leaves every profile on its file, and the machine alone.
PersonDid ==
  /\ Evolves /\ (\A r \in Rows : rows'[r].file = rows[r].file)
  /\ unsafe' \subseteq Brews /\ {resumePending', adopted', paused', writes'} \subseteq BOOLEAN
  /\ resumePending => resumePending'
  /\ spent' \in Bounds /\ spent'.people > spent.people /\ spent'.touches = spent.touches
  /\ quiet' = 0
  /\ UNCHANGED <<machineVars, mirror, sync, scene>>

\* Such a step keeps the invariant.
LEMMA PersonKeeps ==
  ASSUME IInv, PersonDid
  PROVE  IInv'
<1>1. /\ Evolves /\ (\A r \in Rows : rows'[r].file = rows[r].file) /\ sync' = sync
      /\ (resumePending => resumePending') /\ spent' \in Bounds /\ spent'.people > spent.people
      /\ spent'.touches = spent.touches /\ files' = files /\ scene' = scene
  BY DEF PersonDid, machineVars
<1>2. /\ sync \in Syncs /\ SyncOK /\ RowsTyped /\ OfTheList /\ spent.people \in Nat /\ spent.touches \in Nat
      /\ sync.since.people <= spent.people /\ sync.since.touches <= spent.touches /\ sync.since \in Counts
      /\ FilesApart /\ AsRead
  BY NowTyped, SyncTyped DEF SyncOK, IInv
<1>3. spent'.people \in Nat /\ sync.since.people \in Nat
  BY <1>1, <1>2, NowTyped, SyncAssumption DEF Bounds, Counts
<1>4. Calm
  BY <1>1, <1>2, <1>3, NowTyped, SyncAssumption DEF Calm, PersonDid
<1>5. OfTheList'
  BY <1>2 DEF PersonDid, OfTheList, machineVars
<1>6. SyncOK'
  <2>1. CASE Working
    <3>1. Working'
      BY <1>1, <2>1 DEF Working
    <3>2. Walks(sync')
      BY <1>1, <2>1, SelfWalks
    <3>3. Dealing'
      <4>1. Dealing
        BY <2>1, DealtWith DEF Dealing, TodoOK
      <4>2. \A r \in Rows : Had(rows[r]) \subseteq Had(rows'[r])
        BY <1>1 DEF Evolves, Better
      <4>3. sync.pc = "remove" => sync.row \in Rows
        BY <4>1 DEF Dealing
      <4> QED BY <1>1, <4>1, <4>2, <4>3 DEF Dealing
    <3> QED BY <1>1, <1>4, <2>1, <3>1, <3>2, <3>3, WalkKeepsSync
  <2>2. CASE ~Working
    <3>1. ~Working'
      BY <1>1, <2>2 DEF Working
    <3>2. (sync \in Syncs)'
      BY <1>1, <1>2 DEF Syncs
    <3>3. sync.since.people <= spent'.people /\ sync.since.touches <= spent'.touches
      BY <1>1, <1>2, <1>3
    <3> QED BY <1>1, <1>2, <2>2, <3>1, <3>2, <3>3 DEF SyncOK
  <2> QED BY <2>1, <2>2
<1>7. WellFormed'
  BY <1>1, <1>4, <1>5, <1>6, NowTyped, TypesFrom
<1>8. FilesApart'
  <2>1. Distinct'
    BY <1>1, <1>2 DEF FilesApart, Distinct
  <2>2. JoiningFilesAreNobodys'
    <3>1. SUFFICES ASSUME NEW f \in sync.todo.join, NEW r \in Rows, rows[r].file = f PROVE FALSE
      BY <1>1 DEF JoiningFilesAreNobodys, Live, Deleted
    <3>2. f \in Files /\ rows[r] \in Profiles /\ RowOK(rows[r])
      BY <1>2, SyncTyped, RowTyped
    <3>3. rows[r].state # "free"
      BY <3>1, <3>2, PlanAssumption DEF RowOK, Free
    <3>4. r \in Live \cup Deleted
      BY <3>2, <3>3 DEF Profiles, Live, Deleted
    <3> QED BY <1>2, <3>1, <3>4 DEF FilesApart, JoiningFilesAreNobodys
  <2>3. Settling'
    BY <1>1, <1>2 DEF FilesApart, Settling
  <2>4. Working' => FileKept' /\ HeldOK'
    BY <1>1, <1>2 DEF FilesApart, FileKept, HeldOK, Working, Waiting
  <2>5. Working' \/ sync'.pc = "stars" => FreshOK'
    <3>1. sync.fresh \subseteq Rows
      BY <1>2, SyncTyped
    <3>2. \A r \in Rows : rows[r].state # "free" => rows'[r].state # "free"
      BY <1>1 DEF Evolves, Better
    <3> QED BY <1>1, <1>2, <3>1, <3>2 DEF FilesApart, FreshOK, Working
  <2> QED BY <2>1, <2>2, <2>3, <2>4, <2>5 DEF FilesApart
<1>9. AsRead'
  <2>1. SUFFICES ASSUME Working, ~sync.offline
                 PROVE /\ sync.since.touches = spent.touches => ThereYet'
                       /\ sync.since.people = spent'.people => DeletedYet'
                       /\ TakesAndGoes' /\ LeftThere'
    BY <1>1 DEF AsRead, Working
  <2>2. sync.since.people # spent'.people
    BY <1>1, <1>2, <1>3
  <2>3. LeftThere'
    BY <1>1, <2>2 DEF LeftThere, NobodyActed
  <2>4. sync.since.touches = spent.touches => ThereYet'
    BY <1>1, <1>2, <2>1 DEF AsRead, ThereYet, Waiting
  <2>5. TakesAndGoes'
    BY <1>1, <1>2, <2>1 DEF AsRead, TakesAndGoes
  <2> QED BY <2>2, <2>3, <2>4, <2>5
<1> QED BY <1>7, <1>8, <1>9 DEF IInv

\* Somebody at the display changes nothing of the list.
DisplayDid ==
  /\ UNCHANGED <<listVars, mirror, writes, sync, scene>>
  /\ (files \in MaybeDocs /\ starred \subseteq Files /\ selected \in Files \cup {NoFile})'
  /\ spent' \in Bounds /\ spent'.touches > spent.touches /\ spent'.people = spent.people
  /\ quiet' = 0

\* Such a step keeps the invariant.
LEMMA DisplayKeeps ==
  ASSUME IInv, DisplayDid
  PROVE  IInv'
<1>1. /\ rows' = rows /\ sync' = sync /\ spent' \in Bounds /\ spent'.touches > spent.touches
      /\ spent'.people = spent.people /\ scene' = scene /\ resumePending' = resumePending
      /\ UNCHANGED <<unsafe, resumePending, adopted, paused, mirror, writes>>
  BY DEF DisplayDid, listVars
<1>2. /\ sync \in Syncs /\ SyncOK /\ RowsTyped /\ OfTheList /\ spent.people \in Nat /\ spent.touches \in Nat
      /\ sync.since.people <= spent.people /\ sync.since.touches <= spent.touches /\ sync.since \in Counts
      /\ FilesApart /\ AsRead
  BY NowTyped, SyncTyped DEF SyncOK, IInv
<1>3. spent'.touches \in Nat /\ sync.since.touches \in Nat
  BY <1>1, <1>2, NowTyped, SyncAssumption DEF Bounds, Counts
<1>4. Calm
  BY <1>1, <1>2, <1>3, NowTyped, SyncAssumption DEF Calm, DisplayDid
<1>5. OfTheList'
  BY <1>1, ListSame DEF DisplayDid
<1>0. Evolves
  BY <1>1, <1>2, NoRowChanges
<1>6. SyncOK'
  <2>1. CASE Working
    <3>1. Working'
      BY <1>1, <2>1 DEF Working
    <3>2. Walks(sync')
      BY <1>1, <2>1, SelfWalks
    <3>3. Dealing'
      <4>1. Dealing
        BY <2>1, DealtWith DEF Dealing, TodoOK
      <4> QED BY <1>1, <4>1 DEF Dealing
    <3> QED BY <1>0, <1>1, <1>4, <2>1, <3>1, <3>2, <3>3, WalkKeepsSync
  <2>2. CASE ~Working
    <3>1. ~Working'
      BY <1>1, <2>2 DEF Working
    <3>2. (sync \in Syncs)'
      BY <1>1, <1>2 DEF Syncs
    <3>3. sync.since.people <= spent'.people /\ sync.since.touches <= spent'.touches
      BY <1>1, <1>2, <1>3
    <3> QED BY <1>1, <1>2, <2>2, <3>1, <3>2, <3>3 DEF SyncOK
  <2> QED BY <2>1, <2>2
<1>7. WellFormed'
  BY <1>0, <1>1, <1>4, <1>5, <1>6, NowTyped, TypesFrom
<1>8. FilesApart'
  BY <1>1, <1>2 DEF FilesApart, Distinct, JoiningFilesAreNobodys, Live, Deleted, Settling, Working, FileKept, HeldOK,
                    Waiting, FreshOK
<1>9. AsRead'
  <2>1. SUFFICES ASSUME Working, ~sync.offline
                 PROVE /\ sync.since.touches = spent'.touches => ThereYet'
                       /\ sync.since.people = spent.people => DeletedYet'
                       /\ TakesAndGoes' /\ LeftThere'
    BY <1>1 DEF AsRead, Working
  <2>2. sync.since.touches # spent'.touches
    BY <1>1, <1>2, <1>3
  <2>3. LeftThere'
    BY <1>1, <2>2 DEF LeftThere, NobodyActed
  <2>4. sync.since.people = spent.people => DeletedYet'
    BY <1>1, <1>2, <2>1 DEF AsRead, DeletedYet
  <2>5. TakesAndGoes'
    BY <1>1, <1>2, <2>1 DEF AsRead, TakesAndGoes
  <2> QED BY <2>2, <2>3, <2>4, <2>5
<1> QED BY <1>7, <1>8, <1>9 DEF IInv

-----------------------------------------------------------------------------
(* What people do to the list.                                              *)

\* The parts of a row the invariant speaks of.
Alike(new, row) ==
  /\ new \in Profiles
  /\ new.state = row.state /\ new.file = row.file /\ new.pinOf = row.pinOf /\ new.listed = row.listed
  /\ new.found = row.found /\ new.current = row.current /\ new.chosen = row.chosen
  /\ new.recorded = row.recorded /\ new.overruled = row.overruled

\* A row with another active brew.
Moved(new, row, brew) ==
  /\ new \in Profiles
  /\ new.state = row.state /\ new.file = row.file /\ new.pinOf = row.pinOf
  /\ row.listed \subseteq new.listed /\ new.listed \subseteq row.listed \cup {brew}
  /\ row.found \subseteq new.found /\ brew \in Had(new)
  /\ new.current = brew /\ new.chosen = row.chosen \cup {brew}
  /\ new.recorded = row.recorded /\ new.overruled = row.overruled

\* A row alike, or with another active brew, is better.
LEMMA AlikeBetter ==
  ASSUME NEW row \in Profiles, RowOK(row), row.state # "free", NEW new, Alike(new, row)
  PROVE  Better(row, new)
BY DEF Alike, Better, RowOK, Asked, Had

LEMMA MovedBetter ==
  ASSUME NEW row \in Profiles, RowOK(row), row.state # "free", NEW brew, NEW new, Moved(new, row, brew)
  PROVE  Better(row, new)
<1>1. Had(row) \subseteq Had(new) /\ Asked(row) \subseteq Asked(new) /\ brew \in Asked(new)
  BY DEF Moved, Had, Asked
<1>2. RowOK(new)
  BY <1>1 DEF Moved, RowOK
<1> QED BY <1>1, <1>2 DEF Moved, Better

\* One row changes and stays on its file.
LEMMA OneRowDid ==
  ASSUME IInv, NEW kind, Person(kind), NEW r \in Rows, NEW new, Row(r, new),
         Better(rows[r], new), new.file = rows[r].file,
         new.pinOf # NoRow /\ new.pinOf # rows[r].pinOf => rows[new.pinOf].state # "free"
  PROVE  PersonDid
<1>1. /\ RowsTyped /\ OfTheList /\ spent \in Bounds /\ spent.people \in Nat
  BY NowTyped
<1>2. rows' = [rows EXCEPT ![r] = new] /\ UNCHANGED <<unsafe, resumePending, adopted, paused, writes>>
  BY DEF Row
<1>3. Evolves
  BY <1>1, <1>2, OneRow
<1>4. \A x \in Rows : rows'[x].file = rows[x].file
  BY <1>1, <1>2 DEF RowsTyped
<1>5. spent' \in Bounds /\ spent'.people > spent.people /\ spent'.touches = spent.touches
  BY <1>1, NowTyped, SyncAssumption DEF Person, Bounds
<1> QED BY <1>1, <1>2, <1>3, <1>4, <1>5 DEF PersonDid, OfTheList, Person

\* No row changes.
LEMMA NoRowDid ==
  ASSUME IInv, NEW kind, Person(kind), rows' = rows,
         unsafe' \subseteq Brews, {resumePending', adopted', paused', writes'} \subseteq BOOLEAN,
         resumePending => resumePending'
  PROVE  PersonDid
<1>1. /\ RowsTyped /\ OfTheList /\ spent \in Bounds /\ spent.people \in Nat
  BY NowTyped
<1>2. Evolves
  BY <1>1, NoRowChanges
<1>3. spent' \in Bounds /\ spent'.people > spent.people /\ spent'.touches = spent.touches
  BY <1>1, NowTyped, SyncAssumption DEF Person, Bounds
<1> QED BY <1>1, <1>2, <1>3 DEF PersonDid, Person

\* A row that is taken.
LEMMA TakenRow ==
  ASSUME IInv, NEW r \in Rows, r \in Live \cup Deleted
  PROVE  /\ rows[r] \in Profiles /\ RowOK(rows[r]) /\ rows[r].state # "free"
         /\ rows[r].file \in Files \cup {NoFile}
BY NowTyped, RowTyped DEF Live, Deleted, Profiles

\* A switch, a star, a version label, one more try, an unpin.
LEMMA SmallEdits ==
  ASSUME NEW row \in Profiles
  PROVE  /\ Alike([row EXCEPT !.on = ~@], row)
         /\ Alike([row EXCEPT !.home = ~@], row)
         /\ Alike([row EXCEPT !.failed = NoBrew], row)
         /\ \A v \in Versions \cup {NoVersion} : Alike([row EXCEPT !.version = v], row)
<1>1. Alike([row EXCEPT !.on = ~@], row)
  <2>1. ASSUME NEW b \in BOOLEAN PROVE Alike([row EXCEPT !.on = b], row)
    BY DEF Alike, Profiles
  <2>2. (~row.on) \in BOOLEAN
    OBVIOUS
  <2> HIDE DEF Alike
  <2> QED BY <2>1, <2>2
<1>2. Alike([row EXCEPT !.home = ~@], row)
  <2>1. ASSUME NEW b \in BOOLEAN PROVE Alike([row EXCEPT !.home = b], row)
    BY DEF Alike, Profiles
  <2>2. (~row.home) \in BOOLEAN
    OBVIOUS
  <2> HIDE DEF Alike
  <2> QED BY <2>1, <2>2
<1>3. Alike([row EXCEPT !.failed = NoBrew], row)
  BY DEF Alike, Profiles
<1>4. ASSUME NEW v \in Versions \cup {NoVersion} PROVE Alike([row EXCEPT !.version = v], row)
  BY DEF Alike, Profiles
<1> QED BY <1>1, <1>2, <1>3, <1>4

\* The Recipe's version changes nothing else.
LEMMA FollowsIs ==
  ASSUME NEW r, NEW row \in Profiles, NEW new \in Follows(r, row)
  PROVE  Alike(new, row)
<1>1. PICK v \in Versions \cup {NoVersion} : new = [row EXCEPT !.version = v]
  BY DEF Follows
<1> QED BY <1>1, SmallEdits

\* A brew made active.
LEMMA ActiveMoved ==
  ASSUME NEW row \in Profiles, NEW brew \in Brews, brew \in Had(row)
  PROVE  Moved(Active(row, brew), row, brew)
BY DEF Moved, Active, Had, Profiles

LEMMA ActiveIs ==
  ASSUME NEW row \in Profiles, NEW brew \in Brews
  PROVE  LET new == Active(row, brew)
         IN /\ new \in Profiles
            /\ new.state = row.state /\ new.file = row.file /\ new.pinOf = row.pinOf
            /\ new.listed = row.listed /\ new.found = row.found /\ new.current = brew
            /\ new.chosen = row.chosen \cup {brew} /\ new.recorded = row.recorded
            /\ new.overruled = row.overruled
BY DEF Active, Profiles

\* What each thing a person may do comes to.
LEMMA SwitchRowDid == ASSUME IInv, NEW r \in Rows, SwitchRow(r) PROVE PersonDid
<1>1. r \in Live \cup Deleted /\ Person("switch") /\ Row(r, [rows[r] EXCEPT !.on = ~@])
  BY DEF SwitchRow
<1>2. Alike([rows[r] EXCEPT !.on = ~@], rows[r])
  BY <1>1, TakenRow, SmallEdits
<1>3. Better(rows[r], [rows[r] EXCEPT !.on = ~@])
  BY <1>1, <1>2, TakenRow, AlikeBetter
<1> QED BY <1>1, <1>2, <1>3, OneRowDid DEF Alike

LEMMA StarDid == ASSUME IInv, NEW r \in Rows, Star(r) PROVE PersonDid
<1>1. r \in Live \cup Deleted /\ Person("star") /\ Row(r, [rows[r] EXCEPT !.home = ~@])
  BY DEF Star
<1>2. Alike([rows[r] EXCEPT !.home = ~@], rows[r])
  BY <1>1, TakenRow, SmallEdits
<1>3. Better(rows[r], [rows[r] EXCEPT !.home = ~@])
  BY <1>1, <1>2, TakenRow, AlikeBetter
<1> QED BY <1>1, <1>2, <1>3, OneRowDid DEF Alike

LEMMA RecipeMovesDid == ASSUME IInv, NEW r \in Rows, RecipeMoves(r) PROVE PersonDid
<1>1. r \in Live \cup Deleted /\ Person("recipe")
  BY DEF RecipeMoves
<1>2. PICK v \in Versions : Row(r, [rows[r] EXCEPT !.version = v])
  BY DEF RecipeMoves
<1>3. Alike([rows[r] EXCEPT !.version = v], rows[r])
  BY <1>1, TakenRow, SmallEdits
<1>4. Better(rows[r], [rows[r] EXCEPT !.version = v])
  BY <1>1, <1>3, TakenRow, AlikeBetter
<1> QED BY <1>1, <1>2, <1>3, <1>4, OneRowDid DEF Alike

LEMMA MakeActiveDid == ASSUME IInv, NEW r \in Rows, NEW brew \in Brews, MakeActive(r, brew) PROVE PersonDid
<1>1. r \in Live \cup Deleted /\ Person("activate") /\ brew \in Had(rows[r])
  BY DEF MakeActive, Had
<1>2. /\ rows[r] \in Profiles /\ RowOK(rows[r]) /\ rows[r].state # "free"
  BY <1>1, TakenRow
<1>3. CASE brew = rows[r].current
  <2>1. Row(r, [rows[r] EXCEPT !.failed = NoBrew])
    BY <1>3 DEF MakeActive
  <2>2. Alike([rows[r] EXCEPT !.failed = NoBrew], rows[r])
    BY <1>2, SmallEdits
  <2>3. Better(rows[r], [rows[r] EXCEPT !.failed = NoBrew])
    BY <1>2, <2>2, AlikeBetter
  <2> QED BY <1>1, <2>1, <2>2, <2>3, OneRowDid DEF Alike
<1>4. CASE brew # rows[r].current
  <2>1. PICK new \in Follows(r, Active(rows[r], brew)) : Row(r, new)
    BY <1>4 DEF MakeActive
  <2>2. Moved(Active(rows[r], brew), rows[r], brew)
    BY <1>1, <1>2, ActiveMoved
  <2>3. Alike(new, Active(rows[r], brew))
    BY <2>2, FollowsIs DEF Moved
  <2>4. Moved(new, rows[r], brew)
    BY <2>2, <2>3 DEF Moved, Alike, Had
  <2>5. Better(rows[r], new)
    BY <1>2, <2>4, MovedBetter
  <2> QED BY <1>1, <2>1, <2>4, <2>5, OneRowDid DEF Moved
<1> QED BY <1>3, <1>4

LEMMA PutDid == ASSUME IInv, NEW r \in Rows, NEW brew \in Brews, Put(r, brew) PROVE PersonDid
<1>1. r \in Live \cup Deleted /\ Person("put")
  BY DEF Put
<1>2. /\ rows[r] \in Profiles /\ RowOK(rows[r]) /\ rows[r].state # "free"
  BY <1>1, TakenRow
<1>3. PICK row \in Follows(r, Active(rows[r], brew)) :
        Row(r, [row EXCEPT !.listed = @ \cup ({brew} \ row.found), !.on = TRUE])
  BY DEF Put
<1> DEFINE active == Active(rows[r], brew)
           new == [row EXCEPT !.listed = @ \cup ({brew} \ row.found), !.on = TRUE]
<1>4. /\ active \in Profiles
      /\ active.state = rows[r].state /\ active.file = rows[r].file /\ active.pinOf = rows[r].pinOf
      /\ active.listed = rows[r].listed /\ active.found = rows[r].found /\ active.current = brew
      /\ active.chosen = rows[r].chosen \cup {brew} /\ active.recorded = rows[r].recorded
      /\ active.overruled = rows[r].overruled
  BY <1>2, ActiveIs
<1> HIDE DEF active
<1>5. Alike(row, active)
  BY <1>4, FollowsIs DEF active
<1>6. /\ new \in Profiles
      /\ new.state = row.state /\ new.file = row.file /\ new.pinOf = row.pinOf
      /\ new.listed = row.listed \cup ({brew} \ row.found) /\ new.found = row.found /\ new.current = row.current
      /\ new.chosen = row.chosen /\ new.recorded = row.recorded /\ new.overruled = row.overruled
  BY <1>5 DEF Alike, Profiles
<1> HIDE DEF new
<1>7. Moved(new, rows[r], brew)
  BY <1>4, <1>5, <1>6 DEF Moved, Alike, Had
<1>8. Better(rows[r], new) /\ new.file = rows[r].file /\ new.pinOf = rows[r].pinOf
  BY <1>2, <1>7, MovedBetter DEF Moved
<1>9. Row(r, new)
  BY <1>3 DEF new
<1> QED BY <1>1, <1>8, <1>9, OneRowDid

\* What the archive saw a conflicting file hold is a document.
LEMMA MirrorDoc ==
  ASSUME IInv, NEW r \in Rows, MirrorConflict(r)
  PROVE  /\ mirror[rows[r].file] \in Docs /\ mirror[rows[r].file].brew \in Brews
         /\ mirror[rows[r].file].name \in Names /\ r \in Live \cup Deleted
         /\ MachinesName(r, mirror[rows[r].file]) \in Names
<1>1. r \in Live \cup Deleted /\ rows[r].file # NoFile /\ mirror[rows[r].file] # NoDoc
  BY DEF MirrorConflict
<1>2. rows[r].file \in Files /\ mirror \in MaybeDocs
  BY <1>1, TakenRow, NowTyped DEF OfTheList
<1>3. mirror[rows[r].file] \in Docs
  BY <1>1, <1>2 DEF MaybeDocs
<1> QED BY <1>1, <1>3, MachinesNames DEF Docs

\* A rename, and the sides of a conflict.
LEMMA RenameDid ==
  ASSUME IInv, NEW r \in Rows, NEW name \in scene.names, Rename(r, name)
  PROVE  PersonDid
<1> DEFINE doc == IF MirrorConflict(r) /\ NameOnly(r) THEN mirror[rows[r].file] ELSE rows[r].overruled
           new == [rows[r] EXCEPT !.label = name, !.overruled = doc]
<1>1. r \in Live \cup Deleted /\ Person("rename") /\ Row(r, new)
  BY DEF Rename
<1>2. rows[r] \in Profiles /\ RowOK(rows[r]) /\ rows[r].state # "free" /\ name \in Names
  BY <1>1, TakenRow, NowTyped, SyncAssumption
<1>3. doc \in Docs \cup {NoDoc} /\ (doc # NoDoc => doc.brew \in rows[r].chosen)
  <2>1. CASE MirrorConflict(r) /\ NameOnly(r)
    <3>1. doc \in Docs /\ Knows(r, doc.brew)
      BY <2>1, MirrorDoc DEF NameOnly, NameInConflict
    <3>2. doc.brew \in Asked(rows[r])
      BY <1>2, <3>1, KnownBrew, NowTyped
    <3> QED BY <3>1, <3>2 DEF Asked
  <2>2. CASE ~(MirrorConflict(r) /\ NameOnly(r))
    BY <1>2, <2>2 DEF Profiles, RowOK
  <2> QED BY <2>1, <2>2
<1> HIDE DEF doc
<1>4. /\ new \in Profiles
      /\ new.state = rows[r].state /\ new.file = rows[r].file /\ new.pinOf = rows[r].pinOf
      /\ new.listed = rows[r].listed /\ new.found = rows[r].found /\ new.current = rows[r].current
      /\ new.chosen = rows[r].chosen /\ new.recorded = rows[r].recorded /\ new.overruled = doc
  BY <1>2, <1>3 DEF Profiles
<1> HIDE DEF new
<1>5. Better(rows[r], new)
  BY <1>2, <1>3, <1>4 DEF Better, RowOK, Asked, Had
<1> QED BY <1>1, <1>4, <1>5, OneRowDid

LEMMA KeepAppDid == ASSUME IInv, NEW r \in Rows, KeepApp(r) PROVE PersonDid
<1> DEFINE doc == mirror[rows[r].file]
           kept == Keep(rows[r], doc.brew)
           new == [kept EXCEPT !.overruled = doc, !.chosen = @ \cup {doc.brew}]
<1>1. Person("keep_app") /\ Row(r, new) /\ MirrorConflict(r)
  BY DEF KeepApp
<1>2. doc \in Docs /\ doc.brew \in Brews /\ r \in Live \cup Deleted
  BY <1>1, MirrorDoc
<1>3. rows[r] \in Profiles /\ RowOK(rows[r]) /\ rows[r].state # "free"
  BY <1>2, TakenRow
<1>4. /\ Better(rows[r], kept) /\ kept = [rows[r] EXCEPT !.found = kept.found] /\ kept.found \in SUBSET Brews
  BY <1>2, <1>3, KeepBetter
<1> HIDE DEF kept, doc
<1>5. /\ kept \in Profiles /\ RowOK(kept) /\ kept.state # "free" /\ kept.file = rows[r].file
      /\ kept.pinOf = rows[r].pinOf
  BY <1>3, <1>4 DEF Better, Profiles
<1>6. /\ new \in Profiles
      /\ new.state = kept.state /\ new.file = kept.file /\ new.pinOf = kept.pinOf
      /\ new.listed = kept.listed /\ new.found = kept.found /\ new.current = kept.current
      /\ new.chosen = kept.chosen \cup {doc.brew} /\ new.recorded = kept.recorded /\ new.overruled = doc
  BY <1>2, <1>5 DEF Profiles
<1> HIDE DEF new
<1>7. Better(kept, new)
  BY <1>5, <1>6 DEF Better, RowOK, Asked, Had
<1>8. Better(rows[r], new)
  BY <1>4, <1>7, BetterStill
<1> QED BY <1>1, <1>5, <1>6, <1>8, OneRowDid

LEMMA KeepMachinesNameDid == ASSUME IInv, NEW r \in Rows, KeepMachinesName(r) PROVE PersonDid
<1> DEFINE doc == mirror[rows[r].file]
           name == MachinesName(r, doc)
           new == [rows[r] EXCEPT !.label = name, !.recorded.name = doc.name, !.overruled = NoDoc]
<1>1. Person("keep_machine") /\ Row(r, new) /\ MirrorConflict(r) /\ rows[r].recorded # NoDoc
  BY DEF KeepMachinesName
<1>2. doc \in Docs /\ doc.name \in Names /\ name \in Names /\ r \in Live \cup Deleted
  BY <1>1, MirrorDoc
<1>3. rows[r] \in Profiles /\ RowOK(rows[r]) /\ rows[r].state # "free"
  BY <1>2, TakenRow
<1> DEFINE recorded == [rows[r].recorded EXCEPT !.name = doc.name]
<1>4. recorded \in Docs /\ recorded.brew = rows[r].recorded.brew
  BY <1>1, <1>2, <1>3 DEF Profiles, Docs
<1>5. new = [rows[r] EXCEPT !.label = name, !.recorded = recorded, !.overruled = NoDoc]
  BY <1>3 DEF Profiles
<1> HIDE DEF doc, name, recorded, new
<1>6. /\ new \in Profiles
      /\ new.state = rows[r].state /\ new.file = rows[r].file /\ new.pinOf = rows[r].pinOf
      /\ new.listed = rows[r].listed /\ new.found = rows[r].found /\ new.current = rows[r].current
      /\ new.chosen = rows[r].chosen /\ new.recorded = recorded /\ new.overruled = NoDoc
  BY <1>2, <1>3, <1>4, <1>5 DEF Profiles
<1>7. Better(rows[r], new)
  BY <1>1, <1>3, <1>4, <1>6 DEF Better, RowOK, Asked, Had
<1>8. Row(r, new)
  BY <1>1
<1> QED BY <1>1, <1>6, <1>7, <1>8, OneRowDid

\* A row a person adds.
IsNew(new, brew, owner) ==
  /\ new \in Profiles /\ new.state = "live" /\ new.file = NoFile /\ new.pinOf = owner
  /\ new.recorded = NoDoc /\ new.overruled = NoDoc
  /\ new.current = brew /\ new.listed = {brew} /\ new.found = {} /\ new.chosen = {brew}

LEMMA NewRowDid ==
  ASSUME IInv, NEW kind, Person(kind), NEW r \in FreeRows, NEW brew \in Brews,
         NEW owner \in Rows \cup {NoRow}, owner # NoRow => rows[owner].state # "free",
         NEW new, IsNew(new, brew, owner), Row(r, new)
  PROVE  PersonDid
<1>1. r \in Rows /\ rows[r].state = "free" /\ RowOK(rows[r])
  BY NowTyped, RowTyped DEF FreeRows
<1>2. rows[r] = Free
  BY <1>1 DEF RowOK
<1>4. rows[r].file = NoFile /\ Had(rows[r]) = {} /\ rows[r].chosen = {}
  BY <1>2 DEF Free, Had
<1>6. Better(rows[r], new)
  BY <1>1, <1>4 DEF IsNew, Better, RowOK, Asked, Had
<1> QED BY <1>1, <1>4, <1>6, OneRowDid DEF IsNew

\* The row it becomes.
LEMMA FirstFree ==
  ASSUME IInv
  PROVE  First(FreeRows, NoRow) # NoRow => First(FreeRows, NoRow) \in FreeRows
<1>1. FreeRows \subseteq Nat
  BY PlanAssumption DEF FreeRows
<1> QED BY <1>1, FirstIsOne

LEMMA PutNewDid ==
  ASSUME IInv, NEW r \in Rows, NEW brew \in Brews, NEW name \in scene.names, PutNew(r, brew, name)
  PROVE  PersonDid
<1> DEFINE new == [Free EXCEPT !.state = "live", !.label = name, !.current = brew,
               !.listed = {brew}, !.on = TRUE, !.home = TRUE, !.chosen = {brew}]
<1>1. Person("new") /\ r \in FreeRows /\ Row(r, new)
  BY FirstFree DEF PutNew
<1>2. name \in Names
  BY NowTyped, SyncAssumption
<1>3. IsNew(new, brew, NoRow)
  BY <1>2 DEF Free, Profiles, IsNew
<1> HIDE DEF new
<1> QED BY <1>1, <1>3, NewRowDid

LEMMA PinDid ==
  ASSUME IInv, NEW owner \in Rows, NEW brew \in Brews, NEW name \in scene.names, Pin(owner, brew, name)
  PROVE  PersonDid
<1> DEFINE r == First(FreeRows, NoRow)
           new == [Free EXCEPT !.state = "live", !.label = name, !.current = brew, !.listed = {brew},
                   !.on = TRUE, !.home = TRUE, !.pinOf = owner, !.chosen = {brew}]
<1>1. Person("pin") /\ owner \in Live /\ Row(r, new)
  BY DEF Pin
<1>2. name \in Names /\ rows[owner].state # "free"
  BY <1>1, NowTyped, SyncAssumption DEF Live
<1>5. IsNew(new, brew, owner)
  BY <1>2 DEF Free, Profiles, IsNew
<1> HIDE DEF new
<1>3. CASE r = NoRow
  <2>1. rows' = rows
    BY <1>1, <1>3, NowTyped, PlanAssumption DEF Row, RowsTyped
  <2>2. UNCHANGED <<unsafe, resumePending, adopted, paused, writes>>
    BY <1>1 DEF Row
  <2> QED BY <1>1, <2>1, <2>2, NowTyped, NoRowDid DEF OfTheList
<1>4. CASE r # NoRow
  <2>1. r \in FreeRows
    BY <1>4, FirstFree
  <2> HIDE DEF r
  <2> QED BY <1>1, <1>2, <1>5, <2>1, NewRowDid
<1> QED BY <1>3, <1>4

\* A pin taken off, and put back.
LEMMA UnpinDid == ASSUME IInv, NEW r \in Rows, Unpin(r) PROVE PersonDid
<1> DEFINE new == [rows[r] EXCEPT !.state = "deleted"]
<1>1. Person("unpin") /\ r \in Live \cup Deleted /\ Row(r, new)
  BY DEF Unpin
<1>2. rows[r] \in Profiles /\ RowOK(rows[r]) /\ rows[r].state # "free"
  BY <1>1, TakenRow
<1>3. /\ new \in Profiles
      /\ new.state = "deleted" /\ new.file = rows[r].file /\ new.pinOf = rows[r].pinOf
      /\ new.listed = rows[r].listed /\ new.found = rows[r].found /\ new.current = rows[r].current
      /\ new.chosen = rows[r].chosen /\ new.recorded = rows[r].recorded /\ new.overruled = rows[r].overruled
  BY <1>2 DEF Profiles
<1> HIDE DEF new
<1>4. Better(rows[r], new)
  BY <1>2, <1>3 DEF Better, RowOK, Asked, Had
<1> QED BY <1>1, <1>3, <1>4, OneRowDid

\* Nobody else stands on the file of a row that is brought back.
LEMMA BringBackDid == ASSUME IInv, NEW r \in Rows, BringBack(r) PROVE PersonDid
<1> DEFINE new == [rows[r] EXCEPT !.state = "live", !.on = TRUE, !.failed = NoBrew]
<1>1. Person("pin") /\ r \in Live \cup Deleted
      /\ Row(r, IF rows[r].file # NoFile /\ StoodOn(rows[r].file, r) THEN Release(new) ELSE new)
  BY DEF BringBack
<1>2. rows[r] \in Profiles /\ RowOK(rows[r]) /\ rows[r].state # "free"
  BY <1>1, TakenRow
<1>3. ~(rows[r].file # NoFile /\ StoodOn(rows[r].file, r))
  BY DEF IInv, FilesApart, Distinct, StoodOn, Live
<1>4. Row(r, new)
  BY <1>1, <1>3
<1>5. /\ new \in Profiles
      /\ new.state = "live" /\ new.file = rows[r].file /\ new.pinOf = rows[r].pinOf
      /\ new.listed = rows[r].listed /\ new.found = rows[r].found /\ new.current = rows[r].current
      /\ new.chosen = rows[r].chosen /\ new.recorded = rows[r].recorded /\ new.overruled = rows[r].overruled
  BY <1>2 DEF Profiles
<1> HIDE DEF new
<1>6. Better(rows[r], new)
  BY <1>2, <1>5 DEF Better, RowOK, Asked, Had
<1> QED BY <1>1, <1>4, <1>5, <1>6, OneRowDid

\* What changes no row.
LEMMA OthersDid ==
  ASSUME IInv, Resume \/ SetBounds \/ TurnWrites
  PROVE  PersonDid
<1>0. OfTheList
  BY NowTyped
<1>1. CASE Resume
  BY <1>0, <1>1, NoRowDid DEF Resume, OfTheList
<1>2. CASE SetBounds
  BY <1>0, <1>2, NoRowDid DEF SetBounds, OfTheList
<1>3. CASE TurnWrites
  <2>1. (~writes) \in BOOLEAN /\ Person("writes") /\ writes' = ~writes /\ UNCHANGED listVars
    BY <1>3 DEF TurnWrites
  <2> QED BY <1>0, <2>1, NoRowDid DEF OfTheList, listVars
<1> QED BY <1>1, <1>2, <1>3

\* A row that becomes what its file is.
Becomes(row, name, doc) == [row EXCEPT !.label = name, !.recorded = doc, !.overruled = NoDoc]

\* That row is better.
LEMMA BecomesBetter ==
  ASSUME NEW row \in Profiles, RowOK(row), row.state # "free", NEW name \in Names, NEW doc \in Docs,
         doc.brew \in Asked(row)
  PROVE  LET new == Becomes(row, name, doc)
         IN new \in Profiles /\ Better(row, new) /\ new.file = row.file /\ new.pinOf = row.pinOf
<1> DEFINE new == Becomes(row, name, doc)
<1>1. /\ new \in Profiles
      /\ new.state = row.state /\ new.file = row.file /\ new.pinOf = row.pinOf /\ new.listed = row.listed
      /\ new.found = row.found /\ new.current = row.current /\ new.chosen = row.chosen
      /\ new.recorded = doc /\ new.overruled = NoDoc
  BY DEF Becomes, Profiles
<1> HIDE DEF new
<1>2. Better(row, new)
  BY <1>1 DEF Better, RowOK, Asked, Had
<1> QED BY <1>1, <1>2 DEF new

\* A row that keeps a brew of its file and makes it the active one.
TakesUp(row, brew) == Active(Keep(row, brew), brew)

\* That row is better.
LEMMA TakesUpBetter ==
  ASSUME NEW row \in Profiles, RowOK(row), row.state # "free", NEW brew \in Brews
  PROVE  LET new == TakesUp(row, brew)
         IN /\ new \in Profiles /\ Better(row, new) /\ RowOK(new) /\ new.state # "free"
            /\ new.file = row.file /\ new.pinOf = row.pinOf /\ brew \in Asked(new)
<1> DEFINE kept == Keep(row, brew)
           new == TakesUp(row, brew)
<1>1. /\ Better(row, kept) /\ brew \in Had(kept) /\ kept = [row EXCEPT !.found = kept.found]
  BY KeepBetter
<1>2. kept \in Profiles /\ RowOK(kept) /\ kept.state # "free" /\ kept.file = row.file /\ kept.pinOf = row.pinOf
  <2> HIDE DEF kept
  <2> QED BY <1>1 DEF Better, Profiles
<1>3. new = Active(kept, brew)
  BY DEF TakesUp
<1> HIDE DEF kept, new
<1>4. Moved(new, kept, brew)
  BY <1>1, <1>2, <1>3, ActiveMoved
<1>5. Better(kept, new)
  BY <1>2, <1>4, MovedBetter
<1>6. Better(row, new)
  BY <1>1, <1>5, BetterStill
<1>7. /\ new \in Profiles /\ Better(row, new) /\ RowOK(new) /\ new.state # "free"
      /\ new.file = row.file /\ new.pinOf = row.pinOf /\ brew \in Asked(new)
  BY <1>2, <1>4, <1>5, <1>6 DEF Better, Moved, Asked
<1> QED BY <1>7 DEF new

\* A pin's copy and its profile change together.
LEMMA TwoRows ==
  ASSUME RowsTyped, NEW r \in Rows, NEW x \in Rows, NEW a, NEW b, Better(rows[r], a), Better(rows[x], b),
         a.pinOf = rows[r].pinOf, b.pinOf = rows[x].pinOf, a.file = rows[r].file, b.file = rows[x].file,
         rows' = [rows EXCEPT ![r] = a, ![x] = b]
  PROVE  Evolves /\ \A y \in Rows : rows'[y].file = rows[y].file
<1>1. \A y \in Rows : /\ rows'[y] = IF y = x THEN b ELSE IF y = r THEN a ELSE rows[y]
  BY DEF RowsTyped
<1>2. \A y \in Rows : /\ Better(rows[y], rows'[y]) /\ rows'[y].pinOf = rows[y].pinOf
                      /\ rows'[y].file = rows[y].file
  BY <1>1, RowTyped, SameIsBetter
<1>3. rows' \in [Rows -> Profiles]
  <2>1. \A y \in Rows : rows'[y] \in Profiles
    BY <1>2 DEF Better
  <2>2. rows' = [y \in Rows |-> rows'[y]]
    BY DEF RowsTyped
  <2> QED BY <2>1, <2>2
<1>4. \A y \in Rows : rows'[y].pinOf # NoRow => rows'[rows'[y].pinOf].state # "free"
  <2> TAKE y \in Rows
  <2>1. rows'[y].pinOf = rows[y].pinOf /\ rows[y] \in Profiles
    BY <1>2, RowTyped
  <2>2. ASSUME rows[y].pinOf # NoRow PROVE rows'[rows[y].pinOf].state # "free"
    <3>1. rows[y].pinOf \in Rows /\ rows[rows[y].pinOf].state # "free"
      BY <2>1, <2>2 DEF Profiles, RowsTyped, RowsOK
    <3> QED BY <1>2, <3>1 DEF Better
  <2> QED BY <2>1, <2>2
<1> QED BY <1>2, <1>3, <1>4 DEF Evolves

\* A conflict resolved for the machine.
LEMMA KeepMachineDid == ASSUME IInv, NEW r \in Rows, KeepMachine(r) PROVE PersonDid
<1> DEFINE doc == mirror[rows[r].file]
           name == MachinesName(r, doc)
           owner == rows[r].pinOf
           kept == Becomes(TakesUp(rows[r], doc.brew), name, doc)
<1>1. /\ Person("keep_machine") /\ MirrorConflict(r)
      /\ UNCHANGED <<unsafe, resumePending, adopted, paused, writes>>
      /\ IF Pinned(r) /\ doc.brew # rows[owner].current
         THEN \E row \in Follows(owner, TakesUp(rows[owner], doc.brew)) :
                rows' = [rows EXCEPT ![r] = kept, ![owner] = row]
         ELSE \E row \in IF doc.brew = rows[r].current THEN {kept} ELSE Follows(r, kept) :
                rows' = [rows EXCEPT ![r] = row]
  BY DEF KeepMachine, Becomes, TakesUp
<1>2. doc \in Docs /\ doc.brew \in Brews /\ name \in Names /\ r \in Live \cup Deleted
  BY <1>1, MirrorDoc
<1>3. rows[r] \in Profiles /\ RowOK(rows[r]) /\ rows[r].state # "free" /\ RowsTyped
  BY <1>2, TakenRow, NowTyped
<1>4. /\ kept \in Profiles /\ Better(rows[r], kept) /\ kept.file = rows[r].file /\ kept.pinOf = rows[r].pinOf
      /\ RowOK(kept) /\ kept.state # "free"
  <2> DEFINE up == TakesUp(rows[r], doc.brew)
  <2>1. /\ up \in Profiles /\ Better(rows[r], up) /\ RowOK(up) /\ up.state # "free"
        /\ up.file = rows[r].file /\ up.pinOf = rows[r].pinOf /\ doc.brew \in Asked(up)
    BY <1>2, <1>3, TakesUpBetter
  <2>2. kept = Becomes(up, name, doc)
    OBVIOUS
  <2> HIDE DEF up, kept, name, doc
  <2>3. kept \in Profiles /\ Better(up, kept) /\ kept.file = up.file /\ kept.pinOf = up.pinOf
    BY <2>1, <2>2, <1>2, BecomesBetter
  <2>4. Better(rows[r], kept)
    BY <2>1, <2>3, BetterStill
  <2> QED BY <1>3, <2>1, <2>3, <2>4 DEF Better
<1> HIDE DEF kept, name, doc
<1>5. CASE Pinned(r) /\ doc.brew # rows[owner].current
  <2>1. PICK row \in Follows(owner, TakesUp(rows[owner], doc.brew)) :
          rows' = [rows EXCEPT ![r] = kept, ![owner] = row]
    BY <1>1, <1>5
  <2>2. owner \in Rows /\ rows[owner].state # "free"
    BY <1>3, <1>5 DEF Pinned, RowsTyped, RowsOK, Profiles
  <2>3. rows[owner] \in Profiles /\ RowOK(rows[owner])
    BY <1>3, <2>2, RowTyped
  <2> DEFINE up == TakesUp(rows[owner], doc.brew)
  <2>4. /\ up \in Profiles /\ Better(rows[owner], up) /\ RowOK(up) /\ up.state # "free"
        /\ up.file = rows[owner].file /\ up.pinOf = rows[owner].pinOf
    BY <1>2, <2>2, <2>3, TakesUpBetter
  <2> HIDE DEF up
  <2>5. Alike(row, up)
    BY <2>1, <2>4, FollowsIs DEF up
  <2>6. Better(up, row) /\ row.file = up.file /\ row.pinOf = up.pinOf
    BY <2>4, <2>5, AlikeBetter DEF Alike
  <2>7. Better(rows[owner], row)
    BY <2>4, <2>6, BetterStill
  <2>8. Evolves /\ \A y \in Rows : rows'[y].file = rows[y].file
    BY <1>3, <1>4, <2>1, <2>2, <2>4, <2>6, <2>7, TwoRows
  <2>9. spent' \in Bounds /\ spent'.people > spent.people /\ spent'.touches = spent.touches
    BY <1>1, NowTyped, SyncAssumption DEF Person, Bounds
  <2>10. unsafe' \subseteq Brews /\ {resumePending', adopted', paused', writes'} \subseteq BOOLEAN
         /\ (resumePending => resumePending')
    BY <1>1, NowTyped DEF OfTheList
  <2> QED BY <1>1, <2>8, <2>9, <2>10 DEF PersonDid, Person
<1>6. CASE ~(Pinned(r) /\ doc.brew # rows[owner].current)
  <2>1. PICK row : /\ row = kept \/ row \in Follows(r, kept)
                   /\ rows' = [rows EXCEPT ![r] = row]
    BY <1>1, <1>6
  <2>2. Better(rows[r], row) /\ row.file = rows[r].file /\ row.pinOf = rows[r].pinOf
    <3>1. CASE row = kept
      BY <1>4, <3>1
    <3>2. CASE row \in Follows(r, kept)
      <4>1. Alike(row, kept)
        BY <1>4, <3>2, FollowsIs
      <4>2. Better(kept, row) /\ row.file = kept.file /\ row.pinOf = kept.pinOf
        BY <1>4, <4>1, AlikeBetter DEF Alike
      <4> QED BY <1>4, <4>2, BetterStill
    <3> QED BY <2>1, <3>1, <3>2
  <2>3. Row(r, row)
    BY <1>1, <2>1 DEF Row
  <2> QED BY <1>1, <2>2, <2>3, OneRowDid
<1> QED BY <1>5, <1>6

\* Whatever a person does keeps the invariant.
LEMMA PersonActsDid == ASSUME IInv, PersonActs PROVE PersonDid
BY SwitchRowDid, StarDid, RecipeMovesDid, KeepAppDid, KeepMachinesNameDid, KeepMachineDid,
   UnpinDid, BringBackDid, RenameDid, MakeActiveDid, PutDid, PutNewDid, PinDid, OthersDid
   DEF PersonActs

LEMMA PersonActsKeep == ASSUME IInv, PersonActs PROVE IInv'
BY PersonActsDid, PersonKeeps

\* So does whatever happens at the display.
LEMMA TouchIs ==
  ASSUME IInv, NEW kind, Touch(kind)
  PROVE  /\ UNCHANGED <<listVars, mirror, writes, sync, scene>>
         /\ spent' \in Bounds /\ spent'.touches > spent.touches /\ spent'.people = spent.people
         /\ quiet' = 0
<1>1. spent' \in Bounds /\ spent'.touches > spent.touches /\ spent'.people = spent.people
  BY NowTyped, SyncAssumption DEF Touch, Bounds
<1> QED BY <1>1 DEF Touch

\* Whatever is done at the display keeps the invariant.
LEMMA DisplayActsKeep == ASSUME IInv, DisplayActs PROVE IInv'
<1>1. /\ files \in MaybeDocs /\ starred \subseteq Files /\ selected \in Files \cup {NoFile}
      /\ scene.names \subseteq Names
  BY NowTyped, SyncAssumption DEF OfTheList
<1>2. \A f \in Held : f \in Files /\ files[f] \in Docs /\ files[f].name \in Names
  BY <1>1 DEF Held, MaybeDocs, Docs
<1>3. CASE \E f \in Held : DeleteFile(f) \/ SelectFile(f) \/ StarFile(f)
  <2>1. PICK f \in Held : DeleteFile(f) \/ SelectFile(f) \/ StarFile(f)
    BY <1>3
  <2>2. CASE DeleteFile(f)
    <3>1. Touch("delete") /\ files' = [files EXCEPT ![f] = NoDoc] /\ starred' = starred \ {f} /\ selected' = selected
      BY <2>2 DEF DeleteFile
    <3>2. (files \in MaybeDocs /\ starred \subseteq Files /\ selected \in Files \cup {NoFile})'
      BY <1>1, <3>1 DEF MaybeDocs
    <3> QED BY <3>1, <3>2, TouchIs, DisplayKeeps DEF DisplayDid
  <2>3. CASE SelectFile(f)
    <3>1. Touch("select") /\ files' = files /\ starred' = starred /\ selected' = f
      BY <2>3 DEF SelectFile
    <3>2. (files \in MaybeDocs /\ starred \subseteq Files /\ selected \in Files \cup {NoFile})'
      BY <1>1, <1>2, <3>1
    <3> QED BY <3>1, <3>2, TouchIs, DisplayKeeps DEF DisplayDid
  <2>4. CASE StarFile(f)
    <3>1. Touch("star") /\ files' = files /\ selected' = selected
          /\ starred' = IF f \in starred THEN starred \ {f} ELSE starred \cup {f}
      BY <2>4 DEF StarFile
    <3>2. (files \in MaybeDocs /\ starred \subseteq Files /\ selected \in Files \cup {NoFile})'
      BY <1>1, <1>2, <3>1
    <3> QED BY <3>1, <3>2, TouchIs, DisplayKeeps DEF DisplayDid
  <2> QED BY <2>1, <2>2, <2>3, <2>4
<1>4. ASSUME NEW f \in Held, NEW brew \in Brews, NEW name \in scene.names \cup {files[f].name},
             EditFile(f, [brew |-> brew, name |-> name])
      PROVE  IInv'
  <2> DEFINE doc == [brew |-> brew, name |-> name]
  <2>1. doc \in Docs
    BY <1>1, <1>2 DEF Docs
  <2>2. Touch("edit") /\ files' = [files EXCEPT ![f] = doc] /\ starred' = starred /\ selected' = selected
    BY <1>4 DEF EditFile
  <2> HIDE DEF doc
  <2>3. (files \in MaybeDocs /\ starred \subseteq Files /\ selected \in Files \cup {NoFile})'
    BY <1>1, <2>1, <2>2 DEF MaybeDocs
  <2> QED BY <2>2, <2>3, TouchIs, DisplayKeeps DEF DisplayDid
<1>5. ASSUME NEW brew \in Brews, NEW name \in scene.names,
             \/ CreateFile([brew |-> brew, name |-> name])
             \/ FactoryReset([brew |-> brew, name |-> name])
      PROVE  IInv'
  <2> DEFINE doc == [brew |-> brew, name |-> name]
  <2>1. doc \in Docs
    BY <1>1 DEF Docs
  <2>2. CASE CreateFile(doc)
    <3>1. PICK f \in FreshIds : files' = [files EXCEPT ![f] = doc] /\ starred' = starred \cup {f}
      BY <2>2 DEF CreateFile
    <3>2. Touch("create") /\ selected' = selected
      BY <2>2 DEF CreateFile
    <3> HIDE DEF doc
    <3>3. (files \in MaybeDocs /\ starred \subseteq Files /\ selected \in Files \cup {NoFile})'
      BY <1>1, <2>1, <3>1, <3>2, FreshIs DEF MaybeDocs
    <3> QED BY <3>2, <3>3, TouchIs, DisplayKeeps DEF DisplayDid
  <2>3. CASE FactoryReset(doc)
    <3>1. PICK f \in FreshIds : /\ files' = [g \in Files |-> IF g = f THEN doc ELSE NoDoc]
                                /\ starred' = {f} /\ selected' = f
      BY <2>3 DEF FactoryReset
    <3>2. Touch("reset")
      BY <2>3 DEF FactoryReset
    <3> HIDE DEF doc
    <3>3. (files \in MaybeDocs /\ starred \subseteq Files /\ selected \in Files \cup {NoFile})'
      BY <1>1, <2>1, <3>1, FreshIs DEF MaybeDocs
    <3> QED BY <3>2, <3>3, TouchIs, DisplayKeeps DEF DisplayDid
  <2> QED BY <1>5, <2>2, <2>3
<1> QED BY <1>3, <1>4, <1>5 DEF DisplayActs

-----------------------------------------------------------------------------
(* The mirror, the stars, and the end.                                      *)

\* A sync that has mirrored the machine has done nothing else yet.
Started ==
  sync.pc = "mirrored" =>
    /\ sync.fresh = {} /\ sync.failures = 0 /\ ~sync.offline
    /\ sync.held = [r \in Rows |-> NoFile]
    /\ sync.todo = [join |-> {}, take |-> {}, on |-> {}, off |-> {}, deleted |-> {}, star |-> {}]
    /\ sync.row = NoRow /\ sync.file = NoFile
\* The inductive invariant.
WholeInv == IInv /\ Started

\* The same rows are as well formed, and as far apart.
LEMMA RowsSame ==
  ASSUME IInv, rows' = rows
  PROVE  Evolves /\ Distinct'
BY NowTyped, NoRowChanges DEF IInv, FilesApart, Distinct

\* Nothing of the bounds is spent.
LEMMA QuietIsCalm ==
  ASSUME IInv, UNCHANGED <<spent, scene, quiet>>
  PROVE  Calm
BY SoundIsCalm DEF Sound

\* Only the mirror changes.
LEMMA ListAndMachineSame ==
  ASSUME IInv, UNCHANGED <<listVars, machineVars, writes>>, mirror' \in MaybeDocs
  PROVE  OfTheList'
BY NowTyped DEF OfTheList, listVars, machineVars

\* The states a sync may be in that goes by these names and attachments.
SyncsOf(names, attached) ==
  [pc: {"idle", "mirrored", "work", "settle", "remove", "drop", "stars"},
   m: Reads, plan: [Rows -> Plans] \cup {<<>>}, todo: Todos, names: {names},
   attached: {attached}, held: [Rows -> Files \cup {NoFile}],
   fresh: SUBSET Rows, failures: 0 .. MaxFailures, wrote: BOOLEAN, offline: BOOLEAN,
   row: Rows \cup {NoRow}, file: Files \cup {NoFile}, blocked: BOOLEAN, since: Counts]

\* The mirror is taken.
LEMMA MirrorKeeps == ASSUME IInv, Mirror PROVE WholeInv'
<1> DEFINE s == [Idle EXCEPT !.pc = "mirrored", !.since = spent]
<1>1. /\ sync' = s /\ mirror' = files /\ rows' = rows
      /\ UNCHANGED <<listVars, machineVars, writes>> /\ UNCHANGED <<spent, scene, quiet>>
  BY DEF Mirror, listVars
<1>3. 0 \in 0 .. MaxFailures /\ spent \in Counts /\ Idle.held \in [Rows -> Files \cup {NoFile}]
      /\ Idle.todo \in Todos /\ NoRead \in Reads /\ spent.people \in Nat /\ spent.touches \in Nat
  <2>1. spent \in Bounds
    BY NowTyped
  <2>2. 0 .. scene.maxPeople \subseteq Nat /\ 0 .. scene.maxTouches \subseteq Nat /\ 0 .. scene.maxFaults \subseteq Nat
    BY NowTyped, SyncAssumption
  <2>3. spent \in Counts
    BY <2>1, <2>2 DEF Bounds, Counts
  <2> QED BY <2>3, IdleIs, SyncAssumption DEF Counts
<1>2. s \in SyncsOf(<<>>, <<>>) /\ s.names = <<>> /\ s.attached = <<>>
  <2>1. Idle \in SyncsOf(<<>>, <<>>)
    <3>1. Idle = [pc |-> "idle", m |-> NoRead, plan |-> <<>>, todo |-> Idle.todo, names |-> <<>>,
                  attached |-> <<>>, held |-> Idle.held, fresh |-> {},
                  failures |-> 0, wrote |-> FALSE, offline |-> FALSE, row |-> NoRow, file |-> NoFile,
                  blocked |-> FALSE, since |-> Idle.since]
      BY DEF Idle
    <3> QED BY <3>1, <1>3, IdleIs DEF SyncsOf
  <2>2. s \in SyncsOf(<<>>, <<>>)
    BY <1>3, <2>1 DEF SyncsOf
  <2> QED BY <2>2 DEF SyncsOf
<1>4. /\ s.pc = "mirrored" /\ s.todo = Idle.todo /\ s.since = spent /\ s.fresh = {} /\ s.failures = 0
      /\ s.offline = FALSE /\ s.held = Idle.held /\ s.row = NoRow /\ s.file = NoFile
  BY DEF Idle
<1> HIDE DEF s
<1>5. (sync \in Syncs)'
  BY <1>1, <1>2 DEF Syncs, SyncsOf
<1>6. Calm /\ Evolves /\ Distinct'
  BY <1>1, QuietIsCalm, RowsSame
<1>7. OfTheList'
  BY <1>1, ListAndMachineSame, NowTyped DEF OfTheList
<1>8. sync'.todo.join = {} /\ sync'.pc \in {"idle", "mirrored"}
      /\ sync'.since.people <= spent'.people /\ sync'.since.touches <= spent'.touches
  BY <1>1, <1>3, <1>4, IdleIs
<1>9. IInv'
  BY <1>5, <1>6, <1>7, <1>8, Resting
<1>10. Started'
  BY <1>1, <1>4, IdleIs DEF Started, Idle
<1> QED BY <1>9, <1>10 DEF WholeInv

\* A step after which the sync has ended.
LEMMA Ends ==
  ASSUME IInv, sync' = Idle, rows' = rows, Calm, OfTheList'
  PROVE  WholeInv'
<1>1. Evolves /\ Distinct'
  BY RowsSame
<1>2. IInv'
  BY <1>1, AtIdle
<1>3. Started'
  BY IdleIs DEF Started
<1> QED BY <1>2, <1>3 DEF WholeInv

\* The ends of a sync.
LEMMA EndOfflineKeeps == ASSUME IInv, EndOffline PROVE WholeInv'
<1>1. /\ sync' = Idle /\ rows' = rows /\ UNCHANGED <<spent, scene, quiet>> /\ mirror' = mirror
      /\ UNCHANGED <<listVars, machineVars, writes>>
  BY DEF EndOffline, listVars
<1>2. OfTheList'
  BY <1>1, ListAndMachineSame, NowTyped DEF OfTheList
<1> QED BY <1>1, <1>2, QuietIsCalm, Ends

LEMMA CrashKeeps == ASSUME IInv, Crash PROVE WholeInv'
<1>1. /\ sync' = Idle /\ rows' = rows /\ Faulty /\ mirror' = mirror
      /\ UNCHANGED <<listVars, machineVars, writes>>
  BY DEF Crash, listVars
<1>2. OfTheList'
  BY <1>1, ListAndMachineSame, NowTyped DEF OfTheList
<1> QED BY <1>1, <1>2, FaultyIsCalm, Ends

LEMMA EndKeeps == ASSUME IInv, End PROVE WholeInv'
<1>1. /\ sync' = Idle /\ UNCHANGED <<rows, unsafe, adopted, paused, machineVars, mirror, writes, spent, scene>>
      /\ resumePending' = FALSE
      /\ quiet' = IF sync.since # spent THEN 0 ELSE IF quiet < Quiet THEN quiet + 1 ELSE quiet
  BY DEF End
<1>2. OfTheList'
  BY <1>1, NowTyped DEF OfTheList, machineVars
<1>3. quiet' \in 0 .. Quiet
  BY <1>1, NowTyped, SyncAssumption
<1>4. Calm
  BY <1>1, <1>3, NowTyped DEF Calm
<1> QED BY <1>1, <1>2, <1>4, Ends

\* The stars are put right; nothing of the list changes.
LEMMA Starring ==
  ASSUME IInv, rows' = rows, Calm, OfTheList', (sync \in Syncs)', sync'.pc = "stars",
         Working \/ sync.pc = "stars", sync'.plan = sync.plan, sync'.todo.join = {}, sync'.since = sync.since,
         FreshOK'
  PROVE  WholeInv'
<1>0. Evolves /\ Distinct'
  BY RowsSame
<1>1. ~Working'
  BY DEF Working
<1>2. sync.plan \in [Rows -> Plans] /\ sync.since.people <= spent.people /\ sync.since.touches <= spent.touches
  BY NowTyped DEF SyncOK
<1>3. sync'.since.people <= spent'.people /\ sync'.since.touches <= spent'.touches
  <2>1. sync.since \in Counts /\ sync.since.people \in Nat /\ sync.since.touches \in Nat
    BY NowTyped, SyncTyped DEF Counts
  <2>2. spent'.people \in Nat /\ spent'.touches \in Nat
    BY NowTyped, SyncAssumption DEF Calm, Bounds
  <2> QED BY <1>2, <2>1, <2>2, NowTyped DEF Calm
<1>4. SyncOK'
  BY <1>1, <1>2, <1>3 DEF SyncOK
<1>5. WellFormed'
  BY <1>0, <1>4, NowTyped, TypesFrom
<1>6. FilesApart'
  BY <1>0, <1>1 DEF FilesApart, JoiningFilesAreNobodys, Settling
<1>7. AsRead'
  BY <1>1 DEF AsRead
<1> QED BY <1>5, <1>6, <1>7 DEF IInv, WholeInv, Started

\* One star is put right.
LEMMA PutStarKeeps == ASSUME IInv, PutStar PROVE WholeInv'
<1> DEFINE f == First(sync.todo.star, NoFile)
           t == [sync.todo EXCEPT !.star = @ \ {f}]
<1>1. /\ sync.pc = "stars" /\ sync' = [sync EXCEPT !.todo.star = @ \ {f}] /\ rows' = rows
      /\ UNCHANGED <<listVars, files, selected, mirror, writes>>
      /\ starred' \in {IF f \in sync.m.starred THEN starred \ {f} ELSE starred \cup {f}, starred}
      /\ sync.todo.star # {}
      /\ Sound \/ Faulty
  BY DEF PutStar, listVars
<1>2. Calm
  BY <1>1, SoundIsCalm, FaultyIsCalm
<1>3. f \in sync.todo.star /\ sync.todo.star \subseteq Files /\ sync \in Syncs /\ sync.todo \in Todos
  BY <1>1, FirstIsOne, NowTyped, SyncTyped, PlanAssumption
<1>4. OfTheList'
  BY <1>1, <1>3, NowTyped DEF OfTheList, listVars
<1>5. t \in Todos /\ t.join = sync.todo.join /\ t.star \subseteq sync.todo.star
  BY <1>3, TodoWithout DEF Todos
<1>6. sync' = WithTodo(sync, t)
  BY <1>1, <1>3 DEF WithTodo, Syncs, Todos
<1> HIDE DEF t, f
<1>7. WithTodo(sync, t) \in Syncs /\ WithTodo(sync, t).todo = t /\ Same(WithTodo(sync, t), sync)
      /\ WithTodo(sync, t).plan = sync.plan /\ WithTodo(sync, t).since = sync.since
  BY <1>3, <1>5, WithTodoIs
<1>8. sync'.todo = t /\ sync'.pc = "stars" /\ sync'.fresh = sync.fresh /\ sync'.plan = sync.plan
      /\ sync'.since = sync.since
  BY <1>1, <1>6, <1>7 DEF Same
<1>9. (sync \in Syncs)'
  <2>1. sync' \in Syncs /\ sync'.names = sync.names /\ sync'.attached = sync.attached
    BY <1>6, <1>7 DEF Syncs
  <2> QED BY <2>1 DEF Syncs
<1>10. FreshOK /\ sync.todo.join = {}
  BY <1>1, NowTyped DEF IInv, FilesApart, SyncOK, Working
<1>11. FreshOK'
  BY <1>1, <1>5, <1>8, <1>10 DEF FreshOK
<1> QED BY <1>1, <1>2, <1>4, <1>5, <1>8, <1>9, <1>10, <1>11, Starring

\* The stars that are wrong are of files other profiles stand on than those just found.
LEMMA StarsKeeps == ASSUME IInv, Stars PROVE WholeInv'
<1> DEFINE m == [docs |-> files, starred |-> starred, selected |-> selected, unreadable |-> {}]
           wrong == {rows[r].file : r \in StarsOff(m) \ sync.fresh}
           t == [sync.todo EXCEPT !.star = wrong]
<1>1. /\ WorkDone /\ rows' = rows /\ UNCHANGED <<spent, scene, quiet>> /\ mirror' = mirror
      /\ UNCHANGED <<listVars, machineVars, writes>>
      /\ sync' = IF sync.wrote THEN [sync EXCEPT !.pc = "stars", !.m = m, !.todo.star = wrong]
                 ELSE [sync EXCEPT !.pc = "stars"]
  BY DEF Stars, listVars
<1>2. sync.pc = "work" /\ sync.todo.join = {} /\ Working
  BY <1>1, PartsAre DEF WorkDone, Working
<1>3. Calm /\ OfTheList'
  BY <1>1, QuietIsCalm, ListAndMachineSame, NowTyped DEF OfTheList
<1>4. sync \in Syncs /\ sync.todo \in Todos /\ FreshOK /\ Distinct
  BY <1>2, NowTyped, SyncTyped DEF IInv, FilesApart
<1>5. CASE ~sync.wrote
  <2>1. sync' = [sync EXCEPT !.pc = "stars"]
    BY <1>1, <1>5
  <2>2. (sync \in Syncs)' /\ sync'.pc = "stars" /\ sync'.plan = sync.plan /\ sync'.todo = sync.todo
        /\ sync'.since = sync.since /\ sync'.fresh = sync.fresh
    BY <1>4, <2>1 DEF Syncs
  <2>3. FreshOK'
    BY <1>1, <1>4, <2>2 DEF FreshOK
  <2> QED BY <1>1, <1>2, <1>3, <2>2, <2>3, Starring
<1>6. CASE sync.wrote
  <2>1. m \in Reads
    BY NowTyped DEF OfTheList, Reads
  <2>2. \A r \in StarsOff(m) : r \in Rows /\ rows[r].file # NoFile
    BY DEF StarsOff, There, Live
  <2>3. wrong \subseteq Files
    <3>1. \A r \in Rows : rows[r].file \in Files \cup {NoFile}
      BY NowTyped, RowTyped DEF Profiles
    <3> QED BY <2>2, <3>1
  <2>4. \A r \in Rows : r \in sync.fresh => rows[r].file \notin wrong
    BY <1>4, <2>2 DEF Distinct
  <2>5. t \in Todos /\ t.join = sync.todo.join /\ t.star = wrong
    BY <1>4, <2>3 DEF Todos
  <2>6. sync' = [sync EXCEPT !.pc = "stars", !.m = m, !.todo = t]
    BY <1>1, <1>4, <1>6 DEF Syncs, Todos
  <2> HIDE DEF m, wrong, t
  <2>7. (sync \in Syncs)' /\ sync'.pc = "stars" /\ sync'.plan = sync.plan /\ sync'.todo = t
        /\ sync'.since = sync.since /\ sync'.fresh = sync.fresh
    BY <1>4, <2>1, <2>5, <2>6 DEF Syncs
  <2>8. sync.fresh \subseteq Rows
    BY <1>4, SyncTyped
  <2>9. FreshOK'
    BY <1>1, <1>2, <1>4, <2>4, <2>5, <2>7, <2>8 DEF FreshOK
  <2> QED BY <1>1, <1>2, <1>3, <2>5, <2>7, <2>9, Starring
<1> QED BY <1>5, <1>6

-----------------------------------------------------------------------------
(* What a sync begins with.                                                 *)

\* What a read of the machine may be.
Reading(m) ==
  /\ m \in Reads /\ m.unreadable \subseteq Held
  /\ \A f \in Files : m.docs[f] = IF f \in m.unreadable THEN NoDoc ELSE files[f]

\* What a plan means, of a row on the list.
Means(p, r, m) ==
  /\ p \in Plans
  /\ p.what # "none" =>
       /\ r \in Live \cup Deleted /\ p.was.file = rows[r].file
       /\ p.was.deleted = (r \in Deleted)
       /\ p.edited => There(r, m)
       /\ p.takes # <<>> => r \in Live /\ There(r, m)
       /\ r \in Deleted => p.what \in {"report", "remove", "leave", "release"}
       /\ p.what = "report" => ~p.edited
  /\ p.what = "attached" => r \in Lost(m)
  /\ p.what = "held" => r \in Live /\ There(r, m)
  /\ p.what = "remove" => r \in Deleted \/ ~rows[r].on
  /\ p.what = "release" => rows[r].file # NoFile /\ ~There(r, m) /\ ~Unreadable(r, m)

\* No row is both on the list and deleted.
LEMMA LiveOrDeleted == \A r \in Rows : ~(r \in Live /\ r \in Deleted)
BY DEF Live, Deleted

\* Only a profile that lost its file is attached to one.
LEMMA IsAttached ==
  ASSUME NEW m \in Reads, NEW r \in Rows, Outcome(r, m) = "attached"
  PROVE  r \in Lost(m)
<1>1. \E f \in DOMAIN Attached(m) : Attached(m)[f] = r
  BY DEF Outcome
<1>2. r # NoRow
  BY PlanAssumption
<1> QED BY <1>1, <1>2, AttachedTyped

\* The planner plans so.
LEMMA PlanMeans ==
  ASSUME IInv, NEW m \in Reads, NEW r \in Rows
  PROVE  Means(PlanOf(r, m), r, m)
<1> DEFINE p == PlanOf(r, m)
<1>1. p \in Plans
  BY NowTyped, PlanTyped
<1>2. CASE p.what = "none"
  BY <1>1, <1>2 DEF Means
<1>3. ASSUME p.what # "none" PROVE Means(p, r, m)
  <2>1. PlanSays(p, r, m)
    BY <1>3, WhatIsPlanned
  <2>2. /\ r \in Live \cup Deleted /\ p.was.file = rows[r].file /\ p.was.deleted = (r \in Deleted)
        /\ p.edited = (Edited(r, m) /\ p.what # "report")
        /\ p.takes = IF r \in Live /\ Takes(r, m) THEN MachinesName(r, Seen(r, m)) ELSE <<>>
        /\ p.what = IF r \in Live THEN WhatLive(r, m) ELSE WhatDeleted(r, m)
    BY <2>1 DEF PlanSays
  <2> HIDE DEF p
  <2>3. /\ p.edited => There(r, m)
        /\ p.takes # <<>> => r \in Live /\ There(r, m)
        /\ p.what = "report" => ~p.edited
    BY <2>2 DEF Edited, Takes
  <2>4. CASE r \in Live
    <3>1. p.what = WhatLive(r, m)
      BY <2>2, <2>4
    <3>2. p.what = "attached" => Outcome(r, m) = "attached"
      BY <3>1, Outcomes DEF WhatLive
    <3>3. p.what = "attached" => r \in Lost(m)
      BY <3>2, IsAttached
    <3>4. /\ p.what = "held" => There(r, m)
          /\ p.what = "remove" => ~rows[r].on
          /\ p.what = "release" => rows[r].file # NoFile /\ ~There(r, m) /\ ~Unreadable(r, m)
      BY <3>1, WhatLiveIs DEF IsHeld
    <3>5. r \notin Deleted
      BY <2>4, LiveOrDeleted
    <3> QED BY <1>1, <2>2, <2>3, <2>4, <3>3, <3>4, <3>5 DEF Means
  <2>5. CASE r \notin Live
    <3>1. p.what = WhatDeleted(r, m) /\ r \in Deleted
      BY <2>2, <2>5
    <3>2. p.what \in {"report", "remove", "leave", "release"}
      BY <1>3, <3>1, WhatDeletedIs
    <3>3. p.what = "release" => rows[r].file # NoFile /\ ~There(r, m) /\ ~Unreadable(r, m)
      BY <3>1, WhatDeletedIs
    <3> QED BY <1>1, <2>2, <2>3, <3>1, <3>2, <3>3 DEF Means
  <2> QED BY <2>4, <2>5
<1> QED BY <1>2, <1>3

\* A lost profile that a file is attached to is planned so.
LEMMA AttachedIsPlanned ==
  ASSUME IInv, NEW m \in Reads, NEW f \in Unseen(m), Attached(m)[f] # NoRow
  PROVE  /\ Attached(m)[f] \in Rows /\ resumePending
         /\ PlanOf(Attached(m)[f], m).what = "attached"
         /\ m.docs[f].brew \in Asked(rows[Attached(m)[f]])
<1> DEFINE r == Attached(m)[f]
<1>1. /\ resumePending /\ r \in Lost(m) /\ f \in DOMAIN Attached(m)
      /\ m.docs[f].brew \in rows[r].listed \cup {rows[r].current}
  BY AttachedTyped
<1>2. r \in Live /\ ~There(r, m) /\ ~Unreadable(r, m) /\ r \in Rows /\ rows[r].state = "live"
  BY <1>1 DEF Lost, Live
<1>3. \E g \in DOMAIN Attached(m) : Attached(m)[g] = r
  BY <1>1
<1> HIDE DEF r
<1>4. Outcome(r, m) = "attached"
  BY <1>2, <1>3 DEF Outcome
<1>5. WhatLive(r, m) = "attached"
  BY <1>4, WhatLiveIs
<1>6. PlanOf(r, m).what = "attached"
  BY <1>2, <1>5 DEF PlanOf
<1>7. m.docs[f].brew \in Asked(rows[r])
  <2>1. RowOK(rows[r])
    BY <1>2, NowTyped, RowTyped
  <2> QED BY <1>1, <1>2, <2>1 DEF RowOK, Asked, Had
<1> QED BY <1>1, <1>2, <1>6, <1>7 DEF r

\* What a sync begins with.
DoesOf(p, whats) == p.what \in whats \/ (p.what # "none" /\ p.edited)
\* What is left to do, by the plan.
TodoOf(plan, m) ==
  [join |-> Unseen(m), take |-> Taking(plan),
   on |-> {r \in Live : rows[r].on /\ DoesOf(plan[r], {"conflict", "push"})},
   off |-> {r \in Live : ~rows[r].on /\ DoesOf(plan[r], {"conflict", "release", "remove"})},
   deleted |-> {r \in Deleted : DoesOf(plan[r], {"release", "remove"})},
   star |-> {rows[r].file : r \in StarsOff(m)}]
\* The files held at the beginning.
HeldOf(plan) == [r \in Rows |-> IF plan[r].what = "held" THEN rows[r].file ELSE NoFile]
\* The plan.
Planned(m) == [r \in Rows |-> PlanOf(r, m)]

\* What may be said of what is left at the beginning.
TodoGood(t, plan) ==
  /\ t \in Todos /\ plan \in [Rows -> Plans]
  /\ HeldOf(plan) \in [Rows -> Files \cup {NoFile}]
  /\ t.on \cap t.off = {} /\ t.join \cap t.star = {}
  /\ \A r \in t.take \cup t.on \cup t.off :
       plan[r].what \notin {"none", "attached"} /\ ~plan[r].was.deleted
  /\ \A r \in t.take : plan[r].takes # <<>> /\ (plan[r].what = "remove" => r \in t.off)
  /\ \A r \in t.deleted : /\ plan[r].was.deleted
                          /\ \/ plan[r].what \in {"release", "remove"}
                             \/ plan[r].what = "leave" /\ plan[r].edited

\* It may.
LEMMA TodoIs ==
  ASSUME IInv, NEW m \in Reads
  PROVE  TodoGood(TodoOf(Planned(m), m), Planned(m))
<1> DEFINE plan == Planned(m)
           t == TodoOf(plan, m)
<1>1. \A r \in Rows : plan[r] = PlanOf(r, m) /\ Means(plan[r], r, m)
  BY PlanMeans DEF Planned
<1>2. plan \in [Rows -> Plans]
  <2>1. \A r \in Rows : PlanOf(r, m) \in Plans
    BY <1>1 DEF Means
  <2> QED BY <2>1 DEF Planned
<1>3. \A r \in Rows : rows[r].file \in Files \cup {NoFile}
  BY NowTyped, RowTyped DEF Profiles
<1>4. \A r \in StarsOff(m) : r \in Live /\ rows[r].file # NoFile
  BY DEF StarsOff, There
<1> HIDE DEF plan
<1>5. /\ t.join = Unseen(m) /\ t.take = Taking(plan)
      /\ t.on = {r \in Live : rows[r].on /\ DoesOf(plan[r], {"conflict", "push"})}
      /\ t.off = {r \in Live : ~rows[r].on /\ DoesOf(plan[r], {"conflict", "release", "remove"})}
      /\ t.deleted = {r \in Deleted : DoesOf(plan[r], {"release", "remove"})}
      /\ t.star = {rows[r].file : r \in StarsOff(m)}
      /\ t = [join |-> t.join, take |-> t.take, on |-> t.on, off |-> t.off, deleted |-> t.deleted,
              star |-> t.star]
  BY DEF TodoOf
<1> HIDE DEF t
<1>6. /\ Unseen(m) \subseteq Files /\ Taking(plan) \subseteq Rows /\ Live \subseteq Rows /\ Deleted \subseteq Rows
  BY DEF Unseen, Taking, Live, Deleted
<1>7. t.star \subseteq Files
  BY <1>3, <1>4, <1>5, <1>6
<1>8. t \in Todos
  BY <1>5, <1>6, <1>7 DEF Todos
<1>9. HeldOf(plan) \in [Rows -> Files \cup {NoFile}]
  BY <1>3 DEF HeldOf
<1>10. t.on \cap t.off = {}
  BY <1>5
<1>11. t.join \cap t.star = {}
  <2>1. \A r \in Live : rows[r].file \in Claimed
    BY DEF Claimed
  <2> QED BY <2>1, <1>4, <1>5 DEF Unseen
<1>12. ASSUME NEW r \in t.take
       PROVE  /\ plan[r].what \notin {"none", "attached"} /\ ~plan[r].was.deleted /\ plan[r].takes # <<>>
              /\ plan[r].what = "remove" => r \in t.off
  <2>1. r \in Rows /\ plan[r].what # "none" /\ plan[r].takes # <<>>
    BY <1>5 DEF Taking
  <2>2. Means(plan[r], r, m)
    BY <1>1, <2>1
  <2>3. r \in Live /\ There(r, m) /\ ~plan[r].was.deleted
    BY <2>1, <2>2, LiveOrDeleted DEF Means
  <2>4. plan[r].what # "attached"
    BY <2>2, <2>3 DEF Means, Lost
  <2>5. plan[r].what = "remove" => r \in t.off
    BY <1>5, <2>1, <2>2, <2>3, LiveOrDeleted DEF Means, DoesOf
  <2> QED BY <2>1, <2>3, <2>4, <2>5
<1>13. ASSUME NEW r \in t.on \cup t.off
       PROVE  plan[r].what \notin {"none", "attached"} /\ ~plan[r].was.deleted
  <2>1. r \in Live /\ r \in Rows /\ plan[r].what # "none"
        /\ (plan[r].what \in {"conflict", "push", "release", "remove"} \/ plan[r].edited)
    BY <1>5, <1>6 DEF DoesOf
  <2>2. Means(plan[r], r, m)
    BY <1>1, <2>1
  <2>3. plan[r].what = "attached" => ~plan[r].edited
    BY <2>1, <2>2 DEF Means, Lost
  <2>4. ~plan[r].was.deleted
    BY <2>1, <2>2, LiveOrDeleted DEF Means
  <2> QED BY <2>1, <2>3, <2>4
<1>14. ASSUME NEW r \in t.deleted
       PROVE  /\ plan[r].was.deleted
              /\ \/ plan[r].what \in {"release", "remove"}
                 \/ plan[r].what = "leave" /\ plan[r].edited
  <2>1. r \in Deleted /\ r \in Rows /\ plan[r].what # "none"
        /\ (plan[r].what \in {"release", "remove"} \/ plan[r].edited)
    BY <1>5, <1>6 DEF DoesOf
  <2>2. Means(plan[r], r, m)
    BY <1>1, <2>1
  <2> QED BY <2>1, <2>2 DEF Means
<1>15. TodoGood(t, plan)
  BY <1>2, <1>8, <1>9, <1>10, <1>11, <1>12, <1>13, <1>14 DEF TodoGood
<1> QED BY <1>15 DEF plan, t

\* The sync as its write phase begins.
Begun(m) ==
  /\ sync'.pc = "work" /\ sync'.m = m /\ sync'.plan = Planned(m)
  /\ sync'.names = JoinNames(m) /\ sync'.attached = Attached(m)
  /\ sync'.todo = TodoOf(Planned(m), m) /\ sync'.held = HeldOf(Planned(m))
  /\ sync'.fresh = {} /\ sync'.failures = 0 /\ ~sync'.offline /\ sync'.since = sync.since
  /\ sync'.row = NoRow /\ sync'.file = NoFile
  /\ (sync \in Syncs)'

\* Begin comes to that.
LEMMA BeginIs ==
  ASSUME WholeInv, sync.pc = "mirrored", NEW m \in Reads, Begin(m)
  PROVE  Begun(m) /\ rows' = rows /\ (resumePending \/ ~LooksReset(m))
<1> DEFINE plan == Planned(m)
           todo == TodoOf(plan, m)
           held == HeldOf(plan)
           names == JoinNames(m)
           attached == Attached(m)
<1>1. sync' = [sync EXCEPT !.pc = "work", !.m = m, !.plan = plan, !.names = names, !.attached = attached,
                           !.todo = todo, !.held = held]
  BY DEF Begin, Planned, TodoOf, HeldOf, DoesOf
<1>2. plan \in [Rows -> Plans] /\ todo \in Todos /\ held \in [Rows -> Files \cup {NoFile}]
  BY TodoIs DEF TodoGood, WholeInv
<1>3. /\ sync \in Syncs /\ sync.fresh = {} /\ sync.failures = 0 /\ ~sync.offline
      /\ sync.row = NoRow /\ sync.file = NoFile
  BY NowTyped DEF WholeInv, Started
<1>4. rows' = rows /\ (resumePending \/ ~LooksReset(m))
  BY DEF Begin
<1> HIDE DEF plan, todo, held, names, attached
<1> DEFINE a == [sync EXCEPT !.pc = "work", !.m = m, !.plan = plan]
           b == [a EXCEPT !.names = names, !.attached = attached]
           c == [b EXCEPT !.todo = todo, !.held = held]
<1>5. /\ a \in SyncsOf(sync.names, sync.attached) /\ a.pc = "work" /\ a.m = m /\ a.plan = plan
      /\ a.fresh = {} /\ a.failures = 0 /\ a.offline = sync.offline /\ a.since = sync.since
      /\ a.row = NoRow /\ a.file = NoFile
  BY <1>2, <1>3 DEF Syncs, SyncsOf
<1>6. c = sync'
  BY <1>1
<1> HIDE DEF a
<1>7. /\ b \in SyncsOf(names, attached) /\ b.pc = "work" /\ b.m = m /\ b.plan = plan
      /\ b.fresh = {} /\ b.failures = 0 /\ b.offline = sync.offline /\ b.since = sync.since
      /\ b.row = NoRow /\ b.file = NoFile /\ b.names = names /\ b.attached = attached
  BY <1>2, <1>5 DEF SyncsOf
<1> HIDE DEF b
<1>8. /\ c \in SyncsOf(names, attached) /\ c.pc = "work" /\ c.m = m /\ c.plan = plan
      /\ c.fresh = {} /\ c.failures = 0 /\ c.offline = sync.offline /\ c.since = sync.since
      /\ c.row = NoRow /\ c.file = NoFile /\ c.names = names /\ c.attached = attached
      /\ c.todo = todo /\ c.held = held
  BY <1>2, <1>7 DEF SyncsOf
<1> HIDE DEF c
<1>9. (sync \in Syncs)'
  BY <1>6, <1>8 DEF Syncs, SyncsOf
<1>10. Begun(m)
  BY <1>3, <1>6, <1>8, <1>9 DEF Begun, plan, todo, held, names, attached
<1> QED BY <1>4, <1>10

\* What is left to do at the beginning.
LEMMA BegunTodo ==
  ASSUME WholeInv, NEW m, Reading(m), Begun(m), rows' = rows
  PROVE  TodoOK'
<1>1. TodoGood(TodoOf(Planned(m), m), Planned(m))
  BY TodoIs DEF WholeInv, Reading
<1>2. /\ sync'.todo = TodoOf(Planned(m), m) /\ sync'.plan = Planned(m) /\ sync'.pc = "work"
      /\ sync'.failures = 0 /\ ~sync'.offline
  BY DEF Begun
<1>3. sync'.failures < MaxFailures
  BY <1>2, SyncAssumption
<1> QED BY <1>1, <1>2, <1>3 DEF TodoOK, TodoGood

\* The files that are to join.
LEMMA BegunAttached ==
  ASSUME WholeInv, NEW m, Reading(m), Begun(m), rows' = rows, resumePending' = resumePending
  PROVE  AttachedOK'
<1>1. m \in Reads /\ IInv
  BY DEF Reading, WholeInv
<1>2. /\ sync'.todo.join = Unseen(m) /\ sync'.m = m /\ sync'.plan = Planned(m)
      /\ sync'.names = JoinNames(m) /\ sync'.attached = Attached(m)
  BY DEF Begun, TodoOf
<1>3. ASSUME NEW f \in Unseen(m)
      PROVE  /\ m.docs[f] # NoDoc
             /\ Attached(m)[f] \in Rows \cup {NoRow}
             /\ Attached(m)[f] = NoRow => JoinNames(m)[f] \in Names
             /\ Attached(m)[f] # NoRow =>
                  /\ Planned(m)[Attached(m)[f]].what = "attached"
                  /\ m.docs[f].brew \in Asked(rows[Attached(m)[f]])
                  /\ resumePending
  <2>1. m.docs[f] # NoDoc
    BY DEF Unseen
  <2>2. Attached(m)[f] \in Rows \cup {NoRow}
    BY <1>1, AttachedTyped
  <2>3. Attached(m)[f] = NoRow => JoinNames(m)[f] \in Names
    BY <1>1, JoinNamesTyped
  <2>4. ASSUME Attached(m)[f] # NoRow
        PROVE  /\ Planned(m)[Attached(m)[f]].what = "attached"
               /\ m.docs[f].brew \in Asked(rows[Attached(m)[f]])
               /\ resumePending
    BY <1>1, <2>4, AttachedIsPlanned DEF Planned
  <2> QED BY <2>1, <2>2, <2>3, <2>4
<1> HIDE DEF Planned
<1> QED BY <1>2, <1>3 DEF AttachedOK, Asked, Had

\* The files are apart at the beginning.
LEMMA BegunApart ==
  ASSUME WholeInv, NEW m, Reading(m), Begun(m), rows' = rows
  PROVE  FilesApart'
<1>1. m \in Reads /\ IInv
  BY DEF Reading, WholeInv
<1>2. /\ sync'.todo.join = Unseen(m) /\ sync'.m = m /\ sync'.plan = Planned(m) /\ sync'.pc = "work"
      /\ sync'.held = HeldOf(Planned(m)) /\ sync'.fresh = {} /\ sync'.todo = TodoOf(Planned(m), m)
  BY DEF Begun, TodoOf
<1>3. ASSUME NEW r \in Rows
      PROVE  /\ Means(Planned(m)[r], r, m)
             /\ HeldOf(Planned(m))[r] = IF Planned(m)[r].what = "held" THEN rows[r].file ELSE NoFile
  BY <1>1, PlanMeans DEF Planned, HeldOf
<1>4. TodoGood(TodoOf(Planned(m), m), Planned(m))
  BY <1>1, TodoIs
<1>5. Distinct'
  BY <1>1 DEF IInv, FilesApart, Distinct
<1>6. JoiningFilesAreNobodys'
  <2>1. \A f \in Unseen(m), r \in Live \cup Deleted : rows[r].file # f
    BY DEF Unseen, Claimed
  <2>2. Live' = Live /\ Deleted' = Deleted
    BY DEF Live, Deleted
  <2> QED BY <1>2, <2>1, <2>2 DEF JoiningFilesAreNobodys
<1>7. Settling'
  BY <1>2 DEF Settling
<1>8. FileKept'
  <2>1. ASSUME NEW r \in Rows, sync'.plan[r].what \in {"held", "push", "remove", "release"}
        PROVE  rows'[r].file = sync'.plan[r].was.file
    BY <1>2, <1>3, <2>1 DEF Means
  <2> QED BY <2>1 DEF FileKept
<1>9. HeldOK'
  BY <1>2, <1>3 DEF HeldOK
<1>10. FreshOK'
  BY <1>2, <1>4 DEF FreshOK, TodoGood
<1> QED BY <1>5, <1>6, <1>7, <1>8, <1>9, <1>10 DEF FilesApart

\* What was read is as it was read.
LEMMA BegunThere ==
  ASSUME WholeInv, NEW m, Reading(m), Begun(m), rows' = rows, files' = files,
         resumePending' = resumePending, resumePending \/ ~LooksReset(m)
  PROVE  AsRead'
<1>1. m \in Reads /\ IInv
  BY DEF Reading, WholeInv
<1>2. /\ sync'.todo.join = Unseen(m) /\ sync'.m = m /\ sync'.plan = Planned(m) /\ sync'.pc = "work"
      /\ sync'.held = HeldOf(Planned(m)) /\ sync'.todo = TodoOf(Planned(m), m)
  BY DEF Begun, TodoOf
<1>3. ASSUME NEW r \in Rows
      PROVE  /\ Means(Planned(m)[r], r, m)
             /\ HeldOf(Planned(m))[r] = IF Planned(m)[r].what = "held" THEN rows[r].file ELSE NoFile
  BY <1>1, PlanMeans DEF Planned, HeldOf
<1>4. TodoGood(TodoOf(Planned(m), m), Planned(m))
  BY <1>1, TodoIs
<1>5. \A f \in Files : m.docs[f] # NoDoc => files[f] # NoDoc
  BY DEF Reading
<1>6. \A f \in m.unreadable : files[f] # NoDoc
  BY DEF Reading, Held
<1>7. \A r \in Rows : rows[r].file \in Files \cup {NoFile}
  BY <1>1, NowTyped, RowTyped DEF Profiles
<1>8. ThereYet'
  <2>1. \A r \in Rows : sync'.held[r] # NoFile => files'[sync'.held[r]] # NoDoc
    BY <1>2, <1>3, <1>5, <1>7 DEF Means, There
  <2>2. \A f \in sync'.todo.join : files'[f] # NoDoc
    BY <1>2, <1>5 DEF Unseen
  <2>3. ASSUME NEW r \in Rows, Planned(m)[r].what = "release"
        PROVE  Planned(m)[r].was.file \in Files /\ files[Planned(m)[r].was.file] = NoDoc
    BY <1>3, <1>7, <2>3 DEF Means, There, Unreadable, Reading
  <2>4. Waiting' \subseteq Rows
    BY <1>2, <1>4 DEF Waiting, TodoGood, Todos
  <2> QED BY <1>2, <2>1, <2>2, <2>3, <2>4 DEF ThereYet
<1>9. DeletedYet'
  BY <1>2, <1>3 DEF DeletedYet, Means, Deleted
<1>10. TakesAndGoes'
  BY <1>2, <1>4 DEF TakesAndGoes, TodoGood
<1>11. LeftThere'
  <2>1. ASSUME ~LooksReset(m) PROVE Standing = {} \/ \E f \in Standing : files[f] # NoDoc
    <3>1. Standing = {} \/ \E f \in Standing : m.docs[f] # NoDoc \/ f \in m.unreadable
      BY <2>1 DEF LooksReset, Standing
    <3>2. Standing \subseteq Files
      BY <1>7 DEF Standing, Live
    <3> QED BY <3>1, <3>2, <1>5, <1>6
  <2>2. Standing' = Standing
    BY DEF Standing, Live
  <2> QED BY <2>1, <2>2 DEF LeftThere
<1> QED BY <1>8, <1>9, <1>10, <1>11 DEF AsRead

\* The beginning keeps the invariant.
LEMMA BeginKeeps ==
  ASSUME WholeInv, sync.pc = "mirrored", NEW m, Reading(m), Begin(m), Calm, OfTheList',
         files' = files, resumePending' = resumePending
  PROVE  WholeInv'
<1>0. m \in Reads /\ IInv
  BY DEF Reading, WholeInv
<1>1. Begun(m) /\ rows' = rows /\ (resumePending \/ ~LooksReset(m))
  BY <1>0, BeginIs
<1>2. /\ sync'.pc = "work" /\ sync'.plan = Planned(m) /\ sync'.m = m /\ sync'.since = sync.since
      /\ (sync \in Syncs)'
  BY <1>1 DEF Begun
<1>3. Working'
  BY <1>2 DEF Working
<1>4. Evolves /\ RowsTyped
  BY <1>0, <1>1, RowsSame, NowTyped
<1>5. Planned(m) \in [Rows -> Plans]
  BY <1>0, TodoIs DEF TodoGood
<1>6. ASSUME NEW r \in Rows PROVE PlanOK(r)'
  <2>1. Fits(Planned(m)[r], r, m.docs)
    BY <1>0, <1>4, PlanFits DEF Planned
  <2> QED BY <1>1, <1>2, <2>1 DEF PlanOK, Fits, Asked, Had
<1>7. sync'.since.people <= spent'.people /\ sync'.since.touches <= spent'.touches
  <2>1. sync.since \in Counts /\ sync.since.people \in Nat /\ sync.since.touches \in Nat
    BY <1>0, NowTyped, SyncTyped DEF Counts
  <2>2. spent'.people \in Nat /\ spent'.touches \in Nat
    BY <1>0, NowTyped, SyncAssumption DEF Calm, Bounds
  <2>3. sync.since.people <= spent.people /\ sync.since.touches <= spent.touches
    BY <1>0, NowTyped DEF SyncOK
  <2> QED BY <1>0, <1>2, <2>1, <2>2, <2>3, NowTyped DEF Calm
<1>8. TodoOK' /\ AttachedOK'
  BY <1>1, BegunTodo, BegunAttached
<1>9. SyncOK'
  BY <1>2, <1>3, <1>5, <1>6, <1>7, <1>8 DEF SyncOK
<1>10. WellFormed'
  BY <1>0, <1>4, <1>9, NowTyped, TypesFrom
<1>11. FilesApart' /\ AsRead'
  BY <1>1, BegunApart, BegunThere
<1> QED BY <1>2, <1>10, <1>11 DEF WholeInv, IInv, Started

\* A sync that only takes names, as it begins.
LEMMA OfflineIs ==
  ASSUME WholeInv, sync.pc = "mirrored", NEW m \in Reads, NEW plan \in [Rows -> Plans],
         sync' = [sync EXCEPT !.pc = "work", !.m = m, !.plan = plan, !.offline = TRUE, !.todo.take = Taking(plan)]
  PROVE  /\ (sync \in Syncs)' /\ sync'.pc = "work" /\ sync'.m = m /\ sync'.plan = plan /\ sync'.offline
         /\ sync'.todo = [join |-> {}, take |-> Taking(plan), on |-> {}, off |-> {}, deleted |-> {}, star |-> {}]
         /\ sync'.fresh = {} /\ sync'.failures = 0 /\ sync'.since = sync.since
         /\ sync'.held = [r \in Rows |-> NoFile]
<1> DEFINE todo == [join |-> {}, take |-> Taking(plan), on |-> {}, off |-> {}, deleted |-> {}, star |-> {}]
<1>1. /\ sync \in Syncs /\ sync.fresh = {} /\ sync.failures = 0 /\ sync.held = [r \in Rows |-> NoFile]
      /\ sync.todo = [join |-> {}, take |-> {}, on |-> {}, off |-> {}, deleted |-> {}, star |-> {}]
  BY NowTyped DEF WholeInv, Started
<1>2. [sync.todo EXCEPT !.take = Taking(plan)] = todo
  <2>1. ASSUME NEW T
        PROVE  [[join |-> {}, take |-> {}, on |-> {}, off |-> {}, deleted |-> {}, star |-> {}] EXCEPT !.take = T]
                 = [join |-> {}, take |-> T, on |-> {}, off |-> {}, deleted |-> {}, star |-> {}]
    OBVIOUS
  <2>2. [[join |-> {}, take |-> {}, on |-> {}, off |-> {}, deleted |-> {}, star |-> {}] EXCEPT !.take = Taking(plan)]
          = todo
    BY <2>1
  <2> HIDE DEF todo
  <2> QED BY <1>1, <2>2
<1>3. todo \in Todos
  BY DEF Todos, Taking
<1> HIDE DEF todo
<1>4. sync' = [sync EXCEPT !.pc = "work", !.m = m, !.plan = plan, !.offline = TRUE, !.todo = todo]
  BY <1>1, <1>2 DEF Syncs
<1> DEFINE a == [sync EXCEPT !.pc = "work", !.m = m, !.plan = plan]
           b == [a EXCEPT !.offline = TRUE, !.todo = todo]
<1>5. b = sync'
  BY <1>4
<1>6. /\ a \in SyncsOf(sync.names, sync.attached) /\ a.pc = "work" /\ a.m = m /\ a.plan = plan
      /\ a.fresh = {} /\ a.failures = 0 /\ a.since = sync.since
      /\ a.held = sync.held
  BY <1>1 DEF Syncs, SyncsOf
<1> HIDE DEF a
<1>7. /\ b \in SyncsOf(sync.names, sync.attached) /\ b.pc = "work" /\ b.m = m /\ b.plan = plan
      /\ b.fresh = {} /\ b.failures = 0 /\ b.since = sync.since
      /\ b.held = sync.held /\ b.todo = todo /\ b.offline = TRUE
  BY <1>3, <1>6 DEF SyncsOf
<1> HIDE DEF b
<1>8. (sync \in Syncs)'
  BY <1>5, <1>7 DEF Syncs, SyncsOf
<1> QED BY <1>1, <1>5, <1>7, <1>8 DEF todo

\* The beginning of a sync that only takes names.
LEMMA TakeFromTheMirrorKeeps == ASSUME WholeInv, TakeFromTheMirror PROVE WholeInv'
<1> DEFINE m == [NoRead EXCEPT !.docs = mirror, !.selected = selected]
           plan == Planned(m)
<1>1. /\ sync.pc = "mirrored" /\ UNCHANGED <<spent, scene, quiet>> /\ rows' = rows /\ mirror' = mirror
      /\ UNCHANGED <<listVars, machineVars, writes>>
      /\ \/ sync' = Idle
         \/ sync' = [sync EXCEPT !.pc = "work", !.m = m, !.plan = plan, !.offline = TRUE,
                                 !.todo.take = Taking(plan)]
  BY DEF TakeFromTheMirror, listVars, Planned
<1>2. IInv
  BY DEF WholeInv
<1>3. m \in Reads
  BY <1>2, NowTyped, IdleIs DEF OfTheList, Reads, NoRead
<1>4. Calm /\ OfTheList'
  BY <1>1, <1>2, QuietIsCalm, ListAndMachineSame, NowTyped DEF OfTheList
<1>5. CASE sync' = Idle
  BY <1>1, <1>2, <1>4, <1>5, Ends
<1>6. CASE sync' # Idle
  <2>1. TodoGood(TodoOf(plan, m), plan)
    BY <1>2, <1>3, TodoIs
  <2>2. plan \in [Rows -> Plans]
    BY <2>1 DEF TodoGood
  <2>3. \A r \in Taking(plan) : plan[r].what \notin {"none", "attached"} /\ ~plan[r].was.deleted
                                  /\ plan[r].takes # <<>>
    BY <2>1 DEF TodoGood, TodoOf
  <2>4. ASSUME NEW r \in Rows PROVE Means(plan[r], r, m) /\ Fits(plan[r], r, m.docs)
    BY <1>2, <1>3, PlanMeans, PlanFits, NowTyped DEF Planned
  <2> HIDE DEF plan, m
  <2>5. /\ (sync \in Syncs)' /\ sync'.pc = "work" /\ sync'.m = m /\ sync'.plan = plan /\ sync'.offline
        /\ sync'.todo = [join |-> {}, take |-> Taking(plan), on |-> {}, off |-> {}, deleted |-> {}, star |-> {}]
        /\ sync'.fresh = {} /\ sync'.failures = 0 /\ sync'.since = sync.since
        /\ sync'.held = [r \in Rows |-> NoFile]
    BY <1>1, <1>3, <1>6, <2>2, OfflineIs
  <2>6. Working'
    BY <2>5 DEF Working
  <2>7. \A r \in Rows : PlanOK(r)'
    BY <1>1, <2>4, <2>5 DEF PlanOK, Fits, Asked, Had
  <2>8. sync'.failures < MaxFailures
    BY <2>5, SyncAssumption
  <2>9. TodoOK'
    BY <2>3, <2>5, <2>8 DEF TodoOK
  <2>10. AttachedOK'
    BY <2>5 DEF AttachedOK
  <2>11. sync'.since.people <= spent'.people /\ sync'.since.touches <= spent'.touches
    BY <1>1, <1>2, <2>5, NowTyped DEF SyncOK
  <2>12. SyncOK'
    BY <2>2, <2>5, <2>6, <2>7, <2>9, <2>10, <2>11 DEF SyncOK
  <2>13. Evolves /\ Distinct'
    BY <1>1, <1>2, RowsSame
  <2>14. WellFormed'
    BY <1>2, <1>4, <2>12, <2>13, NowTyped, TypesFrom
  <2>15. FileKept'
    <3>1. ASSUME NEW r \in Rows, sync'.plan[r].what \in {"held", "push", "remove", "release"}
          PROVE  rows'[r].file = sync'.plan[r].was.file
      BY <1>1, <2>4, <2>5, <3>1 DEF Means
    <3> QED BY <3>1 DEF FileKept
  <2>16. HeldOK' /\ FreshOK' /\ JoiningFilesAreNobodys' /\ Settling'
    BY <2>5 DEF HeldOK, FreshOK, JoiningFilesAreNobodys, Settling
  <2>17. FilesApart'
    BY <2>13, <2>15, <2>16 DEF FilesApart
  <2>18. AsRead'
    BY <2>5 DEF AsRead
  <2> QED BY <2>5, <2>14, <2>17, <2>18 DEF WholeInv, IInv, Started
<1> QED BY <1>5, <1>6

\* The first sync: every file it finds becomes a row of its own.
LEMMA AdoptKeeps ==
  ASSUME IInv, NEW m, Reading(m), Adopt(m), Calm, files' = files, starred' = starred, selected' = selected,
         UNCHANGED <<unsafe, resumePending, mirror, writes>>
  PROVE  WholeInv'
<1>1. m \in Reads
  BY DEF Reading
<1>2. sync' = Idle /\ paused' = paused
  BY DEF Adopt
<1>3. adopted' \in BOOLEAN
  BY NowTyped DEF Adopt, OfTheList
<1>4. OfTheList'
  BY <1>2, <1>3, NowTyped DEF OfTheList
<1>5. Started'
  BY <1>2, IdleIs DEF Started
<1>6. CASE rows' = rows
  BY <1>2, <1>4, <1>6, Ends
<1>7. CASE rows' # rows
  <2> DEFINE names == JoinNames(m)
             joining == {f \in Unseen(m) : Attached(m)[f] = NoRow}
  <2>1. names \in [joining -> Names]
    BY <1>1, JoinNamesTyped
  <2> HIDE DEF names
  <2>2. PICK row \in InOrder(joining) :
          rows' = [r \in Rows |->
            IF \E f \in joining : row[f] = r
            THEN LET f == CHOOSE f \in joining : row[f] = r
                 IN Joined(m.docs[f], f, names[f], f \in m.starred)
            ELSE rows[r]]
    <3>1. DOMAIN names = joining
      BY <2>1
    <3> HIDE DEF joining
    <3> QED BY <1>7, <3>1 DEF Adopt, names
  <2>3. /\ row \in [joining -> FreeRows]
        /\ \A f, g \in joining : f < g => row[f] < row[g]
    BY <2>2 DEF InOrder
  <2>4. ASSUME NEW f \in joining
        PROVE  f \in Files /\ m.docs[f] \in Docs /\ names[f] \in Names /\ f # NoFile
               /\ \A x \in Live \cup Deleted : rows[x].file # f
    BY <1>1, <2>1, PlanAssumption DEF Unseen, Reads, MaybeDocs, Claimed
  <2> HIDE DEF joining
  <2> DEFINE of(r) == CHOOSE f \in joining : row[f] = r
  <2>5. ASSUME NEW r \in Rows, \E f \in joining : row[f] = r
        PROVE  /\ of(r) \in joining /\ row[of(r)] = r /\ r \in FreeRows
               /\ rows'[r] = Joined(m.docs[of(r)], of(r), names[of(r)], of(r) \in m.starred)
    BY <2>2, <2>3, <2>5
  <2>6. ASSUME NEW r \in Rows, ~\E f \in joining : row[f] = r
        PROVE  rows'[r] = rows[r]
    BY <2>2, <2>6
  <2> HIDE DEF of
  <2>7. ASSUME NEW r \in Rows
        PROVE  Better(rows[r], rows'[r]) /\ rows'[r].pinOf \in {NoRow, rows[r].pinOf}
    <3>1. rows[r] \in Profiles /\ RowOK(rows[r])
      BY NowTyped, RowTyped
    <3>2. CASE \E f \in joining : row[f] = r
      <4>1. of(r) \in joining /\ r \in FreeRows
            /\ rows'[r] = Joined(m.docs[of(r)], of(r), names[of(r)], of(r) \in m.starred)
        BY <3>2, <2>5
      <4>2. rows[r].state = "free"
        BY <4>1 DEF FreeRows
      <4>3. (of(r) \in m.starred) \in BOOLEAN
        OBVIOUS
      <4> DEFINE star == of(r) \in m.starred
      <4> HIDE DEF star
      <4>4. Better(rows[r], Joined(m.docs[of(r)], of(r), names[of(r)], star))
            /\ Joined(m.docs[of(r)], of(r), names[of(r)], star).pinOf = NoRow
        <5>1. star \in BOOLEAN
          BY DEF star
        <5> QED BY <3>1, <4>1, <4>2, <5>1, <2>4, JoinedBetter
      <4> QED BY <4>1, <4>4 DEF star
    <3>3. CASE ~\E f \in joining : row[f] = r
      BY <3>1, <3>3, <2>6, SameIsBetter
    <3> QED BY <3>2, <3>3
  <2>8. Evolves
    <3>1. rows' \in [Rows -> Profiles]
      <4>1. \A r \in Rows : rows'[r] \in Profiles
        BY <2>7 DEF Better
      <4>2. rows' = [r \in Rows |-> rows'[r]]
        BY <2>2
      <4> QED BY <4>1, <4>2
    <3>2. ASSUME NEW r \in Rows, rows'[r].pinOf # NoRow PROVE rows'[rows'[r].pinOf].state # "free"
      <4>1. rows'[r].pinOf = rows[r].pinOf /\ rows[r].pinOf \in Rows /\ rows[rows[r].pinOf].state # "free"
        BY <2>7, <3>2, NowTyped, RowTyped DEF RowsTyped, RowsOK, Profiles
      <4> QED BY <2>7, <4>1 DEF Better
    <3> QED BY <2>7, <3>1, <3>2 DEF Evolves
  <2>9. ASSUME NEW r \in Rows, \E f \in joining : row[f] = r
        PROVE  rows'[r].file = of(r)
    <3>1. of(r) \in joining /\ rows'[r] = Joined(m.docs[of(r)], of(r), names[of(r)], of(r) \in m.starred)
      BY <2>5, <2>9
    <3> QED BY <3>1 DEF Joined, Free
  <2>10. ASSUME NEW r \in Rows, NEW f \in joining PROVE rows[r].file # f
    <3>1. rows[r] \in Profiles /\ RowOK(rows[r])
      BY NowTyped, RowTyped
    <3>2. CASE rows[r].state = "free"
      BY <2>4, <3>1, <3>2 DEF RowOK, Free
    <3>3. CASE rows[r].state # "free"
      BY <2>4, <3>1, <3>3 DEF Profiles, Live, Deleted
    <3> QED BY <3>2, <3>3
  <2>11. Distinct'
    <3>1. SUFFICES ASSUME NEW r \in Rows, NEW x \in Rows, rows'[r].file # NoFile,
                          rows'[r].file = rows'[x].file
                   PROVE  r = x
      BY DEF Distinct
    <3>2. CASE (\E f \in joining : row[f] = r) /\ (\E f \in joining : row[f] = x)
      <4>1. of(r) = of(x) /\ row[of(r)] = r /\ row[of(x)] = x
        BY <2>5, <2>9, <3>1, <3>2
      <4> QED BY <4>1
    <3>3. CASE (\E f \in joining : row[f] = r) /\ ~(\E f \in joining : row[f] = x)
      BY <2>5, <2>6, <2>9, <2>10, <3>1, <3>3
    <3>4. CASE ~(\E f \in joining : row[f] = r) /\ (\E f \in joining : row[f] = x)
      BY <2>5, <2>6, <2>9, <2>10, <3>1, <3>4
    <3>5. CASE ~(\E f \in joining : row[f] = r) /\ ~(\E f \in joining : row[f] = x)
      BY <2>6, <3>1, <3>5 DEF IInv, FilesApart, Distinct
    <3> QED BY <3>2, <3>3, <3>4, <3>5
  <2>12. IInv'
    BY <1>2, <1>4, <2>8, <2>11, AtIdle
  <2> QED BY <1>5, <2>12 DEF WholeInv
<1> QED BY <1>6, <1>7

\* The read that every sync of the machine begins with.
LEMMA ReadKeeps == ASSUME WholeInv, Read PROVE WholeInv'
<1>1. IInv
  BY DEF WholeInv
<1>2. PICK unread \in SUBSET Held :
        /\ Sound \/ Faulty
        /\ LET m == [docs |-> [f \in Files |-> IF f \in unread THEN NoDoc ELSE files[f]],
                    starred |-> starred, selected |-> selected, unreadable |-> unread]
           IN Adopt(m) \/ Pause(m) \/ Begin(m)
  BY DEF Read
<1> DEFINE m == [docs |-> [f \in Files |-> IF f \in unread THEN NoDoc ELSE files[f]],
                 starred |-> starred, selected |-> selected, unreadable |-> unread]
<1>3. /\ sync.pc = "mirrored" /\ UNCHANGED <<machineVars, unsafe, resumePending, mirror, writes>>
      /\ files' = files /\ starred' = starred /\ selected' = selected
  BY DEF Read, machineVars
<1>4. Adopt(m) \/ Pause(m) \/ Begin(m)
  BY <1>2
<1>5. Calm
  BY <1>1, <1>2, SoundIsCalm, FaultyIsCalm
<1>6. Reading(m)
  <2>1. files \in MaybeDocs /\ starred \subseteq Files /\ selected \in Files \cup {NoFile}
    BY <1>1, NowTyped DEF OfTheList
  <2>2. unread \subseteq Files
    BY DEF Held
  <2>3. m.docs \in MaybeDocs
    BY <2>1 DEF MaybeDocs
  <2>4. m \in Reads
    BY <2>1, <2>2, <2>3 DEF Reads
  <2> QED BY <2>4 DEF Reading
<1> HIDE DEF m
<1>7. CASE Adopt(m)
  BY <1>1, <1>3, <1>5, <1>6, <1>7, AdoptKeeps
<1>8. CASE Pause(m)
  <2>1. sync' = Idle /\ rows' = rows /\ adopted' = adopted /\ paused' = TRUE
    BY <1>8 DEF Pause
  <2>2. OfTheList'
    BY <1>1, <1>3, <2>1, NowTyped DEF OfTheList
  <2> QED BY <1>1, <1>5, <2>1, <2>2, Ends
<1>9. CASE Begin(m)
  <2>1. adopted' = adopted /\ paused' = paused
    BY <1>9 DEF Begin
  <2>2. OfTheList'
    BY <1>1, <1>3, <2>1, NowTyped DEF OfTheList
  <2> QED BY <1>3, <1>5, <1>6, <1>9, <2>2, BeginKeeps
<1> QED BY <1>4, <1>7, <1>8, <1>9

-----------------------------------------------------------------------------
(* Joining.                                                                 *)

\* One file joins the list, as a new profile or as the file of one that lost its own.
JoinsAs(f, r, new) ==
  /\ sync.pc = "work" /\ f \in sync.todo.join /\ r \in Rows /\ sync.plan[r].what \in {"none", "attached"}
  /\ rows' = [rows EXCEPT ![r] = new] /\ Better(rows[r], new) /\ new.file = f /\ new.state # "free"
  /\ new.pinOf \in {NoRow, rows[r].pinOf}
  /\ rows[r].state = "free" \/ (resumePending /\ new.state = rows[r].state)
  /\ sync' = [Done(sync, 1, f) EXCEPT !.fresh = @ \cup {r}]
  /\ UNCHANGED <<spent, scene, quiet, machineVars, resumePending>>

\* Who has had a brew is on the list, or was.
LEMMA NotFreeHas ==
  ASSUME IInv, NEW r \in Rows, NEW brew \in Asked(rows[r])
  PROVE  rows[r].state # "free"
<1>1. rows[r] \in Profiles /\ RowOK(rows[r])
  BY NowTyped, RowTyped
<1>2. rows[r] = Free => Asked(rows[r]) = {}
  BY DEF Free, Asked, Had
<1> QED BY <1>1, <1>2 DEF RowOK

\* No row stands on a file that is to join.
LEMMA NobodysFile ==
  ASSUME IInv, NEW f \in sync.todo.join, NEW r \in Rows
  PROVE  rows[r].file # f /\ f # NoFile /\ f \in Files
<1>1. f \in Files /\ f # NoFile
  BY NowTyped, SyncTyped, PlanAssumption
<1>2. rows[r] \in Profiles /\ RowOK(rows[r])
  BY NowTyped, RowTyped
<1>3. CASE rows[r].state = "free"
  BY <1>1, <1>2, <1>3 DEF RowOK, Free
<1>4. CASE rows[r].state # "free"
  <2>1. r \in Live \cup Deleted
    BY <1>2, <1>4 DEF Profiles, Live, Deleted
  <2> QED BY <1>1, <2>1 DEF IInv, FilesApart, JoiningFilesAreNobodys
<1> QED BY <1>1, <1>3, <1>4

\* The sync that goes on to the next file.
LEMMA JoinWalks ==
  ASSUME IInv, NEW f, NEW r, NEW new, JoinsAs(f, r, new)
  PROVE  /\ Walks(sync') /\ sync'.pc = "work" /\ sync'.fresh = sync.fresh \cup {r} /\ sync'.held = sync.held
         /\ sync'.todo.join = sync.todo.join \ {f} /\ sync'.todo.on = sync.todo.on
         /\ sync'.todo.off = sync.todo.off /\ sync'.todo.deleted = sync.todo.deleted
<1> DEFINE t == [sync.todo EXCEPT !.join = @ \ {f}]
           s == WithTodo(sync, t)
<1>1. /\ sync \in Syncs /\ sync.todo \in Todos /\ Working /\ sync.pc = "work" /\ r \in Rows
  BY NowTyped, SyncTyped DEF JoinsAs, Working
<1>2. /\ t \in Todos /\ t.join = sync.todo.join \ {f} /\ t.take = sync.todo.take /\ t.on = sync.todo.on
      /\ t.off = sync.todo.off /\ t.deleted = sync.todo.deleted /\ t.star = sync.todo.star
  BY <1>1, TodoWithout DEF Todos
<1>3. sync' = [s EXCEPT !.fresh = @ \cup {r}]
  BY <1>1, DoneIs DEF JoinsAs
<1> HIDE DEF t
<1>4. /\ s \in Syncs /\ s.todo = t /\ Same(s, sync) /\ s.m = sync.m /\ s.plan = sync.plan
      /\ s.offline = sync.offline /\ s.since = sync.since /\ s.failures = sync.failures
  BY <1>1, <1>2, WithTodoIs
<1> HIDE DEF s
<1>5. /\ sync' \in Syncs /\ sync'.pc = "work" /\ sync'.fresh = sync.fresh \cup {r} /\ sync'.held = sync.held
      /\ sync'.todo = t /\ sync'.m = sync.m /\ sync'.plan = sync.plan /\ sync'.failures = sync.failures
      /\ sync'.offline = sync.offline /\ sync'.since = sync.since
  BY <1>1, <1>3, <1>4 DEF Syncs, Same
<1>6. t.take \cup t.on \cup t.off \cup t.deleted # {} => sync.failures < MaxFailures
  <2>1. TodoOK
    BY <1>1, NowTyped DEF SyncOK
  <2> QED BY <1>2, <2>1 DEF TodoOK
<1> QED BY <1>2, <1>5, <1>6 DEF Walks

\* Joining keeps the invariant.
LEMMA JoinsAsKeeps ==
  ASSUME IInv, NEW f, NEW r, NEW new, JoinsAs(f, r, new),
         UNCHANGED <<unsafe, resumePending, adopted, paused, mirror, writes>>
  PROVE  IInv'
<1>1. /\ sync.pc = "work" /\ Working /\ f \in sync.todo.join /\ r \in Rows
      /\ sync.plan[r].what \in {"none", "attached"}
      /\ rows' = [rows EXCEPT ![r] = new] /\ Better(rows[r], new) /\ new.file = f /\ new.state # "free"
      /\ new.pinOf \in {NoRow, rows[r].pinOf}
      /\ rows[r].state = "free" \/ (resumePending /\ new.state = rows[r].state)
      /\ UNCHANGED <<spent, scene, quiet>> /\ files' = files /\ UNCHANGED machineVars
  BY DEF JoinsAs, Working, machineVars
<1>2. RowsTyped /\ sync \in Syncs /\ TodoOK /\ FilesApart /\ FileKept /\ HeldOK /\ FreshOK /\ AsRead /\ \A x \in Rows : PlanOK(x)
  BY <1>1, NowTyped DEF SyncOK, IInv, FilesApart
<1>3. Evolves
  BY <1>1, <1>2, OneRow
<1>4. rows'[r] = new /\ \A x \in Rows \ {r} : rows'[x] = rows[x]
  BY <1>1, <1>2 DEF RowsTyped
<1>5. /\ Walks(sync') /\ sync'.pc = "work" /\ sync'.fresh = sync.fresh \cup {r} /\ sync'.held = sync.held
      /\ sync'.todo.join = sync.todo.join \ {f} /\ sync'.todo.on = sync.todo.on
      /\ sync'.todo.off = sync.todo.off /\ sync'.todo.deleted = sync.todo.deleted
      /\ sync'.m = sync.m /\ sync'.plan = sync.plan /\ sync'.offline = sync.offline /\ sync'.since = sync.since
      /\ sync'.todo.take = sync.todo.take /\ sync'.todo.star = sync.todo.star
  BY JoinWalks, WalkIs
<1>6. ~sync.offline
  BY <1>1, <1>2 DEF TodoOK
<1>7. \A x \in Rows : rows[x].file # f /\ f # NoFile /\ f \in Files
  BY <1>1, NobodysFile
<1>8. Working' /\ Dealing'
  BY <1>5, <1>6 DEF Working, Dealing
<1>9. Calm /\ OfTheList'
  BY <1>1, QuietIsCalm, ListSame, MachineSame
<1>10. SyncOK'
  BY <1>1, <1>3, <1>5, <1>8, <1>9, WalkKeepsSync
<1>11. WellFormed'
  BY <1>3, <1>9, <1>10, NowTyped, TypesFrom
<1>12. Waiting' = Waiting
  BY <1>1, <1>5 DEF Waiting
<1>13. FilesApart'
  <2>1. Distinct'
    BY <1>1, <1>2, <1>4, <1>7 DEF FilesApart, Distinct
  <2>2. JoiningFilesAreNobodys'
    <3>1. ASSUME NEW g \in sync.todo.join \ {f}, NEW x \in Rows PROVE rows'[x].file # g
      BY <1>1, <1>4, NobodysFile
    <3> QED BY <1>5, <3>1 DEF JoiningFilesAreNobodys, Live, Deleted
  <2>3. Settling'
    BY <1>5 DEF Settling
  <2>4. FileKept'
    BY <1>1, <1>2, <1>4, <1>5, <1>12 DEF FileKept
  <2>5. HeldOK'
    BY <1>1, <1>2, <1>4, <1>5 DEF HeldOK
  <2>6. FreshOK'
    BY <1>1, <1>2, <1>4, <1>5 DEF FreshOK
  <2> QED BY <2>1, <2>2, <2>3, <2>4, <2>5, <2>6 DEF FilesApart
<1>14. AsRead'
  <2>1. /\ sync.since.touches = spent.touches => ThereYet
        /\ sync.since.people = spent.people => DeletedYet
        /\ TakesAndGoes /\ LeftThere
    BY <1>1, <1>2, <1>6 DEF AsRead
  <2>2. spent' = spent /\ resumePending' = resumePending
    BY <1>1
  <2>3. ASSUME ThereYet PROVE ThereYet'
    BY <1>1, <1>5, <1>12, <2>3 DEF ThereYet
  <2>4. ASSUME DeletedYet PROVE DeletedYet'
    <3>1. \A x \in Rows : sync.plan[x].what # "none" /\ sync.plan[x].was.deleted => rows[x].state = "deleted"
      BY <2>4 DEF DeletedYet
    <3>2. \A x \in Rows : sync.plan[x].what # "none" /\ sync.plan[x].was.deleted => rows'[x].state = "deleted"
      BY <1>1, <1>4, <3>1
    <3> QED BY <1>5, <3>2 DEF DeletedYet
  <2>5. TakesAndGoes'
    BY <1>5, <2>1 DEF TakesAndGoes
  <2>6. LeftThere'
    <3>1. TookNone' = TookNone /\ NobodyActed' = NobodyActed
      BY <1>5, <2>2 DEF TookNone, NobodyActed
    <3>2. CASE resumePending \/ ~NobodyActed \/ ~TookNone
      BY <2>2, <3>1, <3>2 DEF LeftThere
    <3>3. CASE ~resumePending /\ NobodyActed
      <4>1. rows[r].state = "free" /\ ThereYet
        BY <1>1, <2>1, <3>3 DEF NobodyActed
      <4>2. files[f] # NoDoc
        BY <1>1, <4>1 DEF ThereYet
      <4>3. \A x \in Live : x # r /\ x \in Live'
        BY <1>4, <4>1 DEF Live
      <4>4. \A x \in Live' : x = r \/ x \in Live
        BY <1>4 DEF Live
      <4>5. Standing' \subseteq Standing \cup {f} /\ Standing \subseteq Standing'
        BY <1>1, <1>4, <4>3, <4>4 DEF Standing, Live
      <4> QED BY <1>1, <2>1, <3>1, <3>3, <4>2, <4>5 DEF LeftThere
    <3> QED BY <3>2, <3>3
  <2> QED BY <1>5, <2>1, <2>2, <2>3, <2>4, <2>5, <2>6 DEF AsRead
<1> QED BY <1>11, <1>13, <1>14 DEF IInv

\* Each branch of Join comes to that, or changes no row.
LEMMA JoinKeeps == ASSUME IInv, Join PROVE IInv'
<1> DEFINE f == NextOf(1, NoFile)
           doc == sync.m.docs[f]
           r == IF sync.attached[f] # NoRow THEN sync.attached[f] ELSE First(FreeRows, NoRow)
           new == IF sync.attached[f] # NoRow
                  THEN OnFile(Keep(rows[r], doc.brew), f, doc)
                  ELSE Joined(doc, f, sync.names[f], f \in sync.m.starred)
<1>1. /\ At(1)
      /\ \/ StoodOn(f, r)
         \/ /\ r # NoRow
            /\ sync' = [Done(sync, 1, f) EXCEPT !.fresh = @ \cup {r}]
            /\ rows' = [rows EXCEPT ![r] = IF sync.attached[f] # NoRow
                         THEN OnFile(Keep(@, doc.brew), f, doc)
                         ELSE Joined(doc, f, sync.names[f], f \in sync.m.starred)]
      /\ UNCHANGED <<unsafe, resumePending, adopted, paused, mirror, writes>>
      /\ UNCHANGED <<spent, scene, quiet, machineVars, resumePending>>
  BY DEF Join, OnFile, machineVars
<1>2. f \in sync.todo.join /\ sync.pc = "work" /\ Working
  BY <1>1, NextIs, AtIs DEF Working
<1>3. /\ \A x \in Rows : PlanOK(x)
      /\ sync \in Syncs /\ AttachedOK /\ sync.m.docs \in MaybeDocs
  BY <1>2, NowTyped, SyncTyped DEF SyncOK
<1>4. /\ f \in Files /\ doc \in Docs /\ doc.brew \in Brews
  BY <1>2, <1>3, SyncTyped DEF AttachedOK, MaybeDocs, Docs
<1>5. ~StoodOn(f, r)
  <2>1. \A x \in Live : x \in Rows
    BY DEF Live
  <2> QED BY <1>2, <2>1, NobodysFile DEF StoodOn
<1>6. CASE sync.attached[f] # NoRow
  <2>1. /\ r = sync.attached[f] /\ r \in Rows /\ sync.plan[r].what = "attached" /\ doc.brew \in Asked(rows[r])
        /\ resumePending
    BY <1>2, <1>3, <1>6 DEF AttachedOK
  <2>2. rows[r] \in Profiles /\ RowOK(rows[r]) /\ rows[r].state # "free"
    BY <2>1, NowTyped, RowTyped, NotFreeHas
  <2> DEFINE kept == Keep(rows[r], doc.brew)
  <2>3. Better(rows[r], kept) /\ kept = [rows[r] EXCEPT !.found = kept.found]
    BY <1>4, <2>2, KeepBetter
  <2>4. new = OnFile(kept, f, doc)
    BY <1>6
  <2> HIDE DEF kept, r, f, doc, new
  <2>5. kept \in Profiles /\ RowOK(kept) /\ kept.state = rows[r].state /\ kept.pinOf = rows[r].pinOf
    BY <2>2, <2>3 DEF Better, Profiles
  <2>6. doc.brew \in Asked(kept)
    BY <2>1, <2>3 DEF Better, Asked
  <2>7. /\ Better(kept, new) /\ new.file = f /\ new.pinOf = kept.pinOf /\ new.state = kept.state
    BY <1>4, <2>2, <2>4, <2>5, <2>6, FileBetter
  <2>8. Better(rows[r], new)
    BY <2>3, <2>7, BetterStill
  <2>9. /\ sync' = [Done(sync, 1, f) EXCEPT !.fresh = @ \cup {r}]
        /\ rows' = [rows EXCEPT ![r] = new]
    BY <1>1, <1>5, <1>6 DEF new, r, f, doc
  <2>10. JoinsAs(f, r, new)
    BY <1>1, <1>2, <2>1, <2>2, <2>5, <2>7, <2>8, <2>9 DEF JoinsAs
  <2> QED BY <1>1, <2>10, JoinsAsKeeps
<1>7. CASE sync.attached[f] = NoRow
  <2>1. r = First(FreeRows, NoRow) /\ sync.names[f] \in Names
    BY <1>2, <1>3, <1>7 DEF AttachedOK
  <2>2. r # NoRow
    BY <1>1, <1>5
  <2>3. r \in FreeRows /\ r \in Rows /\ rows[r].state = "free"
    BY <2>1, <2>2, FirstFree DEF FreeRows
  <2>4. rows[r] \in Profiles /\ RowOK(rows[r])
    BY <2>3, NowTyped, RowTyped
  <2>5. sync.plan[r].what = "none"
    BY <1>3, <2>3 DEF PlanOK, Fits
  <2> DEFINE star == f \in sync.m.starred
  <2>6. star \in BOOLEAN
    OBVIOUS
  <2>7. new = Joined(doc, f, sync.names[f], star)
    BY <1>7
  <2> HIDE DEF r, f, doc, new, star
  <2>8. Better(rows[r], new) /\ new.file = f /\ new.pinOf = NoRow /\ new.state = "live"
    BY <1>4, <2>1, <2>3, <2>4, <2>6, <2>7, JoinedBetter
  <2>9. /\ sync' = [Done(sync, 1, f) EXCEPT !.fresh = @ \cup {r}]
        /\ rows' = [rows EXCEPT ![r] = new]
    BY <1>1, <1>5, <1>7 DEF new, r, f, doc
  <2>10. JoinsAs(f, r, new)
    BY <1>1, <1>2, <2>3, <2>5, <2>8, <2>9 DEF JoinsAs
  <2> QED BY <1>1, <2>10, JoinsAsKeeps
<1> QED BY <1>6, <1>7

-----------------------------------------------------------------------------
(* Taking a name.                                                           *)

\* What a sync keeps when only its plan or what is left of it changes.
Onward(s, t) ==
  /\ s \in Syncs /\ s.pc = t.pc /\ s.m = t.m /\ s.offline = t.offline /\ s.since = t.since
  /\ s.failures = t.failures /\ s.row = t.row /\ s.file = t.file /\ s.held = t.held /\ s.fresh = t.fresh

\* Another plan for one profile.
PlanWith(s, r, q) == [s EXCEPT !.plan[r] = q]

\* Only that plan changes, and only what is left.
LEMMA PlanWithIs ==
  ASSUME NEW s \in Syncs, s.plan \in [Rows -> Plans], NEW r \in Rows, NEW q \in Plans
  PROVE  LET a == PlanWith(s, r, q)
         IN Onward(a, s) /\ a.plan = [s.plan EXCEPT ![r] = q] /\ a.todo = s.todo
              /\ a.plan \in [Rows -> Plans] /\ a.plan[r] = q
<1> DEFINE a == PlanWith(s, r, q)
           plan == [s.plan EXCEPT ![r] = q]
<1>1. plan \in [Rows -> Plans] /\ plan[r] = q
  OBVIOUS
<1>2. a = [s EXCEPT !.plan = plan]
  BY DEF PlanWith, Syncs
<1> HIDE DEF plan
<1>3. /\ a \in Syncs /\ a.plan = plan /\ a.todo = s.todo /\ a.pc = s.pc /\ a.m = s.m /\ a.offline = s.offline
      /\ a.since = s.since /\ a.failures = s.failures /\ a.row = s.row /\ a.file = s.file
      /\ a.held = s.held /\ a.fresh = s.fresh
  BY <1>1, <1>2 DEF Syncs
<1> HIDE DEF a
<1>4. Onward(a, s) /\ a.plan = plan /\ a.todo = s.todo /\ a.plan \in [Rows -> Plans] /\ a.plan[r] = q
  BY <1>1, <1>3 DEF Onward
<1> QED BY <1>4 DEF a, plan

LEMMA WithTodoOnward ==
  ASSUME NEW s \in Syncs, NEW t \in Todos
  PROVE  Onward(WithTodo(s, t), s) /\ WithTodo(s, t).plan = s.plan /\ WithTodo(s, t).todo = t
<1> DEFINE a == WithTodo(s, t)
<1>3. /\ a \in Syncs /\ a.plan = s.plan /\ a.todo = t /\ a.pc = s.pc /\ a.m = s.m /\ a.offline = s.offline
      /\ a.since = s.since /\ a.failures = s.failures /\ a.row = s.row /\ a.file = s.file
      /\ a.held = s.held /\ a.fresh = s.fresh
  BY DEF WithTodo, Syncs
<1> HIDE DEF a
<1>4. Onward(a, s) /\ a.plan = s.plan /\ a.todo = t
  BY <1>3 DEF Onward
<1> QED BY <1>4 DEF a

\* A profile takes the name its file was given, or the plan is told that it may not.
TakesName(r, q, t, new) ==
  LET p == sync.plan[r]
  IN /\ sync.pc = "work" /\ sync.todo.join = {} /\ r \in sync.todo.take
     /\ rows' = [rows EXCEPT ![r] = new] /\ Better(rows[r], new)
     /\ new.file = rows[r].file /\ new.state = rows[r].state /\ new.pinOf = rows[r].pinOf
     /\ Onward(sync', sync) /\ sync'.plan = [sync.plan EXCEPT ![r] = q] /\ sync'.todo = t
     /\ q \in Plans /\ q.what = p.what /\ q.takes = p.takes /\ q.was.file = p.was.file /\ q.was.deleted = p.was.deleted
     /\ Fits(q, r, sync.m.docs)'
     /\ t \in Todos /\ t.join = {} /\ t.take = sync.todo.take \ {r} /\ t.deleted = sync.todo.deleted
     /\ t.star = sync.todo.star /\ t.on \cap t.off = {}
     /\ t.on \subseteq sync.todo.on \cup {r} /\ t.off \subseteq sync.todo.off \cup {r}
     /\ sync.todo.off \subseteq t.off \cup {r}
     /\ sync.offline => t.on = sync.todo.on /\ t.off = sync.todo.off
     /\ UNCHANGED <<spent, scene, quiet, machineVars>>
     /\ UNCHANGED <<unsafe, resumePending, adopted, paused, mirror, writes>>

\* Of the plans, only this profile's changes, and not in what is to be done.
LEMMA OnlyItsPlan ==
  ASSUME IInv, NEW r, NEW q, NEW t, NEW new, TakesName(r, q, t, new)
  PROVE  /\ r \in Rows /\ Working /\ Working' /\ sync.plan \in [Rows -> Plans]
         /\ sync'.plan \in [Rows -> Plans] /\ sync'.plan[r] = q
         /\ \A x \in Rows \ {r} : sync'.plan[x] = sync.plan[x] /\ rows'[x] = rows[x]
         /\ rows'[r] = new
         /\ \A x \in Rows : /\ sync'.plan[x].what = sync.plan[x].what
                            /\ rows'[x].file = rows[x].file /\ rows'[x].state = rows[x].state
         /\ \A x \in Rows : sync.plan[x].what # "none" =>
              /\ sync'.plan[x].was.file = sync.plan[x].was.file
              /\ sync'.plan[x].was.deleted = sync.plan[x].was.deleted
         /\ Evolves /\ sync'.todo.join = {} /\ Waiting' \subseteq Waiting
         /\ sync.plan[r].what \notin {"none", "attached"} /\ ~sync.plan[r].was.deleted
<1>1. Working /\ Working'
  BY DEF TakesName, Working, Onward
<1>2. r \in Rows /\ sync.plan \in [Rows -> Plans] /\ RowsTyped /\ TodoOK
  BY <1>1, NowTyped, SyncTyped DEF TakesName, SyncOK
<1>3. sync'.plan = [sync.plan EXCEPT ![r] = q] /\ rows' = [rows EXCEPT ![r] = new] /\ q \in Plans
  BY DEF TakesName
<1>4. /\ sync'.plan \in [Rows -> Plans] /\ sync'.plan[r] = q /\ rows'[r] = new
      /\ \A x \in Rows \ {r} : sync'.plan[x] = sync.plan[x] /\ rows'[x] = rows[x]
  BY <1>2, <1>3 DEF RowsTyped
<1>5. Evolves
  BY <1>2, <1>3, OneRow DEF TakesName
<1>6. Waiting' \subseteq Waiting
  BY DEF TakesName, Waiting, Onward
<1>7. sync.plan[r].what \notin {"none", "attached"} /\ ~sync.plan[r].was.deleted
  BY <1>2 DEF TodoOK, TakesName
<1>8. \A x \in Rows : /\ sync'.plan[x].what = sync.plan[x].what
                      /\ rows'[x].file = rows[x].file /\ rows'[x].state = rows[x].state
  BY <1>4 DEF TakesName
<1>9. \A x \in Rows : sync.plan[x].what # "none" =>
              /\ sync'.plan[x].was.file = sync.plan[x].was.file
              /\ sync'.plan[x].was.deleted = sync.plan[x].was.deleted
  BY <1>4 DEF TakesName
<1>10. sync'.todo.join = {}
  BY DEF TakesName
<1> QED BY <1>1, <1>2, <1>4, <1>5, <1>6, <1>7, <1>8, <1>9, <1>10

\* Taking a name keeps the invariant.
LEMMA TakesNameKeeps ==
  ASSUME IInv, NEW r, NEW q, NEW t, NEW new, TakesName(r, q, t, new)
  PROVE  IInv'
<1> DEFINE p == sync.plan[r]
<1>1. /\ r \in Rows /\ Working /\ Working' /\ sync.plan \in [Rows -> Plans]
      /\ sync'.plan \in [Rows -> Plans] /\ sync'.plan[r] = q
      /\ \A x \in Rows \ {r} : sync'.plan[x] = sync.plan[x] /\ rows'[x] = rows[x]
      /\ rows'[r] = new
      /\ \A x \in Rows : /\ sync'.plan[x].what = sync.plan[x].what
                         /\ rows'[x].file = rows[x].file /\ rows'[x].state = rows[x].state
      /\ \A x \in Rows : sync.plan[x].what # "none" =>
           /\ sync'.plan[x].was.file = sync.plan[x].was.file
           /\ sync'.plan[x].was.deleted = sync.plan[x].was.deleted
      /\ Evolves /\ sync'.todo.join = {} /\ Waiting' \subseteq Waiting
      /\ p.what \notin {"none", "attached"} /\ ~p.was.deleted
  BY OnlyItsPlan
<1>2. /\ sync.pc = "work" /\ sync.todo.join = {} /\ r \in sync.todo.take
      /\ Onward(sync', sync) /\ sync'.todo = t
      /\ q \in Plans /\ q.what = p.what /\ q.takes = p.takes
      /\ Fits(q, r, sync.m.docs)'
      /\ t \in Todos /\ t.join = {} /\ t.take = sync.todo.take \ {r} /\ t.deleted = sync.todo.deleted
      /\ t.star = sync.todo.star /\ t.on \cap t.off = {}
      /\ t.on \subseteq sync.todo.on \cup {r} /\ t.off \subseteq sync.todo.off \cup {r}
      /\ sync.todo.off \subseteq t.off \cup {r}
      /\ sync.offline => t.on = sync.todo.on /\ t.off = sync.todo.off
      /\ UNCHANGED <<spent, scene, quiet, machineVars>> /\ files' = files /\ spent' = spent
      /\ UNCHANGED <<unsafe, resumePending, adopted, paused, mirror, writes>>
  BY DEF TakesName, machineVars
<1>3. /\ sync' \in Syncs /\ sync'.pc = "work" /\ sync'.m = sync.m /\ sync'.offline = sync.offline
      /\ sync'.since = sync.since /\ sync'.failures = sync.failures
      /\ sync'.held = sync.held /\ sync'.fresh = sync.fresh
  BY <1>2 DEF Onward
<1>4. /\ FilesApart /\ FileKept /\ HeldOK /\ FreshOK /\ Distinct /\ AsRead /\ TodoOK
      /\ \A x \in Rows : PlanOK(x)
  BY <1>1, NowTyped DEF SyncOK, IInv, FilesApart
<1>5. Calm /\ OfTheList'
  BY <1>2, QuietIsCalm, ListSame, MachineSame
<1>6. (sync \in Syncs)'
  BY <1>3 DEF Syncs
<1>7. \A x \in Rows : PlanOK(x)'
  <2>1. ASSUME NEW x \in Rows PROVE PlanOK(x)'
    <3>1. CASE x = r
      BY <1>1, <1>2, <1>3, <3>1 DEF PlanOK
    <3>2. CASE x # r
      <4>1. Better(rows[x], rows'[x])
        BY <1>1 DEF Evolves
      <4> QED BY <1>1, <1>3, <1>4, <3>2, <4>1, PlanKept
    <3> QED BY <3>1, <3>2
  <2> QED BY <2>1
<1>8. TodoOK'
  <2>1. \A x \in t.take \cup t.on \cup t.off : x \in Rows /\ sync'.plan[x].what \notin {"none", "attached"}
                                                /\ ~sync'.plan[x].was.deleted
    <3>1. \A x \in sync.todo.take \cup sync.todo.on \cup sync.todo.off :
            sync.plan[x].what \notin {"none", "attached"} /\ ~sync.plan[x].was.deleted
      BY <1>4 DEF TodoOK
    <3>2. t.take \cup t.on \cup t.off \subseteq sync.todo.take \cup sync.todo.on \cup sync.todo.off \cup {r}
          /\ t.take \cup t.on \cup t.off \subseteq Rows
      BY <1>2 DEF Todos
    <3> QED BY <1>1, <1>2, <3>1, <3>2
  <2>2. \A x \in t.take : sync'.plan[x].takes # <<>>
    BY <1>1, <1>2, <1>4 DEF TodoOK, Todos
  <2>3. \A x \in t.deleted : /\ x \in Rows \ {r} /\ sync'.plan[x].was.deleted
                             /\ \/ sync'.plan[x].what \in {"release", "remove"}
                                \/ sync'.plan[x].what = "leave" /\ sync'.plan[x].edited
    BY <1>1, <1>2, <1>4 DEF TodoOK, Todos
  <2>4. sync'.failures < MaxFailures
    BY <1>2, <1>3, <1>4 DEF TodoOK
  <2>5. sync'.offline => sync'.pc = "work" /\ t.join \cup t.on \cup t.off \cup t.deleted = {}
    BY <1>2, <1>3, <1>4 DEF TodoOK
  <2> QED BY <1>2, <1>3, <2>1, <2>2, <2>3, <2>4, <2>5 DEF TodoOK
<1>9. AttachedOK'
  BY <1>1 DEF AttachedOK
<1>10. sync'.since.people <= spent'.people /\ sync'.since.touches <= spent'.touches
  BY <1>2, <1>3, NowTyped DEF SyncOK
<1>11. SyncOK'
  BY <1>1, <1>6, <1>7, <1>8, <1>9, <1>10 DEF SyncOK
<1>12. WellFormed'
  BY <1>1, <1>5, <1>11, NowTyped, TypesFrom
<1>13. FilesApart'
  <2>1. Distinct'
    BY <1>1, <1>4 DEF Distinct
  <2>2. JoiningFilesAreNobodys' /\ Settling'
    BY <1>1, <1>3 DEF JoiningFilesAreNobodys, Settling
  <2>3. FileKept'
    <3>1. ASSUME NEW x \in Rows,
                 \/ sync.plan[x].what = "held"
                 \/ sync.plan[x].what \in {"push", "remove", "release"} /\ x \in Waiting'
          PROVE  rows'[x].file = sync'.plan[x].was.file
      BY <1>1, <1>4, <3>1 DEF FileKept
    <3> QED BY <1>1, <3>1 DEF FileKept
  <2>4. HeldOK'
    <3>1. ASSUME NEW x \in Rows, sync.held[x] # NoFile
          PROVE  /\ rows'[x].file = sync.held[x]
                 /\ \/ sync.plan[x].what = "held"
                    \/ sync.plan[x].what = "push" /\ x \notin t.on \cup t.take
      BY <1>1, <1>2, <1>4, <3>1 DEF HeldOK
    <3> QED BY <1>1, <1>2, <1>3, <3>1 DEF HeldOK
  <2>5. FreshOK'
    <3>1. sync.fresh \subseteq Rows
      BY NowTyped, SyncTyped
    <3> QED BY <1>1, <1>2, <1>3, <1>4, <3>1 DEF FreshOK
  <2> QED BY <2>1, <2>2, <2>3, <2>4, <2>5 DEF FilesApart
<1>14. AsRead'
  <2>0. SUFFICES ASSUME ~sync.offline
                 PROVE  /\ sync.since.touches = spent.touches => ThereYet'
                        /\ sync.since.people = spent.people => DeletedYet'
                        /\ TakesAndGoes' /\ LeftThere'
    BY <1>2, <1>3 DEF AsRead
  <2>1. /\ sync.since.touches = spent.touches => ThereYet
        /\ sync.since.people = spent.people => DeletedYet
        /\ TakesAndGoes /\ LeftThere
    BY <1>1, <1>4, <2>0 DEF AsRead
  <2>2. ASSUME ThereYet PROVE ThereYet'
    <3>1. \A x \in Waiting' : x \in Rows
      BY <1>2, <1>3 DEF Waiting, Todos
    <3>2. ASSUME NEW x \in Waiting', sync'.plan[x].what = "release"
          PROVE  sync'.plan[x].was.file \in Files /\ files'[sync'.plan[x].was.file] = NoDoc
      <4>1. x \in Waiting /\ x \in Rows /\ sync.plan[x].what = "release"
            /\ sync'.plan[x].was.file = sync.plan[x].was.file
        BY <1>1, <3>1, <3>2
      <4> QED BY <1>2, <2>2, <4>1 DEF ThereYet
    <3> QED BY <1>1, <1>2, <1>3, <2>2, <3>2 DEF ThereYet
  <2>3. ASSUME DeletedYet PROVE DeletedYet'
    BY <1>1, <2>3 DEF DeletedYet
  <2>4. TakesAndGoes'
    <3>1. \A x \in t.take : x \in Rows /\ x # r /\ x \in sync.todo.take
      BY <1>2 DEF Todos
    <3> QED BY <1>1, <1>2, <2>1, <3>1 DEF TakesAndGoes
  <2>5. LeftThere'
    <3>1. NobodyActed' = NobodyActed
      BY <1>2, <1>3 DEF NobodyActed
    <3>2. ASSUME ~TookNone PROVE ~TookNone'
      <4>1. PICK x \in Rows : sync.plan[x].what = "remove" /\ ~sync.plan[x].was.deleted /\ x \notin sync.todo.off
        BY <3>2 DEF TookNone
      <4>2. x # r
        BY <1>2, <2>1, <4>1 DEF TakesAndGoes
      <4>3. x \notin t.off
        BY <1>2, <4>1, <4>2
      <4> QED BY <1>1, <1>2, <4>1, <4>2, <4>3 DEF TookNone
    <3>3. Standing' = Standing
      <4>1. Live' = Live
        BY <1>1 DEF Live
      <4>2. \A x \in Live : rows'[x].file = rows[x].file
        BY <1>1 DEF Live
      <4> QED BY <4>1, <4>2 DEF Standing
    <3> QED BY <1>2, <2>1, <3>1, <3>2, <3>3 DEF LeftThere
  <2> QED BY <2>1, <2>2, <2>3, <2>4, <2>5
<1> QED BY <1>12, <1>13, <1>14 DEF IInv

\* The row with the name it takes, recorded as its file's.
Renamed(row, name, doc) == [row EXCEPT !.label = name, !.recorded = doc]

\* That row is better.
LEMMA RenamedBetter ==
  ASSUME NEW row \in Profiles, RowOK(row), row.state # "free", NEW name \in Names, NEW doc \in Docs,
         doc.brew \in Asked(row)
  PROVE  LET new == Renamed(row, name, doc)
         IN /\ Better(row, new) /\ new.file = row.file /\ new.state = row.state /\ new.pinOf = row.pinOf
            /\ Had(new) = Had(row) /\ new.chosen = row.chosen
<1> DEFINE new == Renamed(row, name, doc)
<1>1. /\ new \in Profiles
      /\ new.state = row.state /\ new.file = row.file /\ new.pinOf = row.pinOf /\ new.listed = row.listed
      /\ new.found = row.found /\ new.current = row.current /\ new.chosen = row.chosen
      /\ new.recorded = doc /\ new.overruled = row.overruled
  BY DEF Renamed, Profiles
<1> HIDE DEF new
<1>2. Better(row, new)
  BY <1>1 DEF Better, RowOK, Asked, Had
<1>3. Had(new) = Had(row)
  BY <1>1 DEF Had
<1> QED BY <1>1, <1>2, <1>3 DEF new

\* What a plan becomes that says what the row is called now, or that it may not be called so.
Called(p, name) == [p EXCEPT !.was.label = name]
\* ... with what is recorded of its file; that nothing is to be recorded; and the name it goes on with.
RecordedAs(p, doc) == [p EXCEPT !.was.recorded = doc]
Unedited(p) == [p EXCEPT !.edited = FALSE]
Aims(p, name) == [p EXCEPT !.target.name = name]

\* None of these changes what is to be done, or on which file.
LEMMA PlanEdits ==
  ASSUME NEW p \in RowPlans, NEW name \in Names, NEW doc \in Docs
  PROVE  /\ \A q \in {Called(p, name), RecordedAs(p, doc)} :
              /\ q \in RowPlans /\ q.what = p.what /\ q.takes = p.takes /\ q.was.file = p.was.file
              /\ q.was.deleted = p.was.deleted /\ q.target = p.target /\ q.edited = p.edited
         /\ \A q \in {Unedited(p), Aims(p, name)} :
              /\ q \in RowPlans /\ q.what = p.what /\ q.takes = p.takes /\ q.was = p.was
              /\ q.target.brew = p.target.brew
         /\ ~Unedited(p).edited /\ Aims(p, name).edited = p.edited
<1>1. p.was \in WasRows /\ p.target \in Docs
  BY DEF RowPlans
<1> DEFINE was == [p.was EXCEPT !.label = name]
           wax == [p.was EXCEPT !.recorded = doc]
           target == [p.target EXCEPT !.name = name]
<1>2. was \in WasRows /\ was.file = p.was.file /\ was.deleted = p.was.deleted
  BY <1>1 DEF WasRows
<1>3. wax \in WasRows /\ wax.file = p.was.file /\ wax.deleted = p.was.deleted
  BY <1>1 DEF WasRows
<1>4. target \in Docs /\ target.brew = p.target.brew
  BY <1>1 DEF Docs
<1>5. Called(p, name) = [p EXCEPT !.was = was] /\ RecordedAs(p, doc) = [p EXCEPT !.was = wax]
      /\ Aims(p, name) = [p EXCEPT !.target = target]
  BY DEF Called, RecordedAs, Aims
<1> HIDE DEF was, wax, target
<1>6. LET q == Called(p, name)
      IN /\ q \in RowPlans /\ q.what = p.what /\ q.takes = p.takes /\ q.was.file = p.was.file
         /\ q.was.deleted = p.was.deleted /\ q.target = p.target /\ q.edited = p.edited
  BY <1>2, <1>5 DEF RowPlans
<1>7. LET q == RecordedAs(p, doc)
      IN /\ q \in RowPlans /\ q.what = p.what /\ q.takes = p.takes /\ q.was.file = p.was.file
         /\ q.was.deleted = p.was.deleted /\ q.target = p.target /\ q.edited = p.edited
  BY <1>3, <1>5 DEF RowPlans
<1>8. LET q == Aims(p, name)
      IN /\ q \in RowPlans /\ q.what = p.what /\ q.takes = p.takes /\ q.was = p.was
         /\ q.target.brew = p.target.brew /\ q.edited = p.edited
  BY <1>4, <1>5 DEF RowPlans
<1>9. LET q == Unedited(p)
      IN /\ q \in RowPlans /\ q.what = p.what /\ q.takes = p.takes /\ q.was = p.was
         /\ q.target.brew = p.target.brew /\ ~q.edited
  BY DEF RowPlans, Unedited
<1> QED BY <1>6, <1>7, <1>8, <1>9

\* A plan that takes a name fits as well with the name taken, or refused.
LEMMA FitsStill ==
  ASSUME IInv, NEW r \in Rows, NEW docs, NEW p \in RowPlans, NEW q \in RowPlans, Fits(p, r, docs),
         p.what # "none", p.takes # <<>>, q.what = p.what, q.takes = p.takes, q.was.file = p.was.file,
         q.was.deleted = p.was.deleted, q.target.brew = p.target.brew,
         ~q.edited \/ (q.edited = p.edited /\ q.target = p.target),
         Better(rows[r], rows'[r])
  PROVE  \A d : d = docs => Fits(q, r, d)'
<1>1. Had(rows[r]) \subseteq Had(rows'[r]) /\ rows[r].chosen \subseteq rows'[r].chosen
      /\ (rows[r].state # "free" => rows'[r].state # "free")
  BY DEF Better
<1>2. Asked(rows[r]) \subseteq Asked(rows'[r])
  BY <1>1 DEF Asked
<1> QED BY <1>1, <1>2 DEF Fits

\* Two changes of one plan are one.
LEMMA PlanTwice ==
  ASSUME NEW s \in Syncs, s.plan \in [Rows -> Plans], NEW r \in Rows, NEW q1 \in Plans, NEW q2 \in Plans
  PROVE  LET a == PlanWith(PlanWith(s, r, q1), r, q2)
         IN Onward(a, s) /\ a.plan = [s.plan EXCEPT ![r] = q2] /\ a.todo = s.todo
<1> DEFINE b == PlanWith(s, r, q1)
           a == PlanWith(b, r, q2)
<1>1. Onward(b, s) /\ b.plan = [s.plan EXCEPT ![r] = q1] /\ b.todo = s.todo /\ b.plan \in [Rows -> Plans]
  BY PlanWithIs
<1> HIDE DEF b
<1>2. b \in Syncs
  BY <1>1 DEF Onward
<1>3. Onward(a, b) /\ a.plan = [b.plan EXCEPT ![r] = q2] /\ a.todo = b.todo
  BY <1>1, <1>2, PlanWithIs
<1> HIDE DEF a
<1>4. [b.plan EXCEPT ![r] = q2] = [s.plan EXCEPT ![r] = q2]
  BY <1>1
<1>5. Onward(a, s) /\ a.plan = [s.plan EXCEPT ![r] = q2] /\ a.todo = s.todo
  BY <1>1, <1>3, <1>4 DEF Onward
<1> QED BY <1>5 DEF a, b

\* A profile moves between those that are on and those that are off.
Moves(t, r, part) == [t EXCEPT !.on = @ \ {r}, !.off = @ \ {r}, ![part] = @ \cup {r}]

\* Nobody is in both parts, and nobody else moves.
LEMMA MovesIs ==
  ASSUME NEW t \in Todos, NEW r \in Rows, t.on \cap t.off = {}
  PROVE  \A part \in {"on", "off"} :
           LET u == Moves(t, r, part)
           IN /\ u \in Todos /\ u.join = t.join /\ u.take = t.take /\ u.deleted = t.deleted /\ u.star = t.star
              /\ u.on \cap u.off = {} /\ u.on \subseteq t.on \cup {r} /\ u.off \subseteq t.off \cup {r}
              /\ t.off \subseteq u.off \cup {r}
<1> DEFINE t1 == [t EXCEPT !.on = @ \ {r}]
           t2 == [t1 EXCEPT !.off = @ \ {r}]
<1>1. /\ t1 \in Todos /\ t1.join = t.join /\ t1.take = t.take /\ t1.deleted = t.deleted /\ t1.star = t.star
      /\ t1.on = t.on \ {r} /\ t1.off = t.off
  BY DEF Todos
<1>2. /\ Moves(t, r, "on") = [t2 EXCEPT !.on = @ \cup {r}]
      /\ Moves(t, r, "off") = [t2 EXCEPT !.off = @ \cup {r}]
  BY DEF Moves
<1> HIDE DEF t1
<1>3. /\ t2 \in Todos /\ t2.join = t.join /\ t2.take = t.take /\ t2.deleted = t.deleted /\ t2.star = t.star
      /\ t2.on = t.on \ {r} /\ t2.off = t.off \ {r}
  BY <1>1 DEF Todos
<1> HIDE DEF t2
<1>4. LET u == Moves(t, r, "on")
      IN /\ u \in Todos /\ u.join = t.join /\ u.take = t.take /\ u.deleted = t.deleted /\ u.star = t.star
         /\ u.on = (t.on \ {r}) \cup {r} /\ u.off = t.off \ {r}
  BY <1>2, <1>3 DEF Todos
<1>5. LET u == Moves(t, r, "off")
      IN /\ u \in Todos /\ u.join = t.join /\ u.take = t.take /\ u.deleted = t.deleted /\ u.star = t.star
         /\ u.on = t.on \ {r} /\ u.off = (t.off \ {r}) \cup {r}
  BY <1>2, <1>3 DEF Todos
<1> QED BY <1>4, <1>5

\* Take comes to that, whether the name is still free or not.
LEMMA TakeKeeps == ASSUME IInv, Take PROVE IInv'
<1>1. PICK r : r = NextOf(2, NoRow)
  OBVIOUS
<1>2. PICK p : p = sync.plan[r]
  OBVIOUS
<1>3. PICK doc : doc = [brew |-> rows[r].recorded.brew, name |-> p.target.name]
  OBVIOUS
<1>4. PICK done : done = Done(sync, 2, r)
  OBVIOUS
<1>5. PICK part : part = IF rows[r].on THEN "on" ELSE "off"
  OBVIOUS
<1>6. /\ At(2)
      /\ IF StillFree(r)
         THEN /\ rows' = [rows EXCEPT ![r].label = p.takes, ![r].recorded = doc]
              /\ sync' = IF sync.offline THEN done
                         ELSE [done EXCEPT
                                !.plan[r].was.label = p.takes, !.plan[r].was.recorded = doc,
                                !.todo.on = @ \ {r}, !.todo.off = @ \ {r}, !.todo[part] = @ \cup {r}]
         ELSE /\ sync' = [done EXCEPT !.plan[r].edited = FALSE,
                                     !.plan[r].target.name = p.was.shown]
              /\ rows' = rows
      /\ UNCHANGED <<unsafe, resumePending, adopted, paused, mirror, writes>>
      /\ UNCHANGED <<spent, scene, quiet, machineVars>>
  BY <1>1, <1>2, <1>3, <1>4, <1>5 DEF Take, machineVars
<1>7. r \in sync.todo.take /\ sync.pc = "work" /\ sync.todo.join = {} /\ Working
  BY <1>1, <1>6, NextIs, AtIs DEF Working
<1>8. /\ sync \in Syncs /\ sync.todo \in Todos /\ r \in Rows /\ TodoOK /\ PlanOK(r)
      /\ sync.plan \in [Rows -> Plans] /\ RowsTyped
  BY <1>7, NowTyped, SyncTyped DEF SyncOK
<1>9. p.what \notin {"none", "attached"} /\ p.takes # <<>> /\ ~p.was.deleted /\ sync.todo.on \cap sync.todo.off = {}
  BY <1>2, <1>7, <1>8 DEF TodoOK
<1>10. p \in RowPlans /\ p \in Plans /\ p.takes \in Names /\ p.target \in Docs /\ p.target.name \in Names
       /\ p.was.shown \in Names
  BY <1>2, <1>8, <1>9, PlanIs DEF Plans
<1>11. Fits(p, r, sync.m.docs)
  BY <1>2, <1>8 DEF PlanOK
<1>12. rows[r] \in Profiles /\ RowOK(rows[r]) /\ rows[r].state # "free"
  BY <1>8, <1>9, <1>11, RowTyped DEF Fits
<1>13. PICK t0 : t0 = [sync.todo EXCEPT !.take = @ \ {r}]
  OBVIOUS
<1>14. /\ t0 \in Todos /\ t0.join = {} /\ t0.take = sync.todo.take \ {r} /\ t0.on = sync.todo.on
       /\ t0.off = sync.todo.off /\ t0.deleted = sync.todo.deleted /\ t0.star = sync.todo.star
  BY <1>7, <1>8, <1>13, TodoWithout DEF Todos
<1>15. done = WithTodo(sync, t0)
  BY <1>4, <1>8, <1>13, DoneIs
<1>16. Onward(done, sync) /\ done.plan = sync.plan /\ done.todo = t0 /\ done \in Syncs
  BY <1>8, <1>14, <1>15, WithTodoOnward DEF Onward
<1>20. done.plan \in [Rows -> Plans] /\ done.plan[r] = p
  BY <1>2, <1>8, <1>16
<1>17. ASSUME NEW q \in RowPlans, sync'.m = sync.m,
              q.what = p.what, q.takes = p.takes, q.was.file = p.was.file,
              q.was.deleted = p.was.deleted, q.target.brew = p.target.brew,
              ~q.edited \/ (q.edited = p.edited /\ q.target = p.target),
              Better(rows[r], rows'[r])
       PROVE  Fits(q, r, sync.m.docs)'
  <2>1. PICK docs : docs = sync.m.docs
    OBVIOUS
  <2>2. \A d : d = docs => Fits(q, r, d)'
    BY <1>8, <1>9, <1>10, <1>11, <1>17, <2>1, FitsStill
  <2>3. Fits(q, r, docs)'
    BY <2>2
  <2>4. sync'.m.docs = docs
    BY <1>17, <2>1
  <2> QED BY <2>3, <2>4 DEF Fits, Asked, Had
<1>18. CASE StillFree(r)
  <2>1. rows[r].recorded # NoDoc /\ rows[r].recorded \in Docs /\ rows[r].recorded.brew \in Asked(rows[r])
    BY <1>12, <1>18 DEF StillFree, RowOK, Profiles
  <2>2. doc \in Docs /\ doc.brew \in Asked(rows[r])
    BY <1>3, <1>10, <2>1 DEF Docs
  <2>3. PICK new : new = Renamed(rows[r], p.takes, doc)
    OBVIOUS
  <2>4. rows' = [rows EXCEPT ![r] = new]
    BY <1>6, <1>8, <1>18, <2>3 DEF Renamed, RowsTyped
  <2>5. /\ Better(rows[r], new) /\ new.file = rows[r].file /\ new.state = rows[r].state
        /\ new.pinOf = rows[r].pinOf
    BY <1>10, <1>12, <2>2, <2>3, RenamedBetter
  <2>6. rows'[r] = new
    BY <1>8, <2>4 DEF RowsTyped
  <2>7. CASE sync.offline
    <3>1. sync' = done
      BY <1>6, <1>18, <2>7
    <3>2. Onward(sync', sync) /\ sync'.plan = [sync.plan EXCEPT ![r] = p] /\ sync'.todo = t0
      BY <1>2, <1>8, <1>16, <3>1
    <3>3. sync'.m = sync.m
      BY <3>2 DEF Onward
    <3>4. Fits(p, r, sync.m.docs)'
      BY <1>10, <1>17, <2>5, <2>6, <3>3
    <3>5. TakesName(r, p, t0, new)
      BY <1>2, <1>6, <1>7, <1>9, <1>10, <1>14, <2>4, <2>5, <3>2, <3>4 DEF TakesName
    <3> QED BY <3>5, TakesNameKeeps
  <2>8. CASE ~sync.offline
    <3>1. PICK q1 : q1 = Called(p, p.takes)
      OBVIOUS
    <3>2. PICK q : q = RecordedAs(q1, doc)
      OBVIOUS
    <3>3. /\ q1 \in RowPlans /\ q1.what = p.what /\ q1.takes = p.takes /\ q1.was.file = p.was.file
          /\ q1.was.deleted = p.was.deleted /\ q1.target = p.target /\ q1.edited = p.edited /\ q1 \in Plans
      BY <1>10, <2>2, <3>1, PlanEdits DEF Plans
    <3>4. /\ q \in RowPlans /\ q.what = p.what /\ q.takes = p.takes /\ q.was.file = p.was.file
          /\ q.was.deleted = p.was.deleted /\ q.target = p.target /\ q.edited = p.edited /\ q \in Plans
      BY <1>10, <2>2, <3>2, <3>3, PlanEdits DEF Plans
    <3>5. PICK t : t = Moves(t0, r, part)
      OBVIOUS
    <3>6. /\ t \in Todos /\ t.join = t0.join /\ t.take = t0.take /\ t.deleted = t0.deleted /\ t.star = t0.star
          /\ t.on \cap t.off = {} /\ t.on \subseteq t0.on \cup {r} /\ t.off \subseteq t0.off \cup {r}
          /\ t0.off \subseteq t.off \cup {r}
      BY <1>5, <1>8, <1>9, <1>14, <3>5, MovesIs
    <3>7. PICK b : b = PlanWith(done, r, q1)
      OBVIOUS
    <3>8. PICK a : a = PlanWith(b, r, q)
      OBVIOUS
    <3>9. Onward(a, done) /\ a.plan = [done.plan EXCEPT ![r] = q] /\ a.todo = done.todo
      BY <1>8, <1>16, <3>3, <3>4, <3>7, <3>8, PlanTwice
    <3>10. b.plan[r] = q1 /\ done.plan[r] = p
      <4>1. b.plan = [done.plan EXCEPT ![r] = q1]
        BY <1>8, <1>16, <1>20, <3>3, <3>7, PlanWithIs
      <4> QED BY <1>8, <1>20, <4>1
    <3>11. b = [done EXCEPT !.plan[r].was.label = p.takes]
      BY <3>1, <3>7, <3>10 DEF PlanWith, Called
    <3>12. a = [b EXCEPT !.plan[r].was.recorded = doc]
      BY <3>2, <3>8, <3>10 DEF PlanWith, RecordedAs
    <3>13. sync' = [[[done EXCEPT !.plan[r].was.label = p.takes] EXCEPT !.plan[r].was.recorded = doc]
                       EXCEPT !.todo.on = @ \ {r}, !.todo.off = @ \ {r}, !.todo[part] = @ \cup {r}]
      BY <1>6, <1>18, <2>8
    <3>14. sync' = [a EXCEPT !.todo.on = @ \ {r}, !.todo.off = @ \ {r}, !.todo[part] = @ \cup {r}]
      BY <3>11, <3>12, <3>13
    <3>15. a \in Syncs /\ a.todo = t0
      BY <1>16, <3>9 DEF Onward
    <3>16. sync' = WithTodo(a, t)
      BY <1>14, <3>5, <3>14, <3>15 DEF WithTodo, Moves, Syncs
    <3>17. Onward(sync', a) /\ sync'.plan = a.plan /\ sync'.todo = t
      BY <3>6, <3>15, <3>16, WithTodoOnward
    <3>18. Onward(sync', sync) /\ sync'.plan = [sync.plan EXCEPT ![r] = q]
      BY <1>16, <3>9, <3>17 DEF Onward
    <3>19. sync'.m = sync.m
      BY <3>18 DEF Onward
    <3>20. Fits(q, r, sync.m.docs)'
      BY <1>17, <2>5, <2>6, <3>4, <3>19
    <3>21. TakesName(r, q, t, new)
      BY <1>2, <1>6, <1>7, <1>14, <2>4, <2>5, <2>8, <3>4, <3>6, <3>17, <3>18, <3>20 DEF TakesName
    <3> QED BY <3>21, TakesNameKeeps
  <2> QED BY <2>7, <2>8
<1>19. CASE ~StillFree(r)
  <2>1. PICK q1 : q1 = Unedited(p)
    OBVIOUS
  <2>2. PICK q : q = Aims(q1, p.was.shown)
    OBVIOUS
  <2>3. /\ q1 \in RowPlans /\ q1.what = p.what /\ q1.takes = p.takes /\ q1.was = p.was
        /\ q1.target.brew = p.target.brew /\ ~q1.edited /\ q1 \in Plans
    BY <1>10, <2>1, PlanEdits DEF Plans
  <2>4. /\ q \in RowPlans /\ q.what = p.what /\ q.takes = p.takes /\ q.was = p.was
        /\ q.target.brew = p.target.brew /\ ~q.edited /\ q \in Plans
    BY <1>10, <2>2, <2>3, PlanEdits DEF Plans
  <2>5. PICK b : b = PlanWith(done, r, q1)
    OBVIOUS
  <2>6. PICK a : a = PlanWith(b, r, q)
    OBVIOUS
  <2>7. Onward(a, done) /\ a.plan = [done.plan EXCEPT ![r] = q] /\ a.todo = done.todo
    BY <1>8, <1>16, <2>3, <2>4, <2>5, <2>6, PlanTwice
  <2>8. b.plan[r] = q1 /\ done.plan[r] = p
    <3>1. b.plan = [done.plan EXCEPT ![r] = q1]
      BY <1>8, <1>16, <1>20, <2>3, <2>5, PlanWithIs
    <3> QED BY <1>8, <1>20, <3>1
  <2>9. b = [done EXCEPT !.plan[r].edited = FALSE]
    BY <2>1, <2>5, <2>8 DEF PlanWith, Unedited
  <2>10. a = [b EXCEPT !.plan[r].target.name = p.was.shown]
    BY <2>2, <2>6, <2>8 DEF PlanWith, Aims
  <2>11. sync' = a
    BY <1>6, <1>19, <2>9, <2>10
  <2>12. Onward(sync', sync) /\ sync'.plan = [sync.plan EXCEPT ![r] = q] /\ sync'.todo = t0
    BY <1>16, <2>7, <2>11 DEF Onward
  <2>13. rows' = rows /\ rows' = [rows EXCEPT ![r] = rows[r]] /\ Better(rows[r], rows[r])
    BY <1>6, <1>8, <1>12, <1>19, SameIsBetter DEF RowsTyped
  <2>14. sync'.m = sync.m
    BY <2>12 DEF Onward
  <2>15. Fits(q, r, sync.m.docs)'
    BY <1>17, <2>4, <2>13, <2>14
  <2>16. PICK new : new = rows[r]
    OBVIOUS
  <2>17. TakesName(r, q, t0, new)
    BY <1>2, <1>6, <1>7, <1>9, <1>14, <2>4, <2>12, <2>13, <2>15, <2>16 DEF TakesName
  <2> QED BY <2>17, TakesNameKeeps
<1> QED BY <1>18, <1>19

-----------------------------------------------------------------------------
(* Every step.                                                              *)

\* Everything at the display is a touch, and the sync stays as it is.
LEMMA DisplayTouches ==
  ASSUME IInv, DisplayActs
  PROVE  sync' = sync /\ spent'.touches > spent.touches
<1>1. \E kind : Touch(kind)
  BY DEF DisplayActs, DeleteFile, SelectFile, StarFile, EditFile, CreateFile, FactoryReset
<1> QED BY <1>1, TouchIs

\* A sync is mirrored by one step only; every other of the write phase leaves it further on.
Further == sync'.pc # "mirrored"

\* One thing less to do.
LEMMA DoneStays ==
  ASSUME NEW s \in Syncs, NEW i
  PROVE  \A k \in {1, 2} : Done(s, k, i) \in Syncs /\ Done(s, k, i).pc = s.pc
<1>1. s.todo \in Todos
  BY SyncTyped
<1> DEFINE t1 == [s.todo EXCEPT !.join = @ \ {i}]
           t2 == [s.todo EXCEPT !.take = @ \ {i}]
<1>2. t1 \in Todos /\ t2 \in Todos
  BY <1>1, TodoWithout
<1>3. Done(s, 1, i) = WithTodo(s, t1) /\ Done(s, 2, i) = WithTodo(s, t2)
  BY DoneIs
<1> HIDE DEF t1, t2
<1>4. Done(s, 1, i) \in Syncs /\ Done(s, 1, i).pc = s.pc
  BY <1>2, <1>3, WithTodoIs DEF Same
<1>5. Done(s, 2, i) \in Syncs /\ Done(s, 2, i).pc = s.pc
  BY <1>2, <1>3, WithTodoIs DEF Same
<1> QED BY <1>4, <1>5

\* The steps of the write phase, one by one.
LEMMA JoinFurther ==
  ASSUME IInv, Join
  PROVE  Further
<1>1. PICK f : f = NextOf(1, NoFile)
  OBVIOUS
<1>2. PICK done : done = Done(sync, 1, f)
  OBVIOUS
<1>3. At(1) /\ (sync' = done \/ \E r : sync' = [done EXCEPT !.fresh = @ \cup {r}])
  BY <1>1, <1>2 DEF Join
<1>4. sync.pc = "work" /\ sync \in Syncs
  BY <1>3, AtIs, NowTyped
<1>5. done \in Syncs /\ done.pc = "work"
  BY <1>2, <1>4, DoneStays
<1>6. \A r : [done EXCEPT !.fresh = @ \cup {r}].pc = done.pc
  BY <1>5 DEF Syncs
<1> QED BY <1>3, <1>5, <1>6 DEF Further

LEMMA TakeFurther ==
  ASSUME IInv, Take
  PROVE  Further
<1>1. PICK r : r = NextOf(2, NoRow)
  OBVIOUS
<1>2. PICK done : done = Done(sync, 2, r)
  OBVIOUS
<1>3. PICK p : p = sync.plan[r]
  OBVIOUS
<1>4. PICK doc : doc = [brew |-> rows[r].recorded.brew, name |-> p.target.name]
  OBVIOUS
<1>5. PICK part : part = IF rows[r].on THEN "on" ELSE "off"
  OBVIOUS
<1>6. /\ At(2)
      /\ \/ sync' = done
         \/ sync' = [done EXCEPT !.plan[r].was.label = p.takes, !.plan[r].was.recorded = doc,
                       !.todo.on = @ \ {r}, !.todo.off = @ \ {r}, !.todo[part] = @ \cup {r}]
         \/ sync' = [done EXCEPT !.plan[r].edited = FALSE, !.plan[r].target.name = p.was.shown]
  BY <1>1, <1>2, <1>3, <1>4, <1>5 DEF Take
<1>7. sync.pc = "work" /\ sync \in Syncs
  BY <1>6, AtIs, NowTyped
<1>8. done \in Syncs /\ done.pc = "work"
  BY <1>2, <1>7, DoneStays
<1>9. [done EXCEPT !.plan[r].was.label = p.takes, !.plan[r].was.recorded = doc,
                   !.todo.on = @ \ {r}, !.todo.off = @ \ {r}, !.todo[part] = @ \cup {r}].pc = done.pc
  BY <1>8 DEF Syncs
<1>10. [done EXCEPT !.plan[r].edited = FALSE, !.plan[r].target.name = p.was.shown].pc = done.pc
  BY <1>8 DEF Syncs
<1>11. sync'.pc = done.pc
  BY <1>6, <1>9, <1>10
<1> QED BY <1>8, <1>11 DEF Further

LEMMA SettleFurther ==
  ASSUME IInv, Settle
  PROVE  Further
<1>1. sync \in Syncs
  BY NowTyped
<1>2. \E r, f : sync' = [sync EXCEPT !.pc = "work", !.failures = 0, !.held[r] = f, !.row = NoRow, !.file = NoFile]
  BY DEF Settle
<1>3. sync'.pc = "work"
  BY <1>1, <1>2 DEF Syncs
<1> QED BY <1>3 DEF Further

LEMMA LetGoFurther ==
  ASSUME IInv, LetGo
  PROVE  Further
<1>1. sync \in Syncs
  BY NowTyped
<1>2. sync' = [sync EXCEPT !.pc = "work", !.row = NoRow, !.file = NoFile, !.blocked = FALSE]
  BY DEF LetGo
<1>3. sync'.pc = "work"
  BY <1>1, <1>2 DEF Syncs
<1> QED BY <1>3 DEF Further

LEMMA WalksFurther ==
  ASSUME IInv, ApplyRow \/ ApplyOff \/ ApplyDeleted \/ Remove
  PROVE  Further
<1>1. CASE ApplyRow
  <2>1. PICK r, new : AppliesRow(r, new)
    BY <1>1, ApplyRowDoes
  <2>2. sync' = Idle \/ sync'.pc \in {"work", "settle"}
    BY <2>1 DEF AppliesRow
  <2> QED BY <2>2, IdleIs DEF Further
<1>2. CASE ApplyOff \/ ApplyDeleted
  <2>1. PICK r, new : DealsOff(r, new)
    BY <1>2, ApplyOffDoes, ApplyDeletedDoes
  <2>2. sync'.pc \in {"work", "remove"}
    BY <2>1 DEF DealsOff
  <2> QED BY <2>2 DEF Further
<1>3. CASE Remove
  BY <1>3, RemoveDoes DEF Removes, Further
<1> QED BY <1>1, <1>2, <1>3

\* One step of the sync.
LEMMA SyncStepKeeps ==
  ASSUME WholeInv, SyncStep
  PROVE  WholeInv'
<1>1. IInv
  BY DEF WholeInv
<1>2. CASE Mirror \/ TakeFromTheMirror \/ Read \/ EndOffline \/ Stars \/ PutStar \/ End
  BY <1>1, <1>2, MirrorKeeps, TakeFromTheMirrorKeeps, ReadKeeps, EndOfflineKeeps, StarsKeeps,
     PutStarKeeps, EndKeeps
<1>3. CASE Join \/ Take \/ Settle \/ LetGo
  <2>1. IInv'
    BY <1>1, <1>3, JoinKeeps, TakeKeeps, SettleKeeps, LetGoKeeps
  <2>2. Further
    BY <1>1, <1>3, JoinFurther, TakeFurther, SettleFurther, LetGoFurther
  <2> QED BY <2>1, <2>2 DEF WholeInv, Started, Further
<1>4. CASE ApplyRow \/ ApplyOff \/ ApplyDeleted \/ Remove
  <2>1. IInv'
    <3>1. CASE ApplyRow
      <4>1. PICK r, new : AppliesRow(r, new)
        BY <1>1, <3>1, ApplyRowDoes
      <4> QED BY <1>1, <4>1, ApplyRowKeeps
    <3>2. CASE ApplyOff \/ ApplyDeleted
      <4>1. PICK r, new : DealsOff(r, new)
        BY <1>1, <3>2, ApplyOffDoes, ApplyDeletedDoes
      <4> QED BY <1>1, <4>1, DealsOffKeeps
    <3>3. CASE Remove
      BY <1>1, <3>3, RemoveDoes, RemovesKeeps
    <3> QED BY <1>4, <3>1, <3>2, <3>3
  <2>2. Further
    BY <1>1, <1>4, WalksFurther
  <2> QED BY <2>1, <2>2 DEF WholeInv, Started, Further
<1> QED BY <1>2, <1>3, <1>4 DEF SyncStep

\* The sync as it was has done as much.
LEMMA StartedStays ==
  ASSUME Started, sync' = sync
  PROVE  Started'
BY DEF Started

\* A step that changes nothing.
LEMMA StutterKeeps ==
  ASSUME WholeInv, UNCHANGED vars
  PROVE  WholeInv'
<1>1. /\ rows' = rows /\ unsafe' = unsafe /\ resumePending' = resumePending /\ adopted' = adopted
      /\ paused' = paused /\ files' = files /\ starred' = starred /\ selected' = selected
      /\ mirror' = mirror /\ writes' = writes /\ sync' = sync /\ spent' = spent /\ scene' = scene
      /\ quiet' = quiet
  BY DEF vars, listVars, machineVars
<1>2. WellFormed'
  <2>1. TypeOK' /\ scene' \in Scenes
    BY <1>1 DEF WholeInv, IInv, WellFormed, TypeOK
  <2>2. RowsOK'
    BY <1>1 DEF WholeInv, IInv, WellFormed, RowsOK
  <2>3. /\ \A r \in Rows : PlanOK(r) => PlanOK(r)'
        /\ TodoOK => TodoOK'
        /\ AttachedOK => AttachedOK'
    <3>1. ASSUME NEW r \in Rows PROVE PlanOK(r) => PlanOK(r)'
      BY <1>1 DEF PlanOK, Fits, Asked, Had
    <3>2. TodoOK => TodoOK'
      BY <1>1 DEF TodoOK, Had
    <3>3. AttachedOK => AttachedOK'
      BY <1>1 DEF AttachedOK, Asked, Had
    <3> QED BY <3>1, <3>2, <3>3
  <2>4. SyncOK'
    BY <1>1, <2>3 DEF WholeInv, IInv, WellFormed, SyncOK, Syncs, Working
  <2> QED BY <2>1, <2>2, <2>4 DEF WellFormed
<1>3. FilesApart'
  BY <1>1 DEF WholeInv, IInv, FilesApart, Distinct, JoiningFilesAreNobodys, Settling, Working, FileKept, Waiting,
              HeldOK, FreshOK, Live, Deleted
<1>4. AsRead'
  BY <1>1 DEF WholeInv, IInv, AsRead, Working, ThereYet, Waiting, DeletedYet, TakesAndGoes, LeftThere,
              NobodyActed, TookNone, Standing, Live
<1> QED BY <1>1, <1>2, <1>3, <1>4 DEF WholeInv, IInv, Started

\* Every step keeps the invariant.
LEMMA NextKeeps ==
  ASSUME WholeInv, [Next]_vars
  PROVE  WholeInv'
<1>1. IInv
  BY DEF WholeInv
<1>2. CASE SyncStep
  BY <1>2, SyncStepKeeps
<1>3. CASE Crash
  BY <1>1, <1>3, CrashKeeps
<1>4. CASE PersonActs
  <2>1. IInv' /\ sync' = sync
    BY <1>1, <1>4, PersonActsKeep, PersonActsDid DEF PersonDid
  <2> QED BY <2>1, StartedStays DEF WholeInv
<1>5. CASE DisplayActs
  <2>1. IInv' /\ sync' = sync
    BY <1>1, <1>5, DisplayActsKeep, DisplayTouches
  <2> QED BY <2>1, StartedStays DEF WholeInv
<1>6. CASE UNCHANGED vars
  BY <1>6, StutterKeeps
<1> QED BY <1>2, <1>3, <1>4, <1>5, <1>6 DEF Next

-----------------------------------------------------------------------------
(* The inductive invariant.                                                 *)

\* A free row.
LEMMA FreeTyped == Free \in Profiles /\ RowOK(Free) /\ Free.file = NoFile /\ Free.pinOf = NoRow /\ Free.state = "free"
<1>1. /\ Free.state = "free" /\ Free.label = <<>> /\ Free.current = NoBrew /\ Free.listed = {} /\ Free.found = {}
      /\ Free.file = NoFile /\ Free.recorded = NoDoc /\ Free.pinOf = NoRow /\ Free.overruled = NoDoc
      /\ Free.chosen = {}
  BY DEF Free
<1>2. Free \in Profiles
  BY NoNameIsOne DEF Free, Profiles
<1> QED BY <1>1, <1>2 DEF RowOK

\* A fresh install beside a machine in use.
LEMMA InitHolds ==
  ASSUME Init
  PROVE  WholeInv
<1>1. /\ rows = [r \in Rows |-> Free] /\ unsafe = {} /\ resumePending = FALSE /\ adopted = FALSE
      /\ paused = FALSE /\ mirror = [f \in Files |-> NoDoc] /\ writes = TRUE /\ sync = Idle
      /\ spent = [people |-> 0, touches |-> 0, faults |-> 0] /\ quiet = 0 /\ scene \in Scenes
      /\ files = scene.first /\ starred = Held /\ selected = First(Held, NoFile)
  BY DEF Init
<1>2. sync.pc = "idle" /\ ~Working /\ sync.todo.join = {} /\ sync.since.people = 0 /\ sync.since.touches = 0
  BY <1>1, IdleIs DEF Working
<1>3. \A r \in Rows : rows[r] = Free
  BY <1>1
<1>4. rows \in [Rows -> Profiles] /\ RowsOK
  BY <1>1, <1>3, FreeTyped DEF RowsOK
<1>5. files \in MaybeDocs /\ mirror \in MaybeDocs
  BY <1>1, SyncAssumption DEF MaybeDocs
<1>6. starred \subseteq Files /\ selected \in Files \cup {NoFile}
  BY <1>1, FirstIsOne, PlanAssumption DEF Held
<1>7. sync \in Syncs
  <2>0. PICK names, attached, todo, held, since :
          /\ names = sync.names /\ attached = sync.attached /\ todo = Idle.todo /\ held = Idle.held
          /\ since = Idle.since
    OBVIOUS
  <2>1. sync = [pc |-> "idle", m |-> NoRead, plan |-> <<>>, todo |-> todo, names |-> names,
                attached |-> attached, held |-> held, fresh |-> {},
                failures |-> 0, wrote |-> FALSE, offline |-> FALSE, row |-> NoRow, file |-> NoFile,
                blocked |-> FALSE, since |-> since]
    BY <1>1, <2>0 DEF Idle
  <2>2. 0 \in 0 .. MaxFailures
    BY SyncAssumption
  <2>3. held \in [Rows -> Files \cup {NoFile}] /\ todo \in Todos /\ since \in Counts
    BY <2>0, IdleIs
  <2> QED BY <2>0, <2>1, <2>2, <2>3, IdleIs DEF Syncs
<1>8. spent \in Bounds /\ quiet \in 0 .. Quiet /\ spent.people = 0 /\ spent.touches = 0
  BY <1>1, SyncAssumption DEF Bounds
<1>9. SyncOK
  BY <1>2, <1>7, <1>8 DEF SyncOK
<1>10. TypeOK
  BY <1>1, <1>4, <1>5, <1>6, <1>7, <1>8, SyncTyped DEF TypeOK, Bounds
<1>11. WellFormed
  BY <1>1, <1>4, <1>9, <1>10 DEF WellFormed
<1>12. FilesApart
  BY <1>2, <1>3, FreeTyped DEF FilesApart, Distinct, JoiningFilesAreNobodys, Settling
<1>13. AsRead
  BY <1>2 DEF AsRead
<1>14. Started
  BY <1>2 DEF Started
<1> QED BY <1>11, <1>12, <1>13, <1>14 DEF WholeInv, IInv

\* The inductive invariant.
THEOREM ListInvariant == Spec => []WholeInv
<1>1. Init => WholeInv
  BY InitHolds
<1>2. WholeInv /\ [Next]_vars => WholeInv'
  BY NextKeeps
<1> QED BY <1>1, <1>2, PTL DEF Spec

\* The list and the plan in progress are of their types, and no file that is to join the list is one a
\* profile stands on by then: the unique index on the live rows' files (profile_board) refuses none.
THEOREM ListIsOK == Spec => []ListOK
<1>1. WholeInv => ListOK
  BY DEF WholeInv, IInv, WellFormed, FilesApart, ListOK
<1> QED BY <1>1, ListInvariant, PTL

\* No two rows of the list stand on one file, a deleted row that still has its own included: the
\* index of profile_board is on live rows only.
THEOREM FilesAreOnes == Spec => []Distinct
<1>1. WholeInv => Distinct
  BY DEF WholeInv, IInv, FilesApart
<1> QED BY <1>1, ListInvariant, PTL

-----------------------------------------------------------------------------
(* What the app does to the machine.                                        *)

\* A save of the profile on the list, over its own file or to a new one.
Saves(r, new) ==
  /\ AppliesRow(r, new) /\ Working /\ r \in Rows /\ sync.plan[r].what = "push" /\ ~sync.offline
  /\ rows'[r] = new
  /\ SavesOver(r, new) \/ SavesNew(r, new)

\* Of the branches for a profile that is on, only a save changes the machine.
LEMMA AppliesIs ==
  ASSUME IInv, NEW r, NEW new, AppliesRow(r, new)
  PROVE  UNCHANGED machineVars \/ Saves(r, new)
<1>1. sync.pc = "work" /\ Working /\ ~sync.offline /\ r \in sync.todo.on /\ Deals(r, new)
  BY DEF AppliesRow, Working
<1>2. r \in Rows
  BY <1>1, DealtWith
<1>3. rows'[r] = new
  BY <1>1, <1>2, DealsIs
<1>4. \/ UNCHANGED machineVars
      \/ sync.plan[r].what = "push" /\ SavesOver(r, new)
      \/ sync.plan[r].what = "push" /\ SavesNew(r, new)
  BY DEF AppliesRow
<1> QED BY <1>1, <1>2, <1>3, <1>4 DEF Saves

\* Of the app's steps, a save, a removal and a star are all that the machine notices.
LEMMA AppsSteps ==
  ASSUME WholeInv, [Next]_vars, ByTheApp
  PROVE  \/ UNCHANGED machineVars
         \/ \E r, new : Saves(r, new)
         \/ Removes /\ TakesOff(sync.file)
         \/ PutStar
<1>1. IInv
  BY DEF WholeInv
<1>2. CASE Mirror \/ TakeFromTheMirror \/ Read \/ Join \/ Take \/ Settle \/ LetGo \/ EndOffline \/ Stars \/ End
  BY <1>2 DEF Mirror, TakeFromTheMirror, Read, Join, Take, Settle, LetGo, EndOffline, Stars, End, machineVars
<1>3. CASE ApplyRow
  <2>1. PICK r, new : AppliesRow(r, new)
    BY <1>1, <1>3, ApplyRowDoes
  <2> QED BY <1>1, <2>1, AppliesIs
<1>4. CASE ApplyOff \/ ApplyDeleted
  <2>1. PICK r, new : DealsOff(r, new)
    BY <1>1, <1>4, ApplyOffDoes, ApplyDeletedDoes
  <2> QED BY <2>1 DEF DealsOff
<1>5. CASE Remove
  BY <1>1, <1>5, RemoveDoes DEF Removes
<1>6. CASE Crash
  BY <1>6 DEF Crash
<1>7. CASE PersonActs
  BY <1>1, <1>7, PersonActsDid DEF PersonDid
<1>8. CASE DisplayActs
  <2>1. spent'.touches > spent.touches /\ spent.touches \in Nat
    BY <1>1, <1>8, DisplayTouches, NowTyped
  <2>2. spent'.touches = spent.touches
    BY DEF ByTheApp
  <2> QED BY <2>1, <2>2
<1>9. CASE UNCHANGED vars
  BY <1>9 DEF vars
<1> QED BY <1>2, <1>3, <1>4, <1>5, <1>6, <1>7, <1>8, <1>9 DEF Next, SyncStep

\* The file to be removed is the one its profile stands on, as the plan read it.
LEMMA RemovalIs ==
  ASSUME IInv, Removes, TakesOff(sync.file)
  PROVE  LET r == sync.row
             f == sync.file
         IN /\ Working /\ ~sync.offline /\ r \in Rows /\ f \in Files /\ f # NoFile
            /\ sync.plan[r].what = "remove" /\ rows[r].file = f
            /\ files[f].brew \in Had(rows[r]) /\ files[f].brew \in rows[r].chosen
            /\ rows' = rows
            /\ selected' = IF selected = f THEN SuccessorsFile ELSE selected
            /\ selected = f => SuccessorsFile \notin {NoFile, f}
            /\ \A g \in Files \ {f} : files'[g] = files[g] /\ (g \in starred' <=> g \in starred)
            /\ files'[f] \in {files[f], NoDoc}
<1>1. sync.pc = "remove" /\ rows' = rows
  BY DEF Removes, listVars
<1>2. /\ Working /\ ~sync.offline /\ sync.row \in Rows /\ sync.plan[sync.row].what = "remove"
      /\ sync.file \in Files /\ sync.file = sync.plan[sync.row].was.file
      /\ sync.m.docs[sync.file].brew \in Had(rows[sync.row]) /\ FileKept /\ PlanOK(sync.row)
  BY <1>1, DealtOnMachine
<1>3. rows[sync.row].file = sync.file
  BY <1>1, <1>2 DEF FileKept, Waiting
<1>4. sync.m.docs[sync.file].brew \in rows[sync.row].chosen
  BY <1>2 DEF PlanOK, Fits
<1>5. sync.file # NoFile
  BY <1>2, PlanAssumption
<1>6. files \in [Files -> Docs \cup {NoDoc}]
  BY NowTyped DEF OfTheList, MaybeDocs
<1>7. files[sync.file] = sync.m.docs[sync.file]
  BY DEF TakesOff
<1>8. \A g \in Files \ {sync.file} : files'[g] = files[g] /\ (g \in starred' <=> g \in starred)
  BY <1>6 DEF TakesOff
<1>9. files'[sync.file] \in {files[sync.file], NoDoc}
  BY <1>2, <1>6 DEF TakesOff
<1>10. /\ selected' = IF selected = sync.file THEN SuccessorsFile ELSE selected
       /\ selected = sync.file => SuccessorsFile \notin {NoFile, sync.file}
  BY DEF TakesOff
<1> QED BY <1>1, <1>2, <1>3, <1>4, <1>5, <1>7, <1>8, <1>9, <1>10

\* A save leaves every file but one, and no file without a document.
LEMMA SaveIs ==
  ASSUME IInv, NEW r, NEW new, Saves(r, new)
  PROVE  /\ r \in Rows /\ Working /\ ~sync.offline /\ sync.plan[r].what = "push"
         /\ selected' = selected /\ rows'[r] = new
         /\ \A f \in Files : files[f] # NoDoc => files'[f] # NoDoc
         /\ \A f \in Files : files[f] # NoDoc /\ files'[f] # files[f] =>
              /\ rows[r].file = f
              /\ files[f].brew \in Had(new) /\ files[f].brew \in rows[r].chosen
              /\ files'[f].name # files[f].name => NameOfTheApp(f, r)
         /\ \A x \in Rows : LET f == rows[x].file
                            IN f # NoFile /\ f # rows[r].file =>
                                 files'[f] = files[f] /\ (f \in starred' <=> f \in starred)
<1>1. /\ r \in Rows /\ Working /\ ~sync.offline /\ sync.plan[r].what = "push" /\ rows'[r] = new
      /\ SavesOver(r, new) \/ SavesNew(r, new)
  BY DEF Saves
<1>2. files \in [Files -> Docs \cup {NoDoc}] /\ NoDoc \notin Docs
  BY NowTyped, PlanAssumption DEF OfTheList, MaybeDocs
<1>3. \A x \in Rows : rows[x].file \in Files \cup {NoFile}
  BY NowTyped DEF RowsTyped, Profiles
<1>4. CASE SavesOver(r, new)
  <2>1. PICK f : f = rows[r].file
    OBVIOUS
  <2>2. /\ f \in Files /\ starred' = starred /\ selected' = selected
        /\ files[f].brew \in Had(new) /\ files[f].brew \in rows[r].chosen
    BY <1>4, <2>1 DEF SavesOver
  <2>3. PICK d \in Docs : files' = [files EXCEPT ![f] = d] /\ (d.name # files[f].name => NameOfTheApp(f, r))
    BY <1>4, <2>1 DEF SavesOver
  <2>4. files'[f] = d /\ \A g \in Files \ {f} : files'[g] = files[g]
    BY <1>2, <2>2, <2>3
  <2> QED BY <1>1, <1>2, <1>3, <2>1, <2>2, <2>3, <2>4
<1>5. CASE SavesNew(r, new)
  <2>1. PICK f \in FreshIds : /\ starred' = starred \cup {f} /\ selected' = selected
                              /\ \E d \in Docs : files' = [files EXCEPT ![f] = d]
    BY <1>5 DEF SavesNew
  <2>2. f \in Files /\ files[f] = NoDoc /\ \A x \in Rows : rows[x].file # f
    BY <2>1, FreshIs
  <2>3. PICK d \in Docs : files' = [files EXCEPT ![f] = d]
    BY <2>1
  <2>4. files'[f] = d /\ \A g \in Files \ {f} : files'[g] = files[g]
    BY <1>2, <2>2, <2>3
  <2> QED BY <1>1, <1>2, <1>3, <2>1, <2>2, <2>4
<1> QED BY <1>1, <1>4, <1>5

-----------------------------------------------------------------------------
(* What it may never do.                                                    *)

\* The brew the app takes off a file stays a version of the profile that stood on it.
KeepsTheBrew ==
  \A f \in Files : TakesAway(f) =>
    \E r \in Rows : /\ rows[r].file = f
                    /\ files[f].brew \in rows'[r].listed \cup rows'[r].found

\* Every step of the app does.
LEMMA BrewKept ==
  ASSUME WholeInv, [Next]_vars
  PROVE  KeepsTheBrew
<1> SUFFICES ASSUME NEW f \in Files, TakesAway(f)
             PROVE  \E r \in Rows : /\ rows[r].file = f
                                    /\ files[f].brew \in rows'[r].listed \cup rows'[r].found
  BY DEF KeepsTheBrew
<1>1. IInv /\ ByTheApp /\ files[f] # NoDoc /\ files'[f] # files[f]
  BY DEF WholeInv, TakesAway
<1>2. CASE UNCHANGED machineVars
  BY <1>1, <1>2 DEF machineVars
<1>3. CASE \E r, new : Saves(r, new)
  <2>1. PICK r, new : Saves(r, new)
    BY <1>3
  <2>2. r \in Rows /\ rows[r].file = f /\ files[f].brew \in Had(new) /\ rows'[r] = new
    BY <1>1, <2>1, SaveIs
  <2> QED BY <2>2 DEF Had
<1>4. CASE Removes /\ TakesOff(sync.file)
  <2>1. f = sync.file
    BY <1>1, <1>4, RemovalIs
  <2>2. /\ sync.row \in Rows /\ rows[sync.row].file = f /\ rows' = rows
        /\ files[f].brew \in Had(rows[sync.row])
    BY <1>1, <1>4, <2>1, RemovalIs
  <2> QED BY <2>2 DEF Had
<1>5. CASE PutStar
  BY <1>1, <1>5 DEF PutStar
<1> QED BY <1>1, <1>2, <1>3, <1>4, <1>5, AppsSteps

\* The brew the app takes off a file, by a save over it or by removing it, stays a version of the profile
\* that stood on it (drafts/board.py keeps what a file holds before it writes).
THEOREM BrewsAreKept == Spec => NothingLost
<1>1. WholeInv /\ [Next]_vars => [KeepsTheBrew]_vars
  BY BrewKept
<1>2. Spec => [][KeepsTheBrew]_vars
  BY <1>1, ListInvariant, PTL DEF Spec
<1> QED BY <1>2 DEF NothingLost, KeepsTheBrew

\* What a sync has only just found, and its star, it leaves as they are.
LEMMA FoundIsLeft ==
  ASSUME WholeInv, [Next]_vars
  PROVE  LeavesWhatItFound
<1> SUFFICES ASSUME NEW r \in sync.fresh, ByTheApp, rows[r].file # NoFile
             PROVE  LET f == rows[r].file IN files'[f] = files[f] /\ (f \in starred' <=> f \in starred)
  BY DEF LeavesWhatItFound
<1>1. PICK f : f = rows[r].file
  OBVIOUS
<1>2. IInv /\ r \in Rows /\ f \in Files /\ f # NoFile
  <2>1. IInv
    BY DEF WholeInv
  <2>2. r \in Rows
    BY <2>1, NowTyped, SyncTyped
  <2>3. rows[r].file \in Files \cup {NoFile}
    BY <2>1, <2>2, NowTyped DEF RowsTyped, Profiles
  <2> QED BY <1>1, <2>1, <2>2, <2>3
<1>3. Working \/ sync.pc = "stars" => sync.plan[r].what \in {"none", "attached"} /\ f \notin sync.todo.star
  BY <1>1, <1>2 DEF IInv, FilesApart, FreshOK
<1>4. Distinct
  BY <1>2 DEF IInv, FilesApart
<1>5. CASE UNCHANGED machineVars
  BY <1>1, <1>5 DEF machineVars
<1>6. CASE \E x, new : Saves(x, new)
  <2>1. PICK x, new : Saves(x, new)
    BY <1>6
  <2>2. /\ x \in Rows /\ Working /\ sync.plan[x].what = "push"
        /\ f # rows[x].file => files'[f] = files[f] /\ (f \in starred' <=> f \in starred)
    BY <1>1, <1>2, <2>1, SaveIs
  <2>3. x # r
    BY <1>3, <2>2
  <2>4. f # rows[x].file
    BY <1>1, <1>2, <1>4, <2>2, <2>3 DEF Distinct
  <2> QED BY <1>1, <2>2, <2>4
<1>7. CASE Removes /\ TakesOff(sync.file)
  <2>1. /\ Working /\ sync.row \in Rows /\ sync.plan[sync.row].what = "remove" /\ rows[sync.row].file = sync.file
        /\ \A g \in Files \ {sync.file} : files'[g] = files[g] /\ (g \in starred' <=> g \in starred)
    BY <1>2, <1>7, RemovalIs
  <2>2. sync.row # r
    BY <1>3, <2>1
  <2>3. f # sync.file
    BY <1>1, <1>2, <1>4, <2>1, <2>2 DEF Distinct
  <2> QED BY <1>1, <1>2, <2>1, <2>3
<1>8. CASE PutStar
  <2>1. PICK g : g = First(sync.todo.star, NoFile)
    OBVIOUS
  <2>2. /\ sync.pc = "stars" /\ sync.todo.star # {} /\ files' = files
        /\ starred' \in {starred, starred \ {g}, starred \cup {g}}
    BY <1>8, <2>1 DEF PutStar
  <2>3. sync.todo.star \subseteq Nat
    BY <1>2, NowTyped, SyncTyped, PlanAssumption
  <2>4. g \in sync.todo.star
    BY <2>1, <2>2, <2>3, FirstIsOne
  <2>5. f # g
    BY <1>3, <2>2, <2>4
  <2> QED BY <1>1, <2>2, <2>5
<1> QED BY <1>5, <1>6, <1>7, <1>8, AppsSteps

\* What it takes off a file, brew and name, is the app's or a person's.
AsksFirst ==
  \A f \in Files : TakesAway(f) =>
    \E r \in Rows :
      /\ rows[r].file = f /\ BrewOfAPerson(f, r)
      /\ files'[f] # NoDoc /\ files'[f].name # files[f].name => NameOfTheApp(f, r)

\* Every step of the app asks first.
LEMMA TakenIsAsked ==
  ASSUME WholeInv, [Next]_vars
  PROVE  AsksFirst
<1> SUFFICES ASSUME NEW f \in Files, TakesAway(f)
             PROVE  \E r \in Rows :
                      /\ rows[r].file = f /\ BrewOfAPerson(f, r)
                      /\ files'[f] # NoDoc /\ files'[f].name # files[f].name => NameOfTheApp(f, r)
  BY DEF AsksFirst
<1>1. IInv /\ ByTheApp /\ files[f] # NoDoc /\ files'[f] # files[f]
  BY DEF WholeInv, TakesAway
<1>2. CASE UNCHANGED machineVars
  BY <1>1, <1>2 DEF machineVars
<1>3. CASE \E r, new : Saves(r, new)
  <2>1. PICK r, new : Saves(r, new)
    BY <1>3
  <2>2. /\ r \in Rows /\ rows[r].file = f /\ files[f].brew \in rows[r].chosen
        /\ files'[f].name # files[f].name => NameOfTheApp(f, r)
    BY <1>1, <2>1, SaveIs
  <2> QED BY <2>2 DEF BrewOfAPerson
<1>4. CASE Removes /\ TakesOff(sync.file)
  <2>1. f = sync.file
    BY <1>1, <1>4, RemovalIs
  <2>2. /\ sync.row \in Rows /\ rows[sync.row].file = f /\ files[f].brew \in rows[sync.row].chosen
        /\ files'[f] \in {files[f], NoDoc}
    BY <1>1, <1>4, <2>1, RemovalIs
  <2> QED BY <1>1, <2>2 DEF BrewOfAPerson
<1>5. CASE PutStar
  BY <1>1, <1>5 DEF PutStar
<1> QED BY <1>1, <1>2, <1>3, <1>4, <1>5, AppsSteps

\* Both of a step.
AsksOrLeaves ==
  /\ LeavesWhatItFound
  /\ \A f \in Files : TakesAway(f) =>
       \E r \in Rows :
         /\ rows[r].file = f /\ BrewOfAPerson(f, r)
         /\ files'[f] # NoDoc /\ files'[f].name # files[f].name => NameOfTheApp(f, r)

\* What was put on the machine at its display the app takes away only after a person was asked, and
\* the file a sync has just found it leaves (judge_file, the conflict branches, _Phase.fresh).
THEOREM NothingIsTakenUnasked == Spec => NeverUnasked
<1>1. WholeInv /\ [Next]_vars => [AsksOrLeaves]_vars
  BY FoundIsLeft, TakenIsAsked DEF AsksOrLeaves, AsksFirst
<1>2. Spec => [][AsksOrLeaves]_vars
  BY <1>1, ListInvariant, PTL DEF Spec
<1> QED BY <1>2 DEF NeverUnasked, AsksOrLeaves

\* The selected file goes only after another profile's was selected.
SelectsFirst ==
  ByTheApp /\ selected \in Held /\ files'[selected] = NoDoc =>
    /\ selected' \in Claimed \ {selected}
    /\ files'[selected'] = NoDoc => sync.since.touches # spent.touches

\* The profile that takes the selection over stands on the file it is said to.
LEMMA SuccessorIs ==
  ASSUME IInv, sync.pc = "remove", SuccessorsFile # NoFile
  PROVE  /\ SuccessorsFile \in Files /\ SuccessorsFile \in Claimed
         /\ sync.since.touches = spent.touches => files[SuccessorsFile] # NoDoc
<1>1. PICK x : x = sync.plan[sync.row].successor
  OBVIOUS
<1>2. x # NoRow /\ SuccessorsFile = sync.held[x]
  BY <1>1 DEF SuccessorsFile
<1>3. Working /\ ~sync.offline /\ sync.plan[sync.row] \in Plans /\ sync.plan[sync.row].what = "remove"
  BY DealtOnMachine
<1>4. x \in Rows
  BY <1>1, <1>2, <1>3, PlanIs
<1>5. sync.held[x] \in Files /\ sync.held[x] # NoFile
  <2>1. sync.held \in [Rows -> Files \cup {NoFile}]
    BY NowTyped, SyncTyped
  <2> QED BY <1>2, <1>4, <2>1
<1>6. rows[x].file = sync.held[x]
  BY <1>3, <1>4, <1>5 DEF IInv, FilesApart, HeldOK
<1>7. x \in Live \cup Deleted
  <2>1. rows[x] \in Profiles /\ RowOK(rows[x])
    BY <1>4, NowTyped, RowTyped
  <2>2. rows[x].state # "free"
    BY <1>5, <1>6, <2>1, FreeTyped DEF RowOK
  <2> QED BY <1>4, <2>1, <2>2 DEF Live, Deleted, Profiles
<1>8. sync.since.touches = spent.touches => files[sync.held[x]] # NoDoc
  BY <1>3, <1>4, <1>5 DEF IInv, AsRead, ThereYet
<1> QED BY <1>2, <1>5, <1>6, <1>7, <1>8 DEF Claimed

\* Every step of the app does.
LEMMA SelectionFirst ==
  ASSUME WholeInv, [Next]_vars
  PROVE  SelectsFirst
<1> SUFFICES ASSUME ByTheApp, selected \in Held, files'[selected] = NoDoc
             PROVE  /\ selected' \in Claimed \ {selected}
                    /\ files'[selected'] = NoDoc => sync.since.touches # spent.touches
  BY DEF SelectsFirst
<1>1. IInv /\ selected \in Files /\ files[selected] # NoDoc
  BY DEF WholeInv, Held
<1>2. CASE UNCHANGED machineVars
  BY <1>1, <1>2 DEF machineVars
<1>3. CASE \E r, new : Saves(r, new)
  BY <1>1, <1>3, SaveIs
<1>4. CASE Removes /\ TakesOff(sync.file)
  <2>1. PICK g : g = SuccessorsFile
    OBVIOUS
  <2>2. selected = sync.file
    BY <1>1, <1>4, RemovalIs
  <2>3. selected' = g /\ g \notin {NoFile, selected} /\ Working /\ ~sync.offline /\ sync.pc = "remove"
    BY <1>1, <1>4, <2>1, <2>2, RemovalIs DEF Removes
  <2>4. /\ g \in Files /\ g \in Claimed
        /\ sync.since.touches = spent.touches => files[g] # NoDoc
    BY <1>1, <2>1, <2>3, SuccessorIs
  <2>5. files'[g] = files[g]
    BY <1>1, <1>4, <2>2, <2>3, <2>4, RemovalIs
  <2> QED BY <2>3, <2>4, <2>5
<1>5. CASE PutStar
  BY <1>1, <1>5 DEF PutStar
<1> QED BY <1>2, <1>3, <1>4, <1>5, AppsSteps

\* The selected file goes only after another profile's file was selected, and that one is there unless
\* somebody was at the display during the sync (the successor of a removal).
THEOREM SelectionIsKept == Spec => SelectionStays
<1>1. WholeInv /\ [Next]_vars => [SelectsFirst]_vars
  BY SelectionFirst
<1>2. Spec => [][SelectsFirst]_vars
  BY <1>1, ListInvariant, PTL DEF Spec
<1> QED BY <1>2 DEF SelectionStays, SelectsFirst

\* A machine that lost what the app left there is written to only when a person resumes.
AsksAfterAReset ==
  ByTheApp /\ files' # files /\ LostEverything /\ NobodyActed /\ TookNone => resumePending

\* The write phase would not have begun.
LEMMA LossIsSeen ==
  ASSUME IInv, Working, ~sync.offline, LostEverything, NobodyActed, TookNone
  PROVE  resumePending
<1>1. LeftThere
  BY DEF IInv, AsRead
<1>2. ~(Standing = {}) /\ ~(\E f \in Standing : files[f] # NoDoc)
  BY DEF LostEverything, Standing
<1> QED BY <1>1, <1>2 DEF LeftThere

\* Every step of the app asks.
LEMMA ResetFirst ==
  ASSUME WholeInv, [Next]_vars
  PROVE  AsksAfterAReset
<1> SUFFICES ASSUME ByTheApp, files' # files, LostEverything, NobodyActed, TookNone
             PROVE  resumePending
  BY DEF AsksAfterAReset
<1>1. IInv
  BY DEF WholeInv
<1>2. (\E r, new : Saves(r, new)) \/ (Removes /\ TakesOff(sync.file))
  BY AppsSteps DEF machineVars, PutStar
<1>3. Working /\ ~sync.offline
  BY <1>1, <1>2, RemovalIs, SaveIs
<1> QED BY <1>1, <1>3, LossIsSeen

\* A machine that holds none of the files the app left there is written to only once a person resumed,
\* unless somebody acted during the sync or it has itself taken a file off (looks_reset, the pause).
THEOREM ResetsAreAsked == Spec => ResetIsAsked
<1>1. WholeInv /\ [Next]_vars => [AsksAfterAReset]_vars
  BY ResetFirst
<1>2. Spec => [][AsksAfterAReset]_vars
  BY <1>1, ListInvariant, PTL DEF Spec
<1> QED BY <1>2 DEF ResetIsAsked, AsksAfterAReset

=============================================================================
