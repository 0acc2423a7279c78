---------------------------- MODULE Restarts_proofs ----------------------------
(***************************************************************************)
(* The safety properties of Restarts for any uploads and any number of     *)
(* crashes, power cuts, errors and rows.  A directory is a value here, so  *)
(* that what a process sees (f) and what a power cut would leave (d) are   *)
(* reasoned about in the same way.  The inductive invariant says what each *)
(* of them may hold (Sound), how the two differ (Follows), what a start    *)
(* would serve (Exact), and what a process knows where it is (PlaceOK).    *)
(***************************************************************************)
EXTENDS Restarts, TLAPS

-----------------------------------------------------------------------------
(* A directory. *)

Fate == [served |-> served, before |-> before, asked |-> asked, sure |-> sure, ended |-> ended, wiped |-> wiped, upgraded |-> upgraded]

\* An upload is of itself, current, and empty of what this app stored.
Restorable(u) == [of : {u}, level : {"current"}, rows : {0}, writes : BOOLEAN]

Typed(d) ==
  /\ d = [name \in Names |-> d[name]]
  /\ d["db"] \in Databases(MaxRows) \cup {NoFile}
  /\ d["wal"] \in Logs(MaxRows) \cup {NoFile}
  /\ \A name \in {"backup", "copying"} : d[name] \in Databases(MaxRows) \cup {NoFile, Torn}
  /\ \A u \in Uploads : d[u] \in Restorable(u) \cup {NoFile, Torn}
  /\ d["reset"] \in {NoFile, Torn} /\ d["resetting"] \in {NoFile, Torn}

\* A log is the database's, and has no fewer rows; without a database it is about to be deleted.
LogOK(d) ==
  d["wal"] # NoFile => IF d["db"] = NoFile THEN d["reset"] # NoFile
                       ELSE d["db"].of = d["wal"].of /\ d["db"].rows <= d["wal"].rows

\* The database is the archive a, with what was stored in it so far or a part of that.
Holds(d, a) ==
  /\ d["db"] # NoFile
  /\ d["db"].of = a.of /\ d["db"].writes = a.writes /\ d["db"].rows <= a.rows
  /\ d["wal"] # NoFile => d["wal"].rows <= a.rows

\* There is nothing in place of the archive but what was asked for.
Stands(d, h) ==
  \/ d["db"] = NoFile /\ h.asked = Fresh
  \/ \E a \in {h.served} \cup h.before : Holds(d, a)
  \/ h.asked \in Uploads /\ Holds(d, Promised!New(h.asked))

\* A reset that was answered is marked until the database is gone.
Marked(d, h) ==
  /\ d["reset"] # NoFile => h.asked = Fresh
  /\ h.sure => h.asked = Fresh /\ (d["reset"] # NoFile \/ d["db"] = NoFile)

HasCopy(d) == d["backup"] \in Databases(MaxRows) /\ d["backup"].level = "older"
Needed(h) == h.upgraded /\ Archive \notin h.wiped

\* What was upgraded has its copy, and is not upgraded again.
CopyOK(d, h) ==
  /\ d["db"] # NoFile /\ d["db"].level = "older" => d["db"].of = Archive /\ ~h.upgraded
  /\ Needed(h) => d["reset"] # NoFile \/ HasCopy(d)

Rid(d, h) == \A name \in {"db", "backup", "copying"} \cup Uploads : d[name] \in Databases(MaxRows) => d[name].of \notin h.wiped

Sound(d, h) == Typed(d) /\ LogOK(d) /\ Stands(d, h) /\ Marked(d, h) /\ CopyOK(d, h) /\ Rid(d, h)

-----------------------------------------------------------------------------
(* The directory a process sees, and the one on the disk. *)

Same(f, d) == f["db"] # NoFile => f["db"].of = d["db"].of

Follows(f, d, h) ==
  /\ d["db"] = NoFile => f["db"] = NoFile
  /\ f["reset"] = NoFile /\ d["reset"] # NoFile => f["db"] = NoFile
  /\ f["db"] # NoFile /\ Same(f, d) =>
       /\ d["db"].writes = f["db"].writes /\ d["db"].rows <= Reads(f).rows
       /\ d["wal"] # NoFile => d["wal"].rows <= Reads(f).rows
  /\ f["wal"] # NoFile => Same(f, d)
  /\ h.ended = "cut" => Same(f, d)
  /\ h.asked \in Uploads /\ d["db"].of = h.asked => f["db"].of = h.asked

\* Unless the power was cut, a start finds all that was stored, or what was asked for.
Exact(f, h) ==
  h.ended # "cut" =>
    \/ f["db"] = NoFile
    \/ h.asked \in Uploads /\ f["db"].of = h.asked
    \/ f["db"].of = h.served.of /\ f["db"].writes = h.served.writes /\ Reads(f).rows = h.served.rows

Good(f, d, h) == Sound(f, h) /\ Sound(d, h) /\ Follows(f, d, h) /\ Exact(f, h)

-----------------------------------------------------------------------------
(* The process. *)

Starting == {"off", "reset", "unmark", "unmarked", "clean", "upgrade", "copy", "copying", "copied", "named", "steps", "open"}
Cleaned == {"clean", "upgrade", "copy", "copying", "copied", "named", "steps", "open"}
Upgrading == {"copy", "copying", "copied", "named", "steps"}
Running == {"serving", "mark", "marked"}
Swapping == {"swap", "replace", "replaced"}

Histories == [of : Archives, rows : 0..MaxRows, writes : BOOLEAN]

\* An upload is used once: what is served or was erased is not asked for again.
HistoryOK ==
  /\ served \in Histories /\ before \subseteq Histories
  /\ asked \in {Nothing, Fresh} \cup Uploads /\ sure \in BOOLEAN /\ ended \in {"well", "killed", "cut"}
  /\ wiped \subseteq {Archive} \cup Uploads /\ upgraded \in BOOLEAN
  /\ \A a \in {served} \cup before : a.of \in Uploads => a.of # asked /\ uploads[a.of] = "over"
  /\ \A u \in wiped \cap Uploads : uploads[u] = "over"

Ready(u) == [of : {u}, level : {"current"}, rows : {0}, writes : {FALSE}]

ProcessOK ==
  /\ pc \in Places /\ uploads \in [Uploads -> Stages] /\ pending \in Uploads \cup {Nothing} /\ stop \in BOOLEAN
  /\ pc \in Starting => pending = Nothing /\ \A u \in Uploads : uploads[u] \in {"new", "over"}
  /\ asked \in Uploads => uploads[asked] # "new"
  /\ pc = "serving" => asked = pending \/ (asked = Fresh /\ pending = Nothing)
  /\ pc \in {"mark", "marked"} => asked = Fresh /\ pending = Nothing /\ ~sure
  /\ pc \in Swapping => pending \in Uploads /\ asked = pending /\ uploads[pending] = "applied"
  /\ pending \in Uploads => uploads[pending] \in {"prepare", "applied"}
  /\ \A u \in Uploads : uploads[u] = "prepare" => pending = u
  /\ \A u \in Uploads : uploads[u] = "applied" => files[u] \in Ready(u) \cup {NoFile}

PlaceOK ==
  /\ pc \in Running \cup {"swap", "replace"} => Here("db") /\ files["db"].of = served.of
  /\ pc \in Running \cup Swapping => ended = "well"
  /\ pc \in Running => (Needed(Fate) => HasCopy(files))
  /\ pc \in Cleaned \cup {"unmarked"} => ~Here("reset")
  /\ pc \in {"unmark", "unmarked"} => Archive \in wiped /\ \A dir \in Possible, name \in Doomed : dir[name] = NoFile
  /\ pc \in Upgrading => Here("db") /\ files["db"].level = "older"
  /\ pc = "copying" => Here("copying")
  /\ pc = "copied" => files["copying"] = Reads(files)
  /\ pc \in {"named", "steps"} => HasCopy(files)
  /\ pc = "steps" => disk = files
  /\ pc = "marked" => Here("reset")
  /\ pc = "replace" => Here(pending) /\ ~Here("wal")

\* What was put in place is on the disk, unless the process was killed over it.
Settled == asked \in Uploads /\ files["db"].of = asked /\ ended # "killed" /\ pc # "replaced" => Same(files, disk)

IInv == HistoryOK /\ ProcessOK /\ PlaceOK /\ Settled /\ Good(files, disk, Fate)

-----------------------------------------------------------------------------
(* What a file may hold. *)

\* A database is a record, and not one of the null values; what an upload holds is a database.
LEMMA Fields ==
  /\ \A x \in Databases(MaxRows) : /\ x \notin {NoFile, Torn}
                                   /\ x.of \in Archives /\ x.level \in {"older", "current"} /\ x.rows \in 0..MaxRows /\ x.writes \in BOOLEAN
  /\ \A x \in Logs(MaxRows) : x # NoFile /\ x.of \in Archives /\ x.rows \in 0..MaxRows
  /\ \A u \in Uploads : Restorable(u) \subseteq Databases(MaxRows) /\ Ready(u) \subseteq Restorable(u)
  /\ NoFile # Torn /\ MaxRows \in Nat
<1>1. \A u \in Uploads : Restorable(u) \subseteq Databases(MaxRows) /\ Ready(u) \subseteq Restorable(u)
  <2>. TAKE u \in Uploads
  <2>1. ASSUME NEW x \in Restorable(u)
        PROVE  x \in Databases(MaxRows)
    <3>1. u \in Archives /\ 0 \in 0..MaxRows
      BY RestartsAssumption DEF Archives
    <3>. QED
      BY <3>1 DEF Databases, Restorable
  <2>2. ASSUME NEW x \in Ready(u)
        PROVE  x \in Restorable(u)
    BY DEF Ready, Restorable
  <2>. QED
    BY <2>1, <2>2
<1>2. \A x \in Databases(MaxRows) : x.of \in Archives /\ x.level \in {"older", "current"} /\ x.rows \in 0..MaxRows /\ x.writes \in BOOLEAN
  BY DEF Databases
<1>3. \A x \in Logs(MaxRows) : x.of \in Archives /\ x.rows \in 0..MaxRows
  BY DEF Logs
<1>. QED
  BY <1>1, <1>2, <1>3, RestartsAssumption

\* The names are different.
LEMMA Naming ==
  /\ {"db", "wal", "backup", "copying", "reset", "resetting"} \cup Uploads = Names
  /\ \A u \in Uploads : u \notin {"db", "wal", "backup", "copying", "reset", "resetting"}
  /\ Archive \notin Uploads /\ Fresh \notin Uploads /\ Nothing \notin Uploads /\ Archive # Fresh /\ Nothing # Fresh
BY RestartsAssumption DEF Names

\* What is read of a directory is a database of the same archive.
LEMMA ReadsIt ==
  ASSUME NEW d, Typed(d), LogOK(d), d["db"] # NoFile
  PROVE  /\ Reads(d) \in Databases(MaxRows) /\ Reads(d).of = d["db"].of /\ Reads(d).level = d["db"].level
         /\ Reads(d).writes = d["db"].writes /\ d["db"].rows <= Reads(d).rows
         /\ d["wal"] = NoFile => Reads(d) = d["db"]
         /\ d["wal"] # NoFile => Reads(d).rows = d["wal"].rows
<1>1. d["db"] \in Databases(MaxRows)
  BY DEF Typed
<1>2. CASE d["wal"] = NoFile
  BY <1>1, <1>2, Fields DEF Reads
<1>3. CASE d["wal"] # NoFile
  <2>1. d["wal"].rows \in 0..MaxRows
    BY <1>3, Fields DEF Typed
  <2>2. Reads(d) = [d["db"] EXCEPT !.rows = d["wal"].rows]
    BY <1>3 DEF Reads
  <2>3. Reads(d) \in Databases(MaxRows) /\ Reads(d).of = d["db"].of /\ Reads(d).level = d["db"].level
        /\ Reads(d).writes = d["db"].writes /\ Reads(d).rows = d["wal"].rows
    BY <1>1, <2>1, <2>2 DEF Databases
  <2>. QED
    BY <1>3, <2>3 DEF LogOK
<1>. QED
  BY <1>2, <1>3

-----------------------------------------------------------------------------
(* Directories that change. *)

\* A directory follows itself.
LEMMA FollowsSelf ==
  ASSUME NEW f, NEW h, Typed(f), LogOK(f)
  PROVE  Follows(f, f, h)
<1>1. f["db"] # NoFile => f["db"].rows <= Reads(f).rows /\ (f["wal"] # NoFile => f["wal"].rows <= Reads(f).rows)
  <2>1. CASE f["db"] = NoFile
    BY <2>1
  <2>2. CASE f["db"] # NoFile /\ f["wal"] = NoFile
    BY <2>2, ReadsIt
  <2>3. CASE f["db"] # NoFile /\ f["wal"] # NoFile
    <3>1. f["wal"].rows \in 0..MaxRows
      BY <2>3, Fields DEF Typed
    <3>. QED
      BY <2>3, <3>1, Fields, ReadsIt
  <2>. QED
    BY <2>1, <2>2, <2>3
<1>. QED
  BY <1>1 DEF Follows, Same

\* The directory was flushed.
LEMMA FlushGood ==
  ASSUME NEW f, NEW d, NEW h, Good(f, d, h)
  PROVE  Good(f, f, h)
BY FollowsSelf DEF Good, Sound

\* The three names that matter to the archive, and what the other names may hold.
Core(f, d) == f["db"] = d["db"] /\ f["wal"] = d["wal"] /\ f["reset"] = d["reset"]
Rest0(d, h) == Typed(d) /\ Rid(d, h) /\ CopyOK(d, h)

LEMMA CoreSound ==
  ASSUME NEW f, NEW g, NEW h, Sound(f, h), Core(g, f), Rest0(g, h)
  PROVE  Sound(g, h)
<1>1. LogOK(g)
  BY DEF Sound, LogOK, Core
<1>2. Stands(g, h)
  BY DEF Sound, Stands, Holds, Core
<1>3. Marked(g, h)
  BY DEF Sound, Marked, Core
<1>. QED
  BY <1>1, <1>2, <1>3 DEF Sound, Rest0

LEMMA CoreFollows ==
  ASSUME NEW f, NEW d, NEW h, NEW f2, NEW d2, Follows(f, d, h), Exact(f, h), Core(f2, f), Core(d2, d)
  PROVE  Follows(f2, d2, h) /\ Exact(f2, h)
<1>1. Reads(f2) = Reads(f)
  BY DEF Reads, Core
<1>. QED
  BY <1>1 DEF Follows, Exact, Same, Core

\* Another name is made, replaced or renamed.
LEMMA CoreGood ==
  ASSUME NEW f, NEW d, NEW h, NEW f2, NEW d2, Good(f, d, h), Core(f2, f), Rest0(f2, h), Rest0(d2, h), Core(d2, d) \/ Core(d2, f)
  PROVE  Good(f2, d2, h)
<1>1. Good(f, f, h)
  BY FlushGood
<1>2. CASE Core(d2, d)
  BY <1>2, CoreSound, CoreFollows DEF Good
<1>3. CASE Core(d2, f)
  BY <1>1, <1>3, CoreSound, CoreFollows DEF Good
<1>. QED
  BY <1>2, <1>3

\* Names go.
Cut(d, names) == [name \in Names |-> IF name \in names THEN NoFile ELSE d[name]]

\* What may go when: the database and its copy are kept until a reset is marked, and the marker until they are gone.
MayGo(f, h, names) ==
  /\ "db" \in names => f["reset"] # NoFile /\ "reset" \notin names
  /\ "wal" \in names => f["wal"] = NoFile \/ f["db"] = NoFile
  /\ "reset" \in names => f["db"] = NoFile /\ f["wal"] = NoFile /\ Archive \in h.wiped
  /\ "backup" \in names /\ Needed(h) => f["reset"] # NoFile

LEMMA CutFields ==
  ASSUME NEW f, NEW g, Typed(f)
  PROVE  /\ \A name \in Names : Cut(f, g)[name] = IF name \in g THEN NoFile ELSE f[name]
         /\ Typed(Cut(f, g))
<1>1. \A name \in Names : Cut(f, g)[name] = IF name \in g THEN NoFile ELSE f[name]
  BY DEF Cut
<1>2. Cut(f, g) = [name \in Names |-> Cut(f, g)[name]]
  BY DEF Cut
<1>. QED
  BY <1>1, <1>2, Naming DEF Typed

LEMMA CutSound ==
  ASSUME NEW f, NEW h, NEW g, Sound(f, h), MayGo(f, h, g)
  PROVE  Sound(Cut(f, g), h)
<1>. DEFINE e == Cut(f, g)
<1>1. Typed(f) /\ LogOK(f) /\ Stands(f, h) /\ Marked(f, h) /\ CopyOK(f, h) /\ Rid(f, h)
  BY DEF Sound
<1>2. Typed(e) /\ \A name \in Names : e[name] = IF name \in g THEN NoFile ELSE f[name]
  BY <1>1, CutFields
<1>. HIDE DEF e
<1>3. LogOK(e)
  BY <1>1, <1>2, Naming DEF LogOK, MayGo
<1>4. Stands(e, h)
  <2>1. CASE "db" \in g
    BY <1>1, <1>2, <2>1, Naming DEF Marked, MayGo, Stands
  <2>2. CASE "db" \notin g
    <3>1. e["db"] = f["db"] /\ (e["wal"] # NoFile => e["wal"] = f["wal"])
      BY <1>2, <2>2, Naming
    <3>2. \A a : Holds(f, a) => Holds(e, a)
      BY <3>1 DEF Holds
    <3>. QED
      BY <1>1, <3>1, <3>2 DEF Stands
  <2>. QED
    BY <2>1, <2>2
<1>5. Marked(e, h)
  BY <1>1, <1>2, Naming DEF Marked, MayGo
<1>6. CopyOK(e, h)
  <2>1. e["db"] # NoFile => e["db"] = f["db"]
    BY <1>2, Naming
  <2>2. ASSUME Needed(h) PROVE e["reset"] # NoFile \/ HasCopy(e)
    <3>1. "reset" \notin g
      BY <2>2 DEF MayGo, Needed
    <3>2. e["reset"] = f["reset"] /\ ("backup" \notin g => e["backup"] = f["backup"])
      BY <1>2, <3>1, Naming
    <3>. QED
      BY <1>1, <2>2, <3>2 DEF CopyOK, HasCopy, MayGo
  <2>. QED
    BY <1>1, <2>1, <2>2 DEF CopyOK
<1>7. Rid(e, h)
  BY <1>1, <1>2, Naming, Fields DEF Rid
<1>. QED
  BY <1>2, <1>3, <1>4, <1>5, <1>6, <1>7 DEF e, Sound

\* Some of the names that went are back after a power cut, or none of them went yet.
LEMMA CutGood ==
  ASSUME NEW f, NEW d, NEW h, NEW g, NEW d2, Good(f, d, h), MayGo(f, h, g), d2 = d \/ \E some \in SUBSET g : d2 = Cut(f, some)
  PROVE  Good(Cut(f, g), d2, h)
<1>. DEFINE e == Cut(f, g)
<1>1. Sound(f, h) /\ Sound(d, h) /\ Typed(f) /\ LogOK(f) /\ Marked(f, h) /\ Follows(f, d, h) /\ Exact(f, h)
  BY DEF Good, Sound
<1>2. Sound(e, h)
  BY <1>1, CutSound
<1>3. \A name \in Names : e[name] = IF name \in g THEN NoFile ELSE f[name]
  BY <1>1, CutFields
<1>. SUFFICES Good(e, d2, h)
  OBVIOUS
<1>. HIDE DEF e
<1>4. e["db"] # NoFile => e["db"] = f["db"] /\ e["wal"] = f["wal"] /\ Reads(e) = Reads(f)
  BY <1>3, Naming DEF MayGo, Reads
<1>5. Exact(e, h)
  BY <1>1, <1>4 DEF Exact
<1>6. h.asked \in Uploads => e["db"] = f["db"]
  <2>1. "db" \in g => h.asked = Fresh
    BY <1>1 DEF MayGo, Marked
  <2>. QED
    BY <1>3, <2>1, Naming
<1>7. "reset" \in g => f["db"] = NoFile
  BY DEF MayGo
<1>8. e["reset"] = NoFile => f["reset"] = NoFile \/ e["db"] = NoFile
  BY <1>3, <1>7, Naming
<1>9. CASE d2 = d
  <2>1. e["wal"] # NoFile => f["wal"] # NoFile
    BY <1>3, Naming
  <2>. QED
    BY <1>1, <1>2, <1>4, <1>5, <1>6, <1>8, <1>9, <2>1 DEF Good, Follows, Same
<1>10. ASSUME NEW some \in SUBSET g, d2 = Cut(f, some)
       PROVE  Good(e, d2, h)
  <2>1. MayGo(f, h, some)
    BY <1>10 DEF MayGo
  <2>2. Sound(d2, h)
    BY <1>1, <1>10, <2>1, CutSound
  <2>3. \A name \in Names : d2[name] = IF name \in some THEN NoFile ELSE f[name]
    BY <1>1, <1>10, CutFields
  <2>4. d2["db"] = NoFile => e["db"] = NoFile
    BY <1>3, <1>10, <2>3, Naming
  <2>5. e["reset"] = NoFile /\ d2["reset"] # NoFile => e["db"] = NoFile
    BY <1>3, <1>7, <2>3, <1>10, Naming
  <2>6. e["db"] # NoFile => d2["db"] = e["db"] /\ (d2["wal"] # NoFile => d2["wal"] = f["wal"])
    BY <1>3, <1>10, <2>3, Naming
  <2>7. e["db"] # NoFile => /\ d2["db"].rows <= Reads(e).rows
                            /\ d2["wal"] # NoFile => d2["wal"].rows <= Reads(e).rows
    <3>1. Good(f, f, h)
      BY FlushGood
    <3>. QED
      BY <1>4, <2>6, <3>1 DEF Good, Follows, Same
  <2>8. h.asked \in Uploads /\ d2["db"].of = h.asked => e["db"].of = h.asked
    <3>1. h.asked \in Uploads => "db" \notin some
      BY <1>1, <1>10, Naming DEF MayGo, Marked
    <3>. QED
      BY <1>6, <2>3, <3>1, Naming
  <2>9. Same(e, d2)
    BY <2>6 DEF Same
  <2>. QED
    BY <1>2, <1>5, <2>2, <2>4, <2>5, <2>6, <2>7, <2>8, <2>9 DEF Good, Follows
<1>. QED
  BY <1>9, <1>10

-----------------------------------------------------------------------------
(* The initial states, and what several actions do. *)

LEMMA InitInvariant == Init => IInv
<1>. SUFFICES ASSUME Init PROVE IInv
  OBVIOUS
<1>1. PICK level \in {"older", "current"} :
        files = [name \in Names |-> IF name = "db" THEN [of |-> Archive, level |-> level, rows |-> 0, writes |-> TRUE] ELSE NoFile]
  BY DEF Init
<1>. DEFINE a == [of |-> Archive, level |-> level, rows |-> 0, writes |-> TRUE]
<1>2. a \in Databases(MaxRows) /\ a.of = Archive /\ a.level = level /\ a.rows = 0 /\ a.writes = TRUE
  BY Fields DEF Databases, Archives
<1>3. a # NoFile
  BY <1>2, Fields
<1>. HIDE DEF a
<1>4. files = [name \in Names |-> IF name = "db" THEN a ELSE NoFile]
  BY <1>1 DEF a
<1>5. files["db"] = a /\ \A name \in Names \ {"db"} : files[name] = NoFile
  BY <1>4, Naming
<1>6. served = [of |-> Archive, rows |-> 0, writes |-> TRUE] /\ disk = files /\ pc = "off" /\ uploads = [u \in Uploads |-> "new"]
      /\ pending = Nothing /\ stop = FALSE /\ asked = Nothing /\ sure = FALSE /\ ended = "well" /\ before = {} /\ wiped = {} /\ upgraded = FALSE
  BY DEF Init
<1>7. HistoryOK
  <2>1. served \in Histories /\ served.of = Archive /\ served.rows = 0 /\ served.writes = TRUE
    BY <1>6, Fields DEF Histories, Archives
  <2>. QED
    BY <1>6, <2>1, Naming DEF HistoryOK
<1>8. ProcessOK
  BY <1>6, Naming DEF ProcessOK, Places, Stages, InHand, Running, Swapping
<1>9. PlaceOK /\ Settled
  BY <1>6, Naming DEF PlaceOK, Settled, Running, Swapping, Cleaned, Upgrading
<1>10. Reads(files) = a
  BY <1>5, Naming DEF Reads
<1>11. Sound(files, Fate)
  <2>1. Typed(files)
    <3>1. files = [name \in Names |-> files[name]]
      BY <1>4
    <3>. QED
      BY <1>2, <1>5, <3>1, Naming DEF Typed
  <2>2. Holds(files, served)
    <3>1. files["db"] = a /\ files["wal"] = NoFile
      BY <1>5, Naming
    <3>2. served.of = Archive /\ served.writes = TRUE /\ served.rows = 0 /\ a.rows <= 0
      BY <1>2, <1>6
    <3>. QED
      BY <1>2, <1>3, <3>1, <3>2 DEF Holds
  <2>3. LogOK(files) /\ Stands(files, Fate) /\ Marked(files, Fate)
    BY <1>5, <1>6, <2>2, Naming DEF LogOK, Stands, Marked, Fate
  <2>4. CopyOK(files, Fate) /\ Rid(files, Fate)
    BY <1>2, <1>3, <1>5, <1>6, Naming DEF CopyOK, Needed, Rid, Fate
  <2>. QED
    BY <2>1, <2>3, <2>4 DEF Sound
<1>12. Follows(files, disk, Fate) /\ Exact(files, Fate)
  <2>1. Fate.asked = Nothing /\ Fate.ended = "well" /\ Fate.served = served
    BY <1>6 DEF Fate
  <2>2. served.of = Archive /\ served.writes = TRUE /\ served.rows = 0
    BY <1>6
  <2>3. files["db"] = a /\ files["wal"] = NoFile /\ files["reset"] = NoFile /\ disk = files
    BY <1>5, <1>6, Naming
  <2>4. Follows(files, disk, Fate)
    BY <1>2, <1>3, <1>10, <2>1, <2>3, Naming DEF Follows, Same
  <2>5. Exact(files, Fate)
    BY <1>2, <1>10, <2>1, <2>2, <2>3 DEF Exact
  <2>. QED
    BY <2>4, <2>5
<1>. QED
  BY <1>6, <1>7, <1>8, <1>9, <1>11, <1>12 DEF IInv, Good

\* The archive on the disk changes only to become the one that is seen.
LEMMA SettledKeeps ==
  ASSUME Settled, pc # "replaced", UNCHANGED <<asked, ended>>, files'["db"] \in {files["db"], NoFile},
         files'["db"] # NoFile => disk'["db"] \in {disk["db"], files["db"]}
  PROVE  Settled'
BY DEF Settled, Same

\* A step of a start that leaves the requests and what they came to alone.
LEMMA StartsOn ==
  ASSUME IInv, pc \in Starting, pc' \in Starting, UNCHANGED <<process, served, request, ending, wiped, upgraded>>,
         Good(files', disk', Fate), PlaceOK', Settled'
  PROVE  IInv'
<1>1. HistoryOK'
  BY DEF IInv, HistoryOK, process, request, ending
<1>2. ProcessOK'
  BY DEF IInv, ProcessOK, process, request, Starting, Swapping, Places
<1>3. Fate' = Fate
  BY DEF Fate, request, ending
<1>. QED
  BY <1>1, <1>2, <1>3 DEF IInv

\* The process ends, whether it was meant to or not.
LEMMA ProcessEnds ==
  ASSUME IInv, Over, UNCHANGED <<served, request, before, wiped, upgraded>>, ended' \in {"well", "killed", "cut"},
         Good(files', disk', Fate'), Settled'
  PROVE  IInv'
<1>1. pc' = "off" /\ pending' = Nothing /\ stop' = FALSE
      /\ uploads' \in [Uploads -> {"new", "over"}] /\ \A u \in Uploads : uploads[u] = "new" <=> uploads'[u] = "new"
  BY DEF Over
<1>2. HistoryOK'
  BY <1>1 DEF IInv, HistoryOK, request
<1>3. ProcessOK'
  BY <1>1, Naming DEF IInv, ProcessOK, request, Places, Stages, Running, Swapping
<1>4. PlaceOK'
  BY <1>1 DEF PlaceOK, Running, Swapping, Cleaned, Upgrading
<1>. QED
  BY <1>2, <1>3, <1>4 DEF IInv

\* The directory is left as it is.
LEMMA EndsAsItIs ==
  ASSUME IInv, pc # "replaced", Over, AsItIs, RestOver
  PROVE  IInv'
<1>1. Fate' = Fate
  BY DEF RestOver, Fate, request, ending
<1>2. Good(files', disk', Fate')
  BY <1>1 DEF IInv, AsItIs
<1>3. Settled'
  BY SettledKeeps DEF IInv, AsItIs, RestOver, request, ending
<1>4. ended' \in {"well", "killed", "cut"}
  BY DEF IInv, HistoryOK, RestOver, ending
<1>. QED
  BY <1>2, <1>3, <1>4, ProcessEnds DEF RestOver, ending

\* Names are removed.
LEMMA Unlinked ==
  ASSUME IInv, NEW names, Unlink(names), MayGo(files, Fate, names)
  PROVE  /\ Good(files', disk', Fate)
         /\ \A name \in Names : files'[name] = IF name \in names THEN NoFile ELSE files[name]
         /\ \A name \in Names : disk'[name] \in {disk[name], files[name], NoFile}
         /\ files'["db"] # NoFile => disk'["db"] \in {disk["db"], files["db"]}
<1>1. Good(files, disk, Fate) /\ Typed(files)
  BY DEF IInv, Good, Sound
<1>2. files' = Cut(files, names)
  BY DEF Unlink, Without, Cut
<1>3. disk' = disk \/ \E some \in SUBSET names : disk' = Cut(files, some)
  BY DEF Unlink, Without, Cut
<1>4. Good(files', disk', Fate)
  <2>1. \A e : e = disk \/ (\E some \in SUBSET names : e = Cut(files, some)) => Good(Cut(files, names), e, Fate)
    BY <1>1, CutGood
  <2>. QED
    BY <1>2, <1>3, <2>1
<1>5. \A name \in Names : files'[name] = IF name \in names THEN NoFile ELSE files[name]
  BY <1>1, <1>2, CutFields
<1>6. CASE disk' = disk
  BY <1>4, <1>5, <1>6
<1>7. ASSUME NEW some \in SUBSET names, disk' = Cut(files, some)
      PROVE  /\ \A name \in Names : disk'[name] \in {disk[name], files[name], NoFile}
             /\ files'["db"] # NoFile => disk'["db"] \in {disk["db"], files["db"]}
  <2>1. \A name \in Names : disk'[name] = IF name \in some THEN NoFile ELSE files[name]
    BY <1>1, <1>7, CutFields
  <2>. QED
    BY <1>5, <1>7, <2>1, Naming
<1>. QED
  BY <1>3, <1>4, <1>5, <1>6, <1>7

-----------------------------------------------------------------------------
(* A start, up to the upgrade. *)

LEMMA AllDeletedKeeps ==
  ASSUME IInv, AllDeleted, wiped' = wiped \cup {Archive} \cup {u \in Uploads : uploads[u] # "new"},
         UNCHANGED <<process, served, request, ending, upgraded>>
  PROVE  IInv'
<1>1. Here("reset") /\ pc = "reset" /\ pc' = "unmark" /\ files' = files /\ disk' = files
  BY DEF AllDeleted, Go, Flush
<1>2. \A name \in Doomed : files[name] = NoFile
  <2>1. {name \in Doomed : Here(name)} = {}
    BY <1>1 DEF AllDeleted, Doomable
  <2>. QED
    BY <2>1 DEF Here
<1>3. UNCHANGED <<uploads, pending, stop, asked, sure, served, ended, before, upgraded>>
  BY DEF process, request, ending
<1>4. HistoryOK'
  <2>1. \A u \in Uploads : uploads[u] \in {"new", "over"}
    BY <1>1 DEF IInv, ProcessOK, Starting
  <2>2. wiped' \subseteq {Archive} \cup Uploads /\ \A u \in wiped' \cap Uploads : uploads[u] = "over"
    BY <2>1, Naming DEF IInv, HistoryOK
  <2>. QED
    BY <1>3, <2>2 DEF IInv, HistoryOK
<1>5. ProcessOK'
  BY <1>1, <1>3 DEF IInv, ProcessOK, Starting, Swapping, Places
<1>6. PlaceOK'
  BY <1>1, <1>2 DEF PlaceOK, Running, Swapping, Cleaned, Upgrading, Possible
<1>7. Settled'
  BY <1>1, <1>3, SettledKeeps DEF IInv
<1>8. Good(files, files, Fate')
  <2>1. Good(files, files, Fate)
    BY FlushGood DEF IInv
  <2>2. /\ Fate'.served = Fate.served /\ Fate'.before = Fate.before /\ Fate'.asked = Fate.asked /\ Fate'.sure = Fate.sure
        /\ Fate'.ended = Fate.ended /\ Archive \in Fate'.wiped /\ Fate'.upgraded = Fate.upgraded
    BY <1>3 DEF Fate
  <2>. HIDE DEF Fate
  <2>3. \A name \in {"db", "backup", "copying"} \cup Uploads : files[name] = NoFile
    BY <1>2 DEF Doomed
  <2>4. Rid(files, Fate')
    BY <2>3, Fields DEF Rid
  <2>5. CopyOK(files, Fate')
    BY <2>2, <2>3 DEF CopyOK, Needed
  <2>6. Sound(files, Fate')
    BY <2>1, <2>2, <2>4, <2>5 DEF Good, Sound, Stands, Marked
  <2>7. Follows(files, files, Fate') /\ Exact(files, Fate')
    BY <2>1, <2>2 DEF Good, Follows, Exact
  <2>. QED
    BY <2>6, <2>7 DEF Good
<1>. QED
  BY <1>1, <1>4, <1>5, <1>6, <1>7, <1>8 DEF IInv

LEMMA CompleteResetKeeps ==
  ASSUME IInv, CompleteReset
  PROVE  IInv'
<1>1. UNCHANGED <<process, served, request, ending, upgraded, crashes, errors>>
  BY DEF CompleteReset
<1>2. UNCHANGED <<asked, ended>>
  BY <1>1 DEF request, ending
<1>3. CASE NoReset /\ UNCHANGED wiped
  <2>1. ~Here("reset") /\ pc = "reset" /\ pc' = "clean" /\ Unlink({"resetting"})
    BY <1>3 DEF NoReset, Go
  <2>2. MayGo(files, Fate, {"resetting"})
    BY DEF MayGo
  <2>. DEFINE names == {"resetting"}
  <2>3. /\ Good(files', disk', Fate) /\ files'["db"] = files["db"] /\ files'["reset"] = files["reset"]
        /\ files'["db"] # NoFile => disk'["db"] \in {disk["db"], files["db"]}
    BY <2>1, <2>2, Unlinked, Naming
  <2>4. PlaceOK'
    BY <2>1, <2>3 DEF PlaceOK, Running, Swapping, Cleaned, Upgrading, Here
  <2>5. Settled'
    BY <1>2, <2>1, <2>3, SettledKeeps DEF IInv
  <2>. QED
    BY <1>1, <1>3, <2>1, <2>3, <2>4, <2>5, StartsOn DEF Starting
<1>4. CASE DeleteOne /\ UNCHANGED wiped
  <2>1. PICK name \in Doomable : Unlink({name})
    BY <1>4 DEF DeleteOne
  <2>2. Here("reset") /\ pc = "reset" /\ pc' = "reset"
    BY <1>4 DEF DeleteOne
  <2>3. name \in Doomed /\ (name = "wal" => files["db"] = NoFile)
    BY <2>1 DEF Doomable, Doomed, Here
  <2>4. MayGo(files, Fate, {name})
    BY <2>2, <2>3, Naming DEF MayGo, Here, Doomed
  <2>5. /\ Good(files', disk', Fate) /\ files'["db"] \in {files["db"], NoFile}
        /\ files'["db"] # NoFile => disk'["db"] \in {disk["db"], files["db"]}
    BY <2>1, <2>4, Unlinked, Naming
  <2>6. PlaceOK'
    BY <2>2 DEF PlaceOK, Running, Swapping, Cleaned, Upgrading
  <2>7. Settled'
    BY <1>2, <2>2, <2>5, SettledKeeps DEF IInv
  <2>. QED
    BY <1>1, <1>4, <2>2, <2>5, <2>6, <2>7, StartsOn DEF Starting
<1>5. CASE Unmark /\ UNCHANGED wiped
  <2>1. pc = "unmark" /\ pc' = "unmarked" /\ Unlink({"reset"})
    BY <1>5 DEF Unmark, Go
  <2>2. Archive \in wiped /\ \A name \in Doomed : files[name] = NoFile /\ disk[name] = NoFile
    BY <2>1 DEF IInv, PlaceOK, Possible
  <2>3. MayGo(files, Fate, {"reset"})
    BY <2>2 DEF MayGo, Doomed, Needed, Fate
  <2>4. /\ Good(files', disk', Fate)
        /\ \A name \in Names : files'[name] = IF name \in {"reset"} THEN NoFile ELSE files[name]
        /\ \A name \in Names : disk'[name] \in {disk[name], files[name], NoFile}
    BY <2>1, <2>3, Unlinked
  <2>5. files'["db"] = NoFile /\ files'["reset"] = NoFile /\ files["db"] = NoFile
    BY <2>2, <2>4, Naming DEF Doomed
  <2>6. \A name \in Doomed : files'[name] = NoFile /\ disk'[name] = NoFile
    BY <2>2, <2>4, Naming DEF Doomed
  <2>7. PlaceOK'
    BY <1>5, <2>1, <2>2, <2>5, <2>6 DEF PlaceOK, Running, Swapping, Cleaned, Upgrading, Here, Possible
  <2>8. Settled'
    BY <1>2, <2>1, <2>5, SettledKeeps DEF IInv
  <2>. QED
    BY <1>1, <1>5, <2>1, <2>4, <2>7, <2>8, StartsOn DEF Starting
<1>6. CASE ResetOver /\ UNCHANGED wiped
  <2>1. pc = "unmarked" /\ pc' = "clean" /\ files' = files /\ disk' = files
    BY <1>6 DEF ResetOver, Go, Flush
  <2>2. Good(files', disk', Fate)
    BY <2>1, FlushGood DEF IInv
  <2>3. PlaceOK'
    BY <2>1 DEF IInv, PlaceOK, Running, Swapping, Cleaned, Upgrading, Here
  <2>4. Settled'
    BY <1>2, <2>1, SettledKeeps DEF IInv
  <2>. QED
    BY <1>1, <1>6, <2>1, <2>2, <2>3, <2>4, StartsOn DEF Starting
<1>. QED
  BY <1>1, <1>3, <1>4, <1>5, <1>6, AllDeletedKeeps DEF CompleteReset

LEMMA CleanKeeps ==
  ASSUME IInv, Clean
  PROVE  IInv'
<1>. DEFINE names == {"copying"} \cup Uploads
<1>1. pc = "clean" /\ pc' = "upgrade" /\ Unlink(names) /\ UNCHANGED <<process, served, request, ending, wiped, upgraded>>
  BY DEF Clean, Go, Rest
<1>2. UNCHANGED <<asked, ended>>
  BY <1>1 DEF request, ending
<1>3. names \cap {"db", "wal", "reset", "backup"} = {}
  BY Naming
<1>. HIDE DEF names
<1>4. MayGo(files, Fate, names)
  BY <1>3 DEF MayGo
<1>5. /\ Good(files', disk', Fate)
      /\ \A name \in Names : files'[name] = IF name \in names THEN NoFile ELSE files[name]
      /\ files'["db"] # NoFile => disk'["db"] \in {disk["db"], files["db"]}
  BY <1>1, <1>4, Unlinked
<1>6. files'["db"] = files["db"] /\ files'["reset"] = files["reset"]
  BY <1>3, <1>5, Naming
<1>7. PlaceOK'
  BY <1>1, <1>6 DEF IInv, PlaceOK, Running, Swapping, Cleaned, Upgrading, Here
<1>8. Settled'
  BY <1>1, <1>2, <1>5, <1>6, SettledKeeps DEF IInv
<1>. QED
  BY <1>1, <1>5, <1>7, <1>8, StartsOn DEF Starting

LEMMA StartKeeps ==
  ASSUME IInv, Start \/ Upgrade \/ NoUpgrade
  PROVE  IInv'
<1>1. /\ pc \in Starting /\ pc' \in Starting \ {"unmark", "unmarked", "clean"} /\ UNCHANGED <<files, disk>>
      /\ UNCHANGED <<process, served, request, ending, wiped, upgraded>>
      /\ pc' \in Cleaned => pc \in Cleaned
      /\ pc' \in Upgrading => Here("db") /\ files["db"].level = "older"
      /\ pc' \notin {"copying", "copied", "named", "steps"}
  BY DEF Start, Upgrade, NoUpgrade, Go, AsItIs, Rest, Starting, Cleaned, Upgrading, Older
<1>2. UNCHANGED <<asked, ended>>
  BY <1>1 DEF request, ending
<1>3. PlaceOK'
  BY <1>1 DEF IInv, PlaceOK, Starting, Running, Swapping, Cleaned, Upgrading, Here
<1>4. Settled'
  BY <1>1, <1>2, SettledKeeps DEF IInv, Starting
<1>. QED
  BY <1>1, <1>3, <1>4, StartsOn DEF IInv

-----------------------------------------------------------------------------
(* Names besides the archive's. *)

\* What may be put under another name.
Fits(n, x, h) ==
  /\ n \in {"backup", "copying", "resetting"} \cup Uploads
  /\ n \in {"backup", "copying"} => x \in Databases(MaxRows) \cup {NoFile, Torn}
  /\ n \in Uploads => x \in Restorable(n) \cup {NoFile, Torn}
  /\ n = "resetting" => x \in {NoFile, Torn}
  /\ x \in Databases(MaxRows) => x.of \notin h.wiped
  /\ n = "backup" /\ Needed(h) => x \in Databases(MaxRows) /\ x.level = "older"

With(d, n, x) == [d EXCEPT ![n] = x]

LEMMA Fitted ==
  ASSUME NEW f, NEW h, Rest0(f, h), NEW n, NEW x, Fits(n, x, h), NEW e, e = With(f, n, x)
  PROVE  Rest0(e, h) /\ Core(e, f) /\ e[n] = x /\ \A m \in Names \ {n} : e[m] = f[m]
<1>1. n \in Names /\ n \notin {"db", "wal", "reset"}
  BY Naming DEF Fits
<1>2. f = [name \in Names |-> f[name]]
  BY DEF Rest0, Typed
<1>3. e = [name \in Names |-> e[name]] /\ e[n] = x /\ \A m \in Names \ {n} : e[m] = f[m]
  BY <1>1, <1>2 DEF With
<1>4. Core(e, f)
  BY <1>1, <1>3, Naming DEF Core
<1>5. Typed(e)
  <2>1. /\ e["db"] = f["db"] /\ e["wal"] = f["wal"] /\ e["reset"] = f["reset"]
        /\ e["backup"] \in {f["backup"]} \cup (IF n = "backup" THEN {x} ELSE {})
        /\ e["copying"] \in {f["copying"]} \cup (IF n = "copying" THEN {x} ELSE {})
        /\ e["resetting"] \in {f["resetting"]} \cup (IF n = "resetting" THEN {x} ELSE {})
        /\ \A u \in Uploads : e[u] \in {f[u]} \cup (IF n = u THEN {x} ELSE {})
    BY <1>3, <1>4, Naming DEF Core
  <2>. QED
    BY <1>3, <2>1 DEF Typed, Rest0, Fits
<1>6. Rid(e, h)
  BY <1>3, Naming DEF Rest0, Rid, Fits
<1>7. CopyOK(e, h)
  <2>1. e["backup"] = f["backup"] \/ (n = "backup" /\ e["backup"] = x)
    BY <1>3, Naming
  <2>. QED
    BY <1>4, <2>1 DEF Rest0, CopyOK, Core, HasCopy, Fits
<1>. QED
  BY <1>3, <1>4, <1>5, <1>6, <1>7 DEF Rest0

\* A name is made, or written anew; the disk has followed or not.
LEMMA Changed ==
  ASSUME IInv, NEW n, NEW x, NEW y, Fits(n, x, Fate), Fits(n, y, Fate), files' = With(files, n, x),
         disk' = disk \/ disk' = With(files, n, y) \/ disk' = With(disk, n, y)
  PROVE  /\ Good(files', disk', Fate)
         /\ files'[n] = x /\ \A m \in Names \ {n} : files'[m] = files[m]
         /\ disk'["db"] \in {disk["db"], files["db"]}
<1>1. Rest0(files, Fate) /\ Rest0(disk, Fate)
  BY DEF IInv, Good, Sound, Rest0
<1>2. \A e : e = With(files, n, x) => Rest0(e, Fate) /\ Core(e, files) /\ e[n] = x /\ \A m \in Names \ {n} : e[m] = files[m]
  BY <1>1, Fitted
<1>3. \A e : e = With(files, n, y) => Rest0(e, Fate) /\ Core(e, files)
  BY <1>1, Fitted
<1>4. \A e : e = With(disk, n, y) => Rest0(e, Fate) /\ Core(e, disk)
  BY <1>1, Fitted
<1>5. Core(disk, disk)
  BY DEF Core
<1>6. Rest0(disk', Fate) /\ (Core(disk', disk) \/ Core(disk', files))
  BY <1>1, <1>3, <1>4, <1>5
<1>7. Good(files', disk', Fate)
  <2>1. Rest0(files', Fate) /\ Core(files', files)
    BY <1>2
  <2>. DEFINE f2 == files' d2 == disk'
  <2>2. Rest0(f2, Fate) /\ Core(f2, files) /\ Rest0(d2, Fate) /\ (Core(d2, disk) \/ Core(d2, files))
    BY <1>6, <2>1
  <2>3. Good(files, disk, Fate)
    BY DEF IInv
  <2>. HIDE DEF f2, d2
  <2>4. Good(f2, d2, Fate)
    BY <2>2, <2>3, CoreGood
  <2>. QED
    BY <2>4 DEF f2, d2
<1>8. disk'["db"] \in {disk["db"], files["db"]}
  BY <1>6 DEF Core
<1>. QED
  BY <1>2, <1>7, <1>8

\* Something not there yet, or not there any more, fits anywhere but in place of a copy that is needed.
LEMMA NullFits ==
  ASSUME NEW n \in {"copying", "resetting"} \cup Uploads, NEW h, NEW x \in {NoFile, Torn}
  PROVE  Fits(n, x, h)
BY Fields, Naming DEF Fits

-----------------------------------------------------------------------------
(* The upgrade. *)

LEMMA WriteBackupKeeps ==
  ASSUME IInv, WriteBackup, UNCHANGED <<process, served, request, ending, wiped, upgraded>>
  PROVE  IInv'
<1>1. Good(files, disk, Fate) /\ Typed(files) /\ LogOK(files) /\ CopyOK(files, Fate) /\ Rid(files, Fate)
  BY DEF IInv, Good, Sound
<1>2. UNCHANGED <<asked, ended>>
  BY DEF request, ending
<1>3. pc \in Upgrading /\ Here("db") /\ files["db"].level = "older" /\ files["db"] # NoFile /\ files["reset"] = NoFile
  BY DEF WriteBackup, Copying, Copied, CopyNamed, CopyKept, Go, IInv, PlaceOK, Upgrading, Cleaned, Here
<1>4. Reads(files) \in Databases(MaxRows) /\ Reads(files).level = "older" /\ Reads(files).of \notin wiped
  <2>1. Reads(files) \in Databases(MaxRows) /\ Reads(files).level = "older" /\ Reads(files).of = files["db"].of
    BY <1>1, <1>3, ReadsIt
  <2>2. files["db"] \in Databases(MaxRows)
    BY <1>1, <1>3 DEF Typed
  <2>. QED
    BY <1>1, <2>1, <2>2 DEF Rid, Fate
<1>5. ASSUME Good(files', disk', Fate), files'["db"] = files["db"], files'["reset"] = files["reset"], disk'["db"] \in {disk["db"], files["db"]},
             pc' \in Upgrading, pc' = "copying" => files'["copying"] # NoFile, pc' = "copied" => files'["copying"] = Reads(files'),
             pc' \in {"named", "steps"} => HasCopy(files'), pc' = "steps" => disk' = files'
      PROVE  IInv'
  <2>1. PlaceOK'
    BY <1>3, <1>5 DEF PlaceOK, Running, Swapping, Cleaned, Upgrading, Here
  <2>2. Settled'
    BY <1>2, <1>3, <1>5, SettledKeeps DEF IInv, Upgrading
  <2>. QED
    BY <1>3, <1>5, <2>1, <2>2, StartsOn DEF Starting, Upgrading
<1>6. CASE Copying
  <2>1. pc' = "copying" /\ files' = With(files, "copying", Torn) /\ disk' \in {disk, files'}
    BY <1>6 DEF Copying, Go, Change, With
  <2>2. Fits("copying", Torn, Fate)
    BY NullFits
  <2>3. /\ Good(files', disk', Fate) /\ files'["copying"] = Torn
        /\ \A m \in Names \ {"copying"} : files'[m] = files[m]
        /\ disk'["db"] \in {disk["db"], files["db"]}
    BY <2>1, <2>2, Changed
  <2>. QED
    BY <1>5, <2>1, <2>3, Naming, Fields DEF Upgrading
<1>7. CASE Copied
  <2>1. pc = "copying" /\ pc' = "copied" /\ files' = Put(files, "copying", Reads(files)) /\ disk' = Put(disk, "copying", Reads(files))
    BY <1>7 DEF Copied, Go, Rewrite
  <2>2. files["copying"] # NoFile
    BY <2>1 DEF IInv, PlaceOK, Here
  <2>3. Typed(disk)
    BY DEF IInv, Good, Sound
  <2>4. files' = With(files, "copying", Reads(files))
    BY <2>1, <2>2 DEF Put, With
  <2>5. PICK y \in {NoFile, Reads(files)} : disk' = With(disk, "copying", y)
    BY <2>1 DEF Put, With
  <2>6. Fits("copying", Reads(files), Fate) /\ Fits("copying", y, Fate)
    BY <1>4, <2>5, NullFits, Naming DEF Fits, Fate
  <2>7. /\ Good(files', disk', Fate) /\ files'["copying"] = Reads(files)
        /\ \A m \in Names \ {"copying"} : files'[m] = files[m]
        /\ disk'["db"] \in {disk["db"], files["db"]}
    BY <2>4, <2>5, <2>6, Changed
  <2>8. files'["db"] = files["db"] /\ files'["wal"] = files["wal"] /\ files'["reset"] = files["reset"]
    BY <2>7, Naming
  <2>9. Reads(files') = Reads(files)
    BY <2>8 DEF Reads
  <2>. QED
    BY <1>5, <2>1, <2>7, <2>8, <2>9 DEF Upgrading
<1>8. CASE CopyNamed
  <2>. DEFINE e == With(files, "backup", Reads(files))
              e2 == With(e, "copying", NoFile)
  <2>1. pc = "copied" /\ pc' = "named" /\ files["copying"] = Reads(files)
    BY <1>8 DEF CopyNamed, Go, IInv, PlaceOK
  <2>2. Fits("backup", Reads(files), Fate) /\ Fits("copying", NoFile, Fate)
    BY <1>4, NullFits, Naming DEF Fits, Fate
  <2>3. Rest0(files, Fate) /\ Rest0(disk, Fate)
    BY DEF IInv, Good, Sound, Rest0
  <2>4. files' = e2 /\ disk' \in {disk, e2}
    BY <1>8, <2>1 DEF CopyNamed, Change, With
  <2>5. Rest0(e, Fate) /\ Core(e, files) /\ e["backup"] = Reads(files)
    <3>. HIDE DEF e
    <3>1. e = With(files, "backup", Reads(files)) => Rest0(e, Fate) /\ Core(e, files) /\ e["backup"] = Reads(files)
      BY <2>2, <2>3, Fitted
    <3>. QED
      BY <3>1 DEF e
  <2>6. Rest0(e2, Fate) /\ Core(e2, e) /\ e2["backup"] = e["backup"]
    <3>. HIDE DEF e2, e
    <3>1. e2 = With(e, "copying", NoFile) => Rest0(e2, Fate) /\ Core(e2, e) /\ \A m \in Names \ {"copying"} : e2[m] = e[m]
      BY <2>2, <2>5, Fitted
    <3>. QED
      BY <3>1, Naming DEF e2
  <2>. HIDE DEF e, e2
  <2>7. Rest0(files', Fate) /\ Core(files', files) /\ files'["backup"] = Reads(files)
    BY <2>4, <2>5, <2>6 DEF Core
  <2>8. Rest0(disk', Fate) /\ (Core(disk', disk) \/ Core(disk', files))
    <3>1. Core(disk, disk)
      BY DEF Core
    <3>. QED
      BY <2>3, <2>4, <2>7, <3>1
  <2>9. Good(files', disk', Fate)
    <3>. DEFINE f2 == files' d2 == disk'
    <3>1. Rest0(f2, Fate) /\ Core(f2, files) /\ Rest0(d2, Fate) /\ (Core(d2, disk) \/ Core(d2, files))
      BY <2>7, <2>8
    <3>. HIDE DEF f2, d2
    <3>2. Good(f2, d2, Fate)
      BY <1>1, <3>1, CoreGood
    <3>. QED
      BY <3>2 DEF f2, d2
  <2>10. HasCopy(files')
    BY <1>4, <2>7 DEF HasCopy
  <2>. QED
    BY <1>5, <2>1, <2>7, <2>8, <2>9, <2>10 DEF Upgrading, Core
<1>9. CASE CopyKept
  <2>1. pc = "named" /\ pc' = "steps" /\ files' = files /\ disk' = files
    BY <1>9 DEF CopyKept, Go, Flush
  <2>2. HasCopy(files)
    BY <2>1 DEF IInv, PlaceOK
  <2>3. Good(files', disk', Fate)
    BY <1>1, <2>1, FlushGood
  <2>. QED
    BY <1>5, <2>1, <2>2, <2>3 DEF Upgrading
<1>. QED
  BY <1>6, <1>7, <1>8, <1>9 DEF WriteBackup

\* The steps leave the archive as it is; its copy is there already.
LEMMA StepsKeep ==
  ASSUME IInv, StepsDone, upgraded' = TRUE, UNCHANGED <<process, served, request, ending, wiped>>
  PROVE  IInv'
<1>. DEFINE X == [Reads(files) EXCEPT !.level = "current"]
            e == With(files, "db", X)
<1>1. pc = "steps" /\ pc' = "open" /\ disk = files /\ HasCopy(files) /\ files["db"] # NoFile /\ files["reset"] = NoFile
  BY DEF StepsDone, Go, IInv, PlaceOK, Upgrading, Cleaned, Here
<1>2. Good(files, files, Fate) /\ Typed(files) /\ LogOK(files) /\ Stands(files, Fate) /\ Marked(files, Fate) /\ CopyOK(files, Fate) /\ Rid(files, Fate)
      /\ Exact(files, Fate)
  BY <1>1 DEF IInv, Good, Sound
<1>3. Reads(files) \in Databases(MaxRows) /\ Reads(files).of = files["db"].of /\ Reads(files).writes = files["db"].writes
      /\ (files["wal"] = NoFile => Reads(files) = files["db"]) /\ (files["wal"] # NoFile => Reads(files).rows = files["wal"].rows)
  BY <1>1, <1>2, ReadsIt
<1>4. X \in Databases(MaxRows) /\ X.of = files["db"].of /\ X.level = "current" /\ X.rows = Reads(files).rows /\ X.writes = files["db"].writes
  BY <1>3 DEF Databases
<1>5. files' = e /\ disk' = e
  BY <1>1 DEF StepsDone, Rewrite, Put, With
<1>. HIDE DEF X
<1>6. e = [name \in Names |-> e[name]] /\ e["db"] = X /\ \A name \in Names \ {"db"} : e[name] = files[name]
  BY <1>2, Naming DEF Typed, With
<1>7. e["wal"] = files["wal"] /\ e["reset"] = files["reset"] /\ e["backup"] = files["backup"]
  BY <1>6, Naming
<1>. HIDE DEF e
<1>8. X # NoFile
  BY <1>4, Fields
<1>9. UNCHANGED <<uploads, pending, stop, asked, sure, served, ended, before>>
  BY DEF process, request, ending
<1>10. /\ Fate'.served = Fate.served /\ Fate'.before = Fate.before /\ Fate'.asked = Fate.asked /\ Fate'.sure = Fate.sure
       /\ Fate'.ended = Fate.ended /\ Fate'.wiped = Fate.wiped
  BY <1>9 DEF Fate
<1>11. Typed(e)
  BY <1>2, <1>4, <1>6, Naming DEF Typed
<1>12. LogOK(e)
  <2>1. X.rows <= X.rows
    BY <1>4, Fields
  <2>2. files["wal"] # NoFile => X.rows = files["wal"].rows /\ X.of = files["wal"].of
    BY <1>1, <1>2, <1>3, <1>4 DEF LogOK
  <2>. QED
    BY <1>6, <1>7, <1>8, <2>1, <2>2 DEF LogOK
<1>13. Stands(e, Fate')
  <2>1. \A a : Holds(files, a) => Holds(e, a)
    <3>1. files["wal"] = NoFile => X.rows = files["db"].rows
      BY <1>3, <1>4
    <3>2. files["wal"] # NoFile => X.rows = files["wal"].rows
      BY <1>3, <1>4
    <3>. QED
      BY <1>4, <1>6, <1>7, <1>8, <3>1, <3>2 DEF Holds
  <2>2. Stands(files, Fate')
    BY <1>2, <1>10 DEF Stands
  <2>. QED
    BY <1>1, <2>1, <2>2 DEF Stands
<1>14. Marked(e, Fate')
  BY <1>1, <1>2, <1>6, <1>7, <1>8, <1>10 DEF Marked
<1>15. CopyOK(e, Fate')
  BY <1>1, <1>4, <1>6, <1>7 DEF CopyOK, HasCopy
<1>16. Rid(e, Fate')
  <2>1. files["db"] \in Databases(MaxRows)
    BY <1>1, <1>2 DEF Typed
  <2>. QED
    BY <1>2, <1>4, <1>6, <1>10, <2>1, Naming DEF Rid
<1>17. Follows(e, e, Fate')
  BY <1>11, <1>12, FollowsSelf
<1>18. Reads(e).rows = Reads(files).rows
  <2>1. CASE files["wal"] = NoFile
    BY <1>4, <1>6, <1>7, <2>1 DEF Reads
  <2>2. CASE files["wal"] # NoFile
    <3>1. Reads(e).rows = e["wal"].rows
      BY <1>1, <1>6, <1>7, <1>8, <1>11, <1>12, <2>2, ReadsIt
    <3>. QED
      BY <1>3, <1>7, <2>2, <3>1
  <2>. QED
    BY <2>1, <2>2
<1>19. Exact(e, Fate')
  BY <1>1, <1>2, <1>4, <1>6, <1>10, <1>18 DEF Exact
<1>20. Good(files', disk', Fate')
  BY <1>5, <1>11, <1>12, <1>13, <1>14, <1>15, <1>16, <1>17, <1>19 DEF Good, Sound
<1>21. HistoryOK' /\ ProcessOK'
  BY <1>1, <1>9 DEF IInv, HistoryOK, ProcessOK, Starting, Swapping, Places
<1>22. PlaceOK' /\ Settled'
  BY <1>1, <1>5, <1>7 DEF PlaceOK, Settled, Same, Running, Swapping, Cleaned, Upgrading, Here
<1>. QED
  BY <1>20, <1>21, <1>22 DEF IInv

LEMMA UpgradeDatabaseKeeps ==
  ASSUME IInv, UpgradeDatabase
  PROVE  IInv'
BY WriteBackupKeeps, StepsKeep DEF UpgradeDatabase

\* A start that is refused took nothing but the copy it made.
LEMMA FailuresKeep ==
  ASSUME IInv, Failures
  PROVE  IInv'
<1>1. CASE StartFails
  BY <1>1, EndsAsItIs DEF StartFails
<1>2. CASE UpgradeRefused
  <2>1. Over /\ RestOver /\ UNCHANGED <<asked, ended, served, request, before, wiped, upgraded>>
    BY <1>2 DEF UpgradeRefused, RestOver, request, ending
  <2>2. Fate' = Fate
    BY <2>1 DEF Fate, RestOver, request, ending
  <2>3. CASE pc = "upgrade" /\ Older /\ AsItIs
    BY <2>1, <2>3, EndsAsItIs
  <2>4. ASSUME pc \in Upgrading
        PROVE  ~upgraded /\ \A names \in SUBSET {"copying", "backup"} : MayGo(files, Fate, names)
    <3>1. files["db"] # NoFile /\ files["db"].level = "older"
      BY <2>4 DEF IInv, PlaceOK, Here
    <3>2. CopyOK(files, Fate)
      BY DEF IInv, Good, Sound
    <3>3. ~upgraded
      BY <3>1, <3>2 DEF CopyOK, Fate
    <3>. QED
      BY <3>3 DEF MayGo, Needed, Fate
  <2>5. ASSUME pc \in Upgrading, Good(files', disk', Fate), files'["db"] = files["db"], disk'["db"] \in {disk["db"], files["db"]}
        PROVE  IInv'
    <3>1. Settled'
      BY <2>1, <2>5, SettledKeeps DEF IInv, Upgrading
    <3>2. ended' \in {"well", "killed", "cut"}
      BY <2>1 DEF IInv, HistoryOK
    <3>. QED
      BY <2>1, <2>2, <2>5, <3>1, <3>2, ProcessEnds
  <2>6. CASE pc \in {"copy", "copying", "copied", "named"} /\ files' = Without({"copying", "backup"}) /\ disk' = files'
    <3>. DEFINE names == {"copying", "backup"}
    <3>1. Good(files, disk, Fate) /\ Typed(files) /\ MayGo(files, Fate, names) /\ pc \in Upgrading
      BY <2>4, <2>6 DEF IInv, Good, Sound, Upgrading
    <3>2. Good(Cut(files, names), Cut(files, names), Fate)
      BY <3>1, CutGood
    <3>3. files' = Cut(files, names) /\ disk' = Cut(files, names)
      BY <2>6 DEF Without, Cut
    <3>4. files'["db"] = files["db"] /\ disk'["db"] = files["db"]
      BY <3>1, <3>3, CutFields, Naming
    <3>. QED
      BY <2>5, <3>1, <3>2, <3>3, <3>4
  <2>7. CASE pc = "steps" /\ Unlink({"backup"})
    <3>. DEFINE names == {"backup"}
    <3>1. MayGo(files, Fate, names) /\ pc \in Upgrading
      BY <2>4, <2>7 DEF Upgrading
    <3>2. /\ Good(files', disk', Fate)
          /\ \A name \in Names : files'[name] = IF name \in names THEN NoFile ELSE files[name]
          /\ files'["db"] # NoFile => disk'["db"] \in {disk["db"], files["db"]}
      BY <2>7, <3>1, Unlinked
    <3>3. files'["db"] = files["db"] /\ files["db"] # NoFile
      BY <3>1, <3>2, Naming DEF IInv, PlaceOK, Here
    <3>. QED
      BY <2>5, <3>1, <3>2, <3>3
  <2>. QED
    BY <1>2, <2>3, <2>6, <2>7 DEF UpgradeRefused
<1>. QED
  BY <1>1, <1>2 DEF Failures

-----------------------------------------------------------------------------
(* The database is opened and serves. *)

LEMMA OpenMade ==
  ASSUME IInv, Open, ~Here("db")
  PROVE  IInv'
<1>. DEFINE X == [of |-> Fresh, level |-> "current", rows |-> 0, writes |-> FALSE]
            s == [of |-> Fresh, rows |-> 0, writes |-> FALSE]
            e == With(files, "db", X)
<1>1. X \in Databases(MaxRows) /\ X.of = Fresh /\ X.level = "current" /\ X.rows = 0 /\ X.writes = FALSE /\ Opened = X
  BY Fields DEF Databases, Archives, Opened
<1>2. s \in Histories /\ s.of = Fresh /\ s.rows = 0 /\ s.writes = FALSE
  BY Fields DEF Histories, Archives
<1>. HIDE DEF X
<1>3. pc = "open" /\ pc' = "serving" /\ files' = e /\ disk' = e /\ served' = s /\ asked' = Nothing /\ sure' = FALSE /\ ended' = "well" /\ before' = {}
      /\ UNCHANGED <<uploads, pending, stop, wiped, upgraded>>
  <2>1. ~Lagging
    BY DEF Lagging
  <2>. QED
    BY <1>1, <2>1 DEF Open, Go, With, process
<1>. HIDE DEF s
<1>4. Typed(files) /\ LogOK(files) /\ CopyOK(files, Fate) /\ Rid(files, Fate) /\ files["reset"] = NoFile /\ files["db"] = NoFile
  BY <1>3 DEF IInv, Good, Sound, PlaceOK, Cleaned, Here
<1>5. e = [name \in Names |-> e[name]] /\ e["db"] = X /\ \A name \in Names \ {"db"} : e[name] = files[name]
  BY <1>4, Naming DEF Typed, With
<1>6. e["wal"] = NoFile /\ e["reset"] = NoFile /\ e["backup"] = files["backup"]
  BY <1>4, <1>5, Naming DEF LogOK
<1>. HIDE DEF e
<1>7. X # NoFile
  BY <1>1, Fields
<1>8. Fate'.served = s /\ Fate'.before = {} /\ Fate'.asked = Nothing /\ Fate'.sure = FALSE /\ Fate'.ended = "well"
      /\ Fate'.wiped = Fate.wiped /\ Fate'.upgraded = Fate.upgraded
  BY <1>3 DEF Fate
<1>9. Typed(e)
  BY <1>1, <1>4, <1>5, Naming DEF Typed
<1>10. LogOK(e) /\ Marked(e, Fate')
  BY <1>6, <1>8 DEF LogOK, Marked
<1>11. Stands(e, Fate')
  <2>1. Holds(e, s)
    <3>1. e["db"].of = s.of /\ e["db"].writes = s.writes /\ e["db"].rows = 0 /\ s.rows = 0
      BY <1>1, <1>2, <1>5
    <3>. QED
      BY <1>5, <1>6, <1>7, <3>1 DEF Holds
  <2>. QED
    BY <1>8, <2>1 DEF Stands
<1>12. Needed(Fate') => HasCopy(e)
  BY <1>4, <1>6, <1>8 DEF CopyOK, HasCopy, Needed
<1>13. CopyOK(e, Fate')
  BY <1>1, <1>5, <1>12 DEF CopyOK
<1>14. Rid(e, Fate')
  <2>1. Fresh \notin wiped /\ Fate.wiped = wiped
    BY Naming DEF IInv, HistoryOK, Fate
  <2>. QED
    BY <1>1, <1>4, <1>5, <1>8, <2>1, Naming DEF Rid
<1>15. Reads(e) = X
  BY <1>5, <1>6 DEF Reads
<1>16. Good(e, e, Fate')
  BY <1>1, <1>2, <1>5, <1>8, <1>9, <1>10, <1>11, <1>13, <1>14, <1>15, FollowsSelf DEF Good, Sound, Exact
<1>17. HistoryOK'
  BY <1>2, <1>3, Naming DEF IInv, HistoryOK
<1>18. ProcessOK'
  <2>1. \A u \in Uploads : uploads[u] \in {"new", "over"}
    BY <1>3 DEF IInv, ProcessOK, Starting
  <2>. QED
    BY <1>3, <2>1, Naming DEF IInv, ProcessOK, Starting, Swapping, Places
<1>19. PlaceOK' /\ Settled'
  BY <1>1, <1>2, <1>3, <1>5, <1>7, <1>12, Naming DEF PlaceOK, Settled, Running, Swapping, Cleaned, Upgrading, Here
<1>. QED
  BY <1>3, <1>16, <1>17, <1>18, <1>19 DEF IInv

\* What the disk has of another archive is remembered until it is flushed.
LEMMA OpenFound ==
  ASSUME IInv, Open, Here("db")
  PROVE  IInv'
<1>. DEFINE R == Reads(files)
            s == [of |-> R.of, rows |-> R.rows, writes |-> R.writes]
<1>1. pc = "open" /\ pc' = "serving" /\ files' = files /\ disk' = disk /\ served' = s /\ asked' = Nothing /\ sure' = FALSE /\ ended' = "well"
      /\ UNCHANGED <<uploads, pending, stop, wiped, upgraded>>
      /\ before' = IF Lagging THEN before \cup ({served} \ {s}) ELSE {}
  BY DEF Open, Go, Opened, AsItIs, process
<1>2. /\ Sound(files, Fate) /\ Sound(disk, Fate) /\ Follows(files, disk, Fate)
      /\ files["reset"] = NoFile /\ files["db"] # NoFile
  BY <1>1 DEF IInv, Good, PlaceOK, Cleaned, Here
<1>3. Typed(files) /\ LogOK(files) /\ Typed(disk) /\ LogOK(disk)
  BY <1>2 DEF Sound
<1>4. /\ R \in Databases(MaxRows) /\ R.of = files["db"].of /\ R.writes = files["db"].writes /\ files["db"].rows <= R.rows
      /\ files["wal"] # NoFile => R.rows = files["wal"].rows
  BY <1>2, <1>3, ReadsIt
<1>. HIDE DEF R
<1>5. s \in Histories /\ s.of = files["db"].of /\ s.rows = R.rows /\ s.writes = files["db"].writes
  BY <1>4, Fields DEF Histories
<1>. HIDE DEF s
<1>6. Fate'.served = s /\ Fate'.before = before' /\ Fate'.asked = Nothing /\ Fate'.sure = FALSE /\ Fate'.ended = "well"
      /\ Fate'.wiped = Fate.wiped /\ Fate'.upgraded = Fate.upgraded
      /\ Fate.served = served /\ Fate.before = before /\ Fate.asked = asked
  BY <1>1 DEF Fate
<1>. HIDE DEF Fate
<1>7. disk["db"] # NoFile /\ disk["reset"] = NoFile
  BY <1>2 DEF Follows
<1>8. Holds(files, s)
  <2>1. files["wal"] # NoFile => files["wal"].rows <= R.rows
    BY <1>4, Fields
  <2>. QED
    BY <1>2, <1>4, <1>5, <2>1 DEF Holds
<1>9. Stands(disk, Fate')
  <2>1. CASE Same(files, disk)
    BY <1>2, <1>5, <1>6, <1>7, <2>1 DEF Follows, Same, Holds, Stands, R
  <2>2. CASE ~Same(files, disk)
    <3>1. Lagging
      BY <1>7, <2>2 DEF Same, Lagging, Here
    <3>2. ~(asked \in Uploads /\ disk["db"].of = asked)
      BY <1>2, <1>6, <2>2 DEF Follows, Same
    <3>3. ~Holds(disk, Promised!New(asked)) \/ asked \notin Uploads
      BY <3>2 DEF Holds, Promised!New
    <3>4. PICK a \in {served} \cup before : Holds(disk, a)
      BY <1>2, <1>6, <1>7, <3>3 DEF Sound, Stands
    <3>. QED
      BY <1>1, <1>6, <3>1, <3>4 DEF Stands
  <2>. QED
    BY <2>1, <2>2
<1>10. Sound(files, Fate')
  <2>1. Stands(files, Fate')
    BY <1>6, <1>8 DEF Stands
  <2>. QED
    BY <1>2, <1>6, <2>1 DEF Sound, Marked, CopyOK, Needed, Rid
<1>11. Sound(disk, Fate')
  BY <1>2, <1>6, <1>7, <1>9 DEF Sound, Marked, CopyOK, Needed, Rid
<1>12. Follows(files, disk, Fate')
  BY <1>2, <1>6, Naming DEF Follows
<1>13. Exact(files, Fate')
  BY <1>4, <1>5, <1>6 DEF Exact, R
<1>14. HistoryOK'
  <2>1. /\ served \in Histories /\ before \subseteq Histories /\ wiped \subseteq {Archive} \cup Uploads /\ upgraded \in BOOLEAN
        /\ \A a \in {served} \cup before : a.of \in Uploads => uploads[a.of] = "over"
        /\ \A u \in wiped \cap Uploads : uploads[u] = "over"
    BY DEF IInv, HistoryOK
  <2>2. before' \subseteq {served} \cup before
    BY <1>1
  <2>3. s.of \in Uploads => uploads[s.of] = "over"
    <3>1. CASE \E a \in {served} \cup before : Holds(files, a)
      BY <1>5, <2>1, <3>1 DEF Holds
    <3>2. CASE asked \in Uploads /\ Holds(files, Promised!New(asked))
      <4>1. files["db"].of = asked
        BY <3>2 DEF Holds, Promised!New
      <4>. QED
        BY <1>1, <1>5, <3>2, <4>1 DEF IInv, ProcessOK, Starting
    <3>. QED
      BY <1>2, <1>6, <3>1, <3>2 DEF Sound, Stands
  <2>4. \A a \in {served'} \cup before' : a.of \in Uploads => a.of # asked' /\ uploads'[a.of] = "over"
    BY <1>1, <2>1, <2>2, <2>3, Naming
  <2>5. served' \in Histories /\ before' \subseteq Histories
    BY <1>1, <1>5, <2>1, <2>2
  <2>6. asked' = Nothing /\ sure' = FALSE /\ ended' = "well" /\ UNCHANGED <<uploads, wiped, upgraded>>
    BY <1>1
  <2>7. wiped' \subseteq {Archive} \cup Uploads /\ \A u \in wiped' \cap Uploads : uploads'[u] = "over"
    BY <2>1, <2>6
  <2>8. sure' \in BOOLEAN /\ upgraded' \in BOOLEAN /\ asked' \in {Nothing, Fresh} \cup Uploads /\ ended' \in {"well", "killed", "cut"}
    BY <2>1, <2>6
  <2>. QED
    BY <2>4, <2>5, <2>7, <2>8 DEF HistoryOK
<1>15. ProcessOK'
  <2>1. \A u \in Uploads : uploads[u] \in {"new", "over"}
    BY <1>1 DEF IInv, ProcessOK, Starting
  <2>. QED
    BY <1>1, <2>1, Naming DEF IInv, ProcessOK, Starting, Swapping, Places
<1>16. PlaceOK' /\ Settled'
  <2>1. Needed(Fate') => HasCopy(files)
    BY <1>2, <1>6 DEF Sound, CopyOK, Needed
  <2>. QED
    BY <1>1, <1>2, <1>5, <2>1, Naming DEF PlaceOK, Settled, Running, Swapping, Cleaned, Upgrading, Here
<1>. QED
  BY <1>1, <1>10, <1>11, <1>12, <1>13, <1>14, <1>15, <1>16 DEF IInv, Good

-----------------------------------------------------------------------------
(* The app serves. *)

\* While it serves, the database is all that was served, and nothing that was asked for.
LEMMA ServesIt ==
  ASSUME IInv, pc \in Running \cup {"swap", "replace"}
  PROVE  /\ files["db"] # NoFile /\ files["db"] \in Databases(MaxRows) /\ files["db"].of = served.of /\ files["db"].writes = served.writes
         /\ Reads(files).rows = served.rows /\ files["db"].rows <= served.rows /\ served.rows \in 0..MaxRows
         /\ asked \in Uploads => served.of # asked
         /\ disk["db"] # NoFile /\ ended = "well"
<1>1. files["db"] # NoFile /\ files["db"].of = served.of /\ ended = "well"
  BY DEF IInv, PlaceOK, Here, Swapping
<1>2. asked \in Uploads => served.of # asked
  BY DEF IInv, HistoryOK
<1>3. Typed(files) /\ LogOK(files) /\ Follows(files, disk, Fate) /\ Exact(files, Fate)
  BY DEF IInv, Good, Sound
<1>4. Fate.served = served /\ Fate.asked = asked /\ Fate.ended = ended
  BY DEF Fate
<1>5. files["db"].writes = served.writes /\ Reads(files).rows = served.rows
  BY <1>1, <1>2, <1>3, <1>4 DEF Exact
<1>6. files["db"].rows <= Reads(files).rows /\ files["db"] \in Databases(MaxRows)
  BY <1>1, <1>3, ReadsIt DEF Typed
<1>7. served.rows \in 0..MaxRows
  BY DEF IInv, HistoryOK, Histories
<1>8. disk["db"] # NoFile
  BY <1>1, <1>3 DEF Follows
<1>. QED
  BY <1>1, <1>2, <1>5, <1>6, <1>7, <1>8

LEMMA CommitKeeps ==
  ASSUME IInv, Commit
  PROVE  IInv'
<1>. DEFINE L == [of |-> served.of, rows |-> served.rows + 1]
            s == [served EXCEPT !.rows = @ + 1]
            e == With(files, "wal", L)
<1>1. pc = "serving" /\ pc' = "serving" /\ served.rows < MaxRows /\ served' = s /\ before' = {}
      /\ UNCHANGED <<uploads, pending, stop, asked, sure, ended, wiped, upgraded>>
  BY DEF Commit, Serving, process, request
<1>2. files' = e /\ (disk' = e \/ (files["wal"] # NoFile /\ disk' = disk))
  BY DEF Commit, AppendToLog, With, Here
<1>3. /\ files["db"] # NoFile /\ files["db"] \in Databases(MaxRows) /\ files["db"].of = served.of /\ files["db"].writes = served.writes
      /\ Reads(files).rows = served.rows /\ files["db"].rows <= served.rows /\ served.rows \in 0..MaxRows
      /\ asked \in Uploads => served.of # asked
      /\ disk["db"] # NoFile /\ ended = "well"
  BY <1>1, ServesIt DEF Running
<1>4. Sound(files, Fate) /\ Sound(disk, Fate) /\ Follows(files, disk, Fate) /\ Typed(files) /\ LogOK(files) /\ Typed(disk) /\ LogOK(disk)
  BY DEF IInv, Good, Sound
<1>5. served \in Histories /\ served.of \in Archives /\ served.writes \in BOOLEAN
  BY DEF IInv, HistoryOK, Histories
<1>6. L \in Logs(MaxRows) /\ L.of = served.of /\ L.rows = served.rows + 1 /\ L # NoFile
  <2>1. served.rows + 1 \in 0..MaxRows
    BY <1>1, <1>3, Fields
  <2>2. L \in Logs(MaxRows)
    BY <1>5, <2>1 DEF Logs
  <2>. QED
    BY <2>2, Fields
<1>7. s \in Histories /\ s.of = served.of /\ s.writes = served.writes /\ s.rows = served.rows + 1
  BY <1>1, <1>3, <1>5, Fields DEF Histories
<1>. HIDE DEF L, s
<1>8. e = [name \in Names |-> e[name]] /\ e["wal"] = L /\ \A name \in Names \ {"wal"} : e[name] = files[name]
  BY <1>4, Naming DEF Typed, With
<1>. HIDE DEF e
<1>9. e["db"] = files["db"] /\ e["reset"] = files["reset"] /\ e["backup"] = files["backup"]
  BY <1>8, Naming
<1>10. Fate'.served = s /\ Fate'.before = {} /\ Fate'.asked = Fate.asked /\ Fate'.sure = Fate.sure /\ Fate'.ended = "well"
       /\ Fate'.wiped = Fate.wiped /\ Fate'.upgraded = Fate.upgraded
  BY <1>1, <1>3 DEF Fate
<1>11. Reads(e).rows = served.rows + 1
  <2>1. Reads(e) = [files["db"] EXCEPT !.rows = L.rows]
    BY <1>6, <1>8, <1>9 DEF Reads
  <2>. QED
    BY <1>3, <1>6, <2>1 DEF Databases
<1>12. Sound(e, Fate')
  <2>1. Typed(e)
    BY <1>4, <1>6, <1>8, Naming DEF Typed
  <2>2. LogOK(e)
    BY <1>3, <1>6, <1>8, <1>9, Fields DEF LogOK
  <2>3. Holds(e, s)
    BY <1>3, <1>6, <1>7, <1>8, <1>9, Fields DEF Holds
  <2>4. Stands(e, Fate')
    BY <1>10, <2>3 DEF Stands
  <2>5. Marked(e, Fate') /\ CopyOK(e, Fate')
    BY <1>4, <1>9, <1>10 DEF Sound, Marked, CopyOK, Needed, HasCopy
  <2>6. Rid(e, Fate')
    BY <1>4, <1>8, <1>10, Naming DEF Sound, Rid
  <2>. QED
    BY <2>1, <2>2, <2>4, <2>5, <2>6 DEF Sound
<1>13. Exact(e, Fate')
  BY <1>3, <1>7, <1>9, <1>10, <1>11 DEF Exact
<1>14. Good(files', disk', Fate')
  <2>1. CASE disk' = e
    BY <1>2, <1>12, <1>13, <2>1, FollowsSelf DEF Good, Sound
  <2>2. CASE files["wal"] # NoFile /\ disk' = disk
    <3>1. Same(files, disk) /\ disk["db"].writes = files["db"].writes /\ disk["db"].rows <= served.rows
          /\ (disk["wal"] # NoFile => disk["wal"].rows <= served.rows)
      BY <1>3, <1>4, <2>2 DEF Follows
    <3>2. disk["db"].rows \in 0..MaxRows /\ (disk["wal"] # NoFile => disk["wal"].rows \in 0..MaxRows)
      BY <1>3, <1>4, Fields DEF Typed
    <3>3. disk["db"].of = s.of /\ disk["db"].rows <= served.rows + 1 /\ (disk["wal"] # NoFile => disk["wal"].rows <= served.rows + 1)
      BY <1>3, <1>7, <3>1, <3>2, Fields DEF Same
    <3>4. Holds(disk, s)
      BY <1>3, <1>7, <3>1, <3>3 DEF Holds
    <3>5. Sound(disk, Fate')
      BY <1>4, <1>10, <3>4 DEF Sound, Stands, Marked, CopyOK, Needed, Rid
    <3>6. Follows(e, disk, Fate')
      BY <1>3, <1>4, <1>9, <1>10, <1>11, <3>1, <3>3 DEF Follows, Same
    <3>. QED
      BY <1>2, <1>12, <1>13, <2>2, <3>5, <3>6 DEF Good
  <2>. QED
    BY <1>2, <2>1, <2>2
<1>15. HistoryOK'
  BY <1>1, <1>7 DEF IInv, HistoryOK
<1>16. ProcessOK'
  <2>1. \A u \in Uploads : files'[u] = files[u]
    BY <1>2, <1>8, Naming
  <2>. QED
    BY <1>1, <2>1 DEF IInv, ProcessOK, Starting, Swapping
<1>17. PlaceOK' /\ Settled'
  <2>1. Needed(Fate') => HasCopy(e)
    BY <1>1, <1>9, <1>10 DEF IInv, PlaceOK, Running, HasCopy, Needed
  <2>. QED
    BY <1>1, <1>2, <1>3, <1>7, <1>9, <2>1 DEF PlaceOK, Settled, Running, Swapping, Cleaned, Upgrading, Here
<1>. QED
  BY <1>14, <1>15, <1>16, <1>17 DEF IInv

-----------------------------------------------------------------------------
(* The restore page. *)

\* A handler that neither accepts a restore nor gives one up: the archive and its copy stay.
LEMMA HandlerKeeps ==
  ASSUME IInv, NEW u \in Uploads, NEW to \in {"room", "stream", "staged", "over"}, pc = "serving", pc' = "serving", stop' = stop,
         uploads[u] \in {"new", "room", "stream", "staged"}, uploads' = [uploads EXCEPT ![u] = to],
         UNCHANGED <<pending, request, served, ending, wiped, upgraded>>,
         Good(files', disk', Fate), files'["db"] = files["db"], files'["backup"] = files["backup"], disk'["db"] \in {disk["db"], files["db"]},
         \A v \in Uploads : v # u => files'[v] \in {files[v], NoFile}
  PROVE  IInv'
<1>1. UNCHANGED <<asked, sure, ended, before>> /\ Fate' = Fate
  BY DEF request, ending, Fate
<1>2. uploads \in [Uploads -> Stages]
  BY DEF IInv, ProcessOK
<1>3. uploads'[u] = to /\ \A v \in Uploads \ {u} : uploads'[v] = uploads[v]
  BY <1>2
<1>4. uploads' \in [Uploads -> Stages]
  BY <1>2 DEF Stages, InHand
<1>5. HistoryOK'
  BY <1>1, <1>3 DEF IInv, HistoryOK
<1>6. ProcessOK'
  <2>1. pending \in Uploads => pending # u
    BY DEF IInv, ProcessOK
  <2>. QED
    BY <1>1, <1>3, <1>4, <2>1 DEF IInv, ProcessOK, Starting, Swapping
<1>7. PlaceOK'
  BY <1>1 DEF IInv, PlaceOK, Running, Swapping, Cleaned, Upgrading, Here, HasCopy
<1>8. Settled'
  BY <1>1, SettledKeeps DEF IInv
<1>. QED
  BY <1>1, <1>5, <1>6, <1>7, <1>8 DEF IInv

LEMMA UploadKeeps ==
  ASSUME IInv, NEW u \in Uploads, Upload(u), HandlerRest
  PROVE  IInv'
<1>1. PICK to \in {"room", "over"} : uploads' = [uploads EXCEPT ![u] = to]
  BY DEF Upload, Handler
<1>2. pc = "serving" /\ pc' = "serving" /\ stop' = stop /\ uploads[u] = "new" /\ files' = files /\ disk' = disk
      /\ UNCHANGED <<pending, request, served, ending, wiped, upgraded>>
  BY DEF Upload, Handler, Serving, HandlerRest, NotApplied, AsItIs
<1>3. Good(files', disk', Fate)
  BY <1>2 DEF IInv
<1>. QED
  BY <1>1, <1>2, <1>3, HandlerKeeps

\* `discard_staged`, then the file of the upload.
LEMMA DiscardKeeps ==
  ASSUME IInv, NEW u \in Uploads, Discard(u), HandlerRest
  PROVE  IInv'
<1>. DEFINE e == Cut(files, Uploads)
            e2 == With(e, u, Torn)
<1>1. pc = "serving" /\ pc' = "serving" /\ stop' = stop /\ uploads[u] = "room" /\ uploads' = [uploads EXCEPT ![u] = "stream"]
      /\ UNCHANGED <<pending, request, served, ending, wiped, upgraded>>
  BY DEF Discard, Handler, Serving, HandlerRest, NotApplied
<1>2. files' = e2 /\ disk' \in {disk, e, e2}
  BY DEF Discard, Without, Cut, With
<1>3. Good(files, disk, Fate) /\ Typed(files)
  BY DEF IInv, Good, Sound
<1>4. MayGo(files, Fate, Uploads)
  BY Naming DEF MayGo
<1>5. Good(e, disk, Fate) /\ Good(e, e, Fate)
  BY <1>3, <1>4, CutGood
<1>6. \A name \in Names : e[name] = IF name \in Uploads THEN NoFile ELSE files[name]
  BY <1>3, CutFields
<1>. HIDE DEF e
<1>7. Rest0(e, Fate) /\ Rest0(disk, Fate) /\ Fits(u, Torn, Fate)
  BY <1>5, NullFits DEF Good, Sound, Rest0
<1>8. Rest0(e2, Fate) /\ Core(e2, e) /\ \A m \in Names \ {u} : e2[m] = e[m]
  BY <1>7, Fitted
<1>. HIDE DEF e2
<1>9. Core(e, e) /\ Core(disk, disk)
  BY DEF Core
<1>10. Good(e2, disk, Fate) /\ Good(e2, e, Fate) /\ Good(e2, e2, Fate)
  BY <1>5, <1>7, <1>8, <1>9, CoreGood
<1>11. files'["db"] = files["db"] /\ files'["backup"] = files["backup"] /\ disk'["db"] \in {disk["db"], files["db"]}
  BY <1>2, <1>6, <1>8, Naming DEF Core
<1>12. \A v \in Uploads : v # u => files'[v] \in {files[v], NoFile}
  BY <1>2, <1>6, <1>8, Naming
<1>. QED
  BY <1>1, <1>2, <1>10, <1>11, <1>12, HandlerKeeps

LEMMA StagedKeeps ==
  ASSUME IInv, NEW u \in Uploads, Staged(u), HandlerRest
  PROVE  IInv'
<1>. DEFINE X == [of |-> u, level |-> "current", rows |-> 0, writes |-> TRUE]
<1>1. pc = "serving" /\ pc' = "serving" /\ stop' = stop /\ uploads[u] = "stream" /\ uploads' = [uploads EXCEPT ![u] = "staged"]
      /\ UNCHANGED <<pending, request, served, ending, wiped, upgraded>>
  BY DEF Staged, Handler, Serving, HandlerRest, NotApplied
<1>2. files' = With(files, u, X) /\ \E y \in {X, NoFile} : disk' = With(disk, u, y)
  BY DEF Staged, Rewrite, Put, With, Here
<1>3. X \in Restorable(u) /\ X.of = u
  BY DEF Restorable
<1>. HIDE DEF X
<1>4. u \notin wiped
  BY <1>1 DEF IInv, HistoryOK
<1>5. Fits(u, X, Fate) /\ Fits(u, NoFile, Fate)
  BY <1>3, <1>4, NullFits, Naming DEF Fits, Fate
<1>6. PICK y \in {X, NoFile} : disk' = With(disk, u, y)
  BY <1>2
<1>7. /\ Good(files', disk', Fate)
      /\ \A m \in Names \ {u} : files'[m] = files[m]
      /\ disk'["db"] \in {disk["db"], files["db"]}
  BY <1>2, <1>5, <1>6, Changed
<1>. QED
  BY <1>1, <1>7, HandlerKeeps, Naming

\* The staged file goes, and the request with it.
LEMMA DroppedKeeps ==
  ASSUME IInv, NEW u \in Uploads, UploadRefused(u) \/ Cancel(u) \/ ApplyBusy(u), HandlerRest
  PROVE  IInv'
<1>1. pc = "serving" /\ pc' = "serving" /\ stop' = stop /\ uploads[u] \in {"room", "stream", "staged"} /\ uploads' = [uploads EXCEPT ![u] = "over"]
      /\ UNCHANGED <<pending, request, served, ending, wiped, upgraded>> /\ Unlink({u})
  BY DEF UploadRefused, Cancel, ApplyBusy, Handler, Serving, HandlerRest, NotApplied
<1>. DEFINE names == {u}
<1>2. MayGo(files, Fate, names) /\ Unlink(names)
  BY <1>1, Naming DEF MayGo
<1>3. /\ Good(files', disk', Fate)
      /\ \A name \in Names : files'[name] = IF name \in names THEN NoFile ELSE files[name]
      /\ files'["db"] # NoFile => disk'["db"] \in {disk["db"], files["db"]}
  BY <1>2, Unlinked
<1>4. files'["db"] = files["db"] /\ files'["backup"] = files["backup"] /\ files["db"] # NoFile
      /\ \A v \in Uploads : v # u => files'[v] \in {files[v], NoFile}
  BY <1>1, <1>3, ServesIt, Naming DEF Running
<1>. QED
  BY <1>1, <1>3, <1>4, HandlerKeeps

\* What is asked for is not there yet.
LEMMA AskedGood ==
  ASSUME NEW f, NEW d, NEW h, NEW k, Good(f, d, h), h.asked = Nothing, f["db"] # NoFile, d["db"] # NoFile, h.ended # "cut",
         k.served = h.served, k.before = h.before, k.sure = h.sure, k.ended = h.ended, k.wiped = h.wiped, k.upgraded = h.upgraded,
         k.asked \in {Fresh} \cup Uploads, \A a \in {h.served} \cup h.before : k.asked \in Uploads => a.of # k.asked
  PROVE  Good(f, d, k)
<1>1. Sound(f, h) /\ Sound(d, h) /\ Follows(f, d, h) /\ Exact(f, h)
  BY DEF Good
<1>2. \A e : Sound(e, h) /\ e["db"] # NoFile => Sound(e, k) /\ (k.asked \in Uploads => e["db"].of # k.asked)
  <2>. TAKE e
  <2>. HAVE Sound(e, h) /\ e["db"] # NoFile
  <2>1. PICK a \in {h.served} \cup h.before : Holds(e, a)
    BY Naming DEF Sound, Stands
  <2>2. (k.asked \in Uploads => e["db"].of # k.asked) /\ Stands(e, k)
    BY <2>1 DEF Holds, Stands
  <2>3. Marked(e, k)
    BY Naming DEF Sound, Marked
  <2>. QED
    BY <2>2, <2>3 DEF Sound, CopyOK, Needed, Rid
<1>3. Sound(f, k) /\ Sound(d, k) /\ (k.asked \in Uploads => d["db"].of # k.asked)
  BY <1>1, <1>2
<1>4. Follows(f, d, k)
  BY <1>1, <1>3 DEF Follows
<1>5. Exact(f, k)
  BY <1>1, Naming DEF Exact
<1>. QED
  BY <1>3, <1>4, <1>5 DEF Good

\* What was asked for is given up before it is there.
LEMMA WithdrawnGood ==
  ASSUME NEW f, NEW d, NEW h, NEW k, Good(f, d, h), h.asked \in Uploads, f["db"] # NoFile, f["db"].of = h.served.of, h.served.of # h.asked,
         d["db"] # NoFile, k.served = h.served, k.before = h.before, k.sure = h.sure, k.ended = h.ended, k.wiped = h.wiped, k.upgraded = h.upgraded,
         k.asked = Nothing
  PROVE  Good(f, d, k)
<1>1. Sound(f, h) /\ Sound(d, h) /\ Follows(f, d, h) /\ Exact(f, h)
  BY DEF Good
<1>2. f["db"].of # h.asked /\ d["db"].of # h.asked
  BY <1>1 DEF Follows
<1>3. \A e : Sound(e, h) /\ e["db"] # NoFile /\ e["db"].of # h.asked => Sound(e, k)
  <2>. TAKE e
  <2>. HAVE Sound(e, h) /\ e["db"] # NoFile /\ e["db"].of # h.asked
  <2>1. PICK a \in {h.served} \cup h.before : Holds(e, a)
    BY DEF Sound, Stands, Holds, Promised!New
  <2>2. Stands(e, k)
    BY <2>1 DEF Stands
  <2>3. Marked(e, k)
    BY Naming DEF Sound, Marked
  <2>. QED
    BY <2>2, <2>3 DEF Sound, CopyOK, Needed, Rid
<1>4. Follows(f, d, k) /\ Exact(f, k)
  BY <1>1, <1>2, Naming DEF Follows, Exact
<1>. QED
  BY <1>1, <1>2, <1>3, <1>4 DEF Good

LEMMA ApplyKeeps ==
  ASSUME IInv, NEW u \in Uploads, Apply(u), HandlerRest
  PROVE  IInv'
<1>1. /\ pc = "serving" /\ pc' = "serving" /\ uploads[u] = "staged" /\ uploads' = [uploads EXCEPT ![u] = "prepare"]
      /\ pending = Nothing /\ asked # Fresh /\ pending' = u /\ asked' = u /\ files' = files /\ disk' = disk
      /\ UNCHANGED <<stop, served, before, sure, ended, wiped, upgraded>>
  BY DEF Apply, Handler, Serving, HandlerRest, Accepted, AsItIs, ending
<1>2. asked = Nothing
  BY <1>1 DEF IInv, ProcessOK
<1>3. uploads \in [Uploads -> Stages]
  BY DEF IInv, ProcessOK
<1>4. uploads'[u] = "prepare" /\ \A v \in Uploads \ {u} : uploads'[v] = uploads[v]
  BY <1>1, <1>3
<1>5. \A a \in {served} \cup before : a.of \in Uploads => a.of # u /\ uploads[a.of] = "over"
  BY <1>1 DEF IInv, HistoryOK
<1>6. Good(files, disk, Fate')
  <2>1. files["db"] # NoFile /\ disk["db"] # NoFile /\ ended # "cut"
    BY <1>1, ServesIt DEF Running
  <2>2. /\ Fate'.served = Fate.served /\ Fate'.before = Fate.before /\ Fate'.sure = Fate.sure /\ Fate'.ended = Fate.ended
        /\ Fate'.wiped = Fate.wiped /\ Fate'.upgraded = Fate.upgraded /\ Fate.asked = Nothing /\ Fate'.asked = u
        /\ Fate.ended = ended /\ Fate.served = served /\ Fate.before = before
    BY <1>1, <1>2 DEF Fate
  <2>3. \A k : /\ k.served = Fate.served /\ k.before = Fate.before /\ k.sure = Fate.sure /\ k.ended = Fate.ended
               /\ k.wiped = Fate.wiped /\ k.upgraded = Fate.upgraded /\ k.asked = u
               => Good(files, disk, k)
    BY <1>5, <2>1, <2>2, AskedGood DEF IInv
  <2>. QED
    BY <2>2, <2>3
<1>7. HistoryOK'
  <2>1. \A a \in {served'} \cup before' : a.of \in Uploads => a.of # asked' /\ uploads'[a.of] = "over"
    BY <1>1, <1>4, <1>5
  <2>2. \A v \in wiped' \cap Uploads : uploads'[v] = "over"
    BY <1>1, <1>4 DEF IInv, HistoryOK
  <2>. QED
    BY <1>1, <2>1, <2>2 DEF IInv, HistoryOK
<1>8. ProcessOK'
  <2>1. uploads' \in [Uploads -> Stages]
    BY <1>1, <1>3 DEF Stages, InHand
  <2>. QED
    BY <1>1, <1>2, <1>4, <2>1, Naming DEF IInv, ProcessOK, Starting, Swapping
<1>9. PlaceOK'
  <2>1. Needed(Fate') = Needed(Fate)
    BY <1>1 DEF Needed, Fate
  <2>. QED
    BY <1>1, <2>1 DEF IInv, PlaceOK, Running, Swapping, Cleaned, Upgrading, Here
<1>10. Settled'
  BY <1>1, <1>5, ServesIt DEF Settled, Running
<1>. QED
  BY <1>1, <1>6, <1>7, <1>8, <1>9, <1>10 DEF IInv

\* The preparation writes to the staged file only, and switches its Writes off.
LEMMA AppliedKeeps ==
  ASSUME IInv, NEW u \in Uploads, Applied(u)
  PROVE  IInv'
<1>. DEFINE X == [files[u] EXCEPT !.writes = FALSE]
<1>1. /\ pc = "serving" /\ pc' = "serving" /\ uploads[u] = "prepare" /\ uploads' = [uploads EXCEPT ![u] = "applied"] /\ stop' = TRUE
      /\ UNCHANGED <<pending, asked, sure, served, before, ended, wiped, upgraded>>
  BY DEF Applied, Handler, Serving, NotApplied, request, ending
<1>2. files[u] \in Restorable(u)
  BY DEF Applied, Prepare, IInv, Good, Sound, Typed
<1>3. X \in Ready(u) /\ X.of = u
  BY <1>2 DEF Restorable, Ready
<1>4. files' = With(files, u, X) /\ \E y \in {X, NoFile} : disk' = With(disk, u, y)
  BY DEF Applied, Prepare, Prepared, Rewrite, Put, With
<1>. HIDE DEF X
<1>5. u \notin wiped
  BY <1>1 DEF IInv, HistoryOK
<1>6. Fits(u, X, Fate) /\ Fits(u, NoFile, Fate)
  BY <1>3, <1>5, Fields, NullFits, Naming DEF Fits, Fate
<1>7. PICK y \in {X, NoFile} : disk' = With(disk, u, y)
  BY <1>4
<1>8. /\ Good(files', disk', Fate) /\ files'[u] = X
      /\ \A m \in Names \ {u} : files'[m] = files[m]
      /\ disk'["db"] \in {disk["db"], files["db"]}
  BY <1>4, <1>6, <1>7, Changed
<1>9. uploads \in [Uploads -> Stages] /\ pending = u
  BY <1>1 DEF IInv, ProcessOK
<1>10. uploads'[u] = "applied" /\ \A v \in Uploads \ {u} : uploads'[v] = uploads[v]
  BY <1>1, <1>9
<1>11. Fate' = Fate
  BY <1>1 DEF Fate
<1>12. HistoryOK'
  BY <1>1, <1>10 DEF IInv, HistoryOK
<1>13. ProcessOK'
  <2>1. uploads' \in [Uploads -> Stages]
    BY <1>1, <1>9 DEF Stages
  <2>2. \A v \in Uploads : uploads'[v] = "applied" => files'[v] \in Ready(v) \cup {NoFile}
    BY <1>3, <1>8, <1>10, Naming DEF IInv, ProcessOK
  <2>. QED
    BY <1>1, <1>9, <1>10, <2>1, <2>2, Naming DEF IInv, ProcessOK, Starting, Swapping
<1>14. files'["db"] = files["db"] /\ files'["backup"] = files["backup"]
  BY <1>8, Naming
<1>15. PlaceOK'
  BY <1>1, <1>11, <1>14 DEF IInv, PlaceOK, Running, Swapping, Cleaned, Upgrading, Here, HasCopy
<1>16. Settled'
  BY <1>1, <1>8, <1>14, SettledKeeps DEF IInv
<1>. QED
  BY <1>8, <1>11, <1>12, <1>13, <1>15, <1>16 DEF IInv

LEMMA ApplyFailsKeeps ==
  ASSUME IInv, NEW u \in Uploads, ApplyFails(u), HandlerRest
  PROVE  IInv'
<1>1. /\ pc = "serving" /\ pc' = "serving" /\ uploads[u] = "prepare" /\ uploads' = [uploads EXCEPT ![u] = "staged"]
      /\ pending' = Nothing /\ asked' = Nothing
      /\ UNCHANGED <<stop, served, before, sure, ended, wiped, upgraded>>
  BY DEF ApplyFails, Handler, Serving, HandlerRest, ending
<1>2. pending = u /\ asked = u /\ uploads \in [Uploads -> Stages]
  BY <1>1, Naming DEF IInv, ProcessOK
<1>3. uploads'[u] = "staged" /\ \A v \in Uploads \ {u} : uploads'[v] = uploads[v]
  BY <1>1, <1>2
<1>4. /\ Good(files', disk', Fate) /\ files'["db"] = files["db"] /\ files'["backup"] = files["backup"] /\ disk'["db"] \in {disk["db"], files["db"]}
      /\ \A v \in Uploads : v # u => files'[v] = files[v]
  <2>1. CASE AsItIs
    BY <2>1 DEF AsItIs, IInv
  <2>2. CASE Change([files EXCEPT ![u] = Torn])
    <3>1. files' = With(files, u, Torn) /\ disk' \in {disk, With(files, u, Torn)} /\ Fits(u, Torn, Fate)
      BY <2>2, NullFits DEF Change, With
    <3>2. /\ Good(files', disk', Fate)
          /\ \A m \in Names \ {u} : files'[m] = files[m]
          /\ disk'["db"] \in {disk["db"], files["db"]}
      BY <3>1, Changed
    <3>. QED
      BY <3>2, Naming
  <2>. QED
    BY <2>1, <2>2 DEF ApplyFails
<1>5. files["db"] # NoFile /\ files["db"].of = served.of /\ served.of # asked /\ disk["db"] # NoFile
  BY <1>1, <1>2, ServesIt DEF Running
<1>6. Good(files', disk', Fate')
  <2>1. /\ Fate'.served = Fate.served /\ Fate'.before = Fate.before /\ Fate'.sure = Fate.sure /\ Fate'.ended = Fate.ended
        /\ Fate'.wiped = Fate.wiped /\ Fate'.upgraded = Fate.upgraded /\ Fate.asked = u /\ Fate'.asked = Nothing /\ Fate.served = served
    BY <1>1, <1>2 DEF Fate
  <2>. DEFINE f2 == files' d2 == disk' k == Fate'
  <2>2. f2["db"] # NoFile /\ f2["db"].of = Fate.served.of /\ Fate.served.of # Fate.asked /\ d2["db"] # NoFile /\ Good(f2, d2, Fate)
    BY <1>2, <1>4, <1>5, <2>1
  <2>. HIDE DEF f2, d2, k
  <2>3. Good(f2, d2, k)
    BY <2>1, <2>2, WithdrawnGood DEF k
  <2>. QED
    BY <2>3 DEF f2, d2, k
<1>7. HistoryOK'
  <2>1. \A a \in {served'} \cup before' : a.of \in Uploads => a.of # asked' /\ uploads'[a.of] = "over"
    BY <1>1, <1>3, Naming DEF IInv, HistoryOK
  <2>2. \A v \in wiped' \cap Uploads : uploads'[v] = "over"
    BY <1>1, <1>3 DEF IInv, HistoryOK
  <2>. QED
    BY <1>1, <2>1, <2>2 DEF IInv, HistoryOK
<1>8. ProcessOK'
  <2>1. uploads' \in [Uploads -> Stages]
    BY <1>1, <1>2 DEF Stages
  <2>2. \A v \in Uploads : uploads'[v] = "applied" => files'[v] \in Ready(v) \cup {NoFile}
    BY <1>3, <1>4 DEF IInv, ProcessOK
  <2>3. \A v \in Uploads : uploads'[v] # "prepare"
    BY <1>2, <1>3 DEF IInv, ProcessOK
  <2>. QED
    BY <1>1, <2>1, <2>2, <2>3, Naming DEF IInv, ProcessOK, Starting, Swapping
<1>9. PlaceOK'
  <2>1. Needed(Fate') = Needed(Fate)
    BY <1>1 DEF Needed, Fate
  <2>. QED
    BY <1>1, <1>4, <2>1 DEF IInv, PlaceOK, Running, Swapping, Cleaned, Upgrading, Here, HasCopy
<1>10. Settled'
  BY <1>1, Naming DEF Settled
<1>. QED
  BY <1>6, <1>7, <1>8, <1>9, <1>10 DEF IInv

LEMMA RestoreKeeps ==
  ASSUME IInv, NEW u \in Uploads, Restore(u)
  PROVE  IInv'
BY UploadKeeps, DiscardKeeps, StagedKeeps, DroppedKeeps, ApplyKeeps, ApplyFailsKeeps, AppliedKeeps DEF Restore

-----------------------------------------------------------------------------
(* The reset's route. *)

\* The marker is there, or was taken away: nothing else of the archive changed.
LEMMA MarkedGood ==
  ASSUME NEW f, NEW h, NEW e, NEW k, Sound(f, h), Exact(f, h), h.ended # "cut", f["db"] # NoFile, Typed(e), Rid(e, h),
         e["db"] = f["db"], e["wal"] = f["wal"], e["backup"] = f["backup"],
         k.served = h.served, k.before = h.before, k.ended = h.ended, k.wiped = h.wiped, k.upgraded = h.upgraded, h.asked = Fresh,
         \/ k.asked = Fresh /\ e["reset"] # NoFile
         \/ k.asked = Nothing /\ ~k.sure /\ e["reset"] = NoFile /\ (Needed(h) => HasCopy(f))
  PROVE  Sound(e, k) /\ Exact(e, k)
<1>1. LogOK(e) /\ Reads(e) = Reads(f)
  BY DEF Sound, LogOK, Reads
<1>2. Stands(e, k)
  <2>1. PICK a \in {h.served} \cup h.before : Holds(f, a)
    BY Naming DEF Sound, Stands
  <2>2. Holds(e, a)
    BY <2>1 DEF Holds
  <2>. QED
    BY <2>2 DEF Stands
<1>3. Marked(e, k)
  BY Naming DEF Marked
<1>4. CopyOK(e, k)
  BY DEF Sound, CopyOK, Needed, HasCopy
<1>5. Rid(e, k)
  BY DEF Rid
<1>6. Exact(e, k)
  BY <1>1, Naming DEF Exact
<1>. QED
  BY <1>1, <1>2, <1>3, <1>4, <1>5, <1>6 DEF Sound

\* What the route does to the process, whatever it does to the directory.
LEMMA ResetRuns ==
  ASSUME IInv, pc \in Running, pc' \in Running, UNCHANGED <<uploads, pending, served, ending, wiped, upgraded>>, stop' \in BOOLEAN,
         pending = Nothing, asked' \in {Nothing, Fresh}, sure' \in BOOLEAN,
         pc' \in {"mark", "marked"} => asked' = Fresh /\ ~sure',
         pc' = "marked" => files'["reset"] # NoFile,
         Good(files', disk', Fate'), files'["db"] = files["db"], files'["backup"] = files["backup"],
         \A u \in Uploads : files'[u] = files[u]
  PROVE  IInv'
<1>1. UNCHANGED <<ended, before>> /\ Needed(Fate') = Needed(Fate)
  BY DEF ending, Needed, Fate
<1>2. HistoryOK'
  BY <1>1, Naming DEF IInv, HistoryOK
<1>3. ProcessOK'
  BY <1>1, Naming DEF IInv, ProcessOK, Running, Starting, Swapping, Places
<1>4. PlaceOK'
  BY <1>1 DEF IInv, PlaceOK, Running, Swapping, Cleaned, Upgrading, Here, HasCopy
<1>5. Settled'
  BY Naming DEF Settled
<1>. QED
  BY <1>2, <1>3, <1>4, <1>5 DEF IInv

LEMMA ResetKeeps ==
  ASSUME IInv, Reset
  PROVE  IInv'
<1>1. pc \in Running /\ UNCHANGED <<uploads, pending, served, ending, wiped, upgraded>>
  BY DEF Reset, ResetAsked, MarkNamed, ResetAnswered, ResetFails, Go, Running
<1>2. UNCHANGED <<ended, before>>
  BY <1>1 DEF ending
<1>3. /\ Fate'.served = Fate.served /\ Fate'.before = Fate.before /\ Fate'.ended = Fate.ended
      /\ Fate'.wiped = Fate.wiped /\ Fate'.upgraded = Fate.upgraded
      /\ Fate.asked = asked /\ Fate'.asked = asked' /\ Fate.sure = sure /\ Fate'.sure = sure' /\ Fate.ended = ended
      /\ Fate.wiped = wiped
  BY <1>1, <1>2 DEF Fate
<1>4. Good(files, disk, Fate) /\ Typed(files)
  BY DEF IInv, Good, Sound
<1>5. files["db"] # NoFile /\ disk["db"] # NoFile /\ ended = "well"
  BY <1>1, ServesIt
<1>6. stop \in BOOLEAN /\ sure \in BOOLEAN
  BY DEF IInv, HistoryOK, ProcessOK
<1>7. CASE ResetAsked
  <2>1. pc = "serving" /\ pc' = "mark" /\ pending = Nothing /\ asked # Fresh /\ asked' = Fresh /\ sure' = sure /\ stop' = stop
    BY <1>7 DEF ResetAsked, Go, Accepted
  <2>2. asked = Nothing /\ ~sure
    BY <1>4, <1>3, <2>1, Naming DEF IInv, ProcessOK, Good, Sound, Marked
  <2>3. files' = With(files, "resetting", Torn) /\ disk' \in {disk, With(files, "resetting", Torn)} /\ Fits("resetting", Torn, Fate)
    BY <1>7, NullFits DEF ResetAsked, Change, With
  <2>4. /\ Good(files', disk', Fate)
        /\ \A m \in Names \ {"resetting"} : files'[m] = files[m]
        /\ disk'["db"] \in {disk["db"], files["db"]}
    BY <2>3, Changed
  <2>5. files'["db"] = files["db"] /\ files'["backup"] = files["backup"] /\ \A u \in Uploads : files'[u] = files[u]
    BY <2>4, Naming
  <2>6. Good(files', disk', Fate')
    <3>. DEFINE f2 == files' d2 == disk' k == Fate'
    <3>1. Good(f2, d2, Fate) /\ f2["db"] # NoFile /\ d2["db"] # NoFile
      BY <1>5, <2>4, <2>5
    <3>. HIDE DEF f2, d2
    <3>2. Good(f2, d2, k)
      <4>. HIDE DEF k
      <4>. QED
        BY <1>3, <1>5, <2>1, <2>2, <3>1, AskedGood, Naming DEF k
    <3>. QED
      BY <3>2 DEF f2, d2
  <2>. QED
    BY <1>1, <1>6, <2>1, <2>2, <2>5, <2>6, ResetRuns DEF Running
<1>8. ASSUME pc \in {"mark", "marked"}
      PROVE  pending = Nothing /\ asked = Fresh /\ ~sure
  BY <1>8 DEF IInv, ProcessOK
<1>9. CASE MarkNamed
  <2>. DEFINE e == With(With(files, "reset", Torn), "resetting", NoFile)
  <2>1. pc = "mark" /\ pc' = "marked" /\ asked' = asked /\ sure' = sure /\ stop' = stop /\ files' = e /\ disk' \in {disk, e}
    BY <1>9 DEF MarkNamed, Go, Change, With, request
  <2>2. /\ e = [name \in Names |-> e[name]] /\ e["reset"] = Torn /\ e["resetting"] = NoFile
        /\ \A name \in Names \ {"reset", "resetting"} : e[name] = files[name]
    BY <1>4, Naming DEF Typed, With
  <2>. HIDE DEF e
  <2>3. e["db"] = files["db"] /\ e["wal"] = files["wal"] /\ e["backup"] = files["backup"] /\ \A u \in Uploads : e[u] = files[u]
    BY <2>2, Naming
  <2>4. Typed(e) /\ Rid(e, Fate)
    BY <1>4, <2>2, <2>3, Naming DEF Typed, Good, Sound, Rid
  <2>5. Sound(e, Fate') /\ Exact(e, Fate')
    <3>. DEFINE k == Fate'
    <3>1. k.asked = Fresh /\ e["reset"] # NoFile
      BY <1>3, <1>8, <2>1, <2>2, Fields
    <3>. HIDE DEF k
    <3>2. Sound(files, Fate) /\ Exact(files, Fate) /\ Fate.ended # "cut" /\ Fate.asked = Fresh
      BY <1>3, <1>4, <1>5, <1>8, <2>1 DEF Good
    <3>3. Sound(e, k) /\ Exact(e, k)
      BY <1>3, <1>5, <2>3, <2>4, <3>1, <3>2, MarkedGood DEF k
    <3>. QED
      BY <3>3 DEF k
  <2>6. Fate' = Fate
    BY <1>1, <1>2, <2>1 DEF Fate
  <2>7. Good(e, disk, Fate')
    <3>1. Reads(e) = Reads(files)
      BY <2>3 DEF Reads
    <3>2. Follows(e, disk, Fate)
      BY <1>4, <2>2, <2>3, <3>1, Fields DEF Good, Follows, Same
    <3>. QED
      BY <1>4, <2>5, <2>6, <3>2 DEF Good
  <2>8. Good(e, e, Fate')
    BY <2>5, FollowsSelf DEF Good, Sound
  <2>. QED
    BY <1>1, <1>5, <1>6, <1>8, <2>1, <2>2, <2>3, <2>7, <2>8, Fields, ResetRuns DEF Running
<1>10. CASE ResetAnswered
  <2>1. pc = "marked" /\ pc' = "serving" /\ asked' = asked /\ sure' = TRUE /\ stop' = TRUE /\ files' = files /\ disk' = files
    BY <1>10 DEF ResetAnswered, MarkerFlushed, Go, Flush
  <2>2. files["reset"] # NoFile
    BY <2>1 DEF IInv, PlaceOK, Here
  <2>3. Sound(files, Fate') /\ Exact(files, Fate')
    BY <1>3, <1>4, <1>8, <2>1, <2>2 DEF Good, Sound, Stands, Marked, CopyOK, Needed, Rid, Exact
  <2>4. Good(files, files, Fate')
    BY <2>3, FollowsSelf DEF Good, Sound
  <2>. QED
    BY <1>1, <1>8, <2>1, <2>4, ResetRuns DEF Running
<1>11. CASE ResetFails
  <2>. DEFINE e == Cut(files, {"resetting", "reset"})
  <2>1. pc \in {"mark", "marked"} /\ pc' = "serving" /\ asked' = Nothing /\ sure' = sure /\ stop' = stop /\ files' = e /\ disk' = e
    BY <1>11 DEF ResetFails, MarkGone, Without, Cut
  <2>2. Typed(e) /\ \A name \in Names : e[name] = IF name \in {"resetting", "reset"} THEN NoFile ELSE files[name]
    BY <1>4, CutFields
  <2>. HIDE DEF e
  <2>3. e["db"] = files["db"] /\ e["wal"] = files["wal"] /\ e["backup"] = files["backup"] /\ e["reset"] = NoFile
        /\ \A u \in Uploads : e[u] = files[u]
    BY <2>2, Naming
  <2>4. Rid(e, Fate)
    BY <1>4, <2>2, <2>3, Naming DEF Good, Sound, Rid
  <2>5. Sound(e, Fate') /\ Exact(e, Fate')
    <3>. DEFINE k == Fate'
    <3>1. k.asked = Nothing /\ ~k.sure
      BY <1>3, <1>8, <2>1
    <3>. HIDE DEF k
    <3>2. Sound(files, Fate) /\ Exact(files, Fate) /\ Fate.ended # "cut" /\ Fate.asked = Fresh
      BY <1>3, <1>4, <1>5, <1>8, <2>1 DEF Good
    <3>3. Needed(Fate) => HasCopy(files)
      BY <1>1 DEF IInv, PlaceOK
    <3>4. Sound(e, k) /\ Exact(e, k)
      BY <1>3, <1>5, <2>2, <2>3, <2>4, <3>1, <3>2, <3>3, MarkedGood DEF k
    <3>. QED
      BY <3>4 DEF k
  <2>6. Good(e, e, Fate')
    BY <2>5, FollowsSelf DEF Good, Sound
  <2>. QED
    BY <1>1, <1>6, <1>8, <2>1, <2>3, <2>6, ResetRuns DEF Running
<1>. QED
  BY <1>7, <1>9, <1>10, <1>11 DEF Reset

LEMMA TerminateKeeps ==
  ASSUME IInv, Terminate
  PROVE  IInv'
<1>1. pc = "serving" /\ pc' = pc /\ stop' = TRUE /\ UNCHANGED <<files, disk, uploads, pending, served, asked, sure, ended, before, wiped, upgraded>>
  BY DEF Terminate, Serving, AsItIs, request, ending
<1>2. Fate' = Fate
  BY <1>1 DEF Fate
<1>3. HistoryOK' /\ ProcessOK'
  BY <1>1 DEF IInv, HistoryOK, ProcessOK, Starting, Swapping
<1>4. PlaceOK' /\ Settled'
  BY <1>1, <1>2 DEF IInv, PlaceOK, Settled, Same, Running, Swapping, Cleaned, Upgrading, Here
<1>. QED
  BY <1>1, <1>2, <1>3, <1>4 DEF IInv

-----------------------------------------------------------------------------
(* The stop. *)

\* The log is folded into the database; a power cut may bring the log back beside it.
LEMMA FoldGood ==
  ASSUME NEW f, NEW d, NEW h, Good(f, d, h), f["db"] # NoFile, f["wal"] # NoFile,
         NEW e, e = With(With(f, "db", Reads(f)), "wal", NoFile),
         NEW e2, NEW w \in {NoFile, f["wal"]}, e2 = With(With(d, "db", Reads(f)), "wal", w)
  PROVE  /\ Good(e, e2, h) /\ Good(e, e, h)
         /\ e["db"] = Reads(f) /\ Reads(f).of = f["db"].of
         /\ \A name \in Names \ {"db", "wal"} : e[name] = f[name]
<1>1. Sound(f, h) /\ Sound(d, h) /\ Follows(f, d, h) /\ Exact(f, h) /\ Typed(f) /\ LogOK(f) /\ Typed(d)
  BY DEF Good, Sound
<1>. DEFINE R == Reads(f)
<1>2. /\ R \in Databases(MaxRows) /\ R.of = f["db"].of /\ R.level = f["db"].level
      /\ R.writes = f["db"].writes /\ f["db"].rows <= R.rows
      /\ R.rows = f["wal"].rows
  BY <1>1, ReadsIt
<1>3. /\ e = [name \in Names |-> e[name]] /\ e["db"] = R /\ e["wal"] = NoFile
      /\ \A name \in Names \ {"db", "wal"} : e[name] = f[name]
  BY <1>1, Naming DEF Typed, With
<1>4. /\ e2 = [name \in Names |-> e2[name]] /\ e2["db"] = R /\ e2["wal"] = w
      /\ \A name \in Names \ {"db", "wal"} : e2[name] = d[name]
  BY <1>1, Naming DEF Typed, With
<1>. HIDE DEF R
<1>5. R # NoFile /\ R.rows \in 0..MaxRows /\ R.rows <= R.rows
  BY <1>2, Fields
<1>6. e["reset"] = f["reset"] /\ e["backup"] = f["backup"] /\ e2["reset"] = d["reset"] /\ e2["backup"] = d["backup"]
  BY <1>3, <1>4, Naming
<1>7. d["db"] # NoFile /\ f["db"].of = f["wal"].of
  BY <1>1 DEF Follows, LogOK
<1>8. Typed(e) /\ Typed(e2)
  BY <1>1, <1>2, <1>3, <1>4, Naming DEF Typed
<1>9. LogOK(e) /\ LogOK(e2)
  BY <1>2, <1>3, <1>4, <1>5, <1>7 DEF LogOK
<1>10. Stands(e, h) /\ Stands(e2, h)
  <2>1. \A a : Holds(f, a) => Holds(e, a) /\ Holds(e2, a)
    BY <1>2, <1>3, <1>4, <1>5 DEF Holds
  <2>. QED
    BY <1>1, <2>1 DEF Sound, Stands
<1>11. Marked(e, h) /\ Marked(e2, h)
  BY <1>1, <1>3, <1>4, <1>6, <1>7 DEF Sound, Marked
<1>12. CopyOK(e, h) /\ CopyOK(e2, h)
  BY <1>1, <1>2, <1>3, <1>4, <1>6 DEF Sound, CopyOK, HasCopy
<1>13. Rid(e, h) /\ Rid(e2, h)
  <2>1. R.of \notin h.wiped
    BY <1>1, <1>2 DEF Sound, Rid, Typed
  <2>. QED
    BY <1>1, <1>3, <1>4, <2>1, Naming DEF Sound, Rid
<1>14. Sound(e, h) /\ Sound(e2, h)
  BY <1>8, <1>9, <1>10, <1>11, <1>12, <1>13 DEF Sound
<1>15. Reads(e) = R
  BY <1>3 DEF Reads
<1>16. Exact(e, h)
  BY <1>1, <1>2, <1>3, <1>15 DEF Exact, R
<1>17. Follows(e, e2, h)
  BY <1>1, <1>2, <1>3, <1>4, <1>5, <1>6, <1>15 DEF Follows, Same
<1>18. Good(e, e, h)
  BY <1>14, <1>16, FollowsSelf DEF Good, Sound
<1>. QED
  BY <1>2, <1>3, <1>14, <1>16, <1>17, <1>18 DEF Good, R

LEMMA CloseKeeps ==
  ASSUME IInv, Close
  PROVE  IInv'
<1>1. pc = "serving" /\ (\A u \in Uploads : uploads[u] \notin InHand) /\ RestOver /\ UNCHANGED <<asked, sure, served, ended, before, wiped, upgraded>>
  BY DEF Close, Serving, RestOver, request, ending
<1>2. Fate' = Fate
  BY <1>1 DEF Fate
<1>3. files["db"] # NoFile /\ files["db"].of = served.of /\ (asked \in Uploads => served.of # asked) /\ disk["db"] # NoFile
  BY <1>1, ServesIt DEF Running
<1>4. /\ Good(files', disk', Fate) /\ files'["db"] # NoFile /\ files'["db"].of = files["db"].of
      /\ \A u \in Uploads : files'[u] = files[u]
  <2>1. CASE AsItIs
    BY <1>3, <2>1 DEF AsItIs, IInv
  <2>2. CASE Fold
    <3>. DEFINE e == With(With(files, "db", Reads(files)), "wal", NoFile)
                g(w) == With(With(disk, "db", Reads(files)), "wal", w)
    <3>1. Typed(disk) /\ Good(files, disk, Fate) /\ files["wal"] # NoFile /\ Typed(files) /\ LogOK(files)
      BY <2>2 DEF IInv, Good, Sound, Fold, Here
    <3>2. files' = e
      BY <2>2 DEF Fold, With
    <3>3. disk' = e \/ \E w \in {NoFile, files["wal"]} : disk' = g(w)
      <4>1. Put(disk, "db", Reads(files)) = With(disk, "db", Reads(files))
        BY <1>3 DEF Put, With
      <4>2. \A b, x : Put(b, "wal", x) = With(b, "wal", NoFile) \/ Put(b, "wal", x) = With(b, "wal", x)
        BY DEF Put, With
      <4>. QED
        BY <2>2, <3>2, <4>1, <4>2 DEF Fold
    <3>. HIDE DEF e, g
    <3>4. ASSUME NEW w \in {NoFile, files["wal"]}
          PROVE  /\ Good(e, g(w), Fate) /\ Good(e, e, Fate)
                 /\ e["db"] = Reads(files) /\ Reads(files).of = files["db"].of
                 /\ \A name \in Names \ {"db", "wal"} : e[name] = files[name]
      BY <1>3, <3>1, FoldGood DEF e, g
    <3>5. Reads(files) # NoFile
      BY <1>3, <3>1, ReadsIt, Fields
    <3>. QED
      BY <3>2, <3>3, <3>4, <3>5, Naming
  <2>. QED
    BY <2>1, <2>2 DEF Close
<1>5. Settled'
  BY <1>1, <1>3, <1>4 DEF Settled
<1>6. CASE pending = Nothing
  <2>1. Over /\ ended' \in {"well", "killed", "cut"}
    BY <1>1, <1>6 DEF Close, IInv, HistoryOK
  <2>. QED
    BY <1>1, <1>2, <1>4, <1>5, <2>1, ProcessEnds DEF RestOver
<1>7. CASE pending # Nothing
  <2>1. pc' = "swap" /\ UNCHANGED <<uploads, pending, stop>>
    BY <1>7 DEF Close, process
  <2>2. HistoryOK'
    BY <1>1, <2>1 DEF IInv, HistoryOK
  <2>3. pending \in Uploads /\ asked = pending /\ uploads[pending] = "applied"
    BY <1>1, <1>7, Naming DEF IInv, ProcessOK, InHand
  <2>4. ProcessOK'
    BY <1>1, <1>4, <2>1, <2>3 DEF IInv, ProcessOK, Starting, Swapping, Places
  <2>5. PlaceOK'
    BY <1>1, <1>3, <1>4, <2>1 DEF IInv, PlaceOK, Running, Swapping, Cleaned, Upgrading, Here
  <2>. QED
    BY <1>2, <1>4, <1>5, <2>2, <2>4, <2>5 DEF IInv
<1>. QED
  BY <1>6, <1>7

LEMMA SidecarsKeep ==
  ASSUME IInv, SwapFails \/ SidecarsGone
  PROVE  IInv'
<1>. DEFINE names == {"wal"}
<1>1. pc = "swap" /\ files["wal"] = NoFile /\ Unlink(names) /\ UNCHANGED <<served, request, ending, wiped, upgraded>>
  BY DEF SwapFails, SidecarsGone, SidecarNames, LogLeft, Here, RestOver, Rest, Go
<1>2. UNCHANGED <<asked, ended, sure, before>> /\ Fate' = Fate
  BY <1>1 DEF request, ending, Fate
<1>3. MayGo(files, Fate, names)
  BY <1>1 DEF MayGo
<1>4. /\ Good(files', disk', Fate)
      /\ \A name \in Names : files'[name] = IF name \in names THEN NoFile ELSE files[name]
      /\ files'["db"] # NoFile => disk'["db"] \in {disk["db"], files["db"]}
  BY <1>1, <1>3, Unlinked
<1>5. files'["db"] = files["db"] /\ files'["wal"] = NoFile /\ \A u \in Uploads : files'[u] = files[u]
  BY <1>4, Naming
<1>6. Settled'
  BY <1>1, <1>2, <1>4, <1>5, SettledKeeps DEF IInv
<1>7. CASE SwapFails
  <2>1. Over /\ ended' \in {"well", "killed", "cut"} /\ UNCHANGED before
    BY <1>2, <1>7 DEF SwapFails, IInv, HistoryOK
  <2>. QED
    BY <1>1, <1>2, <1>4, <1>6, <2>1, ProcessEnds
<1>8. CASE SidecarsGone
  <2>1. pc' = "replace" /\ UNCHANGED <<uploads, pending, stop>> /\ Here(pending)
    BY <1>8 DEF SidecarsGone, Go, Rest, process
  <2>2. HistoryOK'
    BY <1>1, <1>2, <2>1 DEF IInv, HistoryOK
  <2>3. ProcessOK'
    BY <1>1, <1>2, <1>5, <2>1 DEF IInv, ProcessOK, Starting, Swapping, Places
  <2>4. PlaceOK'
    <3>1. pending \in Uploads
      BY <1>1 DEF IInv, ProcessOK, Swapping
    <3>. QED
      BY <1>1, <1>2, <1>5, <2>1, <3>1 DEF IInv, PlaceOK, Running, Swapping, Cleaned, Upgrading, Here
  <2>. QED
    BY <1>2, <1>4, <1>6, <2>2, <2>3, <2>4 DEF IInv
<1>. QED
  BY <1>7, <1>8

\* `os.replace`: the disk has the one archive or the other.
LEMMA ReplaceKeeps ==
  ASSUME IInv, Replace
  PROVE  IInv'
<1>. DEFINE u == pending
            X == files[pending]
            e == With(With(files, "db", X), u, NoFile)
<1>1. pc = "replace" /\ pc' = "replaced" /\ files' = e /\ disk' \in {disk, e}
      /\ UNCHANGED <<uploads, pending, stop, asked, sure, served, ended, before, wiped, upgraded>>
  BY DEF Replace, Go, Change, With, Rest, process, request, ending
<1>2. u \in Uploads /\ asked = u /\ uploads[u] = "applied"
  BY <1>1 DEF IInv, ProcessOK, Swapping
<1>3. X # NoFile /\ files["wal"] = NoFile
  BY <1>1 DEF IInv, PlaceOK, Here
<1>4. X \in Ready(u)
  BY <1>2, <1>3 DEF IInv, ProcessOK
<1>5. X \in Databases(MaxRows) /\ X.of = u /\ X.level = "current" /\ X.rows = 0 /\ X.writes = FALSE
  BY <1>2, <1>4, Fields DEF Ready
<1>6. Good(files, disk, Fate) /\ Sound(files, Fate) /\ Sound(disk, Fate) /\ Follows(files, disk, Fate) /\ Typed(files)
  BY DEF IInv, Good, Sound
<1>7. /\ files["db"] # NoFile /\ files["db"].of = served.of /\ served.of # u /\ disk["db"] # NoFile /\ ended = "well"
  BY <1>1, <1>2, ServesIt
<1>. HIDE DEF u, X
<1>8. /\ e = [name \in Names |-> e[name]] /\ e["db"] = X /\ e[u] = NoFile
      /\ \A name \in Names \ {"db", u} : e[name] = files[name]
  BY <1>2, <1>6, Naming DEF Typed, With
<1>. HIDE DEF e
<1>9. e["wal"] = NoFile /\ e["reset"] = files["reset"] /\ e["backup"] = files["backup"]
  BY <1>2, <1>3, <1>8, Naming
<1>10. Fate' = Fate /\ Fate.asked = u /\ Fate.ended = "well" /\ Fate.wiped = wiped /\ Fate.served = served
  BY <1>1, <1>2, <1>7 DEF Fate
<1>11. files["reset"] = NoFile /\ disk["reset"] = NoFile /\ ~Fate.sure
  BY <1>2, <1>6, <1>10, Naming DEF Sound, Marked
<1>12. Sound(e, Fate)
  <2>1. Typed(e)
    BY <1>2, <1>5, <1>6, <1>8, Naming DEF Typed
  <2>2. LogOK(e) /\ Marked(e, Fate)
    BY <1>9, <1>11 DEF LogOK, Marked
  <2>3. Holds(e, Promised!New(u))
    <3>. DEFINE a == Promised!New(u)
    <3>1. a.of = u /\ a.rows = 0 /\ a.writes = FALSE
      BY DEF Promised!New
    <3>. HIDE DEF a
    <3>2. X.writes = a.writes
      BY <1>5, <3>1, Zenon
    <3>3. X.of = a.of /\ X.rows <= a.rows
      BY <1>5, <3>1
    <3>4. Holds(e, a)
      BY <1>3, <1>8, <1>9, <3>2, <3>3 DEF Holds
    <3>. QED
      BY <3>4 DEF a
  <2>4. Stands(e, Fate)
    BY <1>2, <1>10, <2>3 DEF Stands
  <2>5. CopyOK(e, Fate)
    BY <1>5, <1>6, <1>8, <1>9, <1>11 DEF Sound, CopyOK, HasCopy
  <2>6. Rid(e, Fate)
    <3>1. u \notin wiped
      BY <1>2 DEF IInv, HistoryOK
    <3>. QED
      BY <1>5, <1>6, <1>8, <1>10, <3>1, Fields, Naming DEF Sound, Rid
  <2>. QED
    BY <2>1, <2>2, <2>4, <2>5, <2>6 DEF Sound
<1>13. Exact(e, Fate)
  BY <1>2, <1>5, <1>8, <1>10 DEF Exact
<1>14. Follows(e, disk, Fate)
  <2>1. disk["db"].of # u
    BY <1>2, <1>6, <1>7, <1>10 DEF Follows
  <2>. QED
    BY <1>5, <1>7, <1>8, <1>9, <1>10, <1>11, <2>1 DEF Follows, Same
<1>15. Good(files', disk', Fate')
  BY <1>1, <1>6, <1>10, <1>12, <1>13, <1>14, FollowsSelf DEF Good, Sound
<1>16. HistoryOK'
  BY <1>1 DEF IInv, HistoryOK
<1>17. ProcessOK'
  <2>1. \A v \in Uploads : files'[v] \in {files[v], NoFile}
    BY <1>1, <1>8, Naming
  <2>. QED
    BY <1>1, <2>1 DEF IInv, ProcessOK, Starting, Swapping, Places
<1>18. PlaceOK' /\ Settled'
  BY <1>1, <1>7 DEF PlaceOK, Settled, Running, Swapping, Cleaned, Upgrading
<1>. QED
  BY <1>15, <1>16, <1>17, <1>18 DEF IInv

\* A process that ends as it is: killed, or without its last flush.
LEMMA EndsBadly ==
  ASSUME IInv, files' = files, disk' = disk, Over, Badly
  PROVE  IInv'
<1>1. UNCHANGED <<served, asked, sure, before, wiped, upgraded>> /\ ended' = IF ended = "well" THEN "killed" ELSE ended
  BY DEF Badly, request
<1>2. ended \in {"well", "killed", "cut"}
  BY DEF IInv, HistoryOK
<1>3. Good(files', disk', Fate')
  <2>1. /\ Fate'.served = Fate.served /\ Fate'.before = Fate.before /\ Fate'.asked = Fate.asked /\ Fate'.sure = Fate.sure
        /\ Fate'.wiped = Fate.wiped /\ Fate'.upgraded = Fate.upgraded /\ (Fate'.ended = "cut" <=> Fate.ended = "cut")
    BY <1>1, <1>2 DEF Fate
  <2>2. Good(files, disk, Fate)
    BY DEF IInv
  <2>. QED
    BY <1>1, <2>1, <2>2 DEF Good, Sound, Stands, Marked, CopyOK, Needed, Rid, Follows, Exact
<1>4. Settled'
  <2>1. CASE ended = "cut"
    <3>1. pc # "replaced"
      BY <2>1 DEF IInv, PlaceOK, Swapping
    <3>. QED
      BY <1>1, <2>1, <3>1, SettledKeeps DEF IInv
  <2>2. CASE ended # "cut"
    BY <1>1, <1>2, <2>2 DEF Settled
  <2>. QED
    BY <2>1, <2>2
<1>. QED
  BY <1>1, <1>2, <1>3, <1>4, ProcessEnds DEF request

LEMMA SwapInKeeps ==
  ASSUME IInv, SwapIn
  PROVE  IInv'
<1>1. CASE SwapRefused
  BY <1>1, EndsAsItIs DEF SwapRefused
<1>2. CASE Replaced
  <2>1. files' = files /\ disk' = files /\ Over /\ RestOver
    BY <1>2 DEF Replaced, Flush
  <2>2. Fate' = Fate /\ UNCHANGED <<served, request, before, wiped, upgraded>> /\ ended' \in {"well", "killed", "cut"}
    BY <2>1 DEF Fate, RestOver, request, ending, IInv, HistoryOK
  <2>3. Good(files', disk', Fate')
    BY <2>1, <2>2, FlushGood DEF IInv
  <2>4. Settled'
    BY <2>1 DEF Settled, Same
  <2>. QED
    BY <2>1, <2>2, <2>3, <2>4, ProcessEnds
<1>3. CASE Unflushed
  BY <1>3, EndsBadly DEF Unflushed, AsItIs
<1>. QED
  BY <1>1, <1>2, <1>3, SidecarsKeep, ReplaceKeeps DEF SwapIn

-----------------------------------------------------------------------------
(* The process is killed, the power is cut. *)

LEMMA CrashKeeps ==
  ASSUME IInv, Crash
  PROVE  IInv'
<1>. QED
  BY EndsBadly DEF Crash, AsItIs

LEMMA PowerCutKeeps ==
  ASSUME IInv, PowerCut
  PROVE  IInv'
<1>. DEFINE e == With(disk, "wal", NoFile)
<1>1. files' \in {disk, e} /\ disk' = files' /\ Over /\ ended' = "cut" /\ UNCHANGED <<served, asked, sure, before, wiped, upgraded>>
  BY DEF PowerCut, PowerIsCut, With, request
<1>2. /\ Fate'.served = Fate.served /\ Fate'.before = Fate.before /\ Fate'.asked = Fate.asked /\ Fate'.sure = Fate.sure
      /\ Fate'.wiped = Fate.wiped /\ Fate'.upgraded = Fate.upgraded /\ Fate'.ended = "cut"
  BY <1>1 DEF Fate
<1>3. Sound(disk, Fate')
  BY <1>2 DEF IInv, Good, Sound, Stands, Marked, CopyOK, Needed, Rid
<1>4. Sound(e, Fate')
  <2>1. /\ e = [name \in Names |-> e[name]] /\ e["wal"] = NoFile
        /\ \A name \in Names \ {"wal"} : e[name] = disk[name]
    BY <1>3, Naming DEF Sound, Typed, With
  <2>. HIDE DEF e
  <2>2. e["db"] = disk["db"] /\ e["reset"] = disk["reset"] /\ e["backup"] = disk["backup"]
    BY <2>1, Naming
  <2>3. Typed(e)
    BY <1>3, <2>1, Naming DEF Sound, Typed
  <2>4. LogOK(e) /\ Marked(e, Fate') /\ CopyOK(e, Fate')
    BY <1>3, <2>1, <2>2 DEF Sound, LogOK, Marked, CopyOK, HasCopy
  <2>5. Stands(e, Fate')
    <3>1. \A a : Holds(disk, a) => Holds(e, a)
      BY <2>1, <2>2 DEF Holds
    <3>. QED
      BY <1>3, <2>2, <3>1 DEF Sound, Stands
  <2>6. Rid(e, Fate')
    BY <1>3, <2>1, Naming DEF Sound, Rid
  <2>. QED
    BY <2>3, <2>4, <2>5, <2>6 DEF Sound
<1>. HIDE DEF e
<1>5. Good(files', disk', Fate')
  <2>1. Sound(files', Fate')
    BY <1>1, <1>3, <1>4
  <2>2. \A g : Sound(g, Fate') => Follows(g, g, Fate')
    BY FollowsSelf DEF Sound
  <2>. QED
    BY <1>1, <1>2, <2>1, <2>2 DEF Good, Exact
<1>6. Settled'
  BY <1>1 DEF Settled, Same
<1>. QED
  BY <1>1, <1>5, <1>6, ProcessEnds DEF request

-----------------------------------------------------------------------------
(* The invariant. *)

LEMMA StutterKeeps ==
  ASSUME IInv, UNCHANGED vars
  PROVE  IInv'
<1>1. UNCHANGED <<files, disk, pc, uploads, pending, stop, served, asked, sure, ended, before, wiped, upgraded>>
  BY DEF vars, process, request, ending
<1>2. Fate' = Fate
  BY <1>1 DEF Fate
<1>3. HistoryOK' /\ ProcessOK'
  BY <1>1 DEF IInv, HistoryOK, ProcessOK
<1>4. PlaceOK' /\ Settled'
  BY <1>1, <1>2 DEF IInv, PlaceOK, Settled, Same, Here, Possible
<1>. QED
  BY <1>1, <1>2, <1>3, <1>4 DEF IInv

LEMMA NextKeeps == IInv /\ [Next]_vars => IInv'
<1>. SUFFICES ASSUME IInv, [Next]_vars PROVE IInv'
  OBVIOUS
<1>1. CASE Boot
  BY <1>1, StartKeeps, CompleteResetKeeps, CleanKeeps, UpgradeDatabaseKeeps, OpenMade, OpenFound DEF Boot
<1>2. CASE \E u \in Uploads : Restore(u)
  BY <1>2, RestoreKeeps
<1>. QED
  BY <1>1, <1>2, FailuresKeep, CommitKeeps, ResetKeeps, TerminateKeeps, CloseKeeps, SwapInKeeps, CrashKeeps, PowerCutKeeps, StutterKeeps DEF Next

THEOREM Invariant == Spec => []IInv
BY InitInvariant, NextKeeps, PTL DEF Spec

\* The data directory holds whole files of the kinds a start knows, a database unless it is erased or not made yet,
\* and no log of another database, after any kill or power cut (db/restore.py, db/reset.py).
THEOREM Directory == Spec => []DirectoryOK
<1>1. ASSUME IInv PROVE DirectoryOK
  <2>1. ASSUME NEW d \in Possible
        PROVE  Sound(d, Fate) /\ Typed(d) /\ LogOK(d) /\ Stands(d, Fate)
    BY <1>1, <2>1 DEF Possible, IInv, Good, Sound
  <2>2. Typed(files)
    BY <1>1 DEF IInv, Good, Sound
  <2>3. TypeOK
    <3>1. \A name \in {"db", "backup"} \cup Uploads : files[name] \in Databases(MaxRows) \cup {NoFile, Torn}
      BY <2>2, Fields DEF Typed
    <3>2. ASSUME NEW d \in Possible, d["db"] = NoFile
          PROVE  asked = Fresh
      BY <2>1, <3>2 DEF Stands, Holds, Fate
    <3>3. \A d \in Possible : d["db"] \in Databases(MaxRows) \/ (d["db"] = NoFile /\ (asked = Fresh \/ served.of = Fresh))
      BY <2>1, <3>2 DEF Typed
    <3>4. files["wal"] \in Logs(MaxRows) \cup {NoFile}
      BY <2>2 DEF Typed
    <3>. QED
      BY <1>1, <3>1, <3>3, <3>4 DEF TypeOK, IInv, ProcessOK
  <2>4. OwnLog
    BY <2>1 DEF OwnLog, LogOK
  <2>. QED
    BY <2>3, <2>4 DEF DirectoryOK
<1>. QED
  BY <1>1, Invariant, PTL

\* What a reset erased is in no file again, whatever a power cut brings back (`complete_reset`).
THEOREM ErasedForGood == Spec => []Erased
<1>1. IInv => Erased
  BY DEF IInv, Good, Sound, Rid, Erased, Possible, Fate
<1>. QED
  BY <1>1, Invariant, PTL

\* An archive is upgraded only once a whole copy of it will be there whatever happens (`write_backup` before the steps).
THEOREM CopiedFirst == Spec => []CopyFirst
<1>1. ASSUME IInv PROVE CopyFirst
  <2>. SUFFICES ASSUME upgraded, Archive \notin wiped, asked # Fresh, NEW d \in Possible
                PROVE  HasCopy(d)
    BY DEF CopyFirst, HasCopy
  <2>1. CopyOK(d, Fate) /\ Marked(d, Fate)
    BY <1>1 DEF IInv, Good, Sound, Possible
  <2>. QED
    BY <2>1 DEF CopyOK, Marked, Needed, Fate
<1>. QED
  BY <1>1, Invariant, PTL

-----------------------------------------------------------------------------
(* Restarts implements OneArchive. *)

promised == <<served, before, asked, sure, ended>>

\* A start finds the archive, or what was asked for, whole.
LEMMA OpenServes ==
  ASSUME IInv, Open
  PROVE  Promised!Serve
<1>. DEFINE R == Reads(files)
            s == [of |-> R.of, rows |-> R.rows, writes |-> R.writes]
<1>1. pc = "open" /\ files["reset"] = NoFile /\ asked' = Nothing /\ sure' = FALSE /\ ended' = "well"
  BY DEF Open, Go, IInv, PlaceOK, Cleaned, Here
<1>2. Sound(files, Fate) /\ Typed(files) /\ LogOK(files) /\ Stands(files, Fate) /\ Marked(files, Fate)
      /\ Follows(files, disk, Fate) /\ Exact(files, Fate)
  BY DEF IInv, Good, Sound
<1>3. Fate.served = served /\ Fate.before = before /\ Fate.asked = asked /\ Fate.sure = sure /\ Fate.ended = ended
  BY DEF Fate
<1>4. /\ served \in Histories /\ before \subseteq Histories
      /\ \A a \in {served} \cup before : a.of \in Uploads => a.of # asked
  BY DEF IInv, HistoryOK
<1>5. CASE files["db"] = NoFile
  <2>1. asked = Fresh
    BY <1>2, <1>3, <1>5 DEF Stands, Holds
  <2>2. served' = Promised!New(Fresh) /\ before' = {}
    BY <1>5 DEF Open, Opened, Here, Lagging, Promised!New
  <2>. QED
    BY <1>1, <2>1, <2>2, Naming DEF Promised!Serve
<1>6. CASE files["db"] # NoFile
  <2>1. ~sure
    BY <1>1, <1>2, <1>3, <1>6 DEF Marked
  <2>2. served' = s /\ before' = IF Lagging THEN before \cup ({served} \ {s}) ELSE {}
    BY <1>6 DEF Open, Opened, Here
  <2>3. /\ R \in Databases(MaxRows) /\ R.of = files["db"].of /\ R.writes = files["db"].writes
        /\ files["wal"] = NoFile => R = files["db"]
        /\ files["wal"] # NoFile => R.rows = files["wal"].rows
    BY <1>2, <1>6, ReadsIt
  <2>. HIDE DEF R
  <2>4. s.of = files["db"].of /\ s.rows = R.rows /\ s.writes = files["db"].writes
    BY <2>3
  <2>5. ASSUME NEW a \in Histories, Holds(files, a)
        PROVE  \E rows \in 0..a.rows : s = [a EXCEPT !.rows = rows]
    <3>1. R.rows \in Nat /\ a.rows \in Nat
      BY <2>3, Fields DEF Histories
    <3>2. R.rows <= a.rows
      BY <2>3, <2>5 DEF Holds
    <3>3. R.of = a.of /\ R.writes = a.writes
      BY <2>3, <2>5 DEF Holds
    <3>4. s = [a EXCEPT !.rows = R.rows]
      BY <3>3 DEF Histories
    <3>. QED
      BY <3>1, <3>2, <3>4
  <2>6. ASSUME asked \in Uploads, files["db"].of = asked
        PROVE  s = Promised!New(asked)
    <3>1. \A a \in {served} \cup before : ~Holds(files, a)
      BY <1>4, <2>6 DEF Holds
    <3>2. Holds(files, Promised!New(asked))
      BY <1>2, <1>3, <1>6, <3>1 DEF Stands
    <3>. DEFINE a == Promised!New(asked)
    <3>3. a \in Histories /\ a.rows = 0 /\ a = [of |-> asked, rows |-> 0, writes |-> FALSE]
      BY <2>6, Fields DEF Histories, Archives, Promised!New
    <3>4. PICK rows \in 0..a.rows : s = [a EXCEPT !.rows = rows]
      BY <2>5, <3>2, <3>3
    <3>5. rows = 0
      BY <3>3, <3>4
    <3>6. [a EXCEPT !.rows = 0] = a
      BY <3>3
    <3>. QED
      BY <3>4, <3>5, <3>6
  <2>7. s \in Promised!Kept \/ (asked \in Uploads /\ files["db"].of = asked)
    <3>1. CASE ended = "cut"
      <4>1. CASE \E a \in {served} \cup before : Holds(files, a)
        <5>1. PICK a \in {served} \cup before : Holds(files, a)
          BY <4>1
        <5>2. PICK rows \in 0..a.rows : s = [a EXCEPT !.rows = rows]
          BY <1>4, <2>5, <5>1
        <5>. QED
          BY <3>1, <5>1, <5>2 DEF Promised!Kept
      <4>2. CASE asked \in Uploads /\ Holds(files, Promised!New(asked))
        BY <4>2 DEF Holds, Promised!New
      <4>. QED
        BY <1>2, <1>3, <1>6, <4>1, <4>2 DEF Stands
    <3>2. CASE ended # "cut" /\ ~(asked \in Uploads /\ files["db"].of = asked)
      <4>1. R.of = served.of /\ R.rows = served.rows /\ R.writes = served.writes
        BY <1>2, <1>3, <1>6, <2>3, <3>2 DEF Exact, R
      <4>2. s = served
        BY <1>4, <4>1 DEF Histories
      <4>. QED
        BY <3>2, <4>2 DEF Promised!Kept
    <3>. QED
      BY <3>1, <3>2
  <2>8. ASSUME Lagging, s # served
        PROVE  asked \in Uploads /\ s = Promised!New(asked) /\ ended = "killed"
    <3>1. ~Same(files, disk)
      BY <1>6, <2>8 DEF Lagging, Same
    <3>2. ended # "cut"
      BY <1>2, <1>3, <3>1 DEF Follows
    <3>3. asked \in Uploads /\ files["db"].of = asked
      BY <2>7, <2>8, <3>2 DEF Promised!Kept
    <3>4. ended = "killed"
      BY <1>1, <3>1, <3>3 DEF IInv, Settled
    <3>. QED
      BY <2>6, <3>3, <3>4
  <2>9. served' \in (IF sure THEN {} ELSE Promised!Kept) \cup (IF asked = Nothing THEN {} ELSE {Promised!New(asked)})
    BY <2>1, <2>2, <2>6, <2>7, Naming
  <2>10. before' \in {{}, before} \cup (IF Promised!Restored /\ ended = "killed" THEN {before \cup {served}} ELSE {})
    <3>1. CASE ~Lagging
      BY <2>2, <3>1
    <3>2. CASE Lagging /\ s = served
      BY <2>2, <3>2
    <3>3. CASE Lagging /\ s # served
      <4>1. Promised!Restored /\ ended = "killed"
        BY <2>2, <2>8, <3>3 DEF Promised!Restored
      <4>2. before' = before \cup {served}
        BY <2>2, <3>3
      <4>. QED
        BY <4>1, <4>2
    <3>. QED
      BY <3>1, <3>2, <3>3
  <2>. QED
    BY <1>1, <2>9, <2>10 DEF Promised!Serve
<1>. QED
  BY <1>5, <1>6

LEMMA StepsPromise ==
  ASSUME IInv, [Next]_vars
  PROVE  [Promised!Next]_(Promised!vars)
<1>. SUFFICES UNCHANGED promised \/ Promised!Next
  BY DEF promised, Promised!vars
<1>1. ASSUME UNCHANGED <<served, request, ending>>
      PROVE  UNCHANGED promised
  BY <1>1 DEF promised, request, ending
<1>2. CASE Boot
  <2>1. CASE Open
    BY <2>1, OpenServes DEF Promised!Next
  <2>2. CASE ~Open
    BY <1>1, <1>2, <2>2 DEF Boot, Start, CompleteReset, Clean, Upgrade, NoUpgrade, UpgradeDatabase, Rest
  <2>. QED
    BY <2>1, <2>2
<1>3. CASE Failures
  BY <1>1, <1>3 DEF Failures, UpgradeRefused, StartFails, RestOver
<1>4. CASE Commit
  <2>1. Promised!Store
    BY <1>4 DEF Commit, Promised!Store, request
  <2>. QED
    BY <2>1 DEF Promised!Next
<1>5. ASSUME NEW u \in Uploads, Restore(u)
      PROVE  UNCHANGED promised \/ Promised!Next
  <2>1. CASE Apply(u) /\ HandlerRest
    <3>1. pc = "serving" /\ asked' = u /\ pending = Nothing /\ asked # Fresh /\ UNCHANGED <<served, before, sure, ended>>
      BY <2>1 DEF Apply, Handler, Serving, Accepted, HandlerRest, ending
    <3>2. asked = Nothing
      BY <3>1 DEF IInv, ProcessOK
    <3>. QED
      BY <3>1, <3>2 DEF Promised!Next, Promised!Ask
  <2>2. CASE ApplyFails(u) /\ HandlerRest
    <3>1. pc = "serving" /\ asked' = Nothing /\ uploads[u] = "prepare" /\ UNCHANGED <<served, before, sure, ended>>
      BY <2>2 DEF ApplyFails, Handler, Serving, HandlerRest, ending
    <3>2. asked = u
      BY <3>1, Naming DEF IInv, ProcessOK
    <3>3. ~sure
      BY <3>2, Naming DEF IInv, Good, Sound, Marked, Fate
    <3>. QED
      BY <3>1, <3>3 DEF Promised!Next, Promised!Withdraw
  <2>3. CASE ~(Apply(u) /\ HandlerRest) /\ ~(ApplyFails(u) /\ HandlerRest)
    BY <1>1, <1>5, <2>3 DEF Restore, Upload, Discard, Staged, UploadRefused, Cancel, ApplyBusy, Applied, HandlerRest, NotApplied
  <2>. QED
    BY <2>1, <2>2, <2>3
<1>6. CASE Reset
  <2>1. UNCHANGED <<served, before, ended>>
    BY <1>6 DEF Reset, ending
  <2>2. CASE ResetAsked
    <3>1. asked = Nothing
      BY <2>2 DEF ResetAsked, Go, Accepted, IInv, ProcessOK
    <3>. QED
      BY <2>1, <2>2, <3>1 DEF ResetAsked, Promised!Next, Promised!Ask
  <2>3. CASE MarkNamed
    BY <2>1, <2>3 DEF MarkNamed, request, promised
  <2>4. ASSUME pc \in {"mark", "marked"}
        PROVE  asked = Fresh /\ ~sure
    BY <2>4 DEF IInv, ProcessOK
  <2>5. CASE ResetAnswered
    BY <2>1, <2>4, <2>5 DEF ResetAnswered, Go, Promised!Next, Promised!Answer
  <2>6. CASE ResetFails
    BY <2>1, <2>4, <2>6 DEF ResetFails, Promised!Next, Promised!Withdraw
  <2>. QED
    BY <1>6, <2>2, <2>3, <2>5, <2>6 DEF Reset
<1>7. CASE Terminate \/ Close \/ (SwapIn /\ ~Unflushed)
  BY <1>1, <1>7 DEF Terminate, Close, SwapIn, SwapRefused, SwapFails, SidecarsGone, Replace, Replaced, RestOver, Rest
<1>8. CASE Crash \/ Unflushed
  BY <1>8 DEF Crash, Unflushed, Badly, request, Promised!Next, Promised!Killed
<1>9. CASE PowerCut
  BY <1>9 DEF PowerCut, request, Promised!Next, Promised!PowerCut
<1>10. CASE UNCHANGED vars
  BY <1>1, <1>10 DEF vars
<1>. QED
  BY <1>2, <1>3, <1>4, <1>5, <1>6, <1>7, <1>8, <1>9, <1>10 DEF Next

\* Every start serves what the last one served with all that was stored since, or, whole, what was asked for in between;
\* a reset that was answered is carried out (the docstrings of db/restore.py and db/reset.py).
THEOREM Promises == Spec => KeepsPromises
<1>1. Init => Promised!Init
  BY DEF Init, Promised!Init
<1>. QED
  BY <1>1, StepsPromise, Invariant, PTL DEF Spec, KeepsPromises, Promised!OneArchiveSpec
=============================================================================
