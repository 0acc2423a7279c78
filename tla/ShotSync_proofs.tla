---------------------------- MODULE ShotSync_proofs ----------------------------
(***************************************************************************)
(* The safety properties of ShotSync for any shots, numbers, contents and  *)
(* faults.  What the proofs rest on is the order of the shots: a number    *)
(* that is used again is used by a later shot (Behind), so that a row, a   *)
(* record or an entry of a plan never names a shot later than the one      *)
(* whose file has the number.  From it follow that a record that starts    *)
(* when a file's shot did is that shot's, what a save may lose (PendingOK, *)
(* DueOK), and what a complete pass leaves (CalmOK).                       *)
(***************************************************************************)
EXTENDS ShotSync, TLAPS

-----------------------------------------------------------------------------
(* Types of the passes, and what the machine is between two shots. *)

Items == [number : Numbers, row : Rows \cup {NoRow}]
Failed == [at |-> "failed"]
Passes == [at : {"fetch", "ok", "failed"}, index : [Numbers -> Rows \cup {NoRow}], full : BOOLEAN,
           todo : SUBSET Items, held : Nat, consecutive : Nat, errors : BOOLEAN]
Syncs == [at : {"push", "pull", "pulling", "save"}, pulled : {"not yet", "ok", "failed"}, tries : Nat]

MachineOK ==
  /\ current # NoShot => current = Len(on) /\ next \in Numbers
  /\ running => current # NoShot
  /\ \A n, m \in Numbers : files[n] = files[m] /\ files[n] # NoShot => n = m
  /\ \A n \in Numbers : files[n] # NoShot /\ rows[n].shot = files[n] => ~rows[n].deleted

MachineTyped ==
  /\ files \in [Numbers -> {NoShot} \cup Shots] /\ rows \in [Numbers -> Rows \cup {NoRow}]
  /\ served \in BOOLEAN /\ next \in Nat \ {0} /\ current \in {NoShot} \cup Shots /\ running \in BOOLEAN
  /\ holds \in Contents /\ on \in Seq(Contents) /\ Len(on) <= MaxShots /\ unreadable \subseteq Shots

AppTyped ==
  /\ archive \in Seq(Records) /\ mirrored \in Contents \cup {NoContent}
  /\ pushed \subseteq Numbers /\ announced \in BOOLEAN
  /\ pass \in {NoPass, Failed} \cup Passes
  /\ sync \in {NoSync} \cup Syncs

HistoryTyped == calm \in BOOLEAN /\ due \subseteq Shots /\ blurred \subseteq Shots /\ crossed \subseteq Shots

Typed == MachineTyped /\ MachineOK /\ AppTyped /\ HistoryTyped

-----------------------------------------------------------------------------
(* The order of the shots. *)

\* The number n has not been given to a shot earlier than s since s had it.
Behind(n, s) ==
  /\ s <= Len(on)
  /\ current # NoShot => s < current
  /\ files[n] # NoShot => s <= files[n]

RowOK(n, r) == r.rating \in {NoShot, r.shot} /\ Behind(n, r.shot)

Older ==
  /\ \A n \in Numbers : Behind(n, files[n]) /\ RowOK(n, rows[n])
  /\ \A k \in DOMAIN archive : Behind(archive[k].number, archive[k].shot)
  /\ pass.at = "fetch" =>
       /\ \A n \in Numbers : RowOK(n, pass.index[n])
       /\ \A i \in pass.todo : RowOK(i.number, i.row)

-----------------------------------------------------------------------------
(* The records of the archive. *)

\* A record starts no later than its shot, when the shot's file parses at that moment exactly; it is
\* linked when the archive knows what the file holds; and its number is the one of the shot's file.
RecordOK(r) ==
  /\ r.start <= r.shot
  /\ r.shot \notin unreadable => r.start = r.shot
  /\ r.shot \in unreadable => r.link = NoContent
  /\ mirrored = NoContent => r.link = NoContent
  /\ mirrored # NoContent /\ r.shot \notin unreadable => r.link # NoContent
  /\ \A n \in Numbers : files[n] = r.shot => r.number = n

RecordsOK == \A k \in DOMAIN archive : RecordOK(archive[k])

-----------------------------------------------------------------------------
(* The shots that are still to be linked. *)

Obtainable(s) == s = current \/ \E n \in Numbers : files[n] = s

Pending(s) ==
  /\ s \in DOMAIN on /\ s \notin unreadable
  /\ \/ Obtainable(s) /\ ~Archived(s)
     \/ \E k \in DOMAIN archive : archive[k].shot = s /\ archive[k].link = NoContent

\* The file still holds what they were brewed on, and the archive does not say otherwise.
PendingOK == \A s \in Shots : Pending(s) /\ s \notin blurred => on[s] = holds /\ mirrored \in {NoContent, holds}

\* From the pull on, a shot the app was told of is archived, about to be fetched, or announced again.
Looked == sync.at = "pulling" \/ (sync.at # "idle" /\ sync.pulled = "ok")
Coming(n) ==
  /\ sync.at = "pulling"
  /\ \/ pass.at = "failed"
     \/ pass.at = "fetch" /\ (pass.errors \/ \E i \in pass.todo : i.number = n)

DueOK ==
  /\ due \subseteq DOMAIN on
  /\ sync.at # "idle" => mirrored # NoContent
  /\ sync.at = "pulling" => pass.at # "idle"
  /\ sync.at = "save" => sync.pulled = "ok"
  /\ sync.at \notin {"idle", "pulling"} => pass.at = "idle"
  /\ Looked => current \notin due
  /\ Looked => \A n \in Numbers : files[n] \in due \ unreadable =>
                 Archived(files[n]) \/ Coming(n) \/ (announced /\ sync.at # "save")

-----------------------------------------------------------------------------
(* A pass over a machine that listed what it had and did not change. *)

Listing == \A n \in Numbers : IF files[n] = NoShot THEN rows[n].deleted ELSE rows[n].shot = files[n]
Paired(n) == \E k \in DOMAIN archive : archive[k].number = n /\ archive[k].start = files[n]
InFile(k) == \E n \in Numbers : files[n] = archive[k].shot

Planned ==
  /\ pass.full /\ pass.index = rows
  /\ \A n \in Numbers : files[n] # NoShot => Paired(n) \/ pass.errors \/ \E i \in pass.todo : i.number = n
  /\ \A i \in pass.todo : i.row = rows[i.number]
  /\ \A k \in DOMAIN archive : k > pass.held => InFile(k)

Settled ==
  /\ \A n \in Numbers : files[n] # NoShot =>
       \E k \in DOMAIN archive : /\ archive[k].number = n /\ archive[k].start = files[n]
                                 /\ ~archive[k].gone /\ archive[k].rating = rows[n].rating
  /\ \A k \in DOMAIN archive : archive[k].gone \/ InFile(k)

CalmOK ==
  calm => /\ Listing /\ pass.at # "failed"
          /\ pass.at = "fetch" => Planned
          /\ pass.at # "fetch" => Settled

IInv ==
  /\ Typed /\ Older /\ RecordsOK /\ OwnFacts
  /\ PendingOK /\ LinkedToBrewed /\ DueOK /\ CalmOK

-----------------------------------------------------------------------------
(* Types. *)

\* A row is none, or of a shot.
LEMMA RowTyped ==
  ASSUME NEW r \in Rows \cup {NoRow}
  PROVE  /\ r.shot \in {NoShot} \cup Shots /\ r.rating \in {NoShot} \cup Shots /\ r.deleted \in BOOLEAN
         /\ (r = NoRow <=> r.shot = NoShot)
<1>1. CASE r = NoRow
  BY <1>1 DEF NoRow
<1>2. CASE r \in Rows
  <2>1. r.shot \in Shots /\ r.rating \in {NoShot} \cup Shots /\ r.deleted \in BOOLEAN
    BY <1>2 DEF Rows
  <2> QED BY <1>2, <2>1 DEF NoRow, Shots, NoShot
<1> QED BY <1>1, <1>2

\* A sequence with one more element.
LEMMA AppendRecord ==
  ASSUME NEW S, NEW q \in Seq(S), NEW r \in S
  PROVE  /\ Append(q, r) \in Seq(S) /\ Len(Append(q, r)) = Len(q) + 1
         /\ Append(q, r)[Len(q) + 1] = r
         /\ \A k \in DOMAIN q : Append(q, r)[k] = q[k]
         /\ DOMAIN Append(q, r) = DOMAIN q \cup {Len(q) + 1}
  OBVIOUS

\* A sequence with each element changed.
LEMMA MapRecords ==
  ASSUME NEW S, NEW q \in Seq(S), NEW F, F = [k \in DOMAIN q |-> F[k]], \A k \in DOMAIN q : F[k] \in S
  PROVE  F \in Seq(S) /\ Len(F) = Len(q) /\ DOMAIN F = DOMAIN q
<1>1. /\ Len(q) \in Nat /\ DOMAIN q = 1..Len(q)
  OBVIOUS
<1>2. F \in [1..Len(q) -> S]
  BY <1>1
<1> QED BY <1>1, <1>2

\* What the machine does leaves the types, and what it is between two shots.
LEMMA MachineKeepsTypes ==
  ASSUME Typed, Older, AtMachine
  PROVE  Typed'
<1> USE ShotsAssumption DEF Typed, MachineTyped, MachineOK, HistoryTyped, Machine
<1>0. UNCHANGED <<archive, mirrored, pass, sync>> /\ pushed' \subseteq Numbers /\ announced' \in BOOLEAN => AppTyped'
  BY DEF AppTyped
<1>a. UNCHANGED app => AppTyped'
  BY DEF AppTyped, app
<1>1. CASE Brew
  <2>1. on' \in Seq(Contents) /\ Len(on') = Len(on) + 1
    BY <1>1 DEF Brew
  <2>2. current' \in Shots /\ current' = Len(on') /\ current' # NoShot
    BY <1>1, <2>1 DEF Brew, Shots, NoShot
  <2>3. MachineTyped'
    BY <1>1, <2>1, <2>2 DEF Brew
  <2>4. MachineOK'
    BY <1>1, <2>2 DEF Brew
  <2>5. HistoryTyped'
    BY <1>1, <2>2 DEF Brew
  <2> QED BY <1>1, <1>a, <2>3, <2>4, <2>5 DEF Brew
<1>2. CASE Finished
  BY <1>2, <1>a DEF Finished, history
<1>3. CASE Saved
  <2>1. current \in Shots /\ next \in Numbers
    BY <1>3 DEF Saved
  <2>2. files' = [files EXCEPT ![next] = current] /\ next' = next + 1 /\ current' = NoShot /\ ~running'
    BY <1>3 DEF Saved
  <2>3. files' \in [Numbers -> {NoShot} \cup Shots]
    BY <2>1, <2>2
  <2>4. \A n, m \in Numbers : files'[n] = files'[m] /\ files'[n] # NoShot => n = m
    <3>1. \A n \in Numbers : files[n] # current
      BY <2>1 DEF Older, Behind, Shots, NoShot
    <3> QED BY <2>1, <2>2, <3>1
  <2>5. \A n \in Numbers : files'[n] # NoShot /\ rows[n].shot = files'[n] => ~rows[n].deleted
    <3>1. \A n \in Numbers : rows[n].shot # current
      BY <2>1 DEF Older, RowOK, Behind, Shots, NoShot, Rows, NoRow
    <3> QED BY <2>1, <2>2, <3>1
  <2>6. pushed' \subseteq Numbers /\ announced' \in BOOLEAN /\ due' \subseteq Shots /\ calm' \in BOOLEAN
    BY <1>3, <2>1 DEF Saved, AppTyped
  <2> QED BY <1>3, <1>0, <2>2, <2>3, <2>4, <2>5, <2>6 DEF Saved
<1>4. CASE Rebuild
  BY <1>4, <1>a DEF Rebuild
<1>5. CASE Rebuilt
  <2>1. rows' \in [Numbers -> Rows \cup {NoRow}]
    BY <1>5 DEF Rebuilt, Rows, NoRow
  <2>2. \A n \in Numbers : files[n] # NoShot /\ rows'[n].shot = files[n] => ~rows'[n].deleted
    BY <1>5 DEF Rebuilt
  <2> QED BY <1>5, <1>a, <2>1, <2>2 DEF Rebuilt
<1>6. CASE Erase
  BY <1>6, <1>a DEF Erase
<1>7. ASSUME NEW n \in Numbers, List(n)  PROVE Typed'
  <2>1. files[n] \in Shots /\ rows' = [rows EXCEPT ![n] = [shot |-> files[n], rating |-> NoShot, deleted |-> FALSE]]
    BY <1>7 DEF List
  <2>2. rows' \in [Numbers -> Rows \cup {NoRow}]
    BY <2>1 DEF Rows
  <2>3. \A m \in Numbers : files[m] # NoShot /\ rows'[m].shot = files[m] => ~rows'[m].deleted
    BY <2>1
  <2> QED BY <1>7, <1>a, <2>2, <2>3 DEF List
<1>8. ASSUME NEW n \in Numbers, Rate(n)  PROVE Typed'
  <2>1. rows[n] \in Rows /\ rows' = [rows EXCEPT ![n].rating = rows[n].shot]
    BY <1>8 DEF Rate
  <2>2. rows' \in [Numbers -> Rows \cup {NoRow}]
    BY <2>1 DEF Rows
  <2>3. \A m \in Numbers : rows'[m].shot = rows[m].shot /\ rows'[m].deleted = rows[m].deleted
    BY <2>1 DEF Rows
  <2> QED BY <1>8, <1>a, <2>2, <2>3 DEF Rate
<1>9. ASSUME NEW n \in Numbers, Cleanup(n)  PROVE Typed'
  <2>1. /\ files[n] \in Shots /\ files' = [files EXCEPT ![n] = NoShot]
        /\ rows' = IF rows[n].shot = files[n] THEN [rows EXCEPT ![n].deleted = TRUE] ELSE rows
    BY <1>9 DEF Cleanup
  <2>2. rows' \in [Numbers -> Rows \cup {NoRow}]
    <3>1. rows[n].shot = files[n] => rows[n] \in Rows
      BY <2>1 DEF NoRow, Shots, NoShot
    <3> QED BY <2>1, <3>1 DEF Rows
  <2>3. \A m \in Numbers : m # n => rows'[m] = rows[m] /\ files'[m] = files[m]
    BY <2>1
  <2>4. files' \in [Numbers -> {NoShot} \cup Shots] /\ files'[n] = NoShot
    BY <2>1
  <2> QED BY <1>9, <1>a, <2>2, <2>3, <2>4 DEF Cleanup
<1>10. ASSUME NEW c \in Contents, Edit(c)  PROVE Typed'
  <2>1. DOMAIN on \subseteq Shots
    BY DEF Shots
  <2> QED BY <1>10, <1>a, <2>1 DEF Edit
<1> QED BY <1>1, <1>2, <1>3, <1>4, <1>5, <1>6, <1>7, <1>8, <1>9, <1>10 DEF AtMachine

-----------------------------------------------------------------------------
(* What the app's steps do to the archive and to a plan. *)

\* The fields of a record are of their types.
LEMMA RecordTyped ==
  ASSUME Typed, NEW k \in DOMAIN archive
  PROVE  /\ archive[k] \in Records /\ archive[k].shot \in Shots /\ archive[k].number \in Numbers
         /\ archive[k].start \in {Unknown} \cup Shots /\ archive[k].gone \in BOOLEAN
         /\ archive[k].rating \in {NoShot} \cup Shots /\ archive[k].link \in Contents \cup {NoContent}
<1>1. archive[k] \in Records
  BY DEF Typed, AppTyped
<1> QED BY <1>1 DEF Records

\* Linking changes the links of readable shots that had none, and nothing else.
LEMMA Linking ==
  ASSUME Typed, NEW c \in Contents \cup {NoContent}, LinkUnlinked(c)
  PROVE  /\ archive' \in Seq(Records) /\ DOMAIN archive' = DOMAIN archive /\ Len(archive') = Len(archive)
         /\ \A k \in DOMAIN archive :
              /\ archive'[k].shot = archive[k].shot /\ archive'[k].number = archive[k].number
              /\ archive'[k].start = archive[k].start /\ archive'[k].gone = archive[k].gone
              /\ archive'[k].rating = archive[k].rating
              /\ archive'[k].link = IF archive[k].link = NoContent /\ archive[k].shot \notin unreadable
                                    THEN c ELSE archive[k].link
<1>1. \A k \in DOMAIN archive :
        archive'[k] = IF archive[k].link = NoContent /\ archive[k].shot \notin unreadable
                      THEN [archive[k] EXCEPT !.link = c] ELSE archive[k]
  BY DEF LinkUnlinked
<1>2. \A k \in DOMAIN archive : archive[k] \in Records
  BY RecordTyped
<1>3. \A k \in DOMAIN archive : archive'[k] \in Records
  BY <1>1, <1>2 DEF Records
<1>4. archive' \in Seq(Records) /\ DOMAIN archive' = DOMAIN archive /\ Len(archive') = Len(archive)
  <2>1. archive' = [k \in DOMAIN archive |-> archive'[k]]
    BY DEF LinkUnlinked
  <2>2. archive \in Seq(Records)
    BY DEF Typed, AppTyped
  <2> QED BY <1>3, <2>1, <2>2, MapRecords
<1> QED BY <1>1, <1>2, <1>4 DEF Records

\* What the index says changes ratings and whether shots are gone, and nothing else.
LEMMA Reconciling ==
  ASSUME Typed, Reconcile
  PROVE  /\ pass \in Passes /\ archive' \in Seq(Records)
         /\ DOMAIN archive' = DOMAIN archive /\ Len(archive') = Len(archive)
         /\ \A k \in DOMAIN archive :
              /\ archive'[k].shot = archive[k].shot /\ archive'[k].number = archive[k].number
              /\ archive'[k].start = archive[k].start /\ archive'[k].link = archive[k].link
              /\ archive'[k].rating = IF Pairs(pass.index, k) THEN pass.index[archive[k].number].rating
                                      ELSE archive[k].rating
              /\ archive'[k].gone = IF Pairs(pass.index, k) THEN pass.index[archive[k].number].deleted
                                    ELSE archive[k].gone \/ (pass.full /\ k <= pass.held)
<1>1. pass \in Passes
  BY DEF Typed, AppTyped, Reconcile, NoPass, Failed
<1>2. \A k \in DOMAIN archive : archive[k] \in Records
  BY RecordTyped
<1>3. \A k \in DOMAIN archive :
        archive'[k] = IF Pairs(pass.index, k)
                      THEN [archive[k] EXCEPT !.rating = pass.index[archive[k].number].rating,
                                              !.gone = pass.index[archive[k].number].deleted]
                      ELSE [archive[k] EXCEPT !.gone = @ \/ (pass.full /\ k <= pass.held)]
  BY DEF Reconcile, Reconciled
<1>4. \A n \in Numbers : pass.index[n].rating \in {NoShot} \cup Shots /\ pass.index[n].deleted \in BOOLEAN
  <2>1. pass.index \in [Numbers -> Rows \cup {NoRow}]
    BY <1>1 DEF Passes
  <2>2. \A n \in Numbers : pass.index[n] \in Rows \cup {NoRow}
    BY <2>1
  <2> QED BY <2>2, RowTyped
<1>5. \A k \in DOMAIN archive : (pass.full /\ k <= pass.held) \in BOOLEAN
  OBVIOUS
<1>6. \A k \in DOMAIN archive : archive'[k] \in Records
  <2> SUFFICES ASSUME NEW k \in DOMAIN archive  PROVE archive'[k] \in Records
    OBVIOUS
  <2>1. archive[k] \in Records /\ archive[k].number \in Numbers /\ archive[k].gone \in BOOLEAN
    BY RecordTyped
  <2>2. CASE Pairs(pass.index, k)
    BY <1>3, <1>4, <2>1, <2>2 DEF Records
  <2>3. CASE ~Pairs(pass.index, k)
    BY <1>3, <2>1, <2>3 DEF Records
  <2> QED BY <2>2, <2>3
<1>7. archive' \in Seq(Records) /\ DOMAIN archive' = DOMAIN archive /\ Len(archive') = Len(archive)
  <2>1. archive' = [k \in DOMAIN archive |-> archive'[k]]
    BY DEF Reconcile
  <2>2. archive \in Seq(Records)
    BY DEF Typed, AppTyped
  <2> QED BY <1>6, <2>1, <2>2, MapRecords
<1> QED BY <1>1, <1>2, <1>3, <1>7 DEF Records

\* An item of the plan asks for a number, with a row of the index or none.
LEMMA ItemTyped ==
  ASSUME Typed, pass.at = "fetch"
  PROVE  /\ pass \in Passes
         /\ \A i \in pass.todo : /\ i \in Items /\ i.number \in Numbers /\ i.row \in Rows \cup {NoRow}
                                 /\ i.row.shot \in {NoShot} \cup Shots /\ i.row.rating \in {NoShot} \cup Shots
                                 /\ i.row.deleted \in BOOLEAN
                                 /\ (i.row = NoRow <=> i.row.shot = NoShot)
<1>1. pass \in Passes
  BY DEF Typed, AppTyped, NoPass, Failed
<1>2. \A i \in pass.todo : i \in Items
  BY <1>1 DEF Passes
<1> QED BY <1>1, <1>2, RowTyped DEF Items

\* A fetch that stores something adds a record of the file's shot, or dates one.
Stores(i) ==
  LET s == files[i.number] IN
  \/ archive' = archive
  \/ \E start \in {s, i.row.shot} :
       /\ archive' = Append(archive, Record(i, s, start))
       /\ s \notin unreadable => start = s /\ ~Held(i.number, s)
       /\ s \in unreadable => start = i.row.shot
  \/ /\ s \in unreadable /\ i.row # NoRow /\ DOMAIN archive' = DOMAIN archive
     /\ \A k \in DOMAIN archive :
          archive'[k] = IF k \in Adopted(i, s) THEN [archive[k] EXCEPT !.start = i.row.shot] ELSE archive[k]

\* What a fetch that is served leaves in the archive.
LEMMA Storing ==
  ASSUME Typed, pass.at = "fetch", NEW i \in pass.todo, FetchServes(i)
  PROVE  /\ archive' \in Seq(Records)
         /\ archive' # archive => files[i.number] \in Shots
         /\ Stores(i)
         /\ files[i.number] \in Shots \ unreadable =>
              \E k \in DOMAIN archive' : archive'[k].number = i.number /\ archive'[k].start = files[i.number]
         /\ files[i.number] \in Shots /\ i.row.shot = files[i.number] =>
              \E k \in DOMAIN archive' : archive'[k].number = i.number /\ archive'[k].start = files[i.number]
<1> DEFINE s == files[i.number]
           Found == \E k \in DOMAIN archive' : archive'[k].number = i.number /\ archive'[k].start = s
<1>1. /\ i.number \in Numbers /\ i.row \in Rows \cup {NoRow} /\ i.row.shot \in {NoShot} \cup Shots
      /\ i.row.rating \in {NoShot} \cup Shots /\ i.row.deleted \in BOOLEAN /\ (i.row = NoRow <=> i.row.shot = NoShot)
  BY ItemTyped
<1>2. archive \in Seq(Records) /\ mirrored \in Contents \cup {NoContent} /\ s \in {NoShot} \cup Shots
  BY <1>1 DEF Typed, AppTyped, MachineTyped
<1>3. ASSUME NEW start \in {Unknown} \cup Shots, s \in Shots  PROVE Record(i, s, start) \in Records
  <2> DEFINE link == IF s \in unreadable THEN NoContent ELSE mirrored
             gone == i.row # NoRow /\ i.row.deleted
  <2>1. link \in Contents \cup {NoContent} /\ gone \in BOOLEAN
    BY <1>2
  <2>2. Record(i, s, start) = [shot |-> s, number |-> i.number, start |-> start, gone |-> gone,
                               rating |-> i.row.rating, link |-> link]
    BY DEF Record
  <2> HIDE DEF link, gone, s
  <2> QED BY <1>1, <1>3, <2>1, <2>2 DEF Records
<1>4. ASSUME NEW start \in {Unknown} \cup Shots, s \in Shots, archive' = Append(archive, Record(i, s, start))
      PROVE  /\ archive' \in Seq(Records)
             /\ \E k \in DOMAIN archive' : archive'[k].number = i.number /\ archive'[k].start = start
  <2>1. Record(i, s, start) \in Records
    BY <1>3, <1>4
  <2>2. /\ archive' \in Seq(Records) /\ Len(archive) + 1 \in DOMAIN archive'
        /\ archive'[Len(archive) + 1] = Record(i, s, start)
    BY <1>2, <1>4, <2>1, AppendRecord
  <2>3. Record(i, s, start).number = i.number /\ Record(i, s, start).start = start
    BY DEF Record
  <2> QED BY <2>2, <2>3
<1>5. CASE s = NoShot
  BY <1>2, <1>5 DEF FetchServes, Stores, Shots, NoShot, StoreReadable, StoreQuarantined
<1>6. CASE s \in Shots \ unreadable
  <2>0. s # NoShot
    BY <1>6 DEF Shots, NoShot
  <2>1. StoreReadable(i, s)
    BY <1>6, <2>0 DEF FetchServes
  <2>2. CASE Held(i.number, s)
    BY <1>2, <1>6, <2>1, <2>2 DEF StoreReadable, Stores, Held
  <2>3. CASE ~Held(i.number, s)
    <3>1. archive' = Append(archive, Record(i, s, s))
      BY <2>1, <2>3 DEF StoreReadable
    <3> QED BY <1>4, <1>6, <2>3, <3>1 DEF Stores
  <2> QED BY <2>2, <2>3
<1>7. CASE s \in unreadable /\ s \in Shots
  <2>0. s # NoShot
    BY <1>7 DEF Shots, NoShot
  <2>1. StoreQuarantined(i, s)
    BY <1>7, <2>0 DEF FetchServes
  <2>2. CASE Adopted(i, s) # {}
    <3>0. archive' = [k \in DOMAIN archive |->
                     IF k \in Adopted(i, s) THEN [archive[k] EXCEPT !.start = i.row.shot] ELSE archive[k]]
      BY <2>1, <2>2 DEF StoreQuarantined
    <3>1. DOMAIN archive' = DOMAIN archive /\ \A k \in DOMAIN archive :
            archive'[k] = IF k \in Adopted(i, s) THEN [archive[k] EXCEPT !.start = i.row.shot] ELSE archive[k]
      BY <3>0
    <3>2. \A k \in DOMAIN archive : archive[k] \in Records
      BY RecordTyped
    <3>3. \A k \in DOMAIN archive : archive'[k] \in Records
      BY <1>1, <3>1, <3>2 DEF Records, Unknown, NoShot
    <3>4. archive' \in Seq(Records)
      <4>1. archive' = [k \in DOMAIN archive |-> archive'[k]]
        BY <3>0
      <4> QED BY <1>2, <3>3, <4>1, MapRecords
    <3>5. i.row # NoRow
      BY <2>2 DEF Adopted
    <3>6. i.row.shot = s => Found
      BY <2>2, <3>1, <3>2 DEF Adopted, Records
    <3> QED BY <1>7, <3>1, <3>4, <3>5, <3>6 DEF Stores
  <2>3. CASE Adopted(i, s) = {} /\ archive' = archive
    <3>1. i.row.shot = s => Held(i.number, i.row.shot)
      <4>1. Append(archive, Record(i, s, i.row.shot)) # archive
        BY <1>1, <1>2, <1>3, <1>7 DEF Unknown, NoShot
      <4>2. i.row.shot = s => i.row # NoRow
        BY <2>0, <1>1
      <4> QED BY <2>1, <2>3, <4>1, <4>2 DEF StoreQuarantined
    <3> QED BY <1>2, <1>7, <2>3, <3>1 DEF Stores, Held
  <2>4. CASE archive' = Append(archive, Record(i, s, i.row.shot))
    <3>1. i.row.shot \in {Unknown} \cup Shots
      BY <1>1 DEF Unknown, NoShot
    <3> QED BY <1>4, <1>7, <2>4, <3>1 DEF Stores
  <2> QED BY <2>1, <2>2, <2>3, <2>4 DEF StoreQuarantined
<1> QED BY <1>2, <1>5, <1>6, <1>7

\* A plan that was made is of what the index listed, if there was one.
LEMMA Planning ==
  ASSUME Typed, ReadIndex
  PROVE  \/ pass' = Failed /\ ~calm' /\ calm' \in BOOLEAN /\ pushed' = pushed
         \/ /\ pass' \in Passes /\ pass'.at = "fetch"
            /\ pass'.index = (IF served THEN rows ELSE Empty) /\ pass'.full = served
            /\ pass'.todo = Missing(IF served THEN rows ELSE Empty)
            /\ pass'.held = Len(archive) /\ pass'.errors = FALSE /\ pushed' = {}
            /\ calm' = (served /\ Listing)
<1> DEFINE index == IF served THEN rows ELSE Empty
<1>1. CASE Fault /\ pass' = [NoPass EXCEPT !.at = "failed"] /\ calm' = FALSE /\ UNCHANGED pushed
  <2>1. [NoPass EXCEPT !.at = "failed"] = Failed
    BY DEF NoPass, Failed
  <2> QED BY <1>1, <2>1
<1>2. CASE Start(index, served)
  <2>1. pass' = [at |-> "fetch", index |-> index, full |-> served, todo |-> Missing(index),
                 held |-> Len(archive), consecutive |-> 0, errors |-> FALSE]
    BY <1>2 DEF Start
  <2>2. index \in [Numbers -> Rows \cup {NoRow}] /\ served \in BOOLEAN
    BY DEF Typed, MachineTyped, Empty
  <2>3. Missing(index) \subseteq Items
    BY <2>2 DEF Missing, Items, Typed, AppTyped
  <2>4. Len(archive) \in Nat
    BY DEF Typed, AppTyped
  <2>5. pushed' = {} /\ calm' = (served /\ \A n \in Numbers : IF files[n] = NoShot THEN index[n].deleted
                                                             ELSE index[n].shot = files[n])
    BY <1>2 DEF Start
  <2>6. calm' = (served /\ Listing)
    BY <2>5 DEF Listing
  <2> HIDE DEF index
  <2>7. pass' \in Passes
    BY <2>1, <2>2, <2>3, <2>4 DEF Passes
  <2>8. /\ pass'.at = "fetch" /\ pass'.index = index /\ pass'.full = served /\ pass'.todo = Missing(index)
        /\ pass'.held = Len(archive) /\ pass'.errors = FALSE
    BY <2>1
  <2> QED BY <2>5, <2>6, <2>7, <2>8 DEF index
<1> QED BY <1>1, <1>2 DEF ReadIndex

\* What a fetch does to the plan.
LEMMA Fetching ==
  ASSUME Typed, NEW i \in pass.todo, Fetch(i)
  PROVE  /\ pass \in Passes /\ pass' \in Passes /\ pass.at = "fetch" /\ pass'.at = "fetch"
         /\ pass'.index = pass.index /\ pass'.full = pass.full /\ pass'.held = pass.held
         /\ pass'.todo \subseteq pass.todo
         /\ \/ FetchFails(i) /\ pass'.errors /\ archive' = archive /\ crossed' = crossed
            \/ FetchServes(i) /\ pass'.errors = pass.errors /\ pass'.todo = pass.todo \ {i}
<1>1. pass.at = "fetch" /\ pass \in Passes
  BY ItemTyped DEF Fetch
<1>2. CASE FetchFails(i)
  <2>1. PICK retryable \in BOOLEAN, todo \in {{}, pass.todo \ {i}}, consecutive \in {0, pass.consecutive + 1} :
          pass' = [pass EXCEPT !.consecutive = consecutive, !.errors = TRUE, !.todo = todo]
    BY <1>2 DEF FetchFails
  <2>2. consecutive \in Nat /\ todo \subseteq pass.todo /\ todo \in SUBSET Items
    BY <1>1 DEF Passes
  <2>3. /\ pass' \in Passes /\ pass'.at = "fetch" /\ pass'.errors
        /\ pass'.index = pass.index /\ pass'.full = pass.full /\ pass'.held = pass.held /\ pass'.todo = todo
    BY <1>1, <2>1, <2>2 DEF Passes
  <2> QED BY <1>1, <1>2, <2>2, <2>3 DEF FetchFails
<1>3. CASE FetchServes(i)
  <2>1. pass' = [pass EXCEPT !.consecutive = 0, !.todo = pass.todo \ {i}]
    BY <1>3 DEF FetchServes
  <2> QED BY <1>1, <1>3, <2>1 DEF Passes
<1> QED BY <1>2, <1>3 DEF Fetch

\* A profile pass in progress is of its type.
LEMMA SyncTyped ==
  ASSUME Typed, sync.at # "idle"
  PROVE  sync \in Syncs
  BY DEF Typed, AppTyped, NoSync

\* A step of the app leaves the machine's types and what it is between two shots.
LEMMA MachineUnchanged ==
  ASSUME MachineTyped, MachineOK, UNCHANGED machine
  PROVE  MachineTyped' /\ MachineOK'
  BY DEF MachineTyped, MachineOK, machine

\* What the app does keeps the types.
LEMMA AppKeepsTypes ==
  ASSUME Typed, ShotPass \/ ProfilePass \/ Crash
  PROVE  Typed'
<1> USE DEF AppTyped, HistoryTyped, history
<1>t. Typed
  OBVIOUS
<1>1. CASE AskShots
  <2>1. UNCHANGED machine /\ ReadIndex /\ UNCHANGED <<archive, mirrored, announced, sync, due, blurred, crossed>>
    BY <1>1 DEF AskShots
  <2> QED BY <1>t, <2>1, Planning, MachineUnchanged DEF Typed
<1>2. CASE Reconcile
  <2>1. pass' = [pass EXCEPT !.at = IF pass.errors THEN "failed" ELSE "ok"] /\ pass \in Passes
    BY <1>2, Reconciling DEF Reconcile
  <2>2. pass' \in Passes
    BY <2>1 DEF Passes
  <2>3. UNCHANGED machine /\ UNCHANGED <<mirrored, pushed, announced, sync, due, blurred, crossed>> /\ calm' \in BOOLEAN
    BY <1>2 DEF Reconcile, Typed
  <2> QED BY <1>t, <1>2, <2>2, <2>3, Reconciling, MachineUnchanged DEF Typed
<1>3. CASE EndPass
  BY <1>t, <1>3, MachineUnchanged DEF EndPass, Typed
<1>4. ASSUME NEW i \in pass.todo, Fetch(i)  PROVE Typed'
  <2>1. UNCHANGED machine /\ UNCHANGED <<mirrored, pushed, announced, sync, calm, due, blurred>> /\ pass' \in Passes
    BY <1>4, Fetching DEF Fetch
  <2>2. archive' \in Seq(Records) /\ crossed' \subseteq Shots
    <3>1. CASE FetchFails(i)
      BY <1>t, <3>1 DEF FetchFails, Typed
    <3>2. CASE FetchServes(i)
      <4>1. archive' \in Seq(Records)
        BY <1>4, <3>2, Storing DEF Fetch
      <4>2. files[i.number] \in {NoShot} \cup Shots
        BY <1>4, ItemTyped DEF Fetch, Typed, MachineTyped
      <4>3. crossed \subseteq Shots
        BY DEF Typed
      <4>4. crossed' \subseteq crossed \cup ({files[i.number]} \ {NoShot})
        BY <3>2 DEF FetchServes
      <4> QED BY <4>1, <4>2, <4>3, <4>4
    <3> QED BY <1>4, <3>1, <3>2 DEF Fetch
  <2> QED BY <1>t, <2>1, <2>2, MachineUnchanged DEF Typed
<1>5. CASE AskProfiles
  <2>1. LinkUnlinked(holds) /\ mirrored' = holds /\ holds \in Contents
    BY <1>5 DEF AskProfiles, Typed, MachineTyped
  <2>2. sync' \in Syncs
    BY <1>5 DEF AskProfiles, Syncs
  <2> QED BY <1>t, <1>5, <2>1, <2>2, Linking, MachineUnchanged DEF Typed, AskProfiles
<1>6. CASE LookFirst
  <2>0. sync \in Syncs
    BY <1>6, SyncTyped DEF LookFirst
  <2>1. sync' \in {NoSync} \cup Syncs
    <3>1. CASE sync' = NoSync
      BY <3>1
    <3>2. CASE sync' = [sync EXCEPT !.at = "pull", !.tries = 0]
      BY <2>0, <3>2 DEF Syncs
    <3> QED BY <1>6, <3>1, <3>2 DEF LookFirst, Leave
  <2> QED BY <1>t, <1>6, <2>1, MachineUnchanged DEF Typed, LookFirst
<1>7. CASE PullStarts
  <2>0. sync \in Syncs /\ sync' = [sync EXCEPT !.at = "pulling"]
    BY <1>7, SyncTyped DEF PullStarts, Step
  <2>1. sync' \in Syncs
    BY <2>0 DEF Syncs
  <2>2. due' \subseteq Shots /\ announced' = FALSE
    BY <1>7 DEF PullStarts
  <2>3. ReadIndex /\ UNCHANGED machine /\ UNCHANGED <<archive, mirrored, blurred, crossed>>
    BY <1>7 DEF PullStarts
  <2> QED BY <1>t, <2>1, <2>2, <2>3, Planning, MachineUnchanged DEF Typed
<1>8. CASE PullEnds
  <2>0. sync \in Syncs
    BY <1>8, SyncTyped DEF PullEnds
  <2>1. sync' \in Syncs
    <3>1. sync' = [sync EXCEPT !.at = "pull", !.pulled = IF Complete THEN "ok" ELSE "failed", !.tries = @ + 1]
      BY <1>8 DEF PullEnds
    <3>2. sync.tries \in Nat
      BY <2>0 DEF Syncs
    <3>5. sync.tries + 1 \in Nat
      BY <3>2
    <3>3. CASE Complete
      BY <2>0, <3>1, <3>3, <3>5 DEF Syncs
    <3>4. CASE ~Complete
      BY <2>0, <3>1, <3>4, <3>5 DEF Syncs
    <3> QED BY <3>3, <3>4
  <2>2. archive' \in Seq(Records)
    BY <1>t, <1>8, Linking DEF PullEnds, Typed
  <2>3. pass' = NoPass /\ UNCHANGED machine /\ UNCHANGED <<mirrored, pushed, announced, history>>
    BY <1>8 DEF PullEnds
  <2> QED BY <1>t, <2>1, <2>2, <2>3, MachineUnchanged DEF Typed
<1>9. CASE LookAgain
  <2>1. sync' \in {NoSync} \cup Syncs
    BY <1>9, SyncTyped DEF LookAgain, Leave, Step, Syncs
  <2>2. due' \subseteq Shots
    BY <1>9 DEF LookAgain, Typed, MachineTyped, MachineOK
  <2>3. UNCHANGED machine /\ UNCHANGED <<archive, mirrored, pushed, announced, pass, calm, blurred, crossed>>
    BY <1>9 DEF LookAgain
  <2> QED BY <1>t, <2>1, <2>2, <2>3, MachineUnchanged DEF Typed
<1>10. ASSUME NEW c \in Contents, Save(c)  PROVE Typed'
  <2>1. MachineTyped' /\ MachineOK'
    BY <1>t, <1>10 DEF Save, Typed, MachineTyped, MachineOK
  <2>2. blurred' \subseteq Shots /\ mirrored' \in Contents \cup {NoContent}
    <3>1. DOMAIN on \subseteq Shots
      BY ShotsAssumption DEF Typed, MachineTyped, Shots
    <3> QED BY <1>t, <1>10, <3>1 DEF Save, Typed
  <2>3. UNCHANGED <<archive, pushed, announced, pass, calm, due, crossed>> /\ sync' = NoSync
    BY <1>10 DEF Save, Leave
  <2> QED BY <1>t, <2>1, <2>2, <2>3 DEF Typed
<1>11. CASE Crash
  BY <1>t, <1>11, MachineUnchanged DEF Crash, Typed
<1> QED BY <1>1, <1>2, <1>3, <1>4, <1>5, <1>6, <1>7, <1>8, <1>9, <1>10, <1>11 DEF ShotPass, ProfilePass

\* Every step keeps the types.
LEMMA TypesKept ==
  ASSUME Typed, Older, [Next]_vars
  PROVE  Typed'
<1>1. CASE Next
  BY <1>1, MachineKeepsTypes, AppKeepsTypes DEF Next
<1>2. CASE UNCHANGED vars
  BY <1>2 DEF vars, machine, app, history, Typed, MachineTyped, MachineOK, AppTyped, HistoryTyped
<1> QED BY <1>1, <1>2

-----------------------------------------------------------------------------
(* The order of the shots. *)

\* What changes the files, the shots brewed or the one that is being brewed.
LEMMA WhatMovesFiles ==
  ASSUME Next
  PROVE  \/ UNCHANGED <<files, on, current>>
         \/ Brew \/ Saved \/ \E n \in Numbers : Cleanup(n)
<1>1. CASE AtMachine
  BY <1>1 DEF AtMachine, Finished, Rebuild, Rebuilt, Erase, List, Rate, Edit, Machine
<1>2. CASE ShotPass
  BY <1>2 DEF ShotPass, AskShots, Reconcile, EndPass, Fetch, machine
<1>3. CASE ProfilePass
  BY <1>3 DEF ProfilePass, AskProfiles, LookFirst, PullStarts, PullEnds, LookAgain, Save, machine
<1>4. CASE Crash
  BY <1>4 DEF Crash, machine
<1> QED BY <1>1, <1>2, <1>3, <1>4 DEF Next

\* No step gives a number to an earlier shot.
LEMMA BehindKept ==
  ASSUME Typed, Next, NEW n \in Numbers, NEW s \in Nat, Behind(n, s)
  PROVE  Behind(n, s)'
<1>0. current \in Nat /\ files \in [Numbers -> {NoShot} \cup Shots] /\ Len(on) \in Nat /\ s <= Len(on)
  BY DEF Typed, MachineTyped, Shots, NoShot, Behind
<1>1. CASE UNCHANGED <<files, on, current>>
  BY <1>1 DEF Behind
<1>2. CASE Brew
  <2>1. current' = Len(on) + 1 /\ files' = files /\ Len(on') = Len(on) + 1
    BY <1>2 DEF Brew, Typed, MachineTyped
  <2> QED BY <1>0, <2>1 DEF Behind
<1>3. CASE Saved
  <2>1. current # NoShot /\ current' = NoShot /\ files' = [files EXCEPT ![next] = current] /\ on' = on
    BY <1>3 DEF Saved
  <2> QED BY <1>0, <2>1 DEF Behind
<1>4. ASSUME NEW m \in Numbers, Cleanup(m)  PROVE Behind(n, s)'
  <2>1. files' = [files EXCEPT ![m] = NoShot] /\ on' = on /\ current' = current
    BY <1>4 DEF Cleanup, Machine
  <2> QED BY <1>0, <2>1 DEF Behind
<1> QED BY <1>1, <1>2, <1>3, <1>4, WhatMovesFiles

\* A file that is there afterwards was there before, or is the one just closed.
LEMMA NewFiles ==
  ASSUME Typed, Next, NEW n \in Numbers
  PROVE  \/ files'[n] = files[n] \/ files'[n] = NoShot
         \/ Saved /\ n = next /\ files'[n] = current /\ current # NoShot /\ current' = NoShot /\ on' = on
<1>1. files \in [Numbers -> {NoShot} \cup Shots]
  BY DEF Typed, MachineTyped
<1>2. CASE UNCHANGED files
  BY <1>2
<1>3. CASE Saved
  BY <1>1, <1>3 DEF Saved
<1>4. ASSUME NEW m \in Numbers, Cleanup(m)  PROVE files'[n] = files[n] \/ files'[n] = NoShot
  BY <1>1, <1>4 DEF Cleanup, Machine
<1> QED BY <1>2, <1>3, <1>4, WhatMovesFiles DEF Brew

\* A row is of the shot it was of, or of the file's, or of none.
LEMMA NewRows ==
  ASSUME Typed, Older, Next, NEW n \in Numbers
  PROVE  /\ rows'[n].shot \in {rows[n].shot, files[n], NoShot}
         /\ rows'[n].rating \in {NoShot, rows'[n].shot}
<1>1. rows \in [Numbers -> Rows \cup {NoRow}]
  BY DEF Typed, MachineTyped
<1>2. rows[n].rating \in {NoShot, rows[n].shot}
  BY DEF Older, RowOK
<1>3. CASE UNCHANGED rows
  BY <1>2, <1>3
<1>4. ASSUME NEW m \in Numbers, List(m)
      PROVE  rows'[n].shot \in {rows[n].shot, files[n], NoShot} /\ rows'[n].rating \in {NoShot, rows'[n].shot}
  BY <1>1, <1>2, <1>4 DEF List, Machine
<1>5. ASSUME NEW m \in Numbers, Rate(m)
      PROVE  rows'[n].shot \in {rows[n].shot, files[n], NoShot} /\ rows'[n].rating \in {NoShot, rows'[n].shot}
  <2>1. rows' = [rows EXCEPT ![m].rating = rows[m].shot]
    BY <1>5 DEF Rate, Machine
  <2>2. rows[n] \in Rows \/ rows[n] = NoRow
    BY <1>1
  <2>3. rows'[n].shot = rows[n].shot /\ rows'[n].rating \in {rows[n].rating, rows[n].shot}
    BY <1>1, <2>1, <2>2 DEF Rows, NoRow
  <2> QED BY <1>2, <2>3
<1>6. CASE Rebuilt
  BY <1>1, <1>2, <1>6 DEF Rebuilt, Machine, NoRow
<1>7. ASSUME NEW m \in Numbers, Cleanup(m)
      PROVE  rows'[n].shot \in {rows[n].shot, files[n], NoShot} /\ rows'[n].rating \in {NoShot, rows'[n].shot}
  <2>1. rows' = [rows EXCEPT ![m].deleted = TRUE] \/ rows' = rows
    BY <1>7 DEF Cleanup, Machine
  <2>2. rows[n] \in Rows \/ rows[n] = NoRow
    BY <1>1
  <2>3. rows'[n].shot = rows[n].shot /\ rows'[n].rating = rows[n].rating
    BY <1>1, <2>1, <2>2 DEF Rows, NoRow
  <2> QED BY <1>2, <2>3
<1>8. \/ UNCHANGED rows \/ Rebuilt \/ \E m \in Numbers : List(m) \/ Rate(m) \/ Cleanup(m)
  <2>1. CASE AtMachine
    BY <2>1 DEF AtMachine, Brew, Saved, Finished, Rebuild, Erase, Edit, Machine
  <2>2. CASE ShotPass
    BY <2>2 DEF ShotPass, AskShots, Reconcile, EndPass, Fetch, machine
  <2>3. CASE ProfilePass
    BY <2>3 DEF ProfilePass, AskProfiles, LookFirst, PullStarts, PullEnds, LookAgain, Save, machine
  <2>4. CASE Crash
    BY <2>4 DEF Crash, machine
  <2> QED BY <2>1, <2>2, <2>3, <2>4 DEF Next
<1> QED BY <1>3, <1>4, <1>5, <1>6, <1>7, <1>8

\* What changes the archive.
LEMMA WhatMovesArchive ==
  ASSUME Next
  PROVE  \/ UNCHANGED archive \/ Reconcile \/ AskProfiles \/ PullEnds
         \/ \E i \in pass.todo : Fetch(i) /\ FetchServes(i) /\ archive' # archive
<1>1. CASE AtMachine
  BY <1>1 DEF AtMachine, Brew, Saved, Finished, Rebuild, Rebuilt, Erase, Edit, List, Rate, Cleanup, Machine, app
<1>2. CASE ShotPass
  BY <1>2 DEF ShotPass, AskShots, EndPass, Fetch, FetchFails
<1>3. CASE ProfilePass
  BY <1>3 DEF ProfilePass, LookFirst, PullStarts, LookAgain, Save
<1>4. CASE Crash
  BY <1>4 DEF Crash
<1> QED BY <1>1, <1>2, <1>3, <1>4 DEF Next

\* A record is one that was there, of the same shot and number, or of the shot a fetch was served.
LEMMA NewRecords ==
  ASSUME Typed, Next
  PROVE  /\ archive' \in Seq(Records)
         /\ DOMAIN archive \subseteq DOMAIN archive'
         /\ \A k \in DOMAIN archive : archive'[k].shot = archive[k].shot /\ archive'[k].number = archive[k].number
         /\ \A k \in DOMAIN archive' : k \notin DOMAIN archive =>
              /\ k = Len(archive) + 1
              /\ \E i \in pass.todo :
                   /\ Fetch(i) /\ FetchServes(i) /\ files[i.number] \in Shots
                   /\ archive'[k].shot = files[i.number] /\ archive'[k].number = i.number
<1>t. archive \in Seq(Records)
  BY DEF Typed, AppTyped
<1>1. CASE UNCHANGED archive
  BY <1>1, <1>t
<1>2. CASE Reconcile
  BY <1>2, Reconciling
<1>3. ASSUME NEW c \in Contents \cup {NoContent}, LinkUnlinked(c)
      PROVE  /\ archive' \in Seq(Records) /\ DOMAIN archive' = DOMAIN archive
             /\ \A k \in DOMAIN archive : archive'[k].shot = archive[k].shot /\ archive'[k].number = archive[k].number
  BY <1>3, Linking
<1>4. CASE AskProfiles
  <2>1. LinkUnlinked(holds) /\ holds \in Contents \cup {NoContent}
    BY <1>4 DEF AskProfiles, Typed, MachineTyped
  <2> QED BY <1>3, <2>1
<1>5. CASE PullEnds
  <2>1. mirrored \in Contents \cup {NoContent}
    BY DEF Typed, AppTyped
  <2> QED BY <1>1, <1>3, <1>5, <2>1 DEF PullEnds
<1>6. ASSUME NEW i \in pass.todo, Fetch(i), FetchServes(i), archive' # archive
      PROVE  /\ archive' \in Seq(Records)
             /\ DOMAIN archive \subseteq DOMAIN archive'
             /\ \A k \in DOMAIN archive : archive'[k].shot = archive[k].shot /\ archive'[k].number = archive[k].number
             /\ \A k \in DOMAIN archive' : k \notin DOMAIN archive =>
                  /\ k = Len(archive) + 1 /\ files[i.number] \in Shots
                  /\ archive'[k].shot = files[i.number] /\ archive'[k].number = i.number
  <2>0. pass.at = "fetch"
    BY <1>6 DEF Fetch
  <2>1. archive' \in Seq(Records) /\ files[i.number] \in Shots /\ Stores(i)
    BY <1>6, <2>0, Storing
  <2>2. CASE \E start : archive' = Append(archive, Record(i, files[i.number], start))
    <3>1. PICK start : archive' = Append(archive, Record(i, files[i.number], start))
      BY <2>2
    <3>2. /\ Record(i, files[i.number], start).shot = files[i.number]
          /\ Record(i, files[i.number], start).number = i.number
      BY DEF Record
    <3>3. /\ DOMAIN archive' = DOMAIN archive \cup {Len(archive) + 1}
          /\ archive'[Len(archive) + 1] = Record(i, files[i.number], start)
          /\ \A k \in DOMAIN archive : archive'[k] = archive[k]
      BY <1>t, <3>1
    <3> QED BY <2>1, <3>2, <3>3
  <2>3. CASE /\ DOMAIN archive' = DOMAIN archive
             /\ \A k \in DOMAIN archive :
                  archive'[k] = IF k \in Adopted(i, files[i.number])
                                THEN [archive[k] EXCEPT !.start = i.row.shot] ELSE archive[k]
    <3>1. \A k \in DOMAIN archive : archive[k] \in Records
      BY RecordTyped
    <3> QED BY <2>1, <2>3, <3>1 DEF Records
  <2> QED BY <1>6, <2>1, <2>2, <2>3 DEF Stores
<1> QED BY <1>1, <1>2, <1>4, <1>5, <1>6, WhatMovesArchive

\* A plan is new, or what is left of the one there was.
LEMMA NewPlans ==
  ASSUME Typed, Next, pass'.at = "fetch"
  PROVE  \/ pass.at = "fetch" /\ pass'.index = pass.index /\ pass'.todo \subseteq pass.todo
         \/ (AskShots \/ PullStarts) /\ ReadIndex
<1>1. CASE UNCHANGED pass
  BY <1>1
<1>2. ASSUME NEW i \in pass.todo, Fetch(i)
      PROVE  pass.at = "fetch" /\ pass'.index = pass.index /\ pass'.todo \subseteq pass.todo
  BY <1>2, Fetching
<1>3. CASE AskShots \/ PullStarts
  BY <1>3 DEF AskShots, PullStarts
<1>4. CASE Reconcile
  <2>1. pass' = [pass EXCEPT !.at = IF pass.errors THEN "failed" ELSE "ok"] /\ pass \in Passes
    BY <1>4, Reconciling DEF Reconcile
  <2>2. pass'.at # "fetch"
    BY <2>1 DEF Passes
  <2> QED BY <2>2
<1>5. CASE pass' = NoPass
  BY <1>5 DEF NoPass
<1>6. UNCHANGED pass \/ AskShots \/ PullStarts \/ Reconcile \/ pass' = NoPass \/ \E i \in pass.todo : Fetch(i)
  <2>1. CASE AtMachine
    BY <2>1 DEF AtMachine, Brew, Saved, Finished, Rebuild, Rebuilt, Erase, Edit, List, Rate, Cleanup, Machine, app
  <2>2. CASE ShotPass
    BY <2>2 DEF ShotPass, EndPass
  <2>3. CASE ProfilePass
    BY <2>3 DEF ProfilePass, AskProfiles, LookFirst, PullEnds, LookAgain, Save
  <2>4. CASE Crash
    BY <2>4 DEF Crash
  <2> QED BY <2>1, <2>2, <2>3, <2>4 DEF Next
<1> QED BY <1>1, <1>2, <1>3, <1>4, <1>5, <1>6

\* What is known of a row stays so.
LEMMA RowKept ==
  ASSUME Typed, Next, NEW n \in Numbers, NEW r \in Rows \cup {NoRow}, RowOK(n, r)
  PROVE  RowOK(n, r)'
<1>1. r.shot \in Nat
  BY RowTyped DEF Shots, NoShot
<1> QED BY <1>1, BehindKept DEF RowOK

\* No shot is before every shot.
LEMMA NoShotIsBehind ==
  ASSUME Typed, NEW n \in Numbers
  PROVE  Behind(n, NoShot)
  BY DEF Typed, MachineTyped, Behind, NoShot, Shots

\* Every step keeps the order: numbers go to later shots only.
LEMMA OlderKept ==
  ASSUME Typed, Older, [Next]_vars
  PROVE  Older'
<1>t. Typed'
  BY TypesKept
<1>0. CASE UNCHANGED vars
  BY <1>0 DEF vars, machine, app, Older, RowOK, Behind
<1>1. ASSUME Next  PROVE \A n \in Numbers : Behind(n, files[n])'
  <2> SUFFICES ASSUME NEW n \in Numbers  PROVE Behind(n, files[n])'
    OBVIOUS
  <2>1. files[n] \in Nat /\ Behind(n, files[n])
    BY DEF Typed, MachineTyped, Older, Shots, NoShot
  <2>2. CASE files'[n] = files[n]
    <3>1. ASSUME NEW s \in Nat, Behind(n, s)  PROVE /\ s <= Len(on')
                                                    /\ current' # NoShot => s < current'
                                                    /\ files'[n] # NoShot => s <= files'[n]
      BY <1>1, <3>1, BehindKept DEF Behind
    <3> QED BY <2>1, <2>2, <3>1 DEF Behind
  <2>3. CASE files'[n] = NoShot
    BY <1>t, <2>3 DEF Typed, MachineTyped, Behind, NoShot, Shots
  <2>4. CASE files'[n] = current /\ current # NoShot /\ current' = NoShot /\ on' = on
    BY <2>4 DEF Typed, MachineTyped, MachineOK, Behind, Shots, NoShot
  <2> QED BY <1>1, <2>2, <2>3, <2>4, NewFiles
<1>2. ASSUME Next  PROVE \A n \in Numbers : RowOK(n, rows[n])'
  <2> SUFFICES ASSUME NEW n \in Numbers  PROVE RowOK(n, rows[n])'
    OBVIOUS
  <2>1. rows'[n].shot \in {rows[n].shot, files[n], NoShot} /\ rows'[n].rating \in {NoShot, rows'[n].shot}
    BY <1>2, NewRows
  <2>2. Behind(n, rows[n].shot) /\ Behind(n, files[n]) /\ Behind(n, NoShot)
    BY NoShotIsBehind DEF Older, RowOK
  <2>3. rows[n].shot \in Nat /\ files[n] \in Nat /\ NoShot \in Nat
    BY RowTyped DEF Typed, MachineTyped, Shots, NoShot
  <2>4. ASSUME NEW s \in Nat, Behind(n, s)  PROVE /\ s <= Len(on')
                                                  /\ current' # NoShot => s < current'
                                                  /\ files'[n] # NoShot => s <= files'[n]
    BY <1>2, <2>4, BehindKept DEF Behind
  <2> QED BY <2>1, <2>2, <2>3, <2>4 DEF RowOK, Behind
<1>3. ASSUME Next  PROVE \A k \in DOMAIN archive' : Behind(archive[k].number, archive[k].shot)'
  <2> SUFFICES ASSUME NEW k \in DOMAIN archive'
               PROVE  Behind(archive[k].number, archive[k].shot)'
    OBVIOUS
  <2>4. ASSUME NEW n \in Numbers, NEW s \in Nat, Behind(n, s)
        PROVE  /\ s <= Len(on')
               /\ current' # NoShot => s < current'
               /\ files'[n] # NoShot => s <= files'[n]
    BY <1>3, <2>4, BehindKept DEF Behind
  <2>1. CASE k \in DOMAIN archive
    <3>1. archive'[k].shot = archive[k].shot /\ archive'[k].number = archive[k].number
      BY <1>3, <2>1, NewRecords
    <3>2. archive[k].shot \in Nat /\ archive[k].number \in Numbers /\ Behind(archive[k].number, archive[k].shot)
      BY <2>1, RecordTyped DEF Older, Shots
    <3> QED BY <2>4, <3>1, <3>2 DEF Behind
  <2>2. CASE k \notin DOMAIN archive
    <3>1. PICK i \in pass.todo : /\ Fetch(i) /\ files[i.number] \in Shots
                                 /\ archive'[k].shot = files[i.number] /\ archive'[k].number = i.number
      BY <1>3, <2>2, NewRecords
    <3>2. i.number \in Numbers
      BY <3>1, ItemTyped DEF Fetch
    <3>3. Behind(i.number, files[i.number]) /\ files[i.number] \in Nat
      BY <3>1, <3>2 DEF Older, Shots
    <3> QED BY <2>4, <3>1, <3>2, <3>3 DEF Behind
  <2> QED BY <2>1, <2>2
<1>4. ASSUME Next, pass'.at = "fetch"
      PROVE  /\ \A n \in Numbers : RowOK(n, pass.index[n])'
             /\ \A i \in pass'.todo : RowOK(i.number, i.row)'
  <2>1. CASE pass.at = "fetch" /\ pass'.index = pass.index /\ pass'.todo \subseteq pass.todo
    <3>1. pass.index \in [Numbers -> Rows \cup {NoRow}]
      BY <2>1, ItemTyped DEF Passes
    <3>2. ASSUME NEW n \in Numbers  PROVE RowOK(n, pass.index[n])'
      <4>1. pass.index[n] \in Rows \cup {NoRow} /\ RowOK(n, pass.index[n])
        BY <2>1, <3>1 DEF Older
      <4>2. ASSUME NEW r \in Rows \cup {NoRow}, RowOK(n, r)  PROVE RowOK(n, r)'
        BY <1>4, <4>2, RowKept
      <4> QED BY <2>1, <4>1, <4>2 DEF RowOK, Behind
    <3>3. ASSUME NEW i \in pass'.todo  PROVE RowOK(i.number, i.row)'
      <4>1. i \in pass.todo /\ i.number \in Numbers /\ i.row \in Rows \cup {NoRow} /\ RowOK(i.number, i.row)
        BY <2>1, ItemTyped DEF Older
      <4> QED BY <1>4, <4>1, RowKept
    <3> QED BY <3>2, <3>3
  <2>2. CASE (AskShots \/ PullStarts) /\ ReadIndex
    <3> DEFINE index == IF served THEN rows ELSE Empty
    <3>1. UNCHANGED <<files, on, current>>
      BY <2>2 DEF AskShots, PullStarts, machine
    <3>2. pass'.index = index /\ pass'.todo = Missing(index)
      <4>1. pass' # Failed
        BY <1>4 DEF Failed
      <4> QED BY <2>2, <4>1, Planning
    <3>3. ASSUME NEW n \in Numbers  PROVE RowOK(n, index[n]) /\ RowOK(n, NoRow)
      <4>1. RowOK(n, NoRow)
        BY NoShotIsBehind DEF RowOK, NoRow
      <4> QED BY <4>1 DEF Older, Empty
    <3>4. \A n \in Numbers : RowOK(n, index[n])' /\ RowOK(n, NoRow)'
      BY <3>1, <3>3, <1>2, <1>4 DEF RowOK, Behind, Empty
    <3>5. \A i \in Missing(index) : i.number \in Numbers /\ i.row \in {index[i.number], NoRow}
      BY DEF Missing, Typed, AppTyped
    <3> HIDE DEF index
    <3> QED BY <3>1, <3>2, <3>3, <3>5 DEF RowOK, Behind
  <2> QED BY <1>4, <2>1, <2>2, NewPlans
<1> QED BY <1>0, <1>1, <1>2, <1>3, <1>4 DEF Older

-----------------------------------------------------------------------------
(* The records of the archive. *)

\* A record that a fetch adds.
LEMMA Added ==
  ASSUME Typed, Next, NEW k \in DOMAIN archive', k \notin DOMAIN archive
  PROVE  \E i \in pass.todo : \E start \in {files[i.number], i.row.shot} :
           /\ Fetch(i) /\ FetchServes(i) /\ pass.at = "fetch" /\ files[i.number] \in Shots /\ k = Len(archive) + 1
           /\ archive' = Append(archive, Record(i, files[i.number], start))
           /\ archive'[k] = Record(i, files[i.number], start)
           /\ files[i.number] \notin unreadable => start = files[i.number] /\ ~Held(i.number, files[i.number])
           /\ files[i.number] \in unreadable => start = i.row.shot
<1>1. PICK i \in pass.todo : Fetch(i) /\ FetchServes(i) /\ files[i.number] \in Shots /\ k = Len(archive) + 1
  BY NewRecords
<1>2. pass.at = "fetch" /\ archive \in Seq(Records)
  BY <1>1 DEF Fetch, Typed, AppTyped
<1>3. Stores(i)
  BY <1>1, <1>2, Storing
<1>4. archive' # archive /\ DOMAIN archive' # DOMAIN archive
  OBVIOUS
<1>5. PICK start \in {files[i.number], i.row.shot} :
        /\ archive' = Append(archive, Record(i, files[i.number], start))
        /\ files[i.number] \notin unreadable => start = files[i.number] /\ ~Held(i.number, files[i.number])
        /\ files[i.number] \in unreadable => start = i.row.shot
  BY <1>3, <1>4 DEF Stores
<1>6. archive'[k] = Record(i, files[i.number], start)
  BY <1>1, <1>2, <1>5
<1> QED BY <1>1, <1>2, <1>5, <1>6

\* A record keeps its start, unless it is of a shot that was stored before a row listed it.
LEMMA NewStarts ==
  ASSUME Typed, Next, NEW k \in DOMAIN archive
  PROVE  \/ archive'[k].start = archive[k].start
         \/ \E i \in pass.todo : /\ Fetch(i) /\ FetchServes(i) /\ pass.at = "fetch" /\ i.row # NoRow
                                 /\ archive[k].shot \in unreadable /\ archive[k].number = i.number
                                 /\ files[i.number] = archive[k].shot /\ archive'[k].start = i.row.shot
<1>1. CASE UNCHANGED archive
  BY <1>1
<1>2. CASE Reconcile
  BY <1>2, Reconciling
<1>3. CASE AskProfiles
  <2>1. LinkUnlinked(holds) /\ holds \in Contents \cup {NoContent}
    BY <1>3 DEF AskProfiles, Typed, MachineTyped
  <2> QED BY <2>1, Linking
<1>4. CASE PullEnds
  <2>1. mirrored \in Contents \cup {NoContent} /\ (LinkUnlinked(mirrored) \/ UNCHANGED archive)
    BY <1>4 DEF PullEnds, Typed, AppTyped
  <2> QED BY <2>1, Linking
<1>5. ASSUME NEW i \in pass.todo, Fetch(i), FetchServes(i)
      PROVE  \/ archive'[k].start = archive[k].start
             \/ /\ pass.at = "fetch" /\ i.row # NoRow
                /\ archive[k].shot \in unreadable /\ archive[k].number = i.number
                /\ files[i.number] = archive[k].shot /\ archive'[k].start = i.row.shot
  <2>1. pass.at = "fetch" /\ Stores(i) /\ archive \in Seq(Records)
    BY <1>5, Storing DEF Fetch, Typed, AppTyped
  <2>2. CASE \E start : archive' = Append(archive, Record(i, files[i.number], start))
    <3>1. archive'[k] = archive[k]
      BY <2>1, <2>2
    <3> QED BY <3>1
  <2>3. CASE /\ files[i.number] \in unreadable /\ i.row # NoRow
             /\ archive'[k] = IF k \in Adopted(i, files[i.number])
                              THEN [archive[k] EXCEPT !.start = i.row.shot] ELSE archive[k]
    <3>1. archive[k] \in Records
      BY RecordTyped
    <3> QED BY <2>1, <2>3, <3>1 DEF Records, Adopted
  <2> QED BY <2>1, <2>2, <2>3 DEF Stores
<1> QED BY <1>1, <1>2, <1>3, <1>4, <1>5, WhatMovesArchive

\* A record keeps its link, unless it had none.
LEMMA NewLinks ==
  ASSUME Typed, Next, NEW k \in DOMAIN archive
  PROVE  /\ \/ archive'[k].link = archive[k].link
            \/ /\ archive[k].link = NoContent /\ archive[k].shot \notin unreadable
               /\ \/ AskProfiles /\ archive'[k].link = holds
                  \/ PullEnds /\ archive'[k].link = mirrored
         /\ AskProfiles /\ archive[k].shot \notin unreadable => archive'[k].link # NoContent
<1>0. archive[k].link \in Contents \cup {NoContent} /\ holds \in Contents /\ mirrored \in Contents \cup {NoContent}
  BY RecordTyped DEF Typed, MachineTyped, AppTyped
<1>1. ASSUME AskProfiles
      PROVE  archive'[k].link = IF archive[k].link = NoContent /\ archive[k].shot \notin unreadable
                                THEN holds ELSE archive[k].link
  BY <1>0, <1>1, Linking DEF AskProfiles
<1>2. CASE AskProfiles
  BY <1>0, <1>1, <1>2, ShotsAssumption
<1>3. CASE ~AskProfiles
  <2>1. CASE UNCHANGED archive
    BY <1>3, <2>1
  <2>2. CASE Reconcile
    BY <1>3, <2>2, Reconciling
  <2>3. CASE PullEnds
    <3>1. CASE UNCHANGED archive
      BY <1>3, <3>1
    <3>2. CASE LinkUnlinked(mirrored)
      <4>1. archive'[k].link = IF archive[k].link = NoContent /\ archive[k].shot \notin unreadable
                               THEN mirrored ELSE archive[k].link
        BY <1>0, <3>2, Linking
      <4> QED BY <1>3, <2>3, <4>1
    <3> QED BY <2>3, <3>1, <3>2 DEF PullEnds
  <2>4. ASSUME NEW i \in pass.todo, Fetch(i), FetchServes(i)  PROVE archive'[k].link = archive[k].link
    <3>1. Stores(i) /\ archive \in Seq(Records) /\ archive[k] \in Records
      BY <2>4, Storing, RecordTyped DEF Fetch, Typed, AppTyped
    <3>2. CASE \E start : archive' = Append(archive, Record(i, files[i.number], start))
      <4>1. archive'[k] = archive[k]
        BY <3>1, <3>2
      <4> QED BY <4>1
    <3>3. CASE archive'[k] = IF k \in Adopted(i, files[i.number])
                             THEN [archive[k] EXCEPT !.start = i.row.shot] ELSE archive[k]
      BY <3>1, <3>3 DEF Records
    <3> QED BY <3>1, <3>2, <3>3 DEF Stores
  <2> QED BY <1>3, <2>1, <2>2, <2>3, <2>4, WhatMovesArchive
<1> QED BY <1>2, <1>3

\* A record keeps its rating, unless a row of the index describes it.
LEMMA NewRatings ==
  ASSUME Typed, Next, NEW k \in DOMAIN archive
  PROVE  \/ archive'[k].rating = archive[k].rating
         \/ Reconcile /\ Pairs(pass.index, k) /\ archive'[k].rating = pass.index[archive[k].number].rating
<1>1. CASE UNCHANGED archive
  BY <1>1
<1>2. CASE Reconcile
  BY <1>2, Reconciling
<1>3. CASE AskProfiles
  <2>1. LinkUnlinked(holds) /\ holds \in Contents \cup {NoContent}
    BY <1>3 DEF AskProfiles, Typed, MachineTyped
  <2> QED BY <2>1, Linking
<1>4. CASE PullEnds
  <2>1. mirrored \in Contents \cup {NoContent} /\ (LinkUnlinked(mirrored) \/ UNCHANGED archive)
    BY <1>4 DEF PullEnds, Typed, AppTyped
  <2> QED BY <2>1, Linking
<1>5. ASSUME NEW i \in pass.todo, Fetch(i), FetchServes(i)  PROVE archive'[k].rating = archive[k].rating
  <2>1. Stores(i) /\ archive \in Seq(Records) /\ archive[k] \in Records
    BY <1>5, Storing, RecordTyped DEF Fetch, Typed, AppTyped
  <2>2. CASE \E start : archive' = Append(archive, Record(i, files[i.number], start))
    <3>1. archive'[k] = archive[k]
      BY <2>1, <2>2
    <3> QED BY <3>1
  <2>3. CASE archive'[k] = IF k \in Adopted(i, files[i.number])
                           THEN [archive[k] EXCEPT !.start = i.row.shot] ELSE archive[k]
    BY <2>1, <2>3 DEF Records
  <2> QED BY <2>1, <2>2, <2>3 DEF Stores
<1> QED BY <1>1, <1>2, <1>3, <1>4, <1>5, WhatMovesArchive

\* Whether a file parses never changes, and only two steps change what the archive says the file holds.
LEMMA WhatMirrors ==
  ASSUME Next
  PROVE  /\ unreadable' = unreadable
         /\ mirrored' = mirrored \/ AskProfiles \/ \E c \in Contents : Save(c)
         /\ crossed \subseteq crossed'
<1>1. CASE AtMachine
  BY <1>1 DEF AtMachine, Brew, Saved, Finished, Rebuild, Rebuilt, Erase, Edit, List, Rate, Cleanup, Machine, app, history
<1>2. CASE ShotPass
  BY <1>2 DEF ShotPass, AskShots, Reconcile, EndPass, Fetch, FetchServes, FetchFails, machine, history
<1>3. CASE ProfilePass
  BY <1>3 DEF ProfilePass, AskProfiles, LookFirst, PullStarts, PullEnds, LookAgain, Save, machine, history
<1>4. CASE Crash
  BY <1>4 DEF Crash, machine
<1> QED BY <1>1, <1>2, <1>3, <1>4 DEF Next

\* Every step keeps what a record says of its shot and what it is linked to.
LEMMA RecordsKept ==
  ASSUME Typed, Older, RecordsOK, DueOK, [Next]_vars
  PROVE  RecordsOK'
<1>0. CASE UNCHANGED vars
  BY <1>0 DEF vars, machine, app, RecordsOK, RecordOK
<1>m. ASSUME Next
      PROVE  /\ unreadable' = unreadable
             /\ mirrored # NoContent => mirrored' # NoContent
             /\ mirrored' # mirrored /\ mirrored = NoContent => AskProfiles
  <2>1. ASSUME NEW c \in Contents, Save(c)  PROVE mirrored # NoContent /\ mirrored' # NoContent
    BY <2>1, ShotsAssumption DEF Save, DueOK
  <2>2. AskProfiles => mirrored' # NoContent
    BY ShotsAssumption DEF AskProfiles, Typed, MachineTyped
  <2> QED BY <1>m, <2>1, <2>2, WhatMirrors
<1>1. ASSUME Next, NEW k \in DOMAIN archive, NEW n \in Numbers, files'[n] = archive[k].shot
      PROVE  archive[k].number = n
  <2>1. archive[k].shot \in Shots /\ archive[k].number \in Numbers /\ Behind(archive[k].number, archive[k].shot)
    BY RecordTyped DEF Older
  <2>2. CASE files'[n] = files[n]
    BY <1>1, <2>2 DEF RecordsOK, RecordOK
  <2>3. CASE files'[n] = NoShot
    BY <1>1, <2>1, <2>3 DEF Shots, NoShot
  <2>4. CASE files'[n] = current /\ current # NoShot
    BY <1>1, <2>1, <2>4 DEF Behind, Shots
  <2> QED BY <1>1, <2>2, <2>3, <2>4, NewFiles
<1>2. ASSUME Next, NEW k \in DOMAIN archive'  PROVE RecordOK(archive[k])'
  <2>1. CASE k \in DOMAIN archive
    <3>1. archive'[k].shot = archive[k].shot /\ archive'[k].number = archive[k].number /\ RecordOK(archive[k])
      BY <1>2, <2>1, NewRecords DEF RecordsOK
    <3>2. \A n \in Numbers : files'[n] = archive'[k].shot => archive'[k].number = n
      BY <1>1, <1>2, <2>1, <3>1
    <3>3. /\ archive'[k].start <= archive'[k].shot
          /\ archive'[k].shot \notin unreadable => archive'[k].start = archive'[k].shot
      <4>1. CASE archive'[k].start = archive[k].start
        BY <3>1, <4>1 DEF RecordOK
      <4>2. ASSUME NEW i \in pass.todo, pass.at = "fetch", i.row # NoRow, archive[k].shot \in unreadable,
                   archive[k].number = i.number, files[i.number] = archive[k].shot, archive'[k].start = i.row.shot
            PROVE  archive'[k].start <= archive'[k].shot /\ archive'[k].shot \in unreadable
        <5>1. Behind(i.number, i.row.shot)
          BY <4>2 DEF Older, RowOK
        <5>2. archive[k].shot # NoShot
          BY <2>1, RecordTyped DEF Shots, NoShot
        <5> QED BY <3>1, <4>2, <5>1, <5>2 DEF Behind
      <4> QED BY <1>2, <2>1, <3>1, <4>1, <4>2, NewStarts
    <3>4. /\ archive'[k].shot \in unreadable => archive'[k].link = NoContent
          /\ mirrored' = NoContent => archive'[k].link = NoContent
          /\ mirrored' # NoContent /\ archive'[k].shot \notin unreadable => archive'[k].link # NoContent
      <4>1. /\ archive'[k].link = archive[k].link
               \/ /\ archive[k].link = NoContent /\ archive[k].shot \notin unreadable
                  /\ \/ AskProfiles /\ archive'[k].link = holds
                     \/ PullEnds /\ archive'[k].link = mirrored
            /\ AskProfiles /\ archive[k].shot \notin unreadable => archive'[k].link # NoContent
        BY <1>2, <2>1, NewLinks
      <4>2. PullEnds => mirrored' = mirrored
        BY DEF PullEnds
      <4>3. AskProfiles => mirrored' # NoContent
        BY ShotsAssumption DEF AskProfiles, Typed, MachineTyped
      <4> QED BY <1>2, <1>m, <3>1, <4>1, <4>2, <4>3 DEF RecordOK
    <3> QED BY <1>2, <1>m, <3>2, <3>3, <3>4 DEF RecordOK
  <2>2. CASE k \notin DOMAIN archive
    <3>1. PICK i \in pass.todo : \E start \in {files[i.number], i.row.shot} :
           /\ Fetch(i) /\ pass.at = "fetch" /\ files[i.number] \in Shots
           /\ archive'[k] = Record(i, files[i.number], start)
           /\ files[i.number] \notin unreadable => start = files[i.number]
           /\ files[i.number] \in unreadable => start = i.row.shot
      BY <1>2, <2>2, Added
    <3>2. PICK start \in {files[i.number], i.row.shot} :
           /\ archive'[k] = Record(i, files[i.number], start)
           /\ files[i.number] \notin unreadable => start = files[i.number]
           /\ files[i.number] \in unreadable => start = i.row.shot
      BY <3>1
    <3>3. /\ archive'[k].shot = files[i.number] /\ archive'[k].number = i.number /\ archive'[k].start = start
          /\ archive'[k].link = IF files[i.number] \in unreadable THEN NoContent ELSE mirrored
      BY <3>2 DEF Record
    <3>4. mirrored' = mirrored /\ files' = files
      BY <3>1 DEF Fetch, machine
    <3>5. start <= files[i.number]
      <4>1. Behind(i.number, i.row.shot) /\ files[i.number] # NoShot
        BY <3>1 DEF Older, RowOK, Shots, NoShot
      <4> QED BY <3>1, <4>1 DEF Behind, Shots
    <3>6. \A n \in Numbers : files'[n] = archive'[k].shot => archive'[k].number = n
      <4>1. i.number \in Numbers /\ files[i.number] # NoShot
        BY <3>1, ItemTyped DEF Shots, NoShot
      <4> QED BY <3>3, <3>4, <4>1 DEF Typed, MachineOK
    <3> QED BY <1>2, <1>m, <3>2, <3>3, <3>4, <3>5, <3>6 DEF RecordOK
  <2> QED BY <2>1, <2>2
<1> QED BY <1>0, <1>2 DEF RecordsOK

\* A record that starts when a file's shot did is that shot's.
LEMMA SameStart ==
  ASSUME Typed, Older, RecordsOK, NEW k \in DOMAIN archive,
         archive[k].start = files[archive[k].number], files[archive[k].number] # NoShot
  PROVE  archive[k].shot = files[archive[k].number]
<1>1. /\ archive[k].shot \in Shots /\ Behind(archive[k].number, archive[k].shot)
      /\ archive[k].start <= archive[k].shot
  BY RecordTyped DEF Older, RecordsOK, RecordOK
<1>2. archive[k].shot <= archive[k].start
  BY <1>1 DEF Behind
<1>3. archive[k].shot \in Nat /\ archive[k].start \in Nat
  BY RecordTyped DEF Shots, Unknown
<1> QED BY <1>1, <1>2, <1>3

\* Every step writes to a shot its own facts only.
LEMMA FactsKept ==
  ASSUME Typed, Older, OwnFacts, [Next]_vars
  PROVE  OwnFacts'
<1>0. CASE UNCHANGED vars
  BY <1>0 DEF vars, app, history, OwnFacts
<1>1. ASSUME Next, NEW k \in DOMAIN archive', archive'[k].shot \notin crossed'
      PROVE  archive'[k].rating \in {NoShot, archive'[k].shot} /\ archive'[k].start \in {Unknown, archive'[k].shot}
  <2>0. crossed \subseteq crossed'
    BY <1>1, WhatMirrors
  <2>c. ASSUME NEW i \in pass.todo, FetchServes(i), i.row # NoRow, files[i.number] \notin crossed', files[i.number] # NoShot
        PROVE  i.row.shot = files[i.number]
    BY <2>c DEF FetchServes
  <2>1. CASE k \in DOMAIN archive
    <3>1. archive'[k].shot = archive[k].shot /\ archive[k].shot \in Shots /\ archive[k].number \in Numbers
      BY <1>1, <2>1, NewRecords, RecordTyped
    <3>2. archive[k].rating \in {NoShot, archive[k].shot} /\ archive[k].start \in {Unknown, archive[k].shot}
      BY <1>1, <2>0, <2>1, <3>1 DEF OwnFacts
    <3>3. archive'[k].start \in {Unknown, archive'[k].shot}
      <4>1. ASSUME NEW i \in pass.todo, FetchServes(i), i.row # NoRow,
                   files[i.number] = archive[k].shot, archive'[k].start = i.row.shot
            PROVE  archive'[k].start = archive'[k].shot
        BY <1>1, <2>c, <3>1, <4>1 DEF Shots, NoShot
      <4> QED BY <1>1, <2>1, <3>1, <3>2, <4>1, NewStarts
    <3>4. archive'[k].rating \in {NoShot, archive'[k].shot}
      <4>1. ASSUME Reconcile, Pairs(pass.index, k)
            PROVE  pass.index[archive[k].number].rating \in {NoShot, archive[k].shot}
        <5>1. pass \in Passes /\ pass.at = "fetch"
          BY <4>1, Reconciling DEF Reconcile
        <5>2. pass.index[archive[k].number] \in Rows \cup {NoRow} /\ RowOK(archive[k].number, pass.index[archive[k].number])
          BY <3>1, <5>1 DEF Passes, Older
        <5>3. /\ pass.index[archive[k].number] # NoRow
              /\ archive[k].start = pass.index[archive[k].number].shot
          BY <4>1 DEF Pairs, Describes
        <5>4. pass.index[archive[k].number].shot # Unknown
          BY <5>2, <5>3, RowTyped DEF Unknown, NoShot
        <5> QED BY <3>2, <5>2, <5>3, <5>4 DEF RowOK
      <4> QED BY <1>1, <2>1, <3>1, <3>2, <4>1, NewRatings
    <3> QED BY <3>3, <3>4
  <2>2. CASE k \notin DOMAIN archive
    <3>1. PICK i \in pass.todo : \E start \in {files[i.number], i.row.shot} :
           /\ FetchServes(i) /\ pass.at = "fetch" /\ files[i.number] \in Shots
           /\ archive'[k] = Record(i, files[i.number], start)
      BY <1>1, <2>2, Added
    <3>2. PICK start \in {files[i.number], i.row.shot} : archive'[k] = Record(i, files[i.number], start)
      BY <3>1
    <3>3. archive'[k].shot = files[i.number] /\ archive'[k].start = start /\ archive'[k].rating = i.row.rating
      BY <3>2 DEF Record
    <3>4. i.row.rating \in {NoShot, i.row.shot} /\ (i.row # NoRow => i.row.shot = files[i.number])
      BY <1>1, <2>c, <3>1, <3>3 DEF Older, RowOK, Shots, NoShot
    <3>5. i.row = NoRow => i.row.shot = Unknown /\ i.row.rating = NoShot
      BY DEF NoRow, Unknown, NoShot
    <3> QED BY <3>2, <3>3, <3>4, <3>5
  <2> QED BY <2>1, <2>2
<1> QED BY <1>0, <1>1 DEF OwnFacts

-----------------------------------------------------------------------------
(* Links. *)

\* What a shot was brewed on is kept, and so is that the app could not know it.
LEMMA BrewedKept ==
  ASSUME Typed, Next
  PROVE  /\ DOMAIN on \subseteq DOMAIN on' /\ blurred \subseteq blurred'
         /\ \A s \in DOMAIN on : on'[s] = on[s]
         /\ \A s \in DOMAIN on' : s \in DOMAIN on \/ (Brew /\ s = Len(on) + 1)
<1>0. on \in Seq(Contents)
  BY DEF Typed, MachineTyped
<1>1. CASE Brew
  <2>1. on' = Append(on, holds) /\ blurred \subseteq blurred'
    BY <1>1 DEF Brew
  <2> QED BY <1>0, <1>1, <2>1
<1>2. CASE UNCHANGED on /\ blurred \subseteq blurred'
  BY <1>2
<1>3. Brew \/ (UNCHANGED on /\ blurred \subseteq blurred')
  <2>1. CASE AtMachine
    BY <2>1 DEF AtMachine, Saved, Finished, Rebuild, Rebuilt, Erase, Edit, List, Rate, Cleanup, Machine, history
  <2>2. CASE ShotPass
    BY <2>2 DEF ShotPass, AskShots, Reconcile, EndPass, Fetch, machine, history
  <2>3. CASE ProfilePass
    BY <2>3 DEF ProfilePass, AskProfiles, LookFirst, PullStarts, PullEnds, LookAgain, Save, machine, history
  <2>4. CASE Crash
    BY <2>4 DEF Crash, machine
  <2> QED BY <2>1, <2>2, <2>3, <2>4 DEF Next
<1> QED BY <1>1, <1>2, <1>3

\* A shot whose file parses is stored once, under its own number.
LEMMA StoredIsHeld ==
  ASSUME Typed, RecordsOK, NEW n \in Numbers, files[n] \in Shots \ unreadable, Archived(files[n])
  PROVE  Held(n, files[n])
<1>1. PICK k \in DOMAIN archive : archive[k].shot = files[n]
  BY DEF Archived
<1>2. archive[k].start = files[n] /\ archive[k].number = n
  BY <1>1 DEF RecordsOK, RecordOK
<1> QED BY <1>2 DEF Held

\* A record of a readable shot that has no link is of a shot still to be linked.
LEMMA UnlinkedIsPending ==
  ASSUME Typed, Older, NEW k \in DOMAIN archive, archive[k].link = NoContent, archive[k].shot \notin unreadable
  PROVE  Pending(archive[k].shot)
<1>1. archive[k].shot \in 1..Len(on)
  BY RecordTyped DEF Older, Behind, Shots, Typed, MachineTyped
<1> QED BY <1>1 DEF Pending, Typed, MachineTyped

\* A shot that a fetch stores was still to be linked.
LEMMA FetchedIsPending ==
  ASSUME Typed, Older, RecordsOK, NEW n \in Numbers, files[n] \in Shots \ unreadable, ~Held(n, files[n])
  PROVE  Pending(files[n]) /\ ~Archived(files[n])
<1>1. files[n] \in 1..Len(on)
  BY DEF Older, Behind, Shots, Typed, MachineTyped
<1>2. ~Archived(files[n])
  BY StoredIsHeld
<1> QED BY <1>1, <1>2 DEF Pending, Obtainable, Typed, MachineTyped

\* A shot that is still to be linked was so before, or is just being brewed.
LEMMA PendingBefore ==
  ASSUME Typed, Older, RecordsOK, Next, NEW s \in Shots, Pending(s)'
  PROVE  Pending(s) \/ (Brew /\ s = Len(on) + 1 /\ s \notin DOMAIN on)
<1>0. s \in DOMAIN on' /\ s \notin unreadable /\ s # NoShot
  BY WhatMirrors DEF Pending, Shots, NoShot
<1>1. CASE Obtainable(s)' /\ ~Archived(s)'
  <2>1. ~Archived(s)
    BY <1>1, NewRecords DEF Archived
  <2>2. CASE Brew /\ s = Len(on) + 1
    BY <2>2 DEF Typed, MachineTyped
  <2>3. CASE s \in DOMAIN on
    <3>1. CASE s = current'
      <4>1. current' = current \/ Brew \/ Saved
        BY WhatMovesFiles DEF Cleanup, Machine
      <4>2. Brew => s = Len(on) + 1
        BY <3>1 DEF Brew
      <4>3. Saved => current' = NoShot
        BY DEF Saved
      <4>4. Brew => s \notin DOMAIN on
        BY <4>2 DEF Typed, MachineTyped
      <4> QED BY <1>0, <2>1, <2>3, <3>1, <4>1, <4>3, <4>4 DEF Pending, Obtainable
    <3>2. ASSUME NEW n \in Numbers, files'[n] = s  PROVE Pending(s)
      <4>1. files[n] = s \/ s = current
        BY <1>0, <3>2, NewFiles
      <4> QED BY <1>0, <2>1, <2>3, <4>1 DEF Pending, Obtainable
    <3> QED BY <1>1, <3>1, <3>2 DEF Obtainable
  <2> QED BY <1>0, <2>2, <2>3, BrewedKept
<1>2. ASSUME NEW k \in DOMAIN archive', archive'[k].shot = s, archive'[k].link = NoContent
      PROVE  Pending(s)
  <2>1. CASE k \in DOMAIN archive
    <3>1. archive[k].shot = s /\ archive[k].link = NoContent
      BY <1>2, <2>1, NewRecords, NewLinks
    <3> QED BY <1>0, <2>1, <3>1, UnlinkedIsPending
  <2>2. CASE k \notin DOMAIN archive
    <3>1. PICK i \in pass.todo : \E start \in {files[i.number], i.row.shot} :
           /\ pass.at = "fetch" /\ files[i.number] \in Shots
           /\ archive'[k] = Record(i, files[i.number], start)
           /\ files[i.number] \notin unreadable => ~Held(i.number, files[i.number])
      BY <2>2, Added
    <3>2. files[i.number] = s
      BY <1>2, <3>1 DEF Record
    <3>3. i.number \in Numbers
      BY <3>1, ItemTyped
    <3> QED BY <1>0, <3>1, <3>2, <3>3, FetchedIsPending
  <2> QED BY <2>1, <2>2
<1> QED BY <1>1, <1>2 DEF Pending

\* Every step keeps what the shots still to be linked were brewed on, or counts them as blurred.
LEMMA PendingKept ==
  ASSUME Typed, Older, RecordsOK, PendingOK, DueOK, [Next]_vars
  PROVE  PendingOK'
<1>0. CASE UNCHANGED vars
  BY <1>0 DEF vars, machine, app, history, PendingOK, Pending, Obtainable, Archived
<1>1. ASSUME Next, NEW s \in Shots, Pending(s)', s \notin blurred'
      PROVE  on'[s] = holds' /\ mirrored' \in {NoContent, holds'}
  <2>1. CASE Brew /\ s = Len(on) + 1 /\ s \notin DOMAIN on
    <3>1. /\ on' = Append(on, holds) /\ current' = s /\ holds' = holds /\ mirrored' = mirrored
          /\ blurred' = IF mirrored \in {NoContent, holds} THEN blurred ELSE blurred \cup {current'}
      BY <2>1 DEF Brew, app
    <3>2. on'[s] = holds
      BY <2>1, <3>1 DEF Typed, MachineTyped
    <3> QED BY <1>1, <3>1, <3>2
  <2>2. CASE Pending(s)
    <3>1. s \in DOMAIN on /\ on[s] = holds /\ mirrored \in {NoContent, holds} /\ on'[s] = on[s]
      BY <1>1, <2>2, BrewedKept DEF PendingOK, Pending
    <3>2. mirrored # NoContent => ~Archived(s)
      BY <2>2 DEF Pending, Archived, RecordsOK, RecordOK
    <3>3. ~Linked(s)
      <4>1. CASE mirrored # NoContent
        BY <3>2, <4>1 DEF Linked, Archived
      <4>2. CASE mirrored = NoContent
        BY <4>2 DEF Linked, RecordsOK, RecordOK
      <4> QED BY <4>1, <4>2
    <3>4. ASSUME NEW c \in Contents, Edit(c)  PROVE FALSE
      BY <1>1, <3>1, <3>3, <3>4 DEF Edit
    <3>5. ASSUME NEW c \in Contents, Save(c)  PROVE holds' = holds /\ mirrored' = mirrored
      <4>1. sync.at = "save" /\ sync.at # "idle" /\ sync.pulled = "ok" /\ mirrored # NoContent
        BY <3>5 DEF Save, DueOK
      <4>2. ~Archived(s) /\ Obtainable(s)
        BY <2>2, <3>2, <4>1 DEF Pending, Archived
      <4>3. s \notin due
        <5>1. Looked
          BY <4>1 DEF Looked
        <5>2. current \notin due
          BY <5>1 DEF DueOK
        <5>3. ASSUME NEW n \in Numbers, files[n] = s, s \in due  PROVE FALSE
          <6>1. s \in due \ unreadable
            BY <2>2, <5>3 DEF Pending
          <6> QED BY <4>1, <4>2, <5>1, <5>3, <6>1 DEF DueOK, Coming
        <5> QED BY <4>2, <5>2, <5>3 DEF Obtainable
      <4>4. holds # mirrored
        BY <1>1, <3>1, <3>5, <4>2, <4>3 DEF Save
      <4> QED BY <3>5, <4>4 DEF Save
    <3>6. CASE AskProfiles
      BY <3>1, <3>6 DEF AskProfiles, machine
    <3>7. \/ holds' = holds /\ mirrored' = mirrored
          \/ AskProfiles \/ \E c \in Contents : Save(c) \/ Edit(c)
      <4>1. CASE AtMachine
        BY <4>1 DEF AtMachine, Brew, Saved, Finished, Rebuild, Rebuilt, Erase, List, Rate, Cleanup, Machine, app
      <4>2. CASE ShotPass
        BY <4>2 DEF ShotPass, AskShots, Reconcile, EndPass, Fetch, machine
      <4>3. CASE ProfilePass
        BY <4>3 DEF ProfilePass, LookFirst, PullStarts, PullEnds, LookAgain, machine
      <4>4. CASE Crash
        BY <4>4 DEF Crash, machine
      <4> QED BY <1>1, <4>1, <4>2, <4>3, <4>4 DEF Next
    <3> QED BY <3>1, <3>4, <3>5, <3>6, <3>7
  <2> QED BY <1>1, <2>1, <2>2, PendingBefore
<1> QED BY <1>0, <1>1 DEF PendingOK

\* Every link that is made is to what the shot was brewed on.
LEMMA LinksKept ==
  ASSUME Typed, Older, RecordsOK, PendingOK, LinkedToBrewed, [Next]_vars
  PROVE  LinkedToBrewed'
<1>0. CASE UNCHANGED vars
  BY <1>0 DEF vars, machine, app, history, LinkedToBrewed
<1>1. ASSUME Next, NEW k \in DOMAIN archive', archive'[k].shot \notin blurred'
      PROVE  archive'[k].link \in {NoContent, on'[archive'[k].shot]}
  <2>b. blurred \subseteq blurred' /\ \A s \in DOMAIN on : on'[s] = on[s]
    BY <1>1, BrewedKept
  <2>p. ASSUME NEW s \in Shots, Pending(s), s \notin blurred'
        PROVE  s \in DOMAIN on /\ on[s] = holds /\ mirrored \in {NoContent, holds}
    BY <2>b, <2>p DEF PendingOK, Pending
  <2>1. CASE k \in DOMAIN archive
    <3>1. archive'[k].shot = archive[k].shot /\ archive[k].shot \in Shots
      BY <1>1, <2>1, NewRecords, RecordTyped
    <3>2. archive[k].shot \in DOMAIN on /\ archive[k].link \in {NoContent, on[archive[k].shot]}
      <4>1. archive[k].shot \in 1..Len(on)
        BY <2>1, <3>1 DEF Older, Behind, Shots, Typed, MachineTyped
      <4> QED BY <1>1, <2>1, <2>b, <3>1, <4>1 DEF LinkedToBrewed, Typed, MachineTyped
    <3>3. CASE archive'[k].link = archive[k].link
      BY <2>b, <3>1, <3>2, <3>3
    <3>4. CASE /\ archive[k].link = NoContent /\ archive[k].shot \notin unreadable
               /\ archive'[k].link \in {holds, mirrored}
      <4>1. Pending(archive[k].shot)
        BY <2>1, <3>4, UnlinkedIsPending
      <4> QED BY <1>1, <2>b, <2>p, <3>1, <3>2, <3>4, <4>1
    <3> QED BY <1>1, <2>1, <3>3, <3>4, NewLinks
  <2>2. CASE k \notin DOMAIN archive
    <3>1. PICK i \in pass.todo : \E start \in {files[i.number], i.row.shot} :
           /\ pass.at = "fetch" /\ files[i.number] \in Shots
           /\ archive'[k] = Record(i, files[i.number], start)
           /\ files[i.number] \notin unreadable => ~Held(i.number, files[i.number])
      BY <1>1, <2>2, Added
    <3>2. /\ archive'[k].shot = files[i.number]
          /\ archive'[k].link = IF files[i.number] \in unreadable THEN NoContent ELSE mirrored
      BY <3>1 DEF Record
    <3>3. i.number \in Numbers
      BY <3>1, ItemTyped
    <3>4. CASE files[i.number] \in unreadable
      BY <3>2, <3>4
    <3>5. CASE files[i.number] \notin unreadable
      <4>1. Pending(files[i.number])
        BY <3>1, <3>3, <3>5, FetchedIsPending
      <4>2. on[files[i.number]] = holds /\ mirrored \in {NoContent, holds} /\ files[i.number] \in DOMAIN on
        BY <1>1, <2>p, <3>1, <3>2, <4>1
      <4> QED BY <2>b, <3>2, <3>5, <4>2
    <3> QED BY <3>4, <3>5
  <2> QED BY <2>1, <2>2
<1> QED BY <1>0, <1>1 DEF LinkedToBrewed

-----------------------------------------------------------------------------
(* The shots the app was told of. *)

\* A readable file that was served is archived.
LEMMA FetchedIsArchived ==
  ASSUME Typed, Older, RecordsOK, Next, NEW i \in pass.todo, Fetch(i), FetchServes(i),
         files[i.number] \in Shots \ unreadable
  PROVE  Archived(files[i.number])'
<1>1. pass.at = "fetch" /\ i.number \in Numbers /\ archive \in Seq(Records) /\ files' = files
  BY ItemTyped DEF Fetch, Typed, AppTyped, machine
<1>2. CASE Held(i.number, files[i.number])
  <2>1. PICK k \in DOMAIN archive : archive[k].number = i.number /\ archive[k].start = files[i.number]
    BY <1>2 DEF Held
  <2>2. archive[k].shot = files[i.number]
    BY <2>1, SameStart DEF Shots, NoShot
  <2> QED BY <1>1, <2>2, NewRecords DEF Archived
<1>3. CASE ~Held(i.number, files[i.number])
  <2>1. archive' = Append(archive, Record(i, files[i.number], files[i.number]))
    BY <1>3 DEF FetchServes, StoreReadable, Shots, NoShot
  <2>2. /\ Len(archive) + 1 \in DOMAIN archive'
        /\ archive'[Len(archive) + 1] = Record(i, files[i.number], files[i.number])
    BY <1>1, <2>1
  <2>3. archive'[Len(archive) + 1].shot = files[i.number]
    BY <2>2 DEF Record
  <2> QED BY <1>1, <2>2, <2>3 DEF Archived
<1> QED BY <1>2, <1>3

\* A number that a pull was told of and that names its shot is in the plan, unless it is archived.
LEMMA PlannedOrArchived ==
  ASSUME Typed, Older, RecordsOK, NEW n \in Numbers, files[n] # NoShot,
         \/ n \in pushed /\ rows[n].shot \in {NoShot, files[n]}
         \/ served /\ rows[n].shot = files[n] /\ ~rows[n].deleted
  PROVE  \/ Paired(n) /\ Archived(files[n])
         \/ \E i \in Missing(IF served THEN rows ELSE Empty) : i.number = n
<1> DEFINE index == IF served THEN rows ELSE Empty
<1>1. rows[n] \in Rows \cup {NoRow} /\ (rows[n] = NoRow <=> rows[n].shot = NoShot)
  BY RowTyped DEF Typed, MachineTyped
<1>2. CASE index[n] = NoRow
  <2>1. n \in pushed
    BY <1>1, <1>2
  <2>2. [number |-> n, row |-> NoRow] \in Missing(index)
    BY <1>2, <2>1 DEF Missing
  <2>3. [number |-> n, row |-> NoRow].number = n
    OBVIOUS
  <2> HIDE DEF index
  <2> QED BY <2>2, <2>3 DEF index
<1>3. CASE index[n] # NoRow
  <2>1. served /\ index = rows
    BY <1>3 DEF Empty
  <2>2. rows[n].shot = files[n] /\ ~rows[n].deleted
    BY <1>1, <1>3, <2>1 DEF Typed, MachineOK
  <2>3. CASE IsPaired(index, n)
    <3>1. PICK k \in DOMAIN archive : archive[k].number = n /\ archive[k].start = files[n]
      BY <2>1, <2>2, <2>3 DEF IsPaired, Describes
    <3>2. archive[k].shot = files[n]
      BY <3>1, SameStart
    <3> QED BY <3>1, <3>2 DEF Paired, Archived
  <2>4. CASE ~IsPaired(index, n)
    <3>1. [number |-> n, row |-> index[n]] \in Missing(index)
      BY <2>1, <2>2, <2>4 DEF Missing
    <3>2. [number |-> n, row |-> index[n]].number = n
      OBVIOUS
    <3> HIDE DEF index
    <3> QED BY <3>1, <3>2 DEF index
  <2> QED BY <2>3, <2>4
<1> QED BY <1>2, <1>3

\* What the steps of the machine leave of what was due.
LEMMA DueAtMachine ==
  ASSUME Typed, Older, RecordsOK, DueOK, AtMachine
  PROVE  DueOK'
<1>n. Next
  BY DEF Next
<1>1. /\ UNCHANGED <<archive, mirrored, pass, sync>> /\ unreadable' = unreadable
      /\ \/ UNCHANGED <<due, announced>>
         \/ Saved /\ announced' = TRUE /\ due' = due \cup {current} /\ sync.at # "save"
         \/ Saved /\ announced' = TRUE /\ due' = due /\ sync.at = "save"
  <2>1. CASE Saved
    <3>1. UNCHANGED <<archive, mirrored, pass, sync>> /\ unreadable' = unreadable
      BY <2>1 DEF Saved
    <3>2. \/ UNCHANGED <<due, announced>>
          \/ announced' = TRUE /\ due' = IF sync.at = "save" THEN due ELSE due \cup {current}
      BY <2>1 DEF Saved
    <3> QED BY <2>1, <3>1, <3>2
  <2>2. CASE UNCHANGED <<due, app, unreadable>>
    BY <2>2 DEF app
  <2>3. Saved \/ UNCHANGED <<due, app, unreadable>>
    BY DEF AtMachine, Brew, Finished, Rebuild, Rebuilt, Erase, Edit, List, Rate, Cleanup, Machine, history
  <2> QED BY <2>1, <2>2, <2>3
<1>2. due' \subseteq DOMAIN on'
  <2>1. DOMAIN on \subseteq DOMAIN on' /\ due \subseteq DOMAIN on
    BY <1>n, BrewedKept DEF DueOK
  <2>2. Saved => current \in DOMAIN on
    BY DEF Saved, Typed, MachineTyped, MachineOK, Shots, NoShot
  <2> QED BY <1>1, <2>1, <2>2
<1>3. ASSUME Looked  PROVE current' \notin due'
  <2>1. current \notin due
    BY <1>3 DEF DueOK
  <2>2. (NoShot \notin due /\ NoShot # current) \/ current = NoShot
    BY DEF Typed, HistoryTyped, Shots, NoShot
  <2>3. CASE Saved
    <3>1. current' = NoShot /\ current # NoShot
      BY <2>3 DEF Saved
    <3>2. NoShot \notin due
      BY DEF Typed, HistoryTyped, Shots, NoShot
    <3> QED BY <1>1, <3>1, <3>2
  <2>4. CASE Brew
    <3>1. current' = Len(on) + 1 /\ due' = due
      BY <2>4 DEF Brew
    <3>2. Len(on) + 1 \notin DOMAIN on
      BY DEF Typed, MachineTyped
    <3> QED BY <3>1, <3>2 DEF DueOK
  <2>5. CASE UNCHANGED current /\ due' = due
    BY <2>1, <2>5
  <2> QED BY <1>n, <1>1, <2>3, <2>4, <2>5, WhatMovesFiles DEF Cleanup, Machine
<1>4. ASSUME Looked, NEW n \in Numbers, files'[n] \in due' \ unreadable
      PROVE  Archived(files[n])' \/ Coming(n)' \/ (announced' /\ sync'.at # "save")
  <2>1. files'[n] # NoShot
    BY <1>1, <1>4 DEF Typed, HistoryTyped, Shots, NoShot, MachineTyped, Saved
  <2>2. current \notin due
    BY <1>4 DEF DueOK
  <2>3. CASE files'[n] = files[n]
    <3>1. CASE files[n] \in due
      <4>1. Archived(files[n]) \/ Coming(n) \/ (announced /\ sync.at # "save")
        BY <1>4, <2>3, <3>1 DEF DueOK
      <4>2. Archived(files[n]) => Archived(files[n])'
        BY <1>1, <2>3, Zenon DEF Archived
      <4>3. Coming(n) => Coming(n)'
        BY <1>1 DEF Coming
      <4>4. announced /\ sync.at # "save" => announced' /\ sync'.at # "save"
        BY <1>1
      <4> QED BY <4>1, <4>2, <4>3, <4>4
    <3>2. CASE files[n] \notin due
      BY <1>1, <1>4, <2>3, <3>2
    <3> QED BY <3>1, <3>2
  <2>4. CASE files'[n] = current
    BY <1>1, <1>4, <2>2, <2>4
  <2> QED BY <1>n, <2>1, <2>3, <2>4, NewFiles
<1>5. Looked' => Looked
  BY <1>1 DEF Looked
<1>6. /\ sync'.at # "idle" => mirrored' # NoContent
      /\ sync'.at = "pulling" => pass'.at # "idle"
      /\ sync'.at = "save" => sync'.pulled = "ok"
      /\ sync'.at \notin {"idle", "pulling"} => pass'.at = "idle"
  BY <1>1 DEF DueOK
<1>7. Looked' => \A n \in Numbers : files'[n] \in due' \ unreadable' =>
                   Archived(files[n])' \/ Coming(n)' \/ (announced' /\ sync'.at # "save")
  BY <1>1, <1>4, <1>5
<1> QED BY <1>2, <1>3, <1>5, <1>6, <1>7 DEF DueOK

\* The app's steps leave the files and the shots brewed, and lose no record's shot.
LEMMA AppLeaves ==
  ASSUME Typed, ShotPass \/ ProfilePass \/ Crash
  PROVE  /\ UNCHANGED <<files, rows, served, current, running, on, unreadable>>
         /\ \A s \in Shots : Archived(s) => Archived(s)'
<1>1. UNCHANGED <<files, rows, served, current, running, on, unreadable>>
  <2>1. CASE ShotPass
    BY <2>1 DEF ShotPass, AskShots, Reconcile, EndPass, Fetch, machine
  <2>2. CASE ProfilePass
    BY <2>2 DEF ProfilePass, AskProfiles, LookFirst, PullStarts, PullEnds, LookAgain, Save, machine
  <2>3. CASE Crash
    BY <2>3 DEF Crash, machine
  <2> QED BY <2>1, <2>2, <2>3
<1>2. Next
  BY DEF Next
<1>3. ASSUME NEW s \in Shots, Archived(s)  PROVE Archived(s)'
  <2>1. PICK k \in DOMAIN archive : archive[k].shot = s
    BY <1>3 DEF Archived
  <2>2. k \in DOMAIN archive' /\ archive'[k].shot = s
    BY <1>2, <2>1, NewRecords
  <2> QED BY <2>2 DEF Archived
<1> QED BY <1>1, <1>3

\* A shot that is due and whose file is there has a number, and stays archived.
LEMMA DueFile ==
  ASSUME Typed, Looked, DueOK, NEW n \in Numbers, files[n] \in due \ unreadable
  PROVE  /\ files[n] \in Shots /\ files[n] # NoShot
         /\ Archived(files[n]) \/ Coming(n) \/ (announced /\ sync.at # "save")
<1>1. files[n] \in Shots /\ files[n] # NoShot
  <2>1. due \subseteq Shots
    BY DEF Typed, HistoryTyped
  <2>2. NoShot \notin Shots
    BY ShotsAssumption DEF Shots, NoShot
  <2> QED BY <2>1, <2>2
<1>2. \A m \in Numbers : files[m] \in due \ unreadable =>
        Archived(files[m]) \/ Coming(m) \/ (announced /\ sync.at # "save")
  BY DEF DueOK
<1> QED BY <1>1, <1>2, Zenon

\* What the steps of the shot pass leave of what was due.
LEMMA DueInShotPass ==
  ASSUME Typed, Older, RecordsOK, DueOK, ShotPass
  PROVE  DueOK'
<1>n. Next
  BY DEF Next
<1>u. /\ UNCHANGED <<files, current, on, unreadable>> /\ UNCHANGED <<mirrored, announced, sync, due>>
      /\ \A s \in Shots : Archived(s) => Archived(s)'
  <2>1. UNCHANGED <<mirrored, announced, sync, due>>
    BY DEF ShotPass, AskShots, Reconcile, EndPass, Fetch, history
  <2> QED BY <2>1, AppLeaves
<1>1. CASE sync.at = "idle"
  <2>1. ~Looked'
    BY <1>1, <1>u DEF Looked
  <2> QED BY <1>1, <1>u, <2>1 DEF DueOK
<1>2. CASE sync.at # "idle"
  <2>1. sync.at = "pulling" /\ pass.at = "fetch" /\ (Reconcile \/ \E i \in pass.todo : Fetch(i))
    BY <1>2 DEF ShotPass, AskShots, EndPass, Reconcile, Fetch, DueOK
  <2>2. pass'.at # "idle"
    <3>1. CASE Reconcile
      <4>1. pass \in Passes /\ pass' = [pass EXCEPT !.at = IF pass.errors THEN "failed" ELSE "ok"]
        BY <3>1, Reconciling DEF Reconcile
      <4> QED BY <4>1 DEF Passes
    <3>2. ASSUME NEW i \in pass.todo, Fetch(i)  PROVE pass'.at # "idle"
      BY <3>2, Fetching
    <3> QED BY <2>1, <3>1, <3>2
  <2>3. ASSUME NEW n \in Numbers, files[n] \in due \ unreadable, ~announced
        PROVE  Archived(files[n])' \/ Coming(n)'
    <3>0. Looked
      BY <2>1 DEF Looked
    <3>1. files[n] \in Shots /\ files[n] # NoShot /\ (Archived(files[n]) \/ Coming(n))
      BY <2>3, <3>0, DueFile
    <3>2. CASE Archived(files[n])
      BY <1>u, <3>1, <3>2, Zenon DEF Archived
    <3>3. CASE Coming(n)
      <4>1. pass.errors \/ \E i \in pass.todo : i.number = n
        BY <2>1, <3>3 DEF Coming
      <4>2. CASE Reconcile
        <5>1. pass.errors
          BY <4>1, <4>2 DEF Reconcile
        <5>2. pass \in Passes /\ pass' = [pass EXCEPT !.at = IF pass.errors THEN "failed" ELSE "ok"]
          BY <4>2, Reconciling DEF Reconcile
        <5>3. pass'.at = "failed"
          BY <5>1, <5>2 DEF Passes
        <5> QED BY <1>u, <2>1, <5>3 DEF Coming
      <4>3. ASSUME NEW i \in pass.todo, Fetch(i)  PROVE Archived(files[n])' \/ Coming(n)'
        <5>1. /\ pass'.at = "fetch"
              /\ \/ pass'.errors
                 \/ FetchServes(i) /\ pass'.errors = pass.errors /\ pass'.todo = pass.todo \ {i}
          BY <4>3, Fetching
        <5>2. CASE pass'.errors
          BY <1>u, <2>1, <5>1, <5>2 DEF Coming
        <5>3. CASE FetchServes(i) /\ ~pass.errors /\ pass'.todo = pass.todo \ {i}
          <6>1. PICK j \in pass.todo : j.number = n
            BY <4>1, <5>3
          <6>2. CASE j = i
            <7>1. Archived(files[i.number])'
              BY <1>n, <2>3, <3>1, <4>3, <5>3, <6>1, <6>2, FetchedIsArchived
            <7> QED BY <6>1, <6>2, <7>1
          <6>3. CASE j # i
            BY <1>u, <2>1, <5>1, <5>3, <6>1, <6>3 DEF Coming
          <6> QED BY <6>2, <6>3
        <5> QED BY <5>1, <5>2, <5>3
      <4> QED BY <2>1, <4>2, <4>3
    <3> QED BY <3>1, <3>2, <3>3
  <2>4. \A n \in Numbers : files'[n] \in due' \ unreadable' =>
          Archived(files[n])' \/ Coming(n)' \/ (announced' /\ sync'.at # "save")
    <3> SUFFICES ASSUME NEW n \in Numbers, files'[n] \in due' \ unreadable', ~(announced' /\ sync'.at # "save")
                 PROVE  Archived(files[n])' \/ Coming(n)'
      OBVIOUS
    <3>1. files[n] \in due \ unreadable /\ ~announced
      BY <1>u, <2>1
    <3> QED BY <2>3, <3>1
  <2>5. Looked => current' \notin due'
    BY <1>u DEF DueOK
  <2>6. Looked' => Looked
    BY <1>u DEF Looked
  <2>7. /\ due' \subseteq DOMAIN on'
        /\ sync'.at # "idle" => mirrored' # NoContent
        /\ sync'.at = "save" => sync'.pulled = "ok"
        /\ sync'.at \notin {"idle", "pulling"} => pass'.at = "idle"
    BY <1>u, <2>1 DEF DueOK
  <2> QED BY <2>2, <2>4, <2>5, <2>6, <2>7 DEF DueOK
<1> QED BY <1>1, <1>2

\* What the steps of the profile pass leave of what was due.
LEMMA DueInProfilePass ==
  ASSUME Typed, Older, RecordsOK, DueOK, ProfilePass
  PROVE  DueOK'
<1>n. Next
  BY DEF Next
<1>u. /\ UNCHANGED <<files, current, running, on, unreadable>>
      /\ \A s \in Shots : Archived(s) => Archived(s)'
  BY AppLeaves
<1>d. due \subseteq DOMAIN on /\ NoShot \notin due
  BY DEF DueOK, Typed, HistoryTyped, Shots, NoShot
<1>k. ASSUME Looked, due' = due, NEW n \in Numbers, files'[n] \in due' \ unreadable', Archived(files[n])
      PROVE  Archived(files[n])'
  <2>1. files[n] \in Shots /\ files'[n] = files[n]
    BY <1>u, <1>k, DueFile
  <2> QED BY <1>u, <1>k, <2>1, Zenon DEF Archived
<1>i. CASE sync' = NoSync
  <2>1. sync'.at = "idle" /\ ~Looked'
    BY <1>i DEF NoSync, Looked
  <2>2. due' \subseteq DOMAIN on'
    <3>1. LookAgain => due' \subseteq due \cup {current} /\ (running \/ due' = due)
      BY DEF LookAgain
    <3>2. running => current \in DOMAIN on
      BY DEF Typed, MachineTyped, MachineOK, Shots, NoShot
    <3>3. LookFirst \/ (\E c \in Contents : Save(c)) => due' = due
      BY DEF LookFirst, Save, history
    <3>4. LookFirst \/ LookAgain \/ \E c \in Contents : Save(c)
      <4>1. ASSUME AskProfiles  PROVE sync'.at = "push"
        <5>1. sync' = [at |-> "push", pulled |-> "not yet", tries |-> 0]
          BY <4>1 DEF AskProfiles
        <5> QED BY <5>1
      <4>2. PullStarts => sync'.at = "pulling"
        BY SyncTyped DEF PullStarts, Step, Syncs
      <4>3. PullEnds => sync'.at = "pull"
        BY SyncTyped DEF PullEnds, Syncs
      <4> QED BY <2>1, <4>1, <4>2, <4>3 DEF ProfilePass
    <3> QED BY <1>d, <1>u, <3>1, <3>2, <3>3, <3>4
  <2> QED BY <2>1, <2>2 DEF DueOK
<1>1. CASE AskProfiles
  <2>1. /\ sync'.at = "push" /\ sync'.pulled = "not yet" /\ mirrored' = holds /\ holds \in Contents
        /\ pass' = pass /\ pass.at = "idle" /\ due' = due
    BY <1>1 DEF AskProfiles, history, Typed, MachineTyped
  <2>2. ~Looked' /\ mirrored' # NoContent
    BY <2>1, ShotsAssumption DEF Looked
  <2> QED BY <1>d, <1>u, <2>1, <2>2 DEF DueOK
<1>2. CASE LookFirst /\ sync' # NoSync
  <2>1. /\ sync.at = "push" /\ sync'.at = "pull" /\ sync'.pulled = sync.pulled
        /\ UNCHANGED <<mirrored, announced, pass, due>>
    <3>1. sync \in Syncs
      BY <1>2, SyncTyped DEF LookFirst
    <3>2. sync' = [sync EXCEPT !.at = "pull", !.tries = 0]
      BY <1>2 DEF LookFirst, Leave
    <3>3. sync'.at = "pull" /\ sync'.pulled = sync.pulled
      BY <3>1, <3>2 DEF Syncs
    <3> QED BY <1>2, <3>3 DEF LookFirst, history
  <2>2. Looked' => Looked
    BY <2>1 DEF Looked
  <2>3. ASSUME Looked', NEW n \in Numbers, files'[n] \in due' \ unreadable', ~announced'  PROVE Archived(files[n])'
    <3>1. files[n] \in due \ unreadable /\ ~announced
      BY <1>u, <2>1, <2>3
    <3>2. Archived(files[n])
      BY <2>1, <2>2, <2>3, <3>1, DueFile DEF Coming
    <3> QED BY <1>k, <2>1, <2>2, <2>3, <3>2
  <2>4. /\ sync'.at # "idle" => mirrored' # NoContent
        /\ sync'.at \notin {"idle", "pulling"} => pass'.at = "idle"
    BY <2>1 DEF DueOK
  <2>5. Looked' => current' \notin due'
    BY <1>u, <2>1, <2>2 DEF DueOK
  <2> QED BY <1>d, <1>u, <2>1, <2>3, <2>4, <2>5 DEF DueOK
<1>3. CASE PullStarts
  <2>1. sync'.at = "pulling" /\ sync.at = "pull" /\ mirrored' = mirrored /\ archive' = archive /\ ReadIndex
    <3>1. sync \in Syncs
      BY <1>3, SyncTyped DEF PullStarts
    <3>2. sync' = [sync EXCEPT !.at = "pulling"]
      BY <1>3 DEF PullStarts, Step
    <3>3. sync'.at = "pulling"
      BY <3>1, <3>2 DEF Syncs
    <3> QED BY <1>3, <3>3 DEF PullStarts
  <2>2. due' = {s \in Shots : \E n \in Numbers : files[n] = s
                                /\ \/ n \in pushed /\ rows[n].shot \in {NoShot, s}
                                   \/ served /\ rows[n].shot = s /\ ~rows[n].deleted}
    BY <1>3 DEF PullStarts
  <2>3. \/ pass'.at = "failed"
        \/ pass'.at = "fetch" /\ pass'.todo = Missing(IF served THEN rows ELSE Empty)
    <3>1. Failed.at = "failed"
      BY DEF Failed
    <3> QED BY <2>1, <3>1, Planning
  <2>4. due' \subseteq DOMAIN on' /\ current' \notin due'
    <3>1. ASSUME NEW n \in Numbers, files[n] \in Shots  PROVE files[n] \in DOMAIN on /\ files[n] # current
      BY <3>1 DEF Older, Behind, Typed, MachineTyped, Shots, NoShot
    <3> QED BY <1>u, <2>2, <3>1
  <2>5. ASSUME NEW n \in Numbers, files'[n] \in due' \ unreadable'  PROVE Archived(files[n])' \/ Coming(n)'
    <3>1. files'[n] = files[n] /\ files[n] \in Shots /\ files[n] # NoShot
      BY <1>u, <2>2, <2>5 DEF Shots, NoShot
    <3>2. \/ n \in pushed /\ rows[n].shot \in {NoShot, files[n]}
          \/ served /\ rows[n].shot = files[n] /\ ~rows[n].deleted
      BY <2>2, <2>5, <3>1 DEF Typed, MachineOK
    <3>3. CASE Archived(files[n])
      BY <1>u, <3>1, <3>3, Zenon DEF Archived
    <3>4. CASE \E i \in Missing(IF served THEN rows ELSE Empty) : i.number = n
      BY <2>1, <2>3, <3>4 DEF Coming
    <3> QED BY <3>1, <3>2, <3>3, <3>4, PlannedOrArchived
  <2>6. mirrored' # NoContent
    BY <2>1 DEF DueOK
  <2>7. pass'.at # "idle"
    BY <2>3
  <2> QED BY <2>1, <2>4, <2>5, <2>6, <2>7 DEF DueOK
<1>4. CASE PullEnds
  <2>1. /\ sync.at = "pulling" /\ sync'.at = "pull" /\ sync'.pulled = (IF Complete THEN "ok" ELSE "failed")
        /\ UNCHANGED <<mirrored, announced, due>> /\ pass' = NoPass
    <3>1. sync \in Syncs
      BY <1>4, SyncTyped DEF PullEnds
    <3>2. sync' = [sync EXCEPT !.at = "pull", !.pulled = IF Complete THEN "ok" ELSE "failed", !.tries = @ + 1]
      BY <1>4 DEF PullEnds
    <3>3. sync'.at = "pull" /\ sync'.pulled = IF Complete THEN "ok" ELSE "failed"
      BY <3>1, <3>2 DEF Syncs
    <3> QED BY <1>4, <3>3 DEF PullEnds, history
  <2>2. Looked /\ (Looked' => Complete)
    BY <2>1 DEF Looked
  <2>3. ASSUME Looked', NEW n \in Numbers, files'[n] \in due' \ unreadable', ~announced'  PROVE Archived(files[n])'
    <3>1. files[n] \in due \ unreadable /\ ~announced
      BY <1>u, <2>1, <2>3
    <3>2. pass.at = "ok"
      BY <2>2, <2>3 DEF Complete
    <3>3. Archived(files[n])
      BY <2>2, <3>1, <3>2, DueFile DEF Coming
    <3> QED BY <1>k, <2>1, <2>2, <2>3, <3>3
  <2>4. pass'.at = "idle" /\ mirrored' # NoContent
    BY <2>1 DEF NoPass, DueOK
  <2>5. current' \notin due'
    BY <1>u, <2>1, <2>2 DEF DueOK
  <2> QED BY <1>d, <1>u, <2>1, <2>3, <2>4, <2>5 DEF DueOK
<1>5. CASE LookAgain /\ sync' # NoSync
  <2>1. /\ sync.at = "pull" /\ sync.pulled = "ok" /\ ~announced /\ ~running
        /\ sync'.at \in {"save", "push"} /\ sync'.pulled = sync.pulled /\ UNCHANGED <<mirrored, announced, pass, due>>
    <3>1. sync \in Syncs
      BY <1>5, SyncTyped DEF LookAgain
    <3>2. /\ sync.pulled = "ok" /\ ~announced /\ ~running
          /\ \E at \in {"save", "push"} : sync' = [sync EXCEPT !.at = at]
      BY <1>5 DEF LookAgain, Leave, Step
    <3>3. sync'.at \in {"save", "push"} /\ sync'.pulled = sync.pulled
      BY <3>1, <3>2 DEF Syncs
    <3> QED BY <1>5, <3>2, <3>3 DEF LookAgain
  <2>2. Looked
    BY <2>1 DEF Looked
  <2>3. ASSUME NEW n \in Numbers, files'[n] \in due' \ unreadable'  PROVE Archived(files[n])'
    <3>1. files[n] \in due \ unreadable
      BY <1>u, <2>1, <2>3
    <3>2. Archived(files[n])
      BY <2>1, <2>2, <3>1, DueFile DEF Coming
    <3> QED BY <1>k, <2>1, <2>2, <2>3, <3>2
  <2>4. pass'.at = "idle" /\ mirrored' # NoContent
    BY <2>1 DEF DueOK
  <2>5. current' \notin due'
    BY <1>u, <2>1, <2>2 DEF DueOK
  <2> QED BY <1>d, <1>u, <2>1, <2>3, <2>4, <2>5 DEF DueOK
<1> QED BY <1>i, <1>1, <1>2, <1>3, <1>4, <1>5 DEF ProfilePass, Save, Leave

\* From the pull to the save, every shot the app was told of stays accounted for.
LEMMA DueKept ==
  ASSUME Typed, Older, RecordsOK, DueOK, [Next]_vars
  PROVE  DueOK'
<1>1. CASE UNCHANGED vars
  BY <1>1 DEF vars, machine, app, history, DueOK, Looked, Coming, Archived
<1>2. CASE Crash
  <2>1. sync' = NoSync /\ pass' = NoPass /\ due' = {} /\ on' = on
    BY <1>2 DEF Crash, machine
  <2>2. sync'.at = "idle" /\ ~Looked'
    BY <2>1 DEF NoSync, Looked
  <2> QED BY <2>1, <2>2 DEF DueOK
<1> QED BY <1>1, <1>2, DueAtMachine, DueInShotPass, DueInProfilePass DEF Next

-----------------------------------------------------------------------------
(* What a pass leaves of a machine that did not change. *)

\* The steps after which the machine still lists what it had.
LEMMA StillCalm ==
  ASSUME Next, calm'
  PROVE  \/ calm /\ UNCHANGED <<files, rows, archive, pass>>
         \/ (AskShots \/ PullStarts) /\ ReadIndex /\ UNCHANGED <<files, rows, archive>>
         \/ calm /\ UNCHANGED <<files, rows>> /\ \E i \in pass.todo : Fetch(i)
         \/ calm /\ ~pass.errors /\ UNCHANGED <<files, rows>> /\ Reconcile
         \/ /\ calm /\ UNCHANGED <<files, rows>> /\ pass'.at = "idle" /\ pass.at # "fetch"
            /\ archive' = archive \/ AskProfiles \/ PullEnds
<1>1. CASE AtMachine
  BY <1>1 DEF AtMachine, Brew, Saved, Finished, Rebuild, Rebuilt, Erase, Edit, List, Rate, Cleanup, Machine, app, history
<1>2. CASE ShotPass
  <2>1. CASE AskShots
    BY <2>1 DEF AskShots, machine
  <2>2. CASE Reconcile
    BY <2>2 DEF Reconcile, machine
  <2>3. CASE EndPass
    <3>1. pass' = NoPass /\ pass.at \in {"ok", "failed"} /\ UNCHANGED <<files, rows, archive, calm>>
      BY <2>3 DEF EndPass, machine, history
    <3>2. pass'.at = "idle"
      BY <3>1 DEF NoPass
    <3> QED BY <3>1, <3>2
  <2>4. CASE \E i \in pass.todo : Fetch(i)
    BY <2>4 DEF Fetch, machine
  <2> QED BY <1>2, <2>1, <2>2, <2>3, <2>4 DEF ShotPass
<1>3. CASE ProfilePass
  <2>1. CASE AskProfiles
    BY <2>1 DEF AskProfiles, machine, history
  <2>2. CASE PullStarts
    BY <2>2 DEF PullStarts, machine
  <2>3. CASE PullEnds
    BY <2>3 DEF PullEnds, machine, history, NoPass
  <2>4. CASE LookFirst \/ LookAgain \/ \E c \in Contents : Save(c)
    BY <2>4 DEF LookFirst, LookAgain, Save, machine, history
  <2> QED BY <1>3, <2>1, <2>2, <2>3, <2>4 DEF ProfilePass
<1>4. CASE Crash
  BY <1>4 DEF Crash
<1> QED BY <1>1, <1>2, <1>3, <1>4 DEF Next

\* A plan that is made of an index that lists what the machine has.
LEMMA CalmPlan ==
  ASSUME Typed, Older, RecordsOK, (AskShots \/ PullStarts) /\ ReadIndex, UNCHANGED <<files, rows, archive>>, calm'
  PROVE  CalmOK'
<1>1. /\ pass' \in Passes /\ pass'.at = "fetch" /\ pass'.index = (IF served THEN rows ELSE Empty) /\ pass'.full = served
      /\ pass'.todo = Missing(IF served THEN rows ELSE Empty) /\ pass'.held = Len(archive) /\ calm' = (served /\ Listing)
  BY Planning
<1>2. served /\ Listing /\ pass'.index = rows /\ pass'.full /\ pass'.todo = Missing(rows)
  BY <1>1
<1>3. ASSUME NEW n \in Numbers, files[n] # NoShot  PROVE Paired(n) \/ \E i \in Missing(rows) : i.number = n
  <2>1. rows[n].shot = files[n] /\ ~rows[n].deleted
    BY <1>2, <1>3 DEF Listing, Typed, MachineOK
  <2> QED BY <1>2, <1>3, <2>1, PlannedOrArchived
<1>4. ASSUME NEW i \in Missing(rows)  PROVE i.row = rows[i.number]
  BY DEF Missing
<1>5. \A k \in DOMAIN archive : ~(k > Len(archive))
  BY DEF Typed, AppTyped
<1>6. Listing'
  BY <1>2 DEF Listing
<1>7. Planned'
  <2>1. \A n \in Numbers : Paired(n) => Paired(n)'
    BY DEF Paired
  <2>2. pass'.full /\ pass'.index = rows'
    BY <1>2
  <2>3. \A n \in Numbers : files'[n] # NoShot =>
          Paired(n)' \/ pass'.errors \/ \E i \in pass'.todo : i.number = n
    BY <1>2, <1>3, <2>1
  <2>4. \A i \in pass'.todo : i.row = rows'[i.number]
    BY <1>2, <1>4
  <2>5. \A k \in DOMAIN archive' : k > pass'.held => InFile(k)'
    BY <1>1, <1>5
  <2> QED BY <2>2, <2>3, <2>4, <2>5 DEF Planned
<1> QED BY <1>1, <1>6, <1>7 DEF CalmOK

\* A fetch of that plan.
LEMMA CalmFetch ==
  ASSUME Typed, Older, RecordsOK, CalmOK, Next, calm, UNCHANGED <<files, rows>>, NEW i \in pass.todo, Fetch(i)
  PROVE  CalmOK'
<1>1. /\ pass \in Passes /\ pass.at = "fetch" /\ pass'.at = "fetch" /\ pass'.index = pass.index
      /\ pass'.full = pass.full /\ pass'.held = pass.held /\ pass'.todo \subseteq pass.todo
      /\ \/ FetchFails(i) /\ pass'.errors /\ archive' = archive
         \/ FetchServes(i) /\ pass'.errors = pass.errors /\ pass'.todo = pass.todo \ {i}
  BY Fetching
<1>2. Listing /\ Planned
  BY <1>1 DEF CalmOK
<1>3. archive \in Seq(Records) /\ i.number \in Numbers /\ i.row = rows[i.number]
  BY <1>1, <1>2, ItemTyped DEF Typed, AppTyped, Planned
<1>4. ASSUME NEW n \in Numbers, Paired(n), files[n] # NoShot  PROVE Paired(n)'
  <2>1. PICK k \in DOMAIN archive : archive[k].number = n /\ archive[k].start = files[n]
    BY <1>4 DEF Paired
  <2>2. k \in DOMAIN archive' /\ archive'[k].number = n /\ archive'[k].shot = archive[k].shot
    BY <2>1, NewRecords
  <2>3. archive'[k].start = files[n]
    <3>1. CASE archive'[k].start = archive[k].start
      BY <2>1, <3>1
    <3>2. ASSUME NEW j \in pass.todo, archive[k].number = j.number, files[j.number] = archive[k].shot,
                 archive'[k].start = j.row.shot
          PROVE  archive'[k].start = files[n]
      <4>1. j.row = rows[n]
        BY <1>2, <2>1, <3>2 DEF Planned
      <4> QED BY <1>2, <1>4, <3>2, <4>1 DEF Listing
    <3> QED BY <2>1, <3>1, <3>2, NewStarts
  <2> QED BY <2>2, <2>3 DEF Paired
<1>5. \A n \in Numbers : files'[n] # NoShot => Paired(n)' \/ pass'.errors \/ \E j \in pass'.todo : j.number = n
  <2> SUFFICES ASSUME NEW n \in Numbers, files[n] # NoShot, ~pass'.errors
               PROVE  Paired(n)' \/ \E j \in pass'.todo : j.number = n
    OBVIOUS
  <2>1. FetchServes(i) /\ ~pass.errors /\ pass'.todo = pass.todo \ {i}
    BY <1>1
  <2>2. CASE Paired(n)
    BY <1>4, <2>2
  <2>3. ASSUME NEW j \in pass.todo, j.number = n, j # i  PROVE \E m \in pass'.todo : m.number = n
    BY <2>1, <2>3
  <2>4. CASE i.number = n
    <3>1. files[i.number] \in Shots /\ i.row.shot = files[i.number]
      BY <1>2, <1>3, <2>4 DEF Listing, Typed, MachineTyped
    <3>2. \E k \in DOMAIN archive' : archive'[k].number = i.number /\ archive'[k].start = files[i.number]
      BY <1>1, <2>1, <3>1, Storing
    <3> QED BY <2>4, <3>2 DEF Paired
  <2> QED BY <1>2, <2>1, <2>2, <2>3, <2>4 DEF Planned
<1>6. ASSUME NEW k \in DOMAIN archive', k > pass.held  PROVE InFile(k)'
  <2>1. CASE k \in DOMAIN archive
    <3>1. InFile(k)
      BY <1>2, <1>6, <2>1 DEF Planned
    <3>2. archive'[k].shot = archive[k].shot
      BY <2>1, NewRecords
    <3> QED BY <3>1, <3>2 DEF InFile
  <2>2. CASE k \notin DOMAIN archive
    <3>1. PICK j \in pass.todo : archive'[k].shot = files[j.number]
      BY <2>2, NewRecords
    <3>2. j.number \in Numbers
      BY <1>1, ItemTyped
    <3> QED BY <3>1, <3>2 DEF InFile
  <2> QED BY <2>1, <2>2
<1>7. Listing'
  BY <1>2 DEF Listing
<1>8. Planned'
  <2>1. \A j \in pass'.todo : j.row = rows'[j.number]
    BY <1>1, <1>2 DEF Planned
  <2>2. pass'.full /\ pass'.index = rows'
    BY <1>1, <1>2 DEF Planned
  <2>3. \A k \in DOMAIN archive' : k > pass'.held => InFile(k)'
    BY <1>1, <1>6
  <2> QED BY <1>5, <2>1, <2>2, <2>3 DEF Planned
<1> QED BY <1>1, <1>7, <1>8 DEF CalmOK

\* The reconciliation that ends it.
LEMMA CalmReconcile ==
  ASSUME Typed, Older, RecordsOK, CalmOK, calm, ~pass.errors, UNCHANGED <<files, rows>>, Reconcile
  PROVE  CalmOK'
<1>1. pass \in Passes /\ pass.at = "fetch" /\ pass.todo = {}
      /\ pass' = [pass EXCEPT !.at = IF pass.errors THEN "failed" ELSE "ok"]
  BY Reconciling DEF Reconcile
<1>2. pass'.at = "ok"
  BY <1>1 DEF Passes
<1>3. Listing /\ Planned
  BY <1>1 DEF CalmOK
<1>a. /\ DOMAIN archive' = DOMAIN archive
      /\ \A k \in DOMAIN archive :
           /\ archive'[k].shot = archive[k].shot /\ archive'[k].number = archive[k].number
           /\ archive'[k].start = archive[k].start
           /\ archive'[k].rating = IF Pairs(rows, k) THEN rows[archive[k].number].rating ELSE archive[k].rating
           /\ archive'[k].gone = IF Pairs(rows, k) THEN rows[archive[k].number].deleted
                                 ELSE archive[k].gone \/ (pass.full /\ k <= pass.held)
  BY <1>3, Reconciling DEF Planned
<1>4. ASSUME NEW n \in Numbers, files[n] # NoShot
      PROVE  \E k \in DOMAIN archive' : /\ archive'[k].number = n /\ archive'[k].start = files[n]
                                        /\ ~archive'[k].gone /\ archive'[k].rating = rows[n].rating
  <2>1. Paired(n)
    BY <1>1, <1>3, <1>4 DEF Planned
  <2>2. PICK k \in DOMAIN archive : archive[k].number = n /\ archive[k].start = files[n]
    BY <2>1 DEF Paired
  <2>3. rows[n].shot = files[n] /\ ~rows[n].deleted /\ rows[n] # NoRow
    BY <1>3, <1>4 DEF Listing, Typed, MachineOK, NoRow
  <2>4. Pairs(rows, k)
    BY <2>2, <2>3 DEF Pairs, Describes
  <2> QED BY <1>a, <2>2, <2>3, <2>4
<1>5. ASSUME NEW k \in DOMAIN archive', ~archive'[k].gone  PROVE InFile(k)'
  <2>1. CASE Pairs(rows, k)
    <3>1. archive[k].number \in Numbers /\ ~rows[archive[k].number].deleted
      BY <1>a, <1>5, <2>1, RecordTyped
    <3>2. files[archive[k].number] # NoShot /\ archive[k].start = files[archive[k].number]
      BY <1>3, <2>1, <3>1 DEF Listing, Pairs, Describes
    <3>3. archive[k].shot = files[archive[k].number]
      BY <1>a, <3>2, SameStart
    <3> QED BY <1>a, <3>1, <3>3 DEF InFile
  <2>2. CASE ~Pairs(rows, k)
    <3>1. ~(k <= pass.held)
      BY <1>3, <1>a, <1>5, <2>2 DEF Planned
    <3>2. k > pass.held
      BY <1>1, <1>a, <3>1 DEF Passes, Typed, AppTyped
    <3>3. InFile(k)
      BY <1>3, <1>a, <3>2 DEF Planned
    <3> QED BY <1>a, <3>3 DEF InFile
  <2> QED BY <2>1, <2>2
<1>6. Listing'
  BY <1>3 DEF Listing
<1>7. Settled'
  BY <1>4, <1>5 DEF Settled
<1> QED BY <1>2, <1>6, <1>7 DEF CalmOK

\* What was settled stays so while links are made.
LEMMA CalmLinks ==
  ASSUME Typed, CalmOK, calm, pass.at # "fetch", pass'.at = "idle", UNCHANGED <<files, rows>>,
         archive' = archive \/ AskProfiles \/ PullEnds
  PROVE  CalmOK'
<1>1. Listing /\ Settled
  BY DEF CalmOK
<1>2. /\ DOMAIN archive' = DOMAIN archive
      /\ \A k \in DOMAIN archive :
           /\ archive'[k].shot = archive[k].shot /\ archive'[k].number = archive[k].number
           /\ archive'[k].start = archive[k].start /\ archive'[k].gone = archive[k].gone
           /\ archive'[k].rating = archive[k].rating
  <2>1. CASE archive' = archive
    BY <2>1
  <2>2. CASE AskProfiles
    <3>1. LinkUnlinked(holds) /\ holds \in Contents \cup {NoContent}
      BY <2>2 DEF AskProfiles, Typed, MachineTyped
    <3> QED BY <3>1, Linking
  <2>3. CASE PullEnds /\ archive' # archive
    <3>1. LinkUnlinked(mirrored) /\ mirrored \in Contents \cup {NoContent}
      BY <2>3 DEF PullEnds, Typed, AppTyped
    <3> QED BY <3>1, Linking
  <2> QED BY <2>1, <2>2, <2>3
<1>3. \A k \in DOMAIN archive : InFile(k) => InFile(k)'
  BY <1>2 DEF InFile
<1>4. Settled'
  <2>1. ASSUME NEW n \in Numbers, files[n] # NoShot
        PROVE  \E k \in DOMAIN archive' : /\ archive'[k].number = n /\ archive'[k].start = files[n]
                                          /\ ~archive'[k].gone /\ archive'[k].rating = rows[n].rating
    <3>1. PICK k \in DOMAIN archive : /\ archive[k].number = n /\ archive[k].start = files[n]
                                      /\ ~archive[k].gone /\ archive[k].rating = rows[n].rating
      BY <1>1, <2>1 DEF Settled
    <3> QED BY <1>2, <3>1
  <2>2. \A k \in DOMAIN archive' : archive'[k].gone \/ InFile(k)'
    BY <1>1, <1>2, <1>3 DEF Settled
  <2> QED BY <2>1, <2>2 DEF Settled
<1>5. Listing'
  BY <1>1 DEF Listing
<1> QED BY <1>4, <1>5 DEF CalmOK

\* What a calm pass planned, fetched and settled stays so while nothing changes.
LEMMA CalmKept ==
  ASSUME Typed, Older, RecordsOK, CalmOK, [Next]_vars
  PROVE  CalmOK'
<1>1. CASE UNCHANGED vars
  BY <1>1 DEF vars, machine, app, history, CalmOK, Listing, Planned, Settled, Paired, InFile
<1>2. CASE ~calm'
  BY <1>2 DEF CalmOK
<1>3. CASE calm /\ UNCHANGED <<files, rows, archive, pass>>
  BY <1>3 DEF CalmOK, Listing, Planned, Settled, Paired, InFile
<1> QED BY <1>1, <1>2, <1>3, StillCalm, CalmPlan, CalmFetch, CalmReconcile, CalmLinks

-----------------------------------------------------------------------------
(* The theorems. *)

\* The invariant holds at the start.
LEMMA InitHolds == Init => IInv
<1> SUFFICES ASSUME Init  PROVE IInv
  OBVIOUS
<1>1. Typed
  <2>1. MachineTyped
    <3>1. files \in [Numbers -> {NoShot} \cup Shots] /\ rows \in [Numbers -> Rows \cup {NoRow}]
      BY DEF Init
    <3>2. on \in Seq(Contents) /\ Len(on) <= MaxShots
      BY ShotsAssumption DEF Init
    <3>3. unreadable \subseteq Shots
      BY ShotsAssumption DEF Init, Shots
    <3>4. served \in BOOLEAN /\ running \in BOOLEAN
      BY Zenon DEF Init
    <3>5. next \in Nat \ {0} /\ current \in {NoShot} \cup Shots /\ holds \in Contents
      BY DEF Init
    <3> QED BY <3>1, <3>2, <3>3, <3>4, <3>5, Zenon DEF MachineTyped
  <2>2. AppTyped /\ HistoryTyped
    <3>1. archive \in Seq(Records)
      BY DEF Init
    <3> QED BY <3>1 DEF Init, AppTyped, HistoryTyped
  <2>3. MachineOK
    BY DEF Init, MachineOK, NoShot
  <2> QED BY <2>1, <2>2, <2>3 DEF Typed
<1>2. Older
  BY DEF Init, Older, RowOK, Behind, NoRow, NoShot, NoPass
<1>3. RecordsOK /\ OwnFacts /\ LinkedToBrewed
  BY DEF Init, RecordsOK, OwnFacts, LinkedToBrewed
<1>4. PendingOK
  BY DEF Init, PendingOK, Pending
<1>5. DueOK
  BY DEF Init, DueOK, Looked, NoSync
<1>6. CalmOK
  BY DEF Init, CalmOK
<1> QED BY <1>1, <1>2, <1>3, <1>4, <1>5, <1>6 DEF IInv

\* The inductive invariant holds in every state.
THEOREM Invariant == Spec => []IInv
<1>1. Init => IInv
  BY InitHolds
<1>2. IInv /\ [Next]_vars => IInv'
  BY TypesKept, OlderKept, RecordsKept, FactsKept, PendingKept, LinksKept, DueKept, CalmKept DEF IInv
<1> QED BY <1>1, <1>2, PTL DEF Spec

\* What the machine says of a shot is written to that shot and to no other, however often a number is
\* used again, and the archive keeps its types (`pair_index`, `_reconcile`).
THEOREM Archive == Spec => []ArchiveOK
<1>1. IInv => ArchiveOK
  <2>1. Typed => TypeOK
    <3> SUFFICES ASSUME Typed  PROVE TypeOK
      OBVIOUS
    <3>1. pass.at \in {"idle", "fetch", "ok", "failed"}
      <4>1. pass = NoPass \/ pass = Failed \/ pass \in Passes
        BY DEF Typed, AppTyped
      <4> QED BY <4>1 DEF NoPass, Failed, Passes
    <3>2. sync.at \in {"idle", "push", "pull", "pulling", "save"}
      <4>1. sync = NoSync \/ sync \in Syncs
        BY DEF Typed, AppTyped
      <4>2. NoSync.at = "idle" /\ \A x \in Syncs : x.at \in {"push", "pull", "pulling", "save"}
        BY DEF NoSync, Syncs
      <4> QED BY <4>1, <4>2
    <3> QED BY <3>1, <3>2 DEF Typed, MachineTyped, AppTyped, HistoryTyped, TypeOK
  <2> QED BY <2>1 DEF IInv, ArchiveOK
<1> QED BY <1>1, Invariant, PTL

\* A shot is linked to what its file held when it was brewed, unless the app could not know that
\* (`_pulled_the_shots`, `link_unlinked_shots`).
THEOREM Links == Spec => []LinkedToBrewed
<1>1. IInv => LinkedToBrewed
  BY DEF IInv
<1> QED BY <1>1, Invariant, PTL

\* After a complete pass over a machine that lists what it has, the archive has every shot the machine
\* has, with its rating, and marks every other one gone (`_sync`, `_reconcile`).
THEOREM Settling == Spec => []PassSettles
<1>1. IInv => PassSettles
  <2> SUFFICES ASSUME IInv, pass.at = "idle", calm  PROVE PassSettles
    BY DEF PassSettles
  <2>1. Settled
    BY DEF IInv, CalmOK
  <2>2. ASSUME NEW n \in Numbers, files[n] # NoShot
        PROVE  \E k \in DOMAIN archive : /\ archive[k].shot = files[n] /\ archive[k].start = files[n]
                                         /\ ~archive[k].gone /\ archive[k].rating = rows[n].rating
    <3>1. PICK k \in DOMAIN archive : /\ archive[k].number = n /\ archive[k].start = files[n]
                                      /\ ~archive[k].gone /\ archive[k].rating = rows[n].rating
      BY <2>1, <2>2 DEF Settled
    <3>2. archive[k].shot = files[n]
      BY <2>2, <3>1, SameStart DEF IInv
    <3> QED BY <3>1, <3>2
  <2> QED BY <2>1, <2>2 DEF PassSettles, Settled, InFile
<1> QED BY <1>1, Invariant, PTL

=============================================================================
