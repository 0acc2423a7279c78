---------------------------- MODULE MachineFiles ----------------------------
(***************************************************************************)
(* The profile files on the espresso machine and the three operations the  *)
(* app performs on them: place (a new file), overwrite (a profile's own    *)
(* file, in place) and remove.  An operation is a sequence of WebSocket    *)
(* frames, one step each here, and a person at the machine's display may   *)
(* change any file between two frames.  The guards are the app's:          *)
(* drafts/machine.py over the gated writes of device/client.py.  The       *)
(* machine's answers are the firmware's, as device/fake.py keeps them.     *)
(*                                                                         *)
(* A document (Doc) is one whole profile: its brew and its name.  `hand`   *)
(* and `selectedBy` are history: who wrote what a file holds now, and      *)
(* whether the app has loaded the file since.                              *)
(***************************************************************************)
EXTENDS Naturals, FiniteSets

CONSTANTS
  FileIds,     \* the ids the firmware may give a file (never given twice)
  Docs,        \* the documents a file can hold
  NoDoc,       \* what an id with no file holds
  NoFile,      \* no id
  MaxTouches,  \* bound: how often somebody touches the display
  MaxFaults    \* bound: frames that go wrong (lost, refused, stored changed)

ASSUME FilesAssumption ==
  /\ NoDoc \notin Docs
  /\ NoFile \notin FileIds
  /\ MaxTouches \in Nat
  /\ MaxFaults \in Nat

VARIABLES
  files,           \* [FileIds -> Docs \cup {NoDoc}]: what the machine holds
  used,            \* ids the firmware has given out so far
  starred,         \* ids on the machine's home screen
  selected,        \* the id the machine brews with (it may name a file that is gone)
  writes,          \* the switch deviceWritesEnabled
  op,              \* the app's operation in progress
  archive,         \* the documents the app has stored a version of
  hand,            \* history, per file: "app", "seen" or "unseen" (see Touched)
  selectedBy,      \* history: "unseen" selected at the display, "seen" the app loaded
                   \* a file since, "checked" a removal's check has looked at it
  late,            \* history: write frames sent since the switch was turned off
  touches, faults  \* how much of the two bounds is spent

fileVars == <<files, used, starred, selected, writes, op, archive, hand,
              selectedBy, late, touches, faults>>

Held == {i \in FileIds : files[i] # NoDoc}

-----------------------------------------------------------------------------
(* The operation in progress.  `pc` is the next frame; "done" waits for the *)
(* caller to take the result.                                               *)

Kinds == {"none", "overwrite", "place", "remove"}
Pcs == {"idle", "look", "guard", "send", "verify", "putback_guard", "putback_send",
        "putback_verify", "new", "verify_new", "check", "carry", "again",
        "delete_guard", "delete", "done"}
Results == {"none", "placed", "changed", "failed", "mismatch", "unreadable",
            "removed", "gone", "refused"}

Ops == [kind: Kinds, pc: Pcs, id: FileIds \cup {NoFile},
        sent: Docs \cup {NoDoc},       \* what is to be on the file afterwards
        expected: Docs \cup {NoDoc},   \* what the archive recorded for the file
        served: Docs \cup {NoDoc},     \* what the machine served or stored last
        successor: FileIds \cup {NoFile},
        blocked: BOOLEAN,              \* another profile stands on the file
        cleanup: BOOLEAN,              \* taking a new file that did not verify off again
        result: Results]

Idle == [kind |-> "none", pc |-> "idle", id |-> NoFile, sent |-> NoDoc,
         expected |-> NoDoc, served |-> NoDoc, successor |-> NoFile,
         blocked |-> FALSE, cleanup |-> FALSE, result |-> "none"]

Overwrite(i, sent, recorded) ==
  [Idle EXCEPT !.kind = "overwrite", !.pc = "look", !.id = i, !.sent = sent,
               !.expected = recorded]
Place(sent) == [Idle EXCEPT !.kind = "place", !.pc = "new", !.sent = sent]
Remove(i, recorded, successor, blocked) ==
  [Idle EXCEPT !.kind = "remove", !.pc = "check", !.id = i, !.expected = recorded,
               !.successor = successor, !.blocked = blocked]

Ended(result) == [op EXCEPT !.pc = "done", !.result = result]
Finish(result) == op' = Ended(result)

-----------------------------------------------------------------------------
(* Frames.                                                                  *)

\* A load shows the file, and whether it is the selected one: what the display did up
\* to now is seen.
SeenNow(by) == IF by = "unseen" THEN "seen" ELSE by
Loaded(i) ==
  /\ hand' = [hand EXCEPT ![i] = SeenNow(@)]
  /\ selectedBy' = SeenNow(selectedBy)
NotLoaded == UNCHANGED <<hand, selectedBy>>

\* A frame goes wrong, within the bound.
Faulty == faults < MaxFaults /\ faults' = faults + 1
Sound == UNCHANGED faults

\* One more write frame on the wire.
Sent == late' = IF writes THEN 0 ELSE late + 1

\* What a load of op.id answers: the file, or an error (the file is gone, or the
\* request failed).
LoadOk == files[op.id] # NoDoc /\ Sound
LoadFails == (files[op.id] = NoDoc /\ Sound) \/ (files[op.id] # NoDoc /\ Faulty)

\* What a save makes of the file: stored and acknowledged, stored changed (a firmware
\* that cannot round-trip the document), or the answer is lost or is no profile, with
\* the file written or not.  `acked` and `lost` are the operation as it then goes on.
StoreAs(i, d) ==
  /\ files' = [files EXCEPT ![i] = d]
  /\ used' = used \cup {i}
  /\ hand' = [hand EXCEPT ![i] = "app"]

SaveFrame(i, sent, acked, lost) ==
  \/ /\ Sound /\ StoreAs(i, sent) /\ op' = [acked EXCEPT !.served = sent]
  \/ /\ Faulty
     /\ \E d \in Docs \ {sent} : StoreAs(i, d) /\ op' = [acked EXCEPT !.served = d]
  \/ /\ Faulty /\ op' = lost
     /\ \/ \E d \in Docs : StoreAs(i, d)
        \/ UNCHANGED <<files, used, hand>>

-----------------------------------------------------------------------------
(* overwrite: fresh load, the client's gate and second load, the save, the  *)
(* read-back, and the recorded document put back when the read-back fails.  *)

Look ==
  /\ op.pc = "look"
  /\ \/ /\ LoadOk /\ Loaded(op.id)
        /\ IF files[op.id] = op.expected
           THEN op' = [op EXCEPT !.pc = "guard"]
           ELSE Finish("changed")
     \/ /\ LoadFails /\ Finish("failed") /\ NotLoaded
  /\ UNCHANGED <<files, used, starred, selected, writes, archive, late, touches>>

\* Mutants of ClientGuard: the loaded document is not compared; the switch is not asked.
ClientGuardBlind(guardPc, sendPc, expected, onRefusal) ==
  /\ op.pc = guardPc
  /\ \/ /\ writes /\ LoadOk /\ Loaded(op.id)
        /\ op' = [op EXCEPT !.pc = sendPc]
     \/ /\ writes /\ LoadFails /\ Finish(onRefusal) /\ NotLoaded
     \/ /\ ~writes /\ Finish(onRefusal) /\ NotLoaded /\ UNCHANGED faults
  /\ UNCHANGED <<files, used, starred, selected, writes, archive, late, touches>>

ClientGuardUnswitched(guardPc, sendPc, expected, onRefusal) ==
  /\ op.pc = guardPc
  /\ \/ /\ LoadOk /\ Loaded(op.id)
        /\ IF files[op.id] = expected
           THEN op' = [op EXCEPT !.pc = sendPc]
           ELSE Finish(onRefusal)
     \/ LoadFails /\ Finish(onRefusal) /\ NotLoaded
  /\ UNCHANGED <<files, used, starred, selected, writes, archive, late, touches>>

\* The client's own guard (save_profile, delete_profile): the switch is asked before
\* the load, and not again between the load and the frame.
ClientGuard(guardPc, sendPc, expected, onRefusal) ==
  /\ op.pc = guardPc
  /\ \/ /\ writes /\ LoadOk /\ Loaded(op.id) /\ files[op.id] = expected
        /\ op' = [op EXCEPT !.pc = sendPc]
     \/ /\ writes /\ LoadOk /\ Loaded(op.id) /\ files[op.id] # expected
        /\ Finish(onRefusal)
     \/ /\ writes /\ LoadFails /\ Finish(onRefusal) /\ NotLoaded
     \/ /\ ~writes /\ Finish(onRefusal) /\ NotLoaded /\ UNCHANGED faults
  /\ UNCHANGED <<files, used, starred, selected, writes, archive, late, touches>>

Guard == ClientGuard("guard", "send", op.expected, "failed")

\* A save over an existing id keeps its star and the selection.
Send ==
  /\ op.pc = "send"
  /\ SaveFrame(op.id, op.sent, [op EXCEPT !.pc = "verify"], Ended("failed"))
  /\ Sent
  /\ UNCHANGED <<starred, selected, writes, archive, selectedBy, touches>>

\* The read-back compares the whole document.  A read-back that fails leaves what the
\* save answered as what is believed to be on the file.
Verify ==
  /\ op.pc = "verify"
  /\ \/ /\ LoadOk /\ Loaded(op.id)
        /\ IF files[op.id] = op.sent
           THEN op' = [op EXCEPT !.pc = "done", !.result = "placed", !.served = op.sent]
           ELSE op' = [op EXCEPT !.pc = "putback_guard", !.result = "mismatch",
                                 !.served = files[op.id]]
     \/ /\ LoadFails /\ NotLoaded
        /\ op' = [op EXCEPT !.pc = "putback_guard", !.result = "unreadable"]
  /\ UNCHANGED <<files, used, starred, selected, writes, archive, late, touches>>

\* The put-back's guard expects what the read-back was served.
PutBackGuard == ClientGuard("putback_guard", "putback_send", op.served, op.result)

PutBackSend ==
  /\ op.pc = "putback_send"
  /\ SaveFrame(op.id, op.expected, [op EXCEPT !.pc = "putback_verify"], Ended(op.result))
  /\ Sent
  /\ UNCHANGED <<starred, selected, writes, archive, selectedBy, touches>>

\* Read back again, for the words of the failure only.
PutBackVerify ==
  /\ op.pc = "putback_verify"
  /\ \/ LoadOk /\ Loaded(op.id)
     \/ LoadFails /\ NotLoaded
  /\ Finish(op.result)
  /\ UNCHANGED <<files, used, starred, selected, writes, archive, late, touches>>

-----------------------------------------------------------------------------
(* place: one save without an id, and its read-back.  A copy that does not  *)
(* verify is removed again against what the read-back served.               *)

\* A generated id counts as new, and the firmware stars it.  A lost answer leaves a
\* file whose id the app never learned.
SendNew ==
  /\ op.pc = "new"
  /\ IF writes
     THEN \E i \in FileIds \ used :
            /\ SaveFrame(i, op.sent, [op EXCEPT !.pc = "verify_new", !.id = i],
                         Ended("failed"))
            /\ starred' = IF files'[i] # NoDoc THEN starred \cup {i} ELSE starred
            /\ Sent
     ELSE Finish("failed") /\ UNCHANGED <<files, used, hand, starred, late, faults>>
  /\ UNCHANGED <<selected, writes, archive, selectedBy, touches>>

VerifyNew ==
  /\ op.pc = "verify_new"
  /\ \/ /\ LoadOk /\ Loaded(op.id)
        /\ IF files[op.id] = op.sent
           THEN op' = [op EXCEPT !.pc = "done", !.result = "placed", !.served = op.sent]
           ELSE op' = [op EXCEPT !.pc = "check", !.result = "mismatch", !.cleanup = TRUE,
                                 !.expected = files[op.id], !.served = files[op.id]]
     \/ /\ LoadFails /\ Finish("unreadable") /\ NotLoaded
  /\ UNCHANGED <<files, used, starred, selected, writes, archive, late, touches>>

-----------------------------------------------------------------------------
(* remove: everything that must hold on a fresh load, the selection moved   *)
(* to the successor, a second load, the client's guard, the delete.         *)

\* A removal that does not happen.  A cleanup keeps the result of the copy it was to
\* take off, and still names it.
Stays(result) == Finish(IF op.cleanup THEN op.result ELSE result)

\* Mutants of Check: the selection is not looked at; a missing successor is no refusal.
CheckFileOnly ==
  /\ op.pc = "check"
  /\ \/ /\ LoadOk
        /\ hand' = [hand EXCEPT ![op.id] = SeenNow(@)]
        /\ selectedBy' = "checked"
        /\ IF files[op.id] # op.expected \/ op.blocked
           THEN Stays("refused")
           ELSE op' = [op EXCEPT !.pc = "again"]
     \/ LoadFails /\ Stays("refused") /\ NotLoaded
  /\ UNCHANGED <<files, used, starred, selected, writes, archive, late, touches>>

CheckAnySuccessor ==
  /\ op.pc = "check"
  /\ \/ /\ LoadOk
        /\ hand' = [hand EXCEPT ![op.id] = SeenNow(@)]
        /\ selectedBy' = "checked"
        /\ IF files[op.id] # op.expected \/ op.blocked
           THEN Stays("refused")
           ELSE op' = [op EXCEPT !.pc = IF selected = op.id THEN "carry" ELSE "again"]
     \/ LoadFails /\ Stays("refused") /\ NotLoaded
  /\ UNCHANGED <<files, used, starred, selected, writes, archive, late, touches>>

Check ==
  /\ op.pc = "check"
  /\ \/ /\ LoadOk
        /\ hand' = [hand EXCEPT ![op.id] = SeenNow(@)]
        /\ selectedBy' = "checked"
        /\ IF \/ files[op.id] # op.expected
              \/ op.blocked
              \/ selected = op.id /\ op.successor \in {NoFile, op.id}
           THEN Stays("refused")
           ELSE op' = [op EXCEPT !.pc = IF selected = op.id THEN "carry" ELSE "again"]
     \/ \* not loaded: the list, when it answers, says whether the file is gone
        /\ \/ files[op.id] = NoDoc /\ Sound /\ Stays("gone")
           \/ Faulty /\ Stays("refused")
        /\ NotLoaded
  /\ UNCHANGED <<files, used, starred, selected, writes, archive, late, touches>>

\* The selection moves to the successor.  The firmware does not look whether the id exists.
Carry ==
  /\ op.pc = "carry"
  /\ \/ /\ writes /\ Sound
        /\ selected' = op.successor
        /\ op' = [op EXCEPT !.pc = "again"]
        /\ Sent
     \/ /\ writes /\ Faulty
        /\ selected' \in {selected, op.successor}
        /\ Stays("refused")
        /\ Sent
     \/ /\ ~writes /\ Stays("refused") /\ UNCHANGED <<selected, late, faults>>
  /\ UNCHANGED <<files, used, starred, writes, archive, hand, selectedBy, touches>>

Again ==
  /\ op.pc = "again"
  /\ \/ /\ LoadOk /\ Loaded(op.id)
        /\ IF files[op.id] = op.expected
           THEN op' = [op EXCEPT !.pc = "delete_guard"]
           ELSE Stays("refused")
     \/ LoadFails /\ Stays("refused") /\ NotLoaded
  /\ UNCHANGED <<files, used, starred, selected, writes, archive, late, touches>>

DeleteGuard ==
  ClientGuard("delete_guard", "delete", op.expected,
              IF op.cleanup THEN op.result ELSE "refused")

\* The firmware takes the star with the file and leaves the selection where it was.
DropFile(i) ==
  /\ files' = [files EXCEPT ![i] = NoDoc]
  /\ starred' = starred \ {i}
  /\ hand' = [hand EXCEPT ![i] = "app"]

Delete ==
  /\ op.pc = "delete"
  /\ \/ /\ files[op.id] # NoDoc /\ Sound /\ DropFile(op.id)
        /\ op' = IF op.cleanup THEN [op EXCEPT !.pc = "done", !.id = NoFile]
                               ELSE Ended("removed")
     \/ /\ Faulty /\ Stays("refused")
        /\ \/ DropFile(op.id)
           \/ UNCHANGED <<files, starred, hand>>
     \/ /\ files[op.id] = NoDoc /\ Sound /\ Stays("refused")
        /\ UNCHANGED <<files, starred, hand>>
  /\ Sent
  /\ UNCHANGED <<used, selected, writes, archive, selectedBy, touches>>

Frame ==
  \/ Look \/ Guard \/ Send \/ Verify \/ PutBackGuard \/ PutBackSend \/ PutBackVerify
  \/ SendNew \/ VerifyNew
  \/ Check \/ Carry \/ Again \/ DeleteGuard \/ Delete

\* The sync is cancelled or the process stops between two frames; the machine keeps
\* what it has.
Abandon ==
  /\ op.pc # "idle"
  /\ op' = Idle
  /\ UNCHANGED <<files, used, starred, selected, writes, archive, hand, selectedBy,
                 late, touches, faults>>

-----------------------------------------------------------------------------
(* The person at the display, and the switch.                               *)

Touch == touches < MaxTouches /\ touches' = touches + 1

\* What somebody writes at the display has not been seen by the app.
Touched(i) == Touch /\ hand' = [hand EXCEPT ![i] = "unseen"]

DisplayEdit(i, d) ==
  /\ files[i] \notin {NoDoc, d}
  /\ files' = [files EXCEPT ![i] = d]
  /\ Touched(i)
  /\ UNCHANGED <<used, starred, selected, writes, op, archive, selectedBy, late, faults>>

DisplayCreate(i, d) ==
  /\ i \notin used
  /\ files' = [files EXCEPT ![i] = d]
  /\ used' = used \cup {i}
  /\ starred' = starred \cup {i}
  /\ Touched(i)
  /\ UNCHANGED <<selected, writes, op, archive, selectedBy, late, faults>>

DisplayDelete(i) ==
  /\ files[i] # NoDoc
  /\ files' = [files EXCEPT ![i] = NoDoc]
  /\ starred' = starred \ {i}
  /\ Touched(i)
  /\ UNCHANGED <<used, selected, writes, op, archive, selectedBy, late, faults>>

DisplaySelect(i) ==
  /\ files[i] # NoDoc
  /\ selected' = i
  /\ selectedBy' = "unseen"
  /\ Touch
  /\ UNCHANGED <<files, used, starred, writes, op, archive, hand, late, faults>>

DisplayTouch ==
  \E i \in FileIds :
    \/ \E d \in Docs : DisplayEdit(i, d) \/ DisplayCreate(i, d)
    \/ DisplayDelete(i)
    \/ DisplaySelect(i)

\* A person turns the switch; it is read again for every write.
TurnWrites ==
  /\ writes' = ~writes
  /\ late' = 0
  /\ UNCHANGED <<files, used, starred, selected, op, archive, hand, selectedBy,
                 touches, faults>>

=============================================================================
