---------------------------- MODULE GuardedFiles ----------------------------
(***************************************************************************)
(* The operations of MachineFiles under any caller: one that only ever     *)
(* expects on a file a document the app has stored.  The sync engine holds *)
(* a lock, so one operation runs at a time (drafts/board.py calls          *)
(* overwrite, place and remove_profile from its write phase and nothing    *)
(* else does).                                                             *)
(***************************************************************************)
EXTENDS MachineFiles

Init ==
  /\ files \in [FileIds -> Docs \cup {NoDoc}]
  /\ used = Held
  /\ Held # {}
  /\ starred = used
  /\ selected \in used
  /\ writes = TRUE
  /\ op = Idle
  /\ archive = {}
  /\ hand = [i \in FileIds |-> "unseen"]
  /\ selectedBy = "unseen"
  /\ late = 0
  /\ touches = 0
  /\ faults = 0

\* The profile pass reads every file and stores what it holds.
Mirror ==
  /\ op.pc = "idle"
  /\ archive' = archive \cup {files[i] : i \in Held}
  /\ hand' = [i \in FileIds |-> IF hand[i] = "unseen" THEN "seen" ELSE hand[i]]
  /\ UNCHANGED <<files, used, starred, selected, writes, op, selectedBy, late, touches,
                 faults>>

\* The caller begins an operation; what it sends is a stored version.
Begin(o) ==
  /\ op.pc = "idle"
  /\ op' = o
  /\ archive' = IF o.sent = NoDoc THEN archive ELSE archive \cup {o.sent}
  /\ UNCHANGED <<files, used, starred, selected, writes, hand, selectedBy, late,
                 touches, faults>>

\* Mutant: the caller expects what it has just loaded, stored or not.
BeginOverwriteFresh == \E i \in Held, sent \in Docs : Begin(Overwrite(i, sent, files[i]))

BeginOverwrite == \E i \in used, sent \in Docs, recorded \in archive :
                    Begin(Overwrite(i, sent, recorded))
BeginPlace == \E sent \in Docs : used # FileIds /\ Begin(Place(sent))
BeginRemove == \E i \in used, recorded \in archive, successor \in used \cup {NoFile},
                 blocked \in BOOLEAN : Begin(Remove(i, recorded, successor, blocked))

\* The caller takes the result.
Settle ==
  /\ op.pc = "done"
  /\ op' = Idle
  /\ UNCHANGED <<files, used, starred, selected, writes, archive, hand, selectedBy,
                 late, touches, faults>>

Next ==
  \/ Mirror \/ BeginOverwrite \/ BeginPlace \/ BeginRemove \/ Settle
  \/ Frame \/ Abandon \/ DisplayTouch \/ TurnWrites

Spec == Init /\ [][Next]_fileVars

-----------------------------------------------------------------------------
TypeOK ==
  /\ files \in [FileIds -> Docs \cup {NoDoc}]
  /\ used \in SUBSET FileIds
  /\ starred \in SUBSET FileIds
  /\ selected \in FileIds
  /\ writes \in BOOLEAN
  /\ op \in Ops
  /\ archive \in SUBSET Docs
  /\ hand \in [FileIds -> {"app", "seen", "unseen"}]
  /\ selectedBy \in {"checked", "seen", "unseen"}
  /\ late \in Nat
  /\ touches \in 0 .. MaxTouches
  /\ faults \in 0 .. MaxFaults

-----------------------------------------------------------------------------
(* What the guards promise.                                                 *)

\* A write frame of the app takes away what file i holds.
AppReplaces(i) ==
  /\ touches' = touches
  /\ files[i] # NoDoc
  /\ files'[i] # files[i]

\* Undoing a save that did not verify: the document put back, or the new copy taken off.
Undoing == op.pc = "putback_send" \/ op.cleanup

\* Whatever a frame takes away was stored in the archive first, unless it was changed at
\* the display after the last load the frame's guard made (the machine has no
\* compare-and-swap), or the frame undoes a save.
GuardedReplace ==
  [][\A i \in FileIds :
       AppReplaces(i) /\ hand[i] = "seen" /\ ~Undoing => files[i] \in archive]_fileVars

\* Undoing included: a frame takes away exactly the document its guard was shown.
ReplacesWhatItSaw ==
  [][\A i \in FileIds :
       AppReplaces(i) /\ hand[i] # "unseen" =>
         /\ i = op.id
         /\ files[i] = IF op.pc = "putback_send" THEN op.served ELSE op.expected]_fileVars

\* The selected profile is deleted only when it was selected at the display while its
\* removal was under way.
SelectedGoesByRaceOnly ==
  [][\A i \in FileIds :
       AppReplaces(i) /\ files'[i] = NoDoc /\ selected = i => selectedBy # "checked"]_fileVars

\* After the switch is turned off at most the one frame already authorised goes out.
OneFrameAfterSwitchOff == late <= 1

=============================================================================
