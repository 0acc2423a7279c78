----------------------------- MODULE OneArchive -----------------------------
(* What a person is promised about the archive (the module docstrings of         *)
(* db/restore.py, db/reset.py, db/upgrade.py): every start serves what the last  *)
(* one served with all that was stored since, or, whole, what was asked for in   *)
(* between; a reset that was answered is carried out however the process ends.   *)
(* A power cut may take what was stored last. If the process that put a restored *)
(* archive in place was killed over it, or could not flush it, a power cut may   *)
(* also bring back the one before, until something is stored.                    *)
EXTENDS Naturals

CONSTANTS Archive, Fresh, Uploads, Nothing, MaxRows
VARIABLES archive,   \* what the app serves, or served last
          before,    \* what a power cut may bring back instead
          asked,     \* a restore or a reset that was asked for and has not been served yet
          sure,      \* and answered as certain
          ended      \* how the process ended since the last start: well, killed (or unflushed), or by a power cut

vars == <<archive, before, asked, sure, ended>>

\* A restored archive comes with the Writes switch off.
New(which) == [of |-> which, rows |-> 0, writes |-> FALSE]

Init ==
  /\ archive = [of |-> Archive, rows |-> 0, writes |-> TRUE] /\ before = {}
  /\ asked = Nothing /\ sure = FALSE /\ ended = "well"

Store ==
  /\ archive.rows < MaxRows /\ archive' = [archive EXCEPT !.rows = @ + 1]
  /\ before' = {} /\ UNCHANGED <<asked, sure, ended>>

Ask(which) == asked = Nothing /\ asked' = which /\ UNCHANGED <<archive, before, sure, ended>>
Withdraw == ~sure /\ asked' = Nothing /\ UNCHANGED <<archive, before, sure, ended>>
Answer == asked = Fresh /\ sure' = TRUE /\ UNCHANGED <<archive, before, asked, ended>>
Killed == ended' = (IF ended = "well" THEN "killed" ELSE ended) /\ UNCHANGED <<archive, before, asked, sure>>
PowerCut == ended' = "cut" /\ UNCHANGED <<archive, before, asked, sure>>

Kept ==
  IF ended = "cut" THEN UNION {{[a EXCEPT !.rows = rows] : rows \in 0..a.rows} : a \in {archive} \cup before} ELSE {archive}

Restored == asked \in Uploads /\ archive' = New(asked)

Serve ==
  /\ archive' \in (IF sure THEN {} ELSE Kept) \cup (IF asked = Nothing THEN {} ELSE {New(asked)})
  /\ before' \in {{}, before} \cup (IF Restored /\ ended = "killed" THEN {before \cup {archive}} ELSE {})
  /\ asked' = Nothing /\ sure' = FALSE /\ ended' = "well"

Next == Store \/ (\E which \in {Fresh} \cup Uploads : Ask(which)) \/ Withdraw \/ Answer \/ Killed \/ PowerCut \/ Serve
OneArchiveSpec == Init /\ [][Next]_vars
=============================================================================
