------------------------------ MODULE Restarts ------------------------------
(* A start and a stop of the app (main.py lifespan), and what a restart is asked *)
(* to do on the way: finish a reset (db/reset.py), upgrade the database          *)
(* (db/upgrade.py), put a restored one in place (db/restore.py, api/backup.py).  *)
(* The process may be killed and the power cut between any two steps.            *)
EXTENDS DataFiles, FiniteSets

CONSTANTS Nothing, MaxRows, MaxCrashes, MaxErrors

ASSUME RestartsAssumption ==
  /\ Archive # Fresh /\ {Archive, Fresh} \cap Uploads = {}
  /\ NoFile # Torn /\ {NoFile, Torn} \cap (Databases(MaxRows) \cup Logs(MaxRows)) = {}
  /\ Uploads \cap {"db", "wal", "backup", "copying", "reset", "resetting"} = {}
  /\ Nothing \notin {Fresh} \cup Uploads
  /\ MaxRows \in Nat /\ MaxCrashes \in Nat /\ MaxErrors \in Nat

VARIABLES
  pc,        \* where the start or the stop of the process is
  uploads,   \* what each upload has come to
  pending,   \* app.state.restore_pending: the upload it names, or Nothing
  stop,      \* SIGTERM was sent
  served,    \* what the app serves, or served last
  asked, sure, ended, before,   \* history: see OneArchive
  wiped,     \* history: the archives a reset has erased
  upgraded,  \* history: the archive was upgraded
  crashes, errors

request == <<asked, sure>>
ending == <<ended, before>>
process == <<uploads, pending, stop>>
vars == <<files, disk, pc, process, served, request, ending, wiped, upgraded, crashes, errors>>

InHand == {"room", "stream", "prepare"}

Init ==
  /\ \E level \in {"older", "current"} :
       files = [name \in Names |->
                  IF name = "db" THEN [of |-> Archive, level |-> level, rows |-> 0, writes |-> TRUE] ELSE NoFile]
  /\ served = [of |-> Archive, rows |-> 0, writes |-> TRUE]
  /\ disk = files /\ pc = "off" /\ uploads = [u \in Uploads |-> "new"] /\ pending = Nothing /\ stop = FALSE
  /\ asked = Nothing /\ sure = FALSE /\ ended = "well" /\ before = {} /\ wiped = {} /\ upgraded = FALSE
  /\ crashes = 0 /\ errors = 0

Go(from, to) == pc = from /\ pc' = to
AsItIs == UNCHANGED <<files, disk>>
Error == errors < MaxErrors /\ errors' = errors + 1
Rest == UNCHANGED <<process, served, request, ending, wiped, upgraded, crashes>>

\* The process is over; an upload that was in hand is lost with it.
Over ==
  /\ pc' = "off" /\ pending' = Nothing /\ stop' = FALSE
  /\ uploads' = [u \in Uploads |-> IF uploads[u] = "new" THEN "new" ELSE "over"]
RestOver == UNCHANGED <<served, request, ending, wiped, upgraded, crashes>>

----------------------------------------------------------------------------
(* A reset that is waiting is finished before anything is opened (`complete_reset`). *)

Start == Go("off", "reset") /\ AsItIs /\ UNCHANGED errors /\ Rest

\* Mutants: the log is forgotten; or the copies the upgrade made.
DoomedButCopies == {"db", "wal", "copying"} \cup Uploads
DoomedButLog == {"db", "backup", "copying"} \cup Uploads

Doomed == {"db", "wal", "backup", "copying"} \cup Uploads

\* The database goes first, its log next; a crash repeats the whole.
Doomable ==
  LET left == {name \in Doomed : Here(name)}
  IN  IF "db" \in left THEN {"db"} ELSE IF "wal" \in left THEN {"wal"} ELSE left

NoReset == ~Here("reset") /\ Go("reset", "clean") /\ Unlink({"resetting"})
DeleteOne == Here("reset") /\ pc = "reset" /\ (\E name \in Doomable : Unlink({name})) /\ UNCHANGED pc
AllDeleted == Here("reset") /\ Doomable = {} /\ Go("reset", "unmark") /\ Flush
Unmark == Go("unmark", "unmarked") /\ Unlink({"reset"})
ResetOver == Go("unmarked", "clean") /\ Flush

CompleteReset ==
  /\ \/ (NoReset \/ DeleteOne \/ Unmark \/ ResetOver) /\ UNCHANGED wiped
     \/ AllDeleted /\ wiped' = wiped \cup {Archive} \cup {u \in Uploads : uploads[u] # "new"}
  /\ UNCHANGED <<process, served, request, ending, upgraded, crashes, errors>>

----------------------------------------------------------------------------
(* What an earlier process left goes; an older database is upgraded, a copy first. *)

Clean == Go("clean", "upgrade") /\ Unlink({"copying"} \cup Uploads) /\ UNCHANGED errors /\ Rest

Older == Here("db") /\ files["db"].level = "older"
Upgrade == Older /\ Go("upgrade", "copy") /\ AsItIs /\ UNCHANGED errors /\ Rest
NoUpgrade == ~Older /\ Go("upgrade", "open") /\ AsItIs /\ UNCHANGED errors /\ Rest

\* `write_backup`: under a temporary name, flushed, renamed, the directory flushed.
Copying == Go("copy", "copying") /\ Change([files EXCEPT !["copying"] = Torn])
Copied == Go("copying", "copied") /\ Rewrite("copying", Reads(files))
CopyNamed == Go("copied", "named") /\ Change([files EXCEPT !["backup"] = files["copying"], !["copying"] = NoFile])
CopyKept == Go("named", "steps") /\ Flush

\* Mutant: the steps need no copy.
CopyLater == Go("copy", "steps") /\ Change([files EXCEPT !["backup"] = Reads(files)])

WriteBackup == Copying \/ Copied \/ CopyNamed \/ CopyKept

\* All the steps are one transaction.
StepsDone == Go("steps", "open") /\ Rewrite("db", [Reads(files) EXCEPT !.level = "current"])
UpgradeDatabase ==
  /\ \/ WriteBackup /\ UNCHANGED upgraded
     \/ StepsDone /\ upgraded' = TRUE
  /\ UNCHANGED <<process, served, request, ending, wiped, crashes, errors>>

\* A start that is refused: no room, a copy that fails, a step that fails.
UpgradeRefused ==
  /\ Error /\ Over /\ RestOver
  /\ \/ pc = "upgrade" /\ Older /\ AsItIs
     \/ pc \in {"copy", "copying", "copied", "named"} /\ files' = Without({"copying", "backup"}) /\ disk' = files'
     \/ pc = "steps" /\ Unlink({"backup"})

----------------------------------------------------------------------------
(* The database is opened, and made when there is none (`ensure_schema`); then the app serves. *)

Opened == IF Here("db") THEN Reads(files) ELSE [of |-> Fresh, level |-> "current", rows |-> 0, writes |-> FALSE]

\* The directory was never flushed since another database was put in place of the one the disk has.
Lagging == Here("db") /\ disk["db"] # NoFile /\ disk["db"].of # files["db"].of

Open ==
  /\ Go("open", "serving")
  /\ IF Here("db") THEN AsItIs ELSE files' = [files EXCEPT !["db"] = Opened] /\ disk' = files'
  /\ served' = [of |-> Opened.of, rows |-> Opened.rows, writes |-> Opened.writes]
  /\ asked' = Nothing /\ sure' = FALSE /\ ended' = "well"
  /\ before' = IF Lagging THEN before \cup ({served} \ {served'}) ELSE {}
  /\ UNCHANGED <<process, wiped, upgraded, crashes, errors>>

StartFails == pc = "open" /\ Error /\ Over /\ AsItIs /\ RestOver

Serving == pc = "serving"

Commit ==
  /\ Serving /\ served.rows < MaxRows /\ served' = [served EXCEPT !.rows = @ + 1]
  /\ AppendToLog([of |-> served.of, rows |-> served.rows + 1]) /\ before' = {}
  /\ UNCHANGED <<pc, process, request, ended, wiped, upgraded, crashes, errors>>

----------------------------------------------------------------------------
(* The restore page. Once a restore or a reset is accepted the routes refuse; a request that began before *)
(* goes on.                                                                                               *)

Accepted == pending # Nothing \/ asked = Fresh

Handler(u, from, to) == Serving /\ uploads[u] = from /\ uploads' = [uploads EXCEPT ![u] = to]
HandlerRest == UNCHANGED <<pc, stop, served, ending, wiped, upgraded, crashes>>
NotApplied == UNCHANGED <<pending, request>>

Upload(u) == Handler(u, "new", IF Accepted THEN "over" ELSE "room") /\ ~stop /\ AsItIs /\ UNCHANGED errors /\ NotApplied

\* `stage_upload`: any earlier staged file goes first, whoever has come to need it since.
Discard(u) ==
  /\ Handler(u, "room", "stream") /\ files' = [Without(Uploads) EXCEPT ![u] = Torn]
  /\ disk' \in {disk, Without(Uploads), files'} /\ UNCHANGED errors /\ NotApplied

\* `validate_staged`, which upgrades the staged copy of an older version's backup.
Staged(u) ==
  /\ Handler(u, "stream", "staged") /\ Here(u)
  /\ Rewrite(u, [of |-> u, level |-> "current", rows |-> 0, writes |-> TRUE]) /\ UNCHANGED errors /\ NotApplied
UploadRefused(u) ==
  /\ \E from \in {"room", "stream"} : Handler(u, from, "over")
  /\ IF uploads[u] = "stream" /\ ~Here(u) THEN UNCHANGED errors ELSE Error
  /\ Unlink({u}) /\ NotApplied

Cancel(u) == Handler(u, "staged", "over") /\ ~stop /\ ~Accepted /\ Unlink({u}) /\ UNCHANGED errors /\ NotApplied

\* No wait between the check and the mark; while work is running, the staged file goes.
ApplyBusy(u) == Handler(u, "staged", "over") /\ ~stop /\ Here(u) /\ ~Accepted /\ Unlink({u}) /\ UNCHANGED errors /\ NotApplied
Apply(u) ==
  /\ Handler(u, "staged", "prepare") /\ ~stop /\ Here(u) /\ ~Accepted /\ pending' = u /\ asked' = u /\ UNCHANGED sure
  /\ AsItIs /\ UNCHANGED errors

\* `prepare_staged`: nobody signed in, the Writes switch off. On a file that has gone it makes an empty one.
Prepared(u) == Rewrite(u, [files[u] EXCEPT !.writes = FALSE])
Prepare(u) == files[u] \notin {NoFile, Torn} /\ Prepared(u)

Applied(u) ==
  /\ Handler(u, "prepare", "applied") /\ Prepare(u) /\ stop' = TRUE
  /\ UNCHANGED <<pc, served, ending, wiped, upgraded, crashes, errors>> /\ NotApplied
ApplyFails(u) ==
  /\ Handler(u, "prepare", "staged") /\ pending' = Nothing /\ asked' = Nothing /\ UNCHANGED sure
  /\ \/ files[u] \notin {NoFile, Torn} /\ Error /\ AsItIs
     \/ files[u] \in {NoFile, Torn} /\ Change([files EXCEPT ![u] = Torn]) /\ UNCHANGED errors

Restore(u) ==
  \/ (\/ Upload(u) \/ Discard(u) \/ Staged(u) \/ UploadRefused(u) \/ Cancel(u)
      \/ ApplyBusy(u) \/ Apply(u) \/ ApplyFails(u)) /\ HandlerRest
  \/ Applied(u)

----------------------------------------------------------------------------
(* The reset's route writes the marker without letting anything else in (`write_reset_marker`). *)

ResetAsked ==
  /\ Go("serving", "mark") /\ ~stop /\ ~Accepted /\ asked' = Fresh /\ UNCHANGED sure
  /\ Change([files EXCEPT !["resetting"] = Torn]) /\ UNCHANGED <<stop, errors>>
MarkNamed ==
  /\ Go("mark", "marked") /\ Change([files EXCEPT !["reset"] = Torn, !["resetting"] = NoFile])
  /\ UNCHANGED <<stop, request, errors>>
\* Mutant: the directory is not flushed.
MarkerUnflushed == AsItIs
MarkerFlushed == Flush

\* 202: from here on the reset happens.
ResetAnswered ==
  /\ Go("marked", "serving") /\ MarkerFlushed /\ sure' = TRUE /\ stop' = TRUE /\ UNCHANGED <<asked, errors>>

\* Mutant: only the temporary name is removed.
MarkLeft == {"resetting"}

MarkGone == {"resetting", "reset"}
ResetFails ==
  /\ pc \in {"mark", "marked"} /\ pc' = "serving" /\ Error /\ files' = Without(MarkGone) /\ disk' = files'
  /\ asked' = Nothing /\ UNCHANGED <<sure, stop>>

Reset ==
  /\ ResetAsked \/ MarkNamed \/ ResetAnswered \/ ResetFails
  /\ UNCHANGED <<uploads, pending, served, ending, wiped, upgraded, crashes>>

----------------------------------------------------------------------------
(* The stop: SIGTERM, the requests in hand end, the database is closed, an accepted restore is put in place. *)

Terminate == Serving /\ ~stop /\ stop' = TRUE /\ AsItIs /\ UNCHANGED <<pc, uploads, pending, served, request, ending, wiped, upgraded, crashes, errors>>

\* Another process that has the file open keeps its log.
Close ==
  /\ Serving /\ stop /\ \A u \in Uploads : uploads[u] \notin InHand
  /\ (Fold \/ AsItIs)
  /\ IF pending = Nothing THEN Over ELSE pc' = "swap" /\ UNCHANGED process
  /\ UNCHANGED errors /\ RestOver

LogLeft == Here("wal")

SwapRefused == pc = "swap" /\ LogLeft /\ AsItIs /\ Over /\ UNCHANGED errors /\ RestOver
SwapFails ==
  /\ pc = "swap" /\ ~LogLeft /\ Over /\ RestOver /\ Unlink({"wal"})
  /\ IF Here(pending) THEN Error ELSE UNCHANGED errors
SidecarNames == {"wal"}
SidecarsGone == Go("swap", "replace") /\ ~LogLeft /\ Here(pending) /\ Unlink(SidecarNames) /\ UNCHANGED errors /\ Rest
Replace ==
  /\ Go("replace", "replaced") /\ Change([files EXCEPT !["db"] = files[pending], ![pending] = NoFile])
  /\ UNCHANGED errors /\ Rest
Replaced == pc = "replaced" /\ Flush /\ Over /\ UNCHANGED errors /\ RestOver

\* A process that is killed, or cannot flush what it has put in place, leaves that to the next power cut.
Badly == ended' = (IF ended = "well" THEN "killed" ELSE ended) /\ UNCHANGED <<served, request, before, wiped, upgraded>>

Unflushed == pc = "replaced" /\ Error /\ AsItIs /\ Over /\ Badly /\ UNCHANGED crashes

SwapIn == SwapRefused \/ SwapFails \/ SidecarsGone \/ Replace \/ Replaced \/ Unflushed

----------------------------------------------------------------------------

Crash ==
  /\ pc # "off" /\ crashes < MaxCrashes /\ crashes' = crashes + 1 /\ AsItIs /\ Over
  /\ Badly /\ UNCHANGED errors
PowerCut ==
  /\ crashes < MaxCrashes /\ crashes' = crashes + 1 /\ PowerIsCut /\ Over /\ ended' = "cut"
  /\ UNCHANGED <<served, request, before, wiped, upgraded, errors>>

Boot == Start \/ CompleteReset \/ Clean \/ Upgrade \/ NoUpgrade \/ UpgradeDatabase \/ Open
Failures == UpgradeRefused \/ StartFails
Next ==
  \/ Boot \/ Failures \/ Commit \/ (\E u \in Uploads : Restore(u)) \/ Reset
  \/ Terminate \/ Close \/ SwapIn \/ Crash \/ PowerCut

\* The container is started again (compose.yml: `restart: unless-stopped`), and what runs goes on.
Spec ==
  /\ Init /\ [][Next]_vars
  /\ WF_vars(Boot) /\ WF_vars(Reset /\ pc # "serving") /\ WF_vars(Close) /\ WF_vars(SwapIn)
  /\ \A u \in Uploads : WF_vars(uploads[u] \in InHand /\ Restore(u))

----------------------------------------------------------------------------

Stages == InHand \cup {"new", "staged", "applied", "over"}
Places == {"off", "reset", "unmark", "unmarked", "clean", "upgrade", "copy", "copying", "copied", "named", "steps",
           "open", "serving", "mark", "marked", "swap", "replace", "replaced"}

\* There is no moment without a database (`restore.py`), but while a reset erases it and before the first is made.
TypeOK ==
  /\ \A name \in {"db", "backup"} \cup Uploads : files[name] \in Databases(MaxRows) \cup {NoFile, Torn}
  /\ files["wal"] \in Logs(MaxRows) \cup {NoFile}
  /\ pc \in Places /\ uploads \in [Uploads -> Stages] /\ pending \in Uploads \cup {Nothing} /\ stop \in BOOLEAN
  /\ \A dir \in Possible :
       dir["db"] \in Databases(MaxRows) \/ (dir["db"] = NoFile /\ (asked = Fresh \/ served.of = Fresh))

\* An old log is never read with another database, whatever a crash leaves (`swap_in`, `complete_reset`).
OwnLog ==
  \A dir \in Possible : dir["wal"] # NoFile =>
    IF dir["db"] = NoFile THEN dir["reset"] # NoFile ELSE dir["db"].of = dir["wal"].of

\* The data directory holds whole files of the kinds the start knows, and no log of another database.
DirectoryOK == TypeOK /\ OwnLog

\* What a reset erased is nowhere in the data directory again, not even after a power cut.
Erased ==
  \A dir \in Possible, name \in {"db", "backup", "copying"} \cup Uploads :
    dir[name] \in Databases(MaxRows) => dir[name].of \notin wiped

\* A database is upgraded only once a whole copy of it as it was will be there whatever happens.
CopyFirst ==
  upgraded /\ Archive \notin wiped /\ asked # Fresh =>
    \A dir \in Possible : dir["backup"] \in Databases(MaxRows) /\ dir["backup"].level = "older"

\* Every start serves what was there, or what was asked for, whole.
Promised == INSTANCE OneArchive WITH archive <- served
KeepsPromises == Promised!OneArchiveSpec

\* A reset that was answered is carried out.
ResetHappens == sure ~> served.of = Fresh
=============================================================================
