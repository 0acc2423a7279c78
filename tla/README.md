# gaggiclanker: models and proofs

gaggiclanker archives the shots and the profiles of a GaggiMate espresso machine, keeps a
*profile list* that says which profiles belong on the machine, makes machine and list agree
on every sync, and has language models talk with a person about the shots and propose changes a
person approves. This directory holds TLA+ models of that, TLC configurations that check them on
small instances, and TLAPS proofs. Paths below are relative to `src/gaggiclanker/` unless they
start with `docs/` or `tests/`.

    tlc -workers 2 -config GuardedFiles.cfg MCGuardedFiles      # one run
    tlapm GuardedFiles_proofs.tla                               # one module's proofs

`PROJECT.json` lists the runs, the mutants, the source lines behind every definition, the
hazards and what was found.

## 1. The system

### Components

| component | code | state it keeps | operations | modules |
|---|---|---|---|---|
| machine | firmware; `device/fake.py` shows its answers | profile files, favourites, the selected profile, shots and their index | save, load, list, delete, select, favourite, brew, mode | `MachineFiles`, `ProfileBoard`, `ShotSync`, `DeviceLink` |
| device client | `device/client.py` | WebSocket, pending requests | ungated reads; gated writes: fresh load, compare, write frame | `MachineFiles`, `DeviceLink` |
| machine writes | `drafts/machine.py` | none between calls | `place`, `overwrite`, `remove_profile` | `MachineFiles`, `GuardedFiles` |
| plan of a sync | `drafts/board_plan.py`, `drafts/taken_names.py`, `domain/machine_names.py` | none | `PlanBuilder.compute`, `judge_file`, names | `BoardPlan` |
| sync of the list | `drafts/board.py` `run` | counters of one phase | join, take names, save, remove, star | `BoardSync`; the save's pull of shots: `ShotSync` |
| profile list and its pages | `db/repos/profile_board.py`, `drafts/board.py` | rows, their versions, adoption, pause | switch, star, rename, activate, put, resolve, resume | `ProfileBoard` |
| pins | `drafts/pins.py`, `db/repos/pins.py` | pins and their frozen copies | pin, unpin, bring back | `ProfileBoard` |
| sync engine | `sync/engine.py` | one lock, pokes, announced shots | shot pass, profile pass, identity pass | `ShotSync`, `FetchPipeline`, `BoardSync`, `Connection` |
| shots as stored | `db/repos/shots.py` | rows with identity, link and index facts | insert, adopt a start, reconcile, link | `ShotSync` |
| device connection | `device/connection.py` | client, engine, the configuration they were built for | start, hand-out, busy check, rebuild, stop | `Connection`, `DeviceLink` |
| database | `db/connection.py` | one SQLite connection, a transaction lock | transaction, bare statements | `Transactions` |
| upgrade, restore, reset | `db/upgrade.py`, `db/restore.py`, `db/reset.py`, `api/backup.py`, `main.py` | names in the data directory | what is done at boot, by two routes and after the stop | `DataFiles`, `Restarts` |
| signatures and requests | `signatures/*`, `db/repos/signatures.py`, `signature_requests.py` | expectations, limits, requests | a person's verbs, an agent's requests, approving | `Signatures`, `Requests` |
| drafts and proposals | `drafts/proposals.py`, `db/repos/profile_drafts.py` | drafts | propose, approve, decline, discard | `Requests`, `Recipes`, `ProfileBoard` |
| chat runner | `chat/runner.py`, `api/chat.py` | run rows, messages, events, tasks | send, cancel, reconcile at boot, stream | `ChatRun` |
| events and tasks | `infra/sse.py`, `infra/tasks.py` | bounded queues, a task registry | publish, subscribe, cancel | `ChatRun`, `Connection` |
| recipes | `db/repos/recipes.py`, `recipe_proposals.py`, `version_names.py` | recipes, versions, predictions, cards | create, design, append, follow a profile, revert, grade, propose, accept | `RecipeTables`, `Recipes`; the label on the machine: `ProfileBoard` |
| judgements, outcomes, insights | `db/repos/outcome_proposals.py`, `judgements.py`, ... | proposals waiting for a person | answer, withdraw | outcomes: `Recipes` |
| reviews, patterns, starting points | `review/`, `patterns/`, `starting/` | one run at a time | start, finish, reconcile, accept | accepting a starting point: `Recipes` |
| shot domain | `domain/*`, `sync/derive.py` | none | parsing and numbers | none |
| model layer, tools, knowledge, imports, auth, web | the rest | key and value rows | calls out, reads | none |

### What is hard about it, and what makes it correct

*Machine writes.* The machine has no compare-and-swap and no transactions. An operation is up to
eight frames long, and a person may edit, delete or select at the display between any two. Correct
means: nothing is taken away that the app was not shown and has not stored; a selected profile is
not removed; a switch turned off stops the operation.

*The plan and the sync.* A row knows four things about its file (the version it should hold, the
document last recorded for it, the versions it has had, a file a person overruled), and they
change at different times, by different actors, across failures. Correct means: an edit at the
display is taken, asked about or kept, never lost and never undone unasked; a machine that was
reset is not filled or emptied before somebody says so; the selected profile
is not pulled from under somebody; and list and machine come to agree.

*The shots.* The machine's number of a shot is used again after an erase, a file may not parse and then has no
start time, an announcement may be lost, the index is rebuilt under a pass, and a profile keeps its file id when its
content changes. Correct means: facts go to the shot they are about, a shot is linked to the content it was brewed with, and
what a pass missed the next one finds.

*The engine and its connection.* Shot pass and profile pass share one lock, fetch workers feed
a bounded queue, and a change of settings replaces client and engine under running work. Correct
means: no pass is cut, nothing half built stays, and nobody waits for ever.

*The client's socket.* Answers come in any order, a socket may be lost under the calls that wait on it, its client may be stopped while it
is used, and writes go by the last status. Correct means: whoever waits is told, the link comes back, and a mode switch ends no shot
the machine had reported.

*The database.* Every task shares one connection; `transaction()` excludes other transactions, not
other tasks' single statements, and a task may be cancelled while the driver still runs its statement.
Correct means that transactions are whole, one at a time, whatever becomes of their tasks.

*Everything a person approves later.* A request is examined when it is made and carried out much
later, on rows that have moved on. Correct means the button works as long as it is shown, and does what was asked.

*A Recipe and its profile.* A profile has at most one Recipe, each version of the Recipe names a version of the profile's, and nine
operations of four modules move one or the other: a profile approved, adopted, edited at the machine or made active, a version added,
reverted to or filled in, a proposal accepted. A version may exist before any profile owns it, and be taken over later with the Recipe
that brews it. Correct means that the two brew one thing after every operation, and that a card that waits is about what is brewed.

*Restart.* Reset, restore and upgrade are sequences of steps on a directory, begun by one process and ended by the next.
Correct means a crash between any two leaves one whole archive, and what was promised happens.

*Runs.* A conversation's run is a row, a task, a transcript and a sequence of events; each can be cut without the others.
Correct means it ends once, its stream has no gap, and the conversation can go on.

`PROJECT.json` lists each of these as hazards at the lines where they bite.

## 2. The modules

    MachineFiles --- GuardedFiles --- MCGuardedFiles
                          \---------- GuardedFiles_proofs
    BoardPlan --- BoardSync --- ProfileBoard --- MCProfileBoard
                                        \---------- ProfileBoard_proofs
    ShotSync --- MCShotSync
          \---------- ShotSync_proofs
    ShotDelivery <== FetchPipeline --- MCFetchPipeline
                          \---------- FetchPipeline_proofs
    Connection --- DeviceLink --- MCConnection
                          \---------- Connection_proofs
    AtomicWrites <== Transactions --- MCTransactions
                          \---------- Transactions_proofs
    ChatRun --- MCChatRun
          \---------- ChatRun_proofs
    OneArchive <== Restarts --- MCRestarts          (DataFiles --- Restarts)
          \---------- Restarts_proofs
    Signatures --- Requests --- Cards --- MCCards
    RecipeTables --- Recipes --- Cards

`---` is EXTENDS, `A <== B` is: B implements A under a refinement mapping, checked as a property of B's run.

### MachineFiles, GuardedFiles: the operations frame by frame

`MachineFiles` models `drafts/machine.py` over the gated writes of `device/client.py`. One frame
of the WebSocket is one action.

| state | code |
|---|---|
| `files`, `used`, `starred`, `selected` | the machine |
| `writes` | the setting deviceWritesEnabled, as `SettingsWriteGate` reads it |
| `op` | the call of `place`, `overwrite` or `remove_profile` in progress: its arguments, the next frame, its result |
| `archive` | the documents the app has a version of |
| `hand`, `selectedBy`, `late` | history: who wrote a file last and whether the app has loaded it since; the same of the selection; frames since the switch went off |

| actions | code |
|---|---|
| `Look`, `Guard`, `Send`, `Verify`, `PutBackGuard`, `PutBackSend`, `PutBackVerify` | `overwrite`, `save_profile`, `_read_back` |
| `SendNew`, `VerifyNew` | `place`, and `_push_new`'s removal of a file that did not read back |
| `Check`, `Carry`, `Again`, `DeleteGuard`, `Delete` | `remove_profile`, `_check`, `delete_profile` |
| `Abandon` | the task is cancelled or the process stops |
| `TurnWrites` | the switch |
| `DisplayEdit`, `DisplayCreate`, `DisplayDelete`, `DisplaySelect` | somebody at the display |

Every frame may go wrong: its answer lost with or without its effect, or stored changed.
`GuardedFiles` adds what the board does around an operation: it reads the machine and stores what
it served (`Mirror`), begins an operation with the document it has recorded (`BeginOverwrite`,
`BeginPlace`, `BeginRemove`) and takes the result (`Settle`). One operation runs at a time, because
every caller holds the engine's lock.

### BoardPlan, BoardSync, ProfileBoard: the list and its sync

`BoardPlan` has the list and `PlanBuilder.compute` as operators over it. A row is a record with what
`profile_board` and its versions hold; a document is a brew under a name; a name is a sequence of
words, so that what `app_suffix` and `name_taken_from` do to a version label at the end of a name
is modelled by what they do. `judge_file` is `Knows`, `BrewInConflict`, `NameInConflict`,
`TakesTheName`, `InConflict`; a row's plan is `WhatLive` or `WhatDeleted`; `PlanOf` puts them
together with the files that join, the successor and the stars. It keeps the decision a plan was made on (`was`), as the code keeps the row it read.

`BoardSync` is the sync: `Mirror` (the engine's profile pass up to the board), `Adopt` (the first take-in), `Pause`,
`Begin`, then per profile `Join`, `Take`, `ApplyRow` with `SaveOver` and `SaveNew`, `ApplyOff` and
`ApplyDeleted` with `Ask`, `Remove` and `LetGo`, `PutStar`, and `End`; with the switch off only names are
taken (`TakeFromTheMirror`, `EndOffline`). `Crash` stops it anywhere. The plan is computed once and
walked; rows are read again where the code reads them again and nowhere else. An operation on the machine
is one step whose outcomes are those `MachineFiles` gives, a put-back that failed and an answer lost after its effect
included; asking whether a file may go and removing it are two steps, since a person may act in
between.

`ProfileBoard` is everybody together. Each page's operation is one action (one database transaction): `SwitchRow`, `Star`, `Rename`,
`MakeActive`, `Put`, `PutNew`, `KeepApp`, `KeepMachinesName`, `KeepMachine`, `Resume`,
`RecipeMoves`, `SetBounds`, `TurnWrites`, `Pin`, `Unpin`, `BringBack`; and the display's:
`EditFile`, `CreateFile`, `DeleteFile`, `SelectFile`, `StarFile`, `FactoryReset`. The machine
starts in use and the app starts fresh beside it.

### ShotSync: the shot pass and the pull before a save

| state | code |
|---|---|
| `files`, `rows`, `served`, `next`, `current`, `running` | the machine's shot files, `index.bin`, whether it is served, the next number, the shot under way and the status frame |
| `holds`, `mirrored` | what the profile's file holds, and what the archive says it holds |
| `archive` | the rows of the shots table: start time, number, rating, whether gone, the version it is linked to |
| `pushed`, `announced` | `_pushed_ids`, `_announced_since_pull` |
| `pass`, `sync` | `_sync_shots` and `_push_over` in progress |
| `on`, `calm`, `due`, `blurred`, `crossed` | history, for the properties |

A pass reads the index, pairs it with the archive (`Describes`, `Pairs`: `pair_index`), fetches what is missing in the order
`_missing_entries` gives (`Before`, with `Ready` for the two workers), stores it readable or quarantined (`StoreReadable`,
`StoreQuarantined`, `Adopted`) or fails (`FetchFails`), and reconciles (`Reconcile`). A profile pass looks whether a shot is running,
pulls the shots, looks again and saves (`LookFirst`, `PullStarts`, `PullEnds`, `LookAgain`, `Save`: `_push_over`,
`_pulled_the_shots`, `_a_shot_is_running`, `_pull_shots_before_saving`). At the machine shots are brewed, written, announced or not,
listed, rated, cleaned up, erased (and numbered from one again), the index rebuilt and the profile edited, each between any two steps of a pass.
A start time is the shot's number in the order of brewing, so it identifies the shot as the code takes it to; `Unknown` is the 0 of a file that did not parse.

### ShotDelivery, FetchPipeline: the workers and their queue

`FetchPipeline` is `_fetch_pipeline` with its consumer in `_fetch_and_store`: each worker's place in its loop, the shared iterator,
the bounded queue with its putters waiting in the order they came, the pills, and the consumer that stores, gives up after
`GiveUp` failures in a row, is cancelled while it waits for a result or while it stores one. `ShotDelivery` is what it promises:
missing shots are handed over one at a time, each at most once, and in the end all of them or an abandoned pass.
`Delivers` is the refinement.

### Connection: settings, client and engine

State: the stored settings, the configuration built for, `client` and `engine` (which build they are of), the sockets and loops that
are open, pokes and passes of each engine, the connection's lock with its queue, and the requests in hand. A request asks for pulls
(`AskPull`, `Pull`) or changes settings: worked out (`AskChange`), checked (`CheckBusy`), written key by key (`Write`), read back (`ReadBack`),
then `StopEngine`, `StopClient`, `Build`, `StartEngine`, or `Failed`. An engine's loops wake, take its lock and finish (`Wake`, `TakeLock`,
`Finish`); one that does not stop when it is cancelled is `Over` later. `Stop` is the app's shutdown.

### DeviceLink: the socket of the client in use

| state | code |
|---|---|
| `link` | which client runs, where its `_supervise` or its `stop` is, and the number of its socket |
| `out`, `in` | frames on the socket, both ways |
| `machine`, `reported` | the machine's mode and its process (shots and flushes are numbered), and what it last reported on this socket |
| `shown` | `last_status` of each client, kept across its sockets |
| `call`, `count` | the calls of a client, and how many drops, touches and processes there were |

The supervisor is `Dial` or `Refuse`, `Notice` when the reader comes to the end of a lost socket, `Closed` (`_close_socket` once the socket is closed, with
`_fail_pending`), `Again` after the backoff; `stop` is `Stopping` (the cancellation, wherever the supervisor is, in the middle of closing included) and
`Stopped`. `Call` begins a request or a gated write, `Gate` is what follows the authorisation (the check against the last status and the frame in one
turn), `ReadFrame` is `_handle_frame`, and a call ends by `Return` or `TimeOut`. The machine's `Handle`, `Report`, `SwitchMode`, `StartShot` and
`ProcessEnds` are as the fake shows them. `Follows` ties a link to `Connection`: a client's link is fresh when it is built, and a change of settings goes on from
`StopClient` only when its link is stopped. There are two scenes. In `settings`, `Connection` runs by itself; in `calls`, the
client is used while one change takes the machine away or the app stops.

### AtomicWrites, Transactions: one connection for everybody

`Transactions` has the driver's queue of statements and SQLite (`Execute`, with what each statement does to the committed and the
uncommitted rows) and the tasks in `transaction()`: `Call`, `Lock`, `Resume` after each answer, `Undo`, `GiveUp` when the task is cancelled at any wait.
A task cancelled while it waits does not recall the statement it has sent. `AtomicWrites` says what a caller may rely on: a
transaction's writes appear together or not at all. `Whole` is the refinement. `OneAtATime` is that what is not yet in the file belongs to one
transaction at most (`Alone`), and that the lock is handed on to whoever waits and never lost (`InTurn`).

### ChatRun: a conversation, its runs and the stream

| state | code |
|---|---|
| `row`, `messages`, `stored` | `chat_runs`, `chat_messages`, `chat_events` |
| `running`, `cancel`, `at`, `turn` | `_running`, a run's stop flag, where its task is, its history, rounds, calls and results |
| `emitting`, `seq` | `_emit` between its number, the table and the bus |
| `stream` | `_run_stream`: its queue, the highest number, what the browser has seen |

`Send`, `Question`, `Register`, then `Begin` (`_history`), `Delta`, `Asks`, `CallTool`, `ToolDone`, `EndRound`, `Answers`, `Say`, `Said`,
`Finish`, with `ProviderFails`, `SayFails`, `TaskCancelled`, `Cancel` and `Restart` (which reconciles) between any two. `TaskCancelled` is the stop of the
process (`main.py:262`), the only one that cancels these tasks: it comes when no request is left, so no stream is open, and wherever the task waits. An event on its
way is then stored by the statement already sent and not published. The stream subscribes, replays,
and follows or reads the tail. The driver hands out answers in the order of its statements, and the model has that order where the stream
relies on it (`Rows`). The table of events is a set of numbered events, read in the order of their numbers.

### DataFiles, OneArchive, Restarts: the data directory across processes

`DataFiles` is the directory: the names in it, what a process sees (`files`) and what a power cut would leave (`disk`). Names made, renamed
or removed since the directory was last flushed may be undone from some point on, in order; a file's content is flushed where the code
flushes it; SQLite's log is not flushed at every commit.
`Restarts` goes from process start (`CompleteReset`, `Clean`, `UpgradeDatabase` with `WriteBackup`, `Open`) through the routes
(`Restore`: upload, check, cancel, apply, prepare; `Reset`: marker) to the stop (`Terminate`, `Close`, `SwapIn`), with errors where the
code handles them, and `Crash` and `PowerCut` anywhere. `OneArchive` is what a person is promised: the archive
is the old one, the restored one or a fresh one, each whole, and which of them changes only by what was asked. What a power cut may take is
what was stored last, or a restore whose process was killed before its flush, or could not flush (`before`; `ended` is how the last process ended, and an unflushed swap counts as a kill). `KeepsPromises` is the refinement,
from what opening the directory would read.

### Signatures, Requests: what an agent asks and a person answers

`Signatures` has the tables of one profile and one Recipe version as functions from database to database: a person's verbs
(`Reject`, `Restore`, `SetTier`, `RejectOverride`, `RestoreOverride`), an agent's (`AppendRows`, `AddOverride`), storing and applying requests,
staleness, carrying rows to another version, and the guard `NoProblems` (`problem_list`) that request and approval share.
`Requests` interleaves them: a request is one transaction (`Request`), a new expectation or limit is checked in one step and written in another
(`Propose`, `ProposeWrites`, `ProposeOverride`, `OverrideWrites`), a person answers rows or cards (`Answer`, `Approve`, `Decline`); with a proposal its version
takes the base's rows (`StoreVersion`), its request names the copies (`RequestForDraft`) and is applied to the version the profile ends up
with (`ApproveDraft`), or goes with it (`DeclineDraft`).

### RecipeTables, Recipes: a Recipe and the profile it brews

`RecipeTables` has the rows of profiles' versions, Recipes, their versions, their cards and the proposals of profiles, and what one transaction makes of
them, each operation a function from tables to tables that may refuse. A profile's version is named by its owner and its brew. Taking a version
over is `TakenOverWith`, `TakeOver` and `VersionFor` (`version_for`), what a Recipe does when it gets a profile `Settled` (`settle_a_recipes_versions`), and
following `FollowProfile`; versions are written by `AppendVersion`, `FillDesign` and `Created`, go back by `Reverted`, and are named by `NextName`; cards are
`CardCreated`, `Accepted` (with `SettleForAccept` or `GradeFirst`) and `Declined`, retired by `RetireWaiting`.

`Recipes` has who calls them: the pages of Recipes (`CreateRecipe`, `FormAsks` and `FormWrites`, `FormChanges`, `Revert`, `CreateDesign`, `DiscardDesign`), the
profile list (`ProposeProfile`, `Put`, `MakesActive`, `Adopt`, `Push`, `TurnDown`, `TakenOff`, `EditAtMachine`, `StartingPoint` and `StartingPointCreates`), the chats (`ProposeFirst` and `CardWrites`,
`ProposeChange`, `AcceptCard`, `DeclineCard`) and the grades (`Predict`, `ProposeGrade`, `Grade`, `Shot`). A pair of names is an operation that asks
in one transaction and writes in a later one; everybody acts in between.

`Cards` puts the two kinds of card side by side. They share no row that either changes for the other, except what a proposal carries to its
profile's version, which `Requests` has by itself (`ApproveDraft`); so each is looked at while the other rests.

### Abstractions

- A brew is a model value: its clamped, normalised content with a hash. Whether the safety bounds
  allow it is membership of `unsafe`; a brew is a utility profile or not.
- Ids of files come from a finite set; an id nobody remembers may be given again. The code draws ten
  random characters (`generate_short_id`). In the same way a row that nothing remembers and an answered request's
  place are used again, which bounds the tables.
- `chosen` in a row is history for `NeverUnasked`; `hand`, `selectedBy`, `late`, `on`, `calm`, `due` and the like
  are history for the properties. None of them influences what the code does.
- A shot's start time is its place in the order of brewing. Its samples, and the numbers derived from them, are not there.
- The driver (aiosqlite) carries out statements in the order it was handed them. `Transactions` has its queue; `ChatRun`
  has the order where something depends on it.
- The file system journals: a name made, renamed or removed survives a power cut up to some point in the
  order, and a file's content once it was flushed. A crash of the process loses nothing.
- Signatures are those of one profile with one Recipe version and the version a proposal makes. An expectation is identified by what it
  says; a limit by its value.
- In `Recipes` a version is its profile's version, its name, whether it states a prediction, its outcome, whether a grade waits, and whether its shots are
  none, filed or rated; grounds, doses, drinks and the reason of a card are left out. Of a brew there is one version nobody owns, where the
  index allows one for each label. Ids are given out in order.
- A restart is one step in `ChatRun` (crash and reconciliation); `Restarts` has the steps of one.
- On the socket a status report is one value, the mode or the process; the broadcast of the machine's identity, the length of the backoff and the HTTP reads are left out.
- What a page shows, audit rows, events other than a run's, wording, and the favourite and startup carry of a removal are
  left out: no action reads them.

## 3. The runs

| run | distinct states | properties | shows |
|---|---|---|---|
| `guarded_files` | 930 thousand | `OneFrameAfterSwitchOff`, `GuardedReplace`, `ReplacesWhatItSaw`, `SelectedGoesByRaceOnly`, `TypeOK` | what a frame takes away was stored, and was what its guard was shown, unless the display wrote after that load; the selected file goes only if somebody selected it after it was asked; one frame at most after the switch |
| `profile_board` | 614 thousand | `NothingLost`, `NeverUnasked`, `SelectionStays`, `ResetIsAsked`, `Settles`, `ListOK` | list, sync and machine in six scenes: no content is lost, nothing goes that nobody gave or was asked about and nothing of a file just found, the selection moves first, a machine that was reset waits for an answer, and two undisturbed syncs settle everything |
| `shot_sync` | 3.83 million | `ArchiveOK`, `LinkedToBrewed`, `PassSettles` | what the machine says of a shot is in that shot's records only; a shot is linked to the content it was brewed with; an undisturbed pass leaves the archive as the index has it |
| `fetch_pipeline` | 31 thousand | `PipelineOK`, `Delivers`, `PassEnds` | each missing shot handed over at most once, in the end all of them or an abandoned pass; no pass waits for ever |
| `connection` | 194 thousand | `LinkedOK`, `PullsUncut`, `NobodyWaitsInVain`, `NoReportedShotCut`, `AllServed` | no requested pull is cut by a rebuild, never a client without an engine, what runs is what the settings ask for; nobody waits on a socket that is gone, no mode switch ends a reported shot; every pull is carried out and the link comes back |
| `transactions` | 68 thousand | `OneAtATime`, `Whole`, `Answers` | one transaction at a time, whole or not at all, every task is answered |
| `begin_given_up` | | `BeginAlone` | a counterexample, see below |
| `chat_run` | 367 thousand | `ChatOK`, `UndisturbedAccepted`, `OutcomeKept`, `AllEnds` | every event once and in order unless a full queue dropped it, a stream ends with its run, an outcome stays, an undisturbed conversation can go on, every run ends |
| `chat_history` | | `HistoryAccepted` | a counterexample, see below |
| `restarts` | 688 thousand | `DirectoryOK`, `Erased`, `CopyFirst`, `KeepsPromises`, `ResetHappens` | a directory always opens as one whole archive, a reset leaves nothing, an upgrade copies first, every start serves the old archive or what was asked for, whole, and a reset that was answered happens |
| `cards` | 357 thousand | `TablesOK`, `CardsApply`, `DraftSettles`, `AnswersOnlyTheAsked`, `BrewsItsProfile`, `AcceptKeeps` | a request that waits is one the button applies, and an answer changes what was asked and nothing else; a Recipe and its profile brew one thing, a card stands on the version the Recipe brews, and accepting a change keeps every grade given and leaves none open |
| `two_limits_back` | | `ButtonWorks` | a counterexample, see below |

A `TypeOK`, a `...OK` or `OneAtATime` is the one type invariant of its module, joined with the structural facts the other properties build on.

### Bounds

All are named constants. What makes them enough is that each hazard needs two or three actions of different actors in a
particular place, and the place is not bounded: any action may come between any two steps.

- *Machine writes.* `FileIds` (2): the file of the operation and another, the successor. `Docs` (3): the recorded document, the one to be
  saved and one nobody has seen. Two touches and one fault. Files and documents are symmetric.
- *The list.* Six scenes, each with the pages' and the display's actions that interact: `BrewsChange`, `NamesChange`, `WritesOff`, `NewProfiles`,
  `PinsComeAndGo`, `Recovery`. People act twice and the display once (`PinsComeAndGo`: four times, since Recipe, pin,
  unpin and pin again is the shortest history that brings a copy back; `Recovery`: once each, with two faults or crashes).
  `Rows` (5) and `Files` (6): two profiles of the machine, one that joins, a pin's copy, one to spare; `Room` stops the display from making files the
  app would have no row for. Three brews (active, another version, an edit), three words, two labels of versions, symmetric.
  `Quiet` (2): one sync may attach or join, the next acts on it. `MaxFailures` (2) is the code's `MAX_CONSECUTIVE_FAILURES`, small enough to be reached.
- *Shots.* Two shots and two numbers, so that an erase makes a number come back for another shot; the first file may be unreadable; two contents of the profile's file; two passes, two touches,
  one fault; `GiveUp` (2) stands for the engine's limit.
- *Fetching.* Five items, two workers (the code's), a limit of three (the code's), so that the queue fills, the limit is reached with work left, and a cancel meets
  every place of the loops.
- *Connection.* Three requests, so that a second change can wait behind one while a pull is asked for; one address or none; two values of another
  setting; two builds; one failure.
- *The client's socket.* One call, one socket lost or refused, one touch at the machine, one report under way: a call meets every place of the supervisor and of `stop`,
  and a mode switch meets a shot that was reported, is being reported, or was not.
- *Transactions.* Two plain transactions, one that nests one, a bare statement; two tasks give up and one statement fails.
- *Chat.* Two questions. `Watched`: one run, a browser that connects twice, two troubles. `Unwatched`: two runs with two rounds of two calls and one
  trouble. `Crossed`: two questions at once. A history of three messages and a queue of two events, so that both overflow.
- *Restarts.* Two uploads, one row written, two crashes or power cuts, one error: what one leaves unflushed, the start after it serves, and the other takes away.
- *Requests.* Three expectations, two tiers, two limits, symmetric; two cards of one change or one of two, of expectations or of limits, and a proposal with two changes.
- *Recipes.* Two of each: brews, profiles, Recipes, proposals. `MCViews` says where they begin and how far they go: `list` (a profile and a file of
  the machine nobody owns; four versions of a Recipe, five operations), `design` (a profile and a Recipe being designed; three and five), `change` (a profile
  with its Recipe, a prediction and a rated shot perhaps; three and four). Taking a Recipe over takes three operations, breaking it one more; a change
  with a grade takes four. One form or tool stands between its two transactions at a time. The same properties hold with seven operations, checked one view at a time.

### Fairness

Only what the scheduling of the code gives:

- `fetch_pipeline`: weak fairness of each worker and of the consumer. The event loop runs a task that can run.
- `connection`: weak fairness of requests and loops, and strong fairness of a loop's taking of its engine's lock: `asyncio.Lock` serves in the order of asking, so a
  loop that keeps asking gets it although others take it in between. New requests and failures need no fairness.
  In the scene `calls`, weak fairness of the supervisor and of the reader, one task that the event loop runs; the backoff is a sleep that ends.
  Calls, the machine and the network have none.
- `transactions`: weak fairness of the driver's thread and of each task that has its answer.
- `chat_run`: weak fairness of each run's own steps (providers and tools have time limits, so each call ends) and of the stream.
- `restarts`: weak fairness of boot, of a reset or upload that has begun, and of the stop once asked for. The process is started again after it
  ends, as `compose.yml` says (`restart: unless-stopped`); crashes are bounded, not fair.

The list's `Settles` and the shots' `PassSettles` assume none: they count the complete passes in which nobody acted and nothing failed, and say
that after two (or one) nothing is left. That gives a number, which a leads-to would not.

### Refinements

| abstract | detailed | mapping | what it adds |
|---|---|---|---|
| `ShotDelivery` | `FetchPipeline` | what was handed over and whether the pass ended | workers, queue and pills neither lose, repeat nor invent a shot |
| `AtomicWrites` | `Transactions` | the committed rows | cancellations and bare statements tear no transaction |
| `OneArchive` | `Restarts` | `archive` is `served`: what the last start opened, with what was stored since | no crash or power cut shows a mixture, and no archive changes unasked, but for a restore never flushed |

### Disagreements with the documents

Three runs each check one statement of a comment or a test that the code does not keep, and end in a counterexample. The full argument of each is in
`PROJECT.json`.

| run | statement | what happens |
|---|---|---|
| `begin_given_up` | the lock is what keeps two coroutines from meeting "cannot start a transaction within a transaction" (`db/connection.py:143`) | `BEGIN` is awaited outside the `try` that rolls back; a task cancelled there leaves the transaction open with the lock free |
| `chat_history` | a round stored without its results is what a provider rejects on every later turn, so none is left (`chat/runner.py:391`, `tests/chat/test_runner.py:658`) | stopping between the calls of a round, or cancelling the task in a tool, leaves one |
| `two_limits_back` | "A waiting request is always one Approve could apply" (`tests/signatures/test_waiting_requests_stay_applicable.py:1`) | two put-backs of rejected limits are checked one by one, and the second is refused when they are applied |

### Observations

Behaviour met while modelling. The properties are stated so that they hold with it; none has a run of its own.

*The list.*

- A put-back after a bad read-back is guarded by what its own load is shown, so an edit at the display between save and read-back is overwritten.
- A removal looks at the selection in the first of its three loads only; hence "by race" in `SelectedGoesByRaceOnly`.
- The name of a joining file is not asked again when its row is inserted; two live profiles may share a label until the next sync.
- A row switched on after the plan was made takes the branch of rows that are on and meets the assertion at `drafts/board.py:2170`.
- What a push recorded is compared with the row as it was before that sync. A profile switched back on between the question and a removal's
  first load loses its file, and gets a new one from the next sync.
- A brew that was first found on the machine is not among those the profile has had, so meeting it again is a conflict.
- A crash between saving a new file and recording it leaves a file that joins as a profile of its own, while the profile is saved once more.
- A factory reset after the machine was read escapes the pause of that sync; the next one finds a machine that holds some files.
- The branch of a put that revives a deleted row is not reached by way of a pinned copy, and the release in `_bring_back` and the
  integrity error of `_join` are not reached: no two rows ever stand on one file (`FilesAreOnes`).
- A file edited after its pin was removed is recorded without a conflict, so pinning again saves over it, with the content kept as a version.
- `list_profiles` skips a file that does not validate, which then looks gone rather than unreadable.

*Shots.*

- An announced shot whose file does not parse is stored with start 0. A later pass without its row in the index marks it gone, and when it is listed it is
  stored a second time, which `_store_quarantined` and `_adopt_unknown_start` (`db/repos/shots.py:1040`) mean to prevent.
- An announcement of a reused number whose old row is still listed is skipped; the shot comes with the next index.
- Announced shots are forgotten before they are fetched: one whose fetch fails, or that ends without an announcement, waits until the index lists it.
- Between the index and a fetch a number may have changed hands: the file of one shot is stored with the index facts of another (`crossed`) until the next pass.

*Engine, connection, database.*

- A generator of the pipeline that is abandoned rather than closed leaves its workers waiting until the shutdown; `PassEnds` is about the pass.
- A pass that is cancelled in the very turn in which a result arrives may leave its workers waiting to put their pills into a full queue that it waits for; `PassEnds` excepts it (`raced`).
- Settings are written key by key, and the busy check is made before: a write that fails part-way leaves settings that the next change,
  worked out before, may apply to a connection that became busy, cutting a poke. `PullsUncut` excepts exactly that.
- `change_mode` answers from the last status when that already shows the mode (`device/client.py:941`), and a status outlives its socket: with the
  machine gone, or before the first report of a new socket, it answers success, although the class says everything that needs the socket raises until
  it is up. Its wait for the status is not ended by a disconnect, only by its time limit.
- A loop that does not stop within ten seconds of its cancellation keeps its task's name, and the next build fails. A cancellation inside `_teardown` is left out.
- A `COMMIT` that fails is not rolled back; a bare statement that was answered may be undone by the `ROLLBACK` of the transaction it fell into.
  `AtomicWrites` promises nothing to bare statements.

*Chat.*

- `send` does not refuse a second run in a conversation. A cancel between `start_run` and the registration writes `cancelled` although the run goes on.
- `messages(limit=500)` reads the oldest 500.
- A stream whose full queue dropped the last event waits until the browser goes; `AllEnds` is about streams that lost nothing. That no event is missed between
  replay and following relies on the order in which the driver answers.

*Restarts.*

- An upload begun before another was accepted discards the prepared file: the accepted one fails at the swap, after its 202. `KeepsPromises` allows a swap that fails and leaves the old archive.
- Preparing a staged file that has vanished makes an empty one. A kill during the graceful stop loses an accepted restore, and the stop has no time limit of its own (`__main__.py:85`).
- A process killed between `os.replace` and the flush of the directory (`db/restore.py:447`), or whose flush fails (the stop logs it and goes on, `main.py:338`), leaves a restore that is seen but not on the disk. The next start serves it and
  flushes nothing; a power cut before anything is stored brings the old archive back, although a crash after the replace "leaves the new one" (`db/restore.py:31`). `OneArchive`
  allows exactly that, as `before`.

*Requests.*

- A new expectation or limit is checked outside the transaction that writes it: two at once may store the same row twice, or a limit on a row rejected meanwhile.
- A request with twin rows on the version of a proposal makes the approval of the proposal a 500.

*Recipes.*

- A Recipe created by a starting point names its proposal's version, and a form the version it was shown; either may not be the profile's active one by
  then. `Follows` is about every other way to get or change a profile.
- A shot is filed under a version that was asked for in one statement and is written in another (`assign_shot`, `db/repos/recipes.py:2464`): the Recipe may have been
  archived, or its design discarded, in between. Nothing enforces the reference.
- A proposal with a card can be turned down on the Profiles page (`DraftService.discard`), or its file taken off the machine, without the card: it waits on, and pressing
  Accept answers `draft_closed`, as `accept` says (`db/repos/recipe_proposals.py:834`). `WaitingCards` says that only these two close the proposal of a card that waits.
- The profile of a first recipe is stored before its card, and a starting point's before its Recipe: a stop, or a refusal of the Recipe, in between leaves
  the proposal waiting on the Profiles page.

## 4. The proofs

Eight modules of proofs, one per component, prove the safety properties of that component for every value of the
constants. Each has one inductive invariant, `IInv` (`LinkedInv` for the composed connection, `WholeInv` for the list), which TLC checked on the instance of the
component's run before it was proved; one lemma per action of `Next`, with the parts of the invariant the action can disturb below it (in
`ShotSync_proofs`, one lemma per part and the actions below it; in `ProfileBoard_proofs`, one lemma per way a row may be dealt with); and the theorems, which follow from the invariant or, for action properties and refinements, from the invariant and the same case split. What is
assumed is only the named `ASSUME` of the component's module, which TLC evaluates in its run.

| module | theorem | states |
|---|---|---|
| `GuardedFiles_proofs` | `Invariant` | `Spec => []IInv` |
| | `TypeCorrect` | `TypeOK` |
| | `AtMostOneFrameLate` | `OneFrameAfterSwitchOff` |
| | `FramesReplaceWhatTheySaw` | `ReplacesWhatItSaw` |
| | `ReplacementsAreArchived` | `GuardedReplace` |
| | `SelectedFileGoesByRaceOnly` | `SelectedGoesByRaceOnly` |
| `Transactions_proofs` | `TransactionsAreAlone` | `OneAtATime` |
| | `TransactionsAreAtomic` | `Whole`: `Transactions` implements `AtomicWrites` |
| `FetchPipeline_proofs` | `PipelineLeavesNothing` | `PipelineOK` |
| | `PipelineDelivers` | `Delivers`: `FetchPipeline` implements `ShotDelivery` |
| `ShotSync_proofs` | `Archive` | `ArchiveOK` |
| | `Links` | `LinkedToBrewed` |
| | `Settling` | `PassSettles` |
| `Connection_proofs` | `ConnectionIsWhole` | `ConnectionOK`, `PullsUncut` |
| | `LinkIsOne`, `NoPullIsCut` | `LinkedOK`, `PullsUncut` of `Connection` with `DeviceLink` |
| | `NobodyIsForgotten` | `NobodyWaitsInVain` |
| | `ReportedShotsFinish` | `NoReportedShotCut` |
| `ChatRun_proofs` | `StreamHasNoGap` | `ChatOK` |
| | `ProviderAccepts` | `UndisturbedAccepted` |
| | `OutcomeIsKept` | `OutcomeKept` |
| `Restarts_proofs` | `Directory` | `DirectoryOK` |
| | `ErasedForGood` | `Erased` |
| | `CopiedFirst` | `CopyFirst` |
| | `Promises` | `KeepsPromises`: `Restarts` implements `OneArchive` |
| `ProfileBoard_proofs` | `ListInvariant` | `Spec => []WholeInv` |
| | `ListIsOK` | `ListOK` |
| | `FilesAreOnes` | no two rows, deleted ones included, stand on one file |
| | `BrewsAreKept` | `NothingLost` |
| | `NothingIsTakenUnasked` | `NeverUnasked` |
| | `SelectionIsKept` | `SelectionStays` |
| | `ResetsAreAsked` | `ResetIsAsked` |

### Machine writes

For all sets `FileIds` and `Docs` and all numbers of touches and faults, from `FilesAssumption` (the two null values are outside
their sets, the bounds are naturals). The properties speak of the moment a document goes; why it is safe was established frames earlier.
`IInv` carries that knowledge across frames:

- `Arguments`: the frames have the file and the documents they need, and what an overwrite or a removal expects is
  in the archive;
- `Shown`: between guard and frame, the file still holds what the guard compared, unless the
  display wrote since (`hand` is "unseen");
- `NotSelected`: past its check, a removal's file is not the selected one, unless the display selected since;
- `Counted`: no frame is late while a frame stands authorised, so the authorised one is the only one that can become late;
- `Given`: an id never given out holds nothing, so a new file takes nothing away.

### Transactions

For every set of tasks, some of them bare statements and some nesting a transaction, and any number of cancellations and errors, from
`TransactionsAssumption` (bare and nesting tasks are tasks, no task is `NoTask`). The difficulty is a task that gives up
while the driver still has its statement: the lock is free again, or another's, before the database is quiet. `IInv` has two halves that do not need
each other:

- `LockInv`: a task whose statements are sent holds the lock; whoever waits for it is in the queue, once.
- `DataInv`: which statements of a task can still be under way (`Sent`: one, or a write and the `ROLLBACK` sent behind it), that of all the
  transactions only one can still change the database and that everything uncommitted is its own or a bare statement's (`Owned`, `Clean`), what is written
  by each point (`Kept`), that the file has all of a transaction from its `COMMIT` on and nothing before (`Stored`), and what a caller is
  told (`Reported`).

`Alone` follows from `Owned`, and the refinement maps every step to a commit, an answer or a stutter of `AtomicWrites`.

### Fetching

For any number of items and workers and any limit of failures, from `PipelineAssumption` (naturals, with at least one worker and
a limit of at least one). The parts of `IInv` are predicates of the iterator, the workers, the queue and what was delivered, rather than of the
state, so that a worker which puts a result and goes on in the same turn is two applications of the lemmas.

- `Once` and `Somewhere`: an item that was taken is with one worker, at one place of the queue, or delivered.
- `InOrder`: fewer than `Concurrency` items are overtaken by any other, namely those that the other workers hold. That is a cardinality, and so
  is `Owed`: the workers still going, the pills in the queue and the pills already taken never exceed the workers.
- `Followed`, `Exhausted`: an item in the queue has a pill or a worker behind it, and a worker ends only when there are no items. So the consumer that
  has counted all the pills has had all the items.

### Shots

For any set of shots, numbers and contents, any unreadable files and any number of faults, touches and passes, from `ShotsAssumption`. Everything
the archive says of a shot was read earlier, from a machine that may since have given the number to another shot. So the
invariant rests on one fact about time:

- `Behind`: a number used again goes to a later shot. From it, `SameStart`: a record of a number whose start is that of the shot the
  machine has there is a record of that shot. That is what the code's comparison of starts relies on.
- `RecordsOK`: a record starts when its shot did if the shot's file parses and no later otherwise, has the number the machine's file of that shot has, and
  is linked as soon as the app has read the profile's file.
- `PendingOK`: the shots still to be linked were brewed on what the profile's file holds now, and the archive does not say otherwise, or the display wrote
  the file and they are blurred. `LinkedToBrewed` is not inductive without it.
- `DueOK`: from the pull to the save, each shot the app was told of is archived, will be archived by the pass under way, or is
  announced again.
- `CalmOK`: what an undisturbed pass will leave, said at each of its steps (`Planned` while it fetches, `Settled` after it).

The proof of `PassSettles` needed no exception for records of a number that was used again, which the property first made; it is now stated without it.

### Connection and the client's socket

For any set of addresses, settings and patches and any number of requests, builds, failures, calls, losses and touches, from
`ConnectionAssumption` (a patch sets known keys, no address is `NoHost`) and the bounds being naturals.

- `LockInv`: one request has the connection's lock, those that wait are in the queue once, and what each wants is what its patch makes of the
  settings it was worked out from.
- `Built`: the connection is whole (one client, its engine, its loops, as configured) while nobody rebuilds it, and what is left of it at
  each step of a rebuild.
- `Spared`: from the busy check to the stop, either the engine is not busy, or the change is one that lets it be. A poke between check and stop is
  why: `PullsUncut` would not be inductive without knowing that such a change leads to the settings already in use.
- `LinkInv`, of the composition: a call past its gate waits on the socket it was sent on, and the numbers of sockets and processes are bounded by
  what was lost and touched; `Looked`: a frame that could end a process was sent when the machine had reported none.

### Chat

For any number of runs, streams, events, calls, rounds and restarts, any history and queue of at least one, from `ChatAssumption`. `IInv` says
how far each run is and what it may still do (`RunInv`), where each of its events is between the run, the table and the bus
(`EventsInv`), what the stream has still to be given (`StreamInv`), and that only a run inside a round leaves calls without results
(`TalkInv`).

- Stream: events are numbered when they are emitted, stored, and put on the bus in that order; the stream subscribes before it reads. So each number
  up to the last one published is delivered, in what was read, in the queue, dropped by a full queue or never stored. `ChatOK` is that
  statement at the moment a stream ends.
- History: `_history` cuts to a budget at a message a person wrote, which keeps a sequence acceptable; that is a lemma about
  the operators, for any history and any size, and uses the least place from which the rest fits (`LeastNumber`, by well-foundedness of
  the naturals, since induction over an operator is not available).

### Restarts

For any set of uploads and any number of crashes, power cuts, errors and rows, from `RestartsAssumption` (an archive, an upload's and a
fresh one are different, a null value is no content, no upload has a fixed name). What a process sees and what a power cut would leave
are both values of one kind, a directory, and the lemmas are about directories (`CutGood`: names go; `CoreGood`: another name is written;
`FlushGood`, `FoldGood`), so that one argument serves for both. `IInv` says:

- `Sound`, of each of the two: whole files (`Typed`), no log of another database (`LogOK`), the archive or what was asked for in its place (`Stands`), a
  marker exactly while a reset was asked for, until the database is gone (`Marked`), the copy of what was upgraded (`CopyOK`), nothing of what was
  erased (`Rid`);
- `Follows`: how the disk may lag behind. A database is never gone or marked on the disk only, and what the disk has of the same
  archive is no more than is seen. `DirectoryOK` is not inductive without it, because the next start works on what was left;
- `Exact`: unless the power was cut, the next start finds all that was stored, or what was asked for;
- `Settled`: the disk has the archive that was put in place, unless the process was killed between the replacement and its flush, or could not flush;
- `ProcessOK`, `PlaceOK`: what a process has in hand and knows at each step; `HistoryOK`: an upload is used once.

`DirectoryOK`, `Erased` and `CopyFirst` follow from `Sound`. For the refinement, `Open` is the one step that needs an argument: by `Stands`, `Exact`
and `Settled` it serves what `Kept` and `New` allow; asking, withdrawing, answering and storing are the steps of those names, and everything else stutters.
Trying to prove `Promises` found the last of the observations about restarts above, and with it that one crash in the run's bounds was too few.

### The profile list

For any numbers of rows and files, any brews, words and labels, any limit of failures and any scenes, from `PlanAssumption` (rows and files are
finitely many numbers, the null values are outside their sets, utility profiles are brews) and `SyncAssumption` (a scene names
names, its bounds are naturals, and it says what the machine holds at first). The scenes only take inputs away, so one scene that lets everybody do everything is
among those the theorems are about.

A plan is computed from one reading of the machine and walked over many steps, while people change the rows it was made from and the display the files.
Every property needs to know what of that reading is still true:

- `WellFormed`: the types, and of each row what its fields say together (`RowsOK`). Of the plan, `PlanOK` says what each of its entries may rely on,
  whatever happened since: the brew it is to take off a file is one the profile has had or a person gave or gave up, and a name it saves over was
  recorded, the app's or overruled. That survives because rows only get better (`Better`): a profile's versions and what a person
  chose are added to, never taken away. `TodoOK` says which part of the write phase is left, and nobody is in two of them.
- `FilesApart`: no file is two rows' (`Distinct`), none that is to join is anybody's, a file just made is its maker's, and a row still to be dealt with stands
  where the plan found it (`FileKept`, `HeldOK`). Deleted rows are in it: a removal of a deleted row's file would otherwise take
  one that a profile meanwhile stands on. Switching, renaming, pinning, unpinning and bringing a pinned copy back keep it, since none gives a row another row's file.
- `FreshOK`, in it: what this sync has found the plan does nothing about, and no star is put right for it.
- `AsRead`: as long as nobody was at the display, what the plan takes to be on the machine is there and what it takes to be gone is gone; as long as
  nobody changed the list, a row planned as deleted still is; and the machine holds one of the files the app left there, unless a person
  resumed or the sync took one off. `SelectionStays` and `ResetIsAsked` speak of just those cases.
- `Started`: a sync that has only read has planned nothing.

The steps of the write phase are many and fail in many ways. Each is first shown to come to one of five changes (`AppliesRow`, `DealsOff`, `Removes`,
`JoinsAs`, `TakesName`), which say only what the invariant asks about; then each of the five is shown to keep it. The plan itself is the other
half: what `PlanOf` says of a row, for any machine that could be read, satisfies `PlanOK`.

The proofs found two statements that were too strong, and that no scene had reached. `ResetIsAsked` was false when the sync had itself taken off the last of the files the app
had left there, and went on: such a sync is now an exception of it (`TookNone`). `NeverUnasked` was false when a person had
overruled a file, and decided again about the profile during the sync that acts on the first decision; the plan now has the decision it was made on (`was.overruled`),
and the property knows both. A third fact, that some file id is always unused, was no property of the code and is no longer part of `TypeOK`:
where the machine has no id to give, the model stops making files.

`StoodOn`, the look of the code for another profile on a file before it joins or removes it or brings a profile back to it, is false wherever the code asks, by `Distinct`. The code is right to ask: nothing
but this invariant makes it so.

### What is only model-checked

- Liveness and `ENABLED`, which are outside the prover's reach: `PassEnds`, `Answers`, `AllServed`, `AllEnds`, `ResetHappens`.
- The cards: `TablesOK`, `CardsApply` and the action properties of `Cards`.
- `Settles` of the list. It speaks of what a whole undisturbed pass over the list leaves, so its inductive invariant would have to say at every step
  of a pass what the rest of it will do, as `CalmOK` does for the shots, and that for two passes.
- What a function defined by recursion or a fold computes for every input: the backends cannot instantiate a theorem over an operator,
  so there is no induction over data. No module uses RECURSIVE operators.

## 5. Plan

1. Machine writes: `MachineFiles`, `GuardedFiles`, proofs. *Done.*
2. Profile list and its sync: `BoardPlan`, `BoardSync`, `ProfileBoard`. *Done.*
3. Shots: `ShotSync`, `FetchPipeline` with `ShotDelivery`. *Done.*
4. `Connection`. *Done.*
5. `Transactions` with `AtomicWrites`. *Done.*
6. `Signatures`, `Requests`. *Done.*
7. `DataFiles`, `Restarts` with `OneArchive`. *Done.*
8. `ChatRun`. *Done.*
9. `DeviceLink`, composed with `Connection`. *Done.*
10. `RecipeTables`, `Recipes`, composed with `Requests` in `Cards`. *Done.*
11. Proofs of `Transactions`, `FetchPipeline`, `ShotSync`, `Connection` with `DeviceLink`, `ChatRun` and `Restarts`, refinements included. *Done.*
12. Proofs of `ProfileBoard`. *Done, but for `Settles`.*

Next, in this order:

- proofs about the cards (`TablesOK`), and of `Settles`;
- an abstract file store, each operation atomic or failed, that `GuardedFiles` implements and whose outcomes are those `BoardSync` uses;
- the runs of reviews and patterns, which share the chat's reconciliation but not its stream; archiving of Recipes, and pins beside `Recipes`;
- the operations of `MachineFiles` on the socket of `DeviceLink`, where a frame now simply fails.

## 6. Not modelled

- Numbers over samples (`domain/`, `sync/derive.py`), read models (`shotinfo/`, the pages), the content of SQL upgrades, calls to
  language models and their parsing, imports, authentication, routes, the web client and the simulator: they keep no state that
  two actors change, or are exercised well by tests on their inputs.
- Of the client: the broadcast of the machine's identity, the backoff's length, the warning about reconnects, and the HTTP reads.
- Judgements and insights, the runs of reviews, patterns and starting points, duplicates of profiles: one row, answered once, in one transaction; left after
  the components above because nothing in them crosses another actor's steps in as many places.
- In the modelled components: deleting a conversation during its run, and the loop of the provider that executes tools itself (`ChatRun`); temporary directories of exports, the
  note of a restore, `keep_backup`, and databases newer than or different from the schema (`Restarts`); chat cards on a
  proposal's version, unreadable JSON in a request, an agent's expectations stored with a proposal (`Requests`); archiving, pins and revived rows, a new name at the acceptance, and predictions on a Recipe being designed (`Recipes`); failures of settings or tool scope at the start of a turn (`ChatRun`).
