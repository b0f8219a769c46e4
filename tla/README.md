# Lorechat in TLA+

Lorechat is a self-hosted role-play chat: a React client (`apps/web`) behind Nginx talks to
a FastAPI backend (`apps/api`) that keeps everything in one SQLite file (WAL mode) and calls
language models over HTTP. This directory holds TLA+ models of the parts that run concurrently,
survive restarts or decide by rules that are easy to get wrong, the TLC configurations that check
them, and TLAPS proofs about them.

Paths below are relative to `src/apps/api/app/`. Abbreviations: CS is
`services/conversation_service.py`, AC `api/conversations.py`, GD
`services/generation_dispatcher.py`, PD `services/post_commit_dispatcher.py`, CM
`services/context_management_service.py`, CR `engine/character_runtime.py`, BL
`services/battle_ledger_service.py`, MP `services/model_provider_service.py`, MIG
`interop/sillytavern_migration.py`.

## 1. Inventory

### How a turn travels

1. The browser posts a message with a request id of its own. `POST /conversations/{id}/messages/jobs`
   (AC 1806) takes a chat command off its beginning, looks whether the request has been here before,
   stores the message, applies a battle control, stores a scene direction, and stores a
   `message_generation_jobs` row: commits of their own. It wakes the generation dispatcher.
2. The dispatcher thread (GD) claims the oldest job whose room is free and gives it to one of
   its worker threads. A heartbeat thread beside each worker renews the lease.
3. The worker checks whether the room's prompt still fits (CM), folds old messages into the
   room's summary if it does not (CS 3518), puts the prompt together (CR), asks the model, validates
   the answer, lets up to three active commands rewrite it, and commits bubbles, job status and
   follow-up tasks in one transaction (CS 722).
4. It tries asset links itself; speech and compression are left to the post-commit dispatcher (PD).
   The path by which a compression would pass battle results of the story to the ledger carries nothing:
   `validate_callback` always leaves the list empty (CS 3157).
5. Every change of a job appends an event row; the browser follows the events over SSE
   (AC 1889), falls back to polling, and loads the replies.

SQLite serialises writers. A session reads without a transaction and opens one with its first
write (pysqlite), so "read a row, decide, commit by primary key" is the common pattern, and
other threads may commit between the two; a commit writes the columns whose value differs from the
loaded one. Only the claims, the heartbeats and the fold of a summary are conditional updates.
The handlers that take messages in run on the event loop and await nothing before the job is stored,
so they run one at a time; all other handlers, tasks and workers are threads.

### Components

| component | state | operations | hard behaviour | what makes it correct |
| --- | --- | --- | --- | --- |
| Generation queue (CS 228-519, 787-810, GD, AC 1737-1803, 1963) | job rows: status, lease owner and expiry, cancellation; worker threads; process | create, claim, heartbeat, run, finalize, fail, cancel, requeue, stop, crash | two-step claim, stale cancel, workers that outlive their process's stop, restart within a lease | one running job per room, in order; a cancellation is final; a failed turn has no replies; queued jobs settle |
| Post-commit tasks (CS 523-719, PD, AC 1029-1125) | task rows: status, lease, attempts, backoff | enqueue with the turn, two claims, execute, complete, retry, give up, requeue | dispatcher and generation worker race for a task; effect and completion in one or in two transactions; crash between | effect exactly with completion; one worker per task; given up only when attempts are spent |
| Context policy (CM, CS 2108-2284) | compression tasks of a room | group turns, select tail, estimate pressure, choose batch, resolve capacity, queue a task | replies of queued, repeated and unknown turns interleave; one oversized turn; fallback with a narrower window | no turn is split; pressure always leaves work; an accepted prompt fits every route |
| Scene summary (CS 3252-3450, 3518-3639) | summary, boundary message, revision, last error | fold before a generation, fold by task, compress now, edit | minutes between read and write, messages stored late or deleted meanwhile, two folds at once | the summary loses nothing, repeats nothing, covers what the boundary hides |
| Model calls (`engine/llm_client.py`, CS 2660-3250, AC 1128-1600) | circuit breaker per client, usage rows | chat with retries, fall back, parse again, catch up, rewrite | retries inside retries, a breaker shared by threads, outcomes recorded on the row before | bounded spending; no early surrender; truthful rows; a provider that recovers is used again |
| Prompt and replies (CR, `engine/prompts.py`, AC 666-815, 1128-1640) | none, then the bubbles of a turn | choose the stage, assemble, validate, attribute, rewrite, order | budgets, strict and lenient speakers, commands over commands, equal timestamps | the prompt loses nothing it needs; nobody speaks who may not; nothing said is lost or misplaced |
| Speech and editing (`services/tts_service.py`, CS 3453-3500) | bubble columns and metadata, recordings | edit, change voice, synthesise, store | load, seconds of synthesis, store; cut-off files | a bubble says aloud what it says |
| Providers and secrets (MP, `services/provider_secret_service.py`) | accounts and options in SQLite, keys in a JSON file | create, rekey, clear, sync, add, edit | two stores, file rewritten in place, a fetch between read and write | the account uses the key it was given; a model is enabled by a user |
| Room models (`services/runtime_settings_service.py`) | four references per room and a default | update, inherit, resolve | validation against rows that change | a fallback is another model, and the one the page shows |
| Message intake (AC 1693-1960, CS 261-284, `services/chat_command_service.py`) | messages, `client_request_id`, active commands in two columns | deduplicate, store, apply control, create job, clear, delete | four commits, repeated requests, crashes | each message has its turn; no request is taken in twice; a cleared command stays out |
| Battle ledger (BL) | match rows, standings | start, progress, end, cancel, rebuild | message, control and job are three commits; a control may come twice, or for a match that is over | the ledger tells what the messages say; one match at a time; results stand |
| Event stream and browser (AC 1889-1960, web `api/generationJobEvents.ts`) | event rows, cursor, subscription | append, stream from a cursor, reconnect, poll, load | lost answers and connections, restart of the backend | each event once and in order; the browser never waits for nothing |
| SillyTavern migration (MIG) | bundle, pictures, the other program's files | export, fetch, copy, import, verify | cut off anywhere and repeated, a database that changes while it is read | a bundle is closed; repetition is harmless; what is verified is there |
| Process lifecycle (`main.py`, `ops/sqlite_ops.py`) | runtime lock file | start, recover, stop, crash | orderly stop leaves workers running beside the next process | one process serves |
| Read marker (CS 164-225) | last read message per user | mark, count | replies committed behind the marker | every reply is counted until read |
| Backups (`ops/sqlite_ops.py`) | files | backup, verify, prune | crash between the steps | a complete backup is always there |

The remaining parts are text processing (markup, memory heuristics), plain row editing (characters,
worlds, presets), best-effort calls (external memory) and the views of the client. `PROJECT.json`
lists every part with its status, and the foremost hazards at their lines.

## 2. Modules

| module | what it is |
| --- | --- |
| `GenerationQueue` | the generation queue and the process around it |
| `TurnLedger` | what the queue promises a room, without rows, leases and processes; `GenerationQueue` implements it |
| `PostCommitQueue` | the post-commit task queue |
| `ContextPlan` | the pure operators of the context policy |
| `ContextHistory` | a growing room and its compression tasks over `ContextPlan` |
| `SceneCompression` | everybody who writes the summary of a room |
| `ModelCalls` | the calls of a turn and of a task, and the circuit breaker they share |
| `PromptAssembly` | the pure operators that put a prompt together |
| `TurnReplies` | extends it: one generation from prompt to stored bubbles |
| `SpokenBubble` | extends that: what becomes of a stored bubble |
| `ProviderCatalog` | accounts, the file of keys, options |
| `RuntimeSettings` | extends it: the models of a room |
| `BattleLedger` | matches and standings |
| `MessageIntake` | extends it: how a room takes in a message |
| `RoomClient` | extends that: the browser that sends and follows a turn |
| `Migration` | export, application, verification |
| `GenerationQueueProofs`, `PostCommitQueueProofs`, `CompressionProofs`, `ModelCallsProofs`, `SpokenBubbleProofs`, `RuntimeSettingsProofs`, `RoomClientProofs`, `MigrationProofs` | theorems, also about the modules their subjects extend |
| `MC...` | instances for TLC |

Operators that begin "Faulty variant of" are deliberate mistakes a programmer could make in
the operator that follows; no specification uses them. Putting one in the place of its original
must make TLC reject the property it is aimed at, which shows that the property can fail.

### GenerationQueue and TurnLedger

One row per job (`status`, `owner`, `leaseLive`, `cancelReq`), the existence of the incoming
message (`source`), which incarnation's bubbles are stored (`replies`), a phase for every
incarnation of the process, and the position `pc[o][j]` of the worker thread of incarnation `o`
for job `j`. Job numbers are the order of `(created_at, id)`.

| actions | code |
| --- | --- |
| `Start`, `RecoverRead`, `RecoverCommit` | `lifespan`: lock, `requeue_expired_message_generation_jobs` (its SELECT and its commit) |
| `Stop`, `Crash` | `GenerationDispatcher.stop` with `shutdown(wait=False)`; end of the process |
| `Enqueue`, `DeleteSource` | job creation; deletion of the message to be answered |
| `CancelRead`, `CancelCommit` | the cancel handler, decision and commit |
| `Scan`, `Claim`, `ClaimLost` | `claim_next_message_generation_job`: SELECTs, then the conditional UPDATE |
| `Heartbeat`, `LeaseExpires` | renewal; 180 s without one |
| `Begin`, `GenerationEnds`, `FinalizeRead`, `FinalizeCommit`, `FinalizeRollback`, `AfterReturn`, `AfterRaise`, `Mark`, `MarkFails` | `_run_message_generation_job_in_session` and the end of `generate_replies_from_message` |
| `AfterThrow`, `Settle` | the `except` and `finally` of `_run_claimed_job` |

Abstractions. Startup requeues twice in a row before serving; one pair of steps stands for both.
An orderly stop is taken to happen with no request in flight and the dispatcher thread joined.
The runner's own commits may fail; the dispatcher's closing commit in a fresh session is taken
to succeed. A terminal write clears the lease columns; the code may leave a lease it has not
read in a closed row, which nobody reads. Deleting reply bubbles, runners without a lease owner
(used by tests only) and attempt counts are left out.

`TurnLedger` knows only "none", "open", "answered" and "abandoned" turns: a turn is answered
once, by one step, after the turns that were waiting when it was opened. Late answers of turns
given up and the reopening of abandoned turns are allowed, because the code does both when
workers outlive their process. `KeepsLedger` is the refinement.

### PostCommitQueue

The same process skeleton over `post_commit_tasks`. `FinalizeTurn` queues all tasks of a turn
and, for asset links, puts them on the worker's inline list (`todo`). `Claim` and `ClaimInline`
are the two conditional UPDATEs; candidates are taken in any order, as each is taken in time.
Asset and speech tasks complete in the transaction of their effect (`CommitEffect`), compression
in a second one (`Compress`, `CompletionRead`, `CompletionCommit`). `Raise`, `AfterThrow`,
`MarkFailed` and `Settle` are the error paths. `usurped` remembers tasks that recovery has taken
from a worker which a stopped process left behind: for these, and only these, an effect may be
committed twice. The commit that marks a task failed is taken to succeed; the no-op task type
`continuity` is left out; an inline owner is its incarnation.

### ContextPlan and ContextHistory

`ContextPlan` translates `group_complete_turns`, `select_raw_tail_groups`,
`estimate_context_pressure`, `build_automatic_context_plan`,
`select_incremental_compression_batch` (both modes) and the capacity resolution. The loops are
written as the sets their results are the least or greatest of: where groups start (`GroupStarts`), where the
raw tail may start (`TailStarts`), before which starts a fold may end (`Cuts`, `BatchEnd`); only the sum of tokens
is a recursive function. A message counts one token at least (CM 198), but the one that is being answered nothing
(`Uncounted`, `Answered`, `Counts`: AC 1345-1348). `ContextHistory` lets the room be
spoken to (`StoreIncoming`) and answered by queued jobs in order, by the request itself, by regenerations and by jobs the
database no longer knows (`ReplyByJob`, `ReplyInRequest`, `ReplyOfUnknownJob`), fold before a
generation (`FoldFirst`), queue a compression task after one (`QueueTask`) and run it later
(`RunTask`), and compress now (`CompressNow`, exempt from `FoldKeepsTurns`: it looks at job ids
only). Its invariants quantify over every mandatory prompt size. `GroupsAreFinestTurns` compares
the sweep of the code with a definition by what a cut may not separate. `Forgotten` is the one
exception: CM 260 overwrites the reach of a bubble that is itself the source of a later reply, so
bubbles of one reply become groups of their own, although the docstring at CM 206 promises
dependency-closed ranges. Message ids are positions: nothing is deleted here.

### SceneCompression

Folders (the check before a generation, a compression task, compress-now) and editors share one
scene row. A folder reads messages and scene in either order, asks the model, checks that scene
and prefix are as read (`Claim`: one step, as a change between its reads is caught by the
UPDATE), and updates under a condition on revision and boundary (`Fold` or `LoseRace`). The
summary is the sequence of message sets it tells, `{}` for an edit. `BuildReply` and `StoreReply`
separate the time a reply gets from the time it is stored. How many messages a batch takes is
open (any prefix but the newest message), so the results hold for both selection modes. `raced`
remembers messages stored or deleted after a fold's last check, the one gap the code leaves.
The scene row exists from the start. A message that is edited while it is being summarised is
folded with its old text, as the last check compares ids only: texts are not in the model. There is
no lock in the code either: the per-room lock of AC 144 is taken by a function nothing calls.

### ModelCalls

A caller is a turn or a compression task. `Evaluate`, `FoldSucceeds`, `FoldAttemptFails` and
`CoverageGap` are the catch-up loop (at most `MaxCatchUp` folds, one or three calls each, the
fallback after an outage, AC 1128-1190, CS 2660-3250); `Send`, `Retry`, `TransportFails`, `Refuse`
one chat with its transport retries and the breaker (`engine/llm_client.py`); `Answer`, `Garbled`,
`Shapeless` what comes back; `JudgeReply`, `JudgeFold`, `JudgeCommand`, `ParseFails` what becomes of
it; `SwitchOrGiveUp` the switch to the fallback. `Tick` lets the cool-down of a breaker pass;
`ChangeHealth` makes a provider ill or well at any time. The fold of a turn and its reply may use
different clients. Formats of requests and answers, and token counts, are left out.

### PromptAssembly, TurnReplies and SpokenBubble

`PromptAssembly` holds which stored messages are quoted (the raw tail, or the anchors and
the tail within a budget) and the router of sections: clamped to their budgets, taken by priority
until the prompt is full, required ones always. `TurnReplies` then goes `Assemble`, `Answer` (any
sequence of raw replies), `Accept` or `Reject` (`validate_replies`: who speaks, strictly where
several may, and whether it is worth showing), `Take` (silent characters, overlays, limits of the room),
`Rewrite` or `CommandFails` for each active command, `Store`. In a room of more than `WholeRoom` (4 in
the source) the `cast` is chosen first (AC 666-759): fighters, sender, recent speakers, up to `CastMax`
(6). Time is counted in microseconds with overlays a millisecond aside; readers sort by time and a
random id. `SpokenBubble` lets threads edit one stored bubble, change the voice of its character,
and synthesise it, each loading the row and writing the columns it changed; `OpenFile`,
`CloseFile` and the crash decide whether a recording is whole. `crossed` marks lost updates between
an edit and a synthesis that both load the row before either commits (the metadata is one column,
`services/tts_service.py` 222-239), `cut` a file whose writing was cut off, which line 186 reuses
for good. The wording of prompts, the repair of malformed JSON and the scoring of assets are
left out.

### ProviderCatalog and RuntimeSettings

Two request threads over accounts, options and the file of keys: `Load`, `Truncate`, `Put` are
the unlocked rewrite of the file, the `Commit...` actions the rows; `Sync`, `Fetch`, `CommitSync`
a provider's list of models, fetched after the rows are read. `given` is the key a user has last given an account,
`chosen` the options a user has enabled. The exceptions are named by history variables:
`spoiled` (two rewrites of the file have met, or a crash cut one: keys of other accounts are
lost, `provider_secret_service.py` 27, 45), `crossed` (two requests changed one account's key at
once). `RuntimeSettings` adds the four references of a room, its inheritance from the default
setting, the validation of an update (`Acceptable`) and what a compression really uses beside
what the page shows; `met` marks rows two updates have changed at once, whose fallback may then
be the model itself (`runtime_settings_service.py` 312).

### BattleLedger, MessageIntake and RoomClient

`BattleLedger` holds which controls are legal (`Named`, `Legal`), what each does to its row (`NewMatch`, `Controlled`) and
the standings that are rebuilt when a match ends (`Rebuilt`), with their ranks. A control is one step
(`CommitControl`): the handlers that apply it await nothing while they do, and nothing else writes a match, so the
rows it has read are those its commit finds. `upsert_match_result`, which would write the results of the story, is
left out, as no caller gives it one (CS 3157).
`MessageIntake` is the one handler at the desk, commit by commit: `Receive`, `Prepare` (the command), `Store`
(after the lookup of the request id within `Lookback` messages), `ApplyControl`, `RecordScene`, `BeginTurn`;
beside it `StartClear`/`CommitClear` (threads that flush the columns they have changed, `Flushed`), `Switch`,
`Delete`, `EndAwaited` and `Crash`. `LedgerTells` relates its log of messages to the matches: a message that has
its turn has had the effect of its control (`Applied`, `Told`), and a match names messages whose controls say what it
says (`Sourced`).
`RoomClient` adds the browser: `Post`, `Said` or `Lose` of the answer, the EventSource (`Opens`, `Deliver`,
`LinkFails`, `OpenTimeout`), `Ask`, `Poll`, `Load`, leaving the page and coming back. The queue is seen
from outside, as jobs that change together with their event rows (`Work`); a crash of the backend cuts every
connection. Left out: a `visibilitychange` while the stream is still followed, a retry while another job is
active, and the read marker.

### Migration

The database as an export sees it, one SELECT after another (`ReadCharacters` to `ReadAssets`), while
`Edit` changes it: characters, pictures, rooms, participants and messages come and go. The files of the bundle come
in the order they are written, the manifest last (`WriteCards`, `WriteRoom`, `WriteIndex`, `WriteManifest`); then the
application (`Fetch`, `RewriteIndex`, `Copy`, `ImportCharacter`, `PostLorebook`, `SaveGroup`, `SaveChat`), which
stops at the first file it cannot read (`Raise`), and `Verify`. `Break` cuts the tool off anywhere, with or without the
effect of its last request, and in the middle of a file (`Torn`). What is left of a file does not parse (`NoFile`),
but for pictures and for chats: a chat that ends with a line is a shorter chat, and an empty one (`Blank`) has not even the line
that says whose it is. `mixed` marks a bundle that an export has rewritten in part.
The conversion and redaction of texts, the contents of lorebooks and the order of messages are left out, and so is
that `str.splitlines` (MIG 754) takes U+0085 and U+2028 within a text for the end of a line.

## 3. Runs

| run | what it asks | bounds |
| --- | --- | --- |
| `queue_crash` | two turns of a room never overlap, failed turns are silent, running jobs have a worker, queued jobs settle, a cancellation is final | 3 jobs in 2 rooms, 2 workers, 2 incarnations, one job may be cancelled; fairness |
| `queue_drain` | rooms in turn, and the refinement of `TurnLedger`, with old workers beside the new process | 2 jobs in one room, candidate limit 1 below their number, orderly stop, cancellation and deletion allowed |
| `queue_stranded` | violation: a running job is recovered | 1 job; fairness |
| `tasks_crash` | effect with completion, one worker, a task in processing has its worker, queued tasks settle | an asset and a compression task of one turn, 2 incarnations, the first of which may be stopped in an orderly way, 2 attempts; fairness |
| `history_folds` | grouping is the finest that splits no turn; pressure leaves work and queued tasks find it; headroom; fit; whole turns | 7 pairs of models (wide, narrow, window below its completion, unknown); for one pair 5 messages with every kind of reply, compress-now and queued tasks of payload 3 and 6, for the others 4 messages of 2 sizes, the answered one counting nothing (`answers`); mandatory 0..12 |
| `scene_folds` | the four properties of the summary | 3 messages, 2 folders (symmetric), 1 editor with 2 edits |
| `scene_dangling` | violation: a room recovers from a missing boundary | 3 messages, 1 folder, 1 edit; fairness |
| `calls` | spending, surrender, usage rows, service after recovery | a turn and a task over 2 clients, breaker threshold and cool-down 2, 2 transport tries, 1 catch-up fold, 3 stages for the task, 1 command; fairness |
| `replies` | the prompt, the answer, the bubbles, the speech of one generation | rooms of 2 and of 3 characters (one more than `WholeRoom`), 2 raw replies of every kind, 3 budgets, lists of up to 3 commands; 2 edits, 3 syntheses, 1 change of voice and 1 crash for one bubble |
| `catalog` | keys, options and fallbacks | 2 accounts, 2 models whose keys collide at one of them, 2 secrets, 2 threads, 4 mixes of two or three requests on accounts, options and a room's models |
| `intake` | turns for messages, repeated requests, cleared commands, the ledger against the messages, results, the browser | 7 requests (two starts, an end, a progress and a cancellation of the first match among them), 2 commands, 3 characters, 4 mixes: 5 deliveries; 4 with a deletion and a crash; 3 with 2 clearings and a switch; the browser with 2 errors, 2 polls, 2 losses, a deletion and a crash |
| `migration` | closed bundles, harmless repetition, truthful verification | 2 characters, 2 rooms, 3 messages, 2 edits (deletions included), exports, applications and interruptions each |

Why the bounds are enough. A conflict in the queues is between two actors over one row or one
room: two rooms, two workers, two incarnations and a third job put every pair of handlers side by
side, with a crash between any two of their steps; the proofs cover every other size. Five messages
hold two turns of two bubbles with one in between, and a run of an unknown job with something before
and after it; the four messages of the other pairs exceed, at their greatest size, what any of the windows leaves. Two folders and an editor are the
three pairs of writers. `CompressionProofs` removes the bounds of both runs. A turn and a task meet at one
breaker, and one that opens at two failures has been closed, counting and open. Two raw replies are the least for an order and for a strict room; three commands of one kind are
the source's limit. Two threads are enough for a lost update of a row or of the file; a third key makes
the collision of two names. A request that is delivered again needs one other message, and `Lookback`
more, between; five deliveries are a match that is started, continued and ended, and a second one of which the
cancellation that names the first one misses. An export and an application that
are cut off once and repeated, and cut off again, have met every earlier remainder. The mixes of `catalog`
and `intake` divide one instance into parts that TLC finishes in minutes: what is in no mix together
(two clearings and a crash, for example) is not checked together.

The type invariants of the queues and of the scene are theorems of their own; those of the others are conjuncts of a
checked property (`BoundedSpending`, `AnswerIsSound`, `FallbackIsSound`, `LedgerTells`, `FollowsItsTurn`),
and those of `ContextHistory` (`HistoryTypeOK`) and `Migration` (`WellFormed`) part of the invariants their proofs use. Deadlock is checked in `calls`, whose callers begin again and again; an
instance of the others stops when its last incarnation has died or its requests are used up.

### Fairness

`FairSpec` of the two queues: a dead backend is restarted (`restart: unless-stopped` in
docker-compose), startup runs to its end, the dispatchers poll, worker threads and a cancel
handler that has read its row go on (every model call has a timeout, the database a busy
timeout), a lease nobody renews runs out and a backoff ends. Weak fairness is enough, as none of
these is disabled by others for ever. Nothing is assumed of users, crashes or stops; since
incarnations are bounded, liveness is claimed only for behaviours in which the server is up for
good in the end (`<>[]Serving`). `FairSpec` of `SceneCompression`: folders keep folding. `FairSpec`
of `ModelCalls`: a caller that has begun goes on, and time passes; providers may stay ill.

### What the violations show

* `queue_stranded`: recovery skips a job whose lease is live and runs only at startup, so a
  restart within the lease (180 s) leaves the job running for ever and its room blocked. The
  comment at CS 320 says unfinished running jobs are recovered.
* `scene_dangling`: deleting the message the boundary names leaves the room unable to fold or,
  in automatic mode, to answer, for good. AC 59 calls the error recoverable.

### What the properties have to except

Each exception is a state the code reaches; its history variable or condition says when.

* A job cancelled while running and requeued after a crash keeps `cancel_requested_at`: it is never
  claimed and blocks its room (`Wedged` in `QueuedJobSettles`; CS 321 says queued jobs remain available).
* A regenerated bubble loses its reach in the grouping of turns (`Forgotten`, section 2).
* Edits and syntheses that overlap lose each other's metadata; a recording cut off while it is
  written is reused for good (`crossed`, `cut`).
* Overlapping rewrites of the file of keys, or a crash within one, lose keys; while it is written every
  account reads as keyless (`spoiled`, `KeyStands`). Overlapping updates of one row may make a fallback
  the model itself (`met`). A dedicated compression fallback that is inactive is an error when it is needed, while
  the page names the chat's fallback (218-245 and 405-421 of `runtime_settings_service.py`).
* A crash between the commits of an intake leaves a message no job answers ("cut"); its repetition
  stores it again. Requests to `POST .../messages` and directions are not deduplicated, and the
  lookup reaches back a bounded number of messages of the user.
* Two clearings of commands that overlap may bring one back (`overtaken`).
* Two overlays of `first_bubble` commands have one time and are read in any order.
* In a room with more than six active characters the sender or a fighter may be off the stage
  (AC 755): `StageIsSet` asks for them up to `CastMax`.
* A picture cut off while it is downloaded is copied as it is and passes the verification, which
  compares sizes (MIG 774, 979); an export cut off over an older bundle leaves a mixture of both (`mixed`),
  of which a chat that was cut off at the end of a line is taken for whole.

## 4. Proofs

All theorems hold for every value of the constants that satisfies the assumptions of the module. Most
assumptions are types, and bounds that are not zero; TLC evaluates all of them in the runs. The others are:

* what is not there (`None`, `Absent`, a torn or missing file) is told from what is (`CatalogAssumption`,
  `SettingsAssumption`, `MigrationAssumption`);
* the accounts of the beginning have references of their own (drawn at random, `services/provider_secret_service.py` 44), and no
  room of the beginning has its own model as a fallback (the update refuses that);
* a control that is parsed has one of four actions (`IntakeAssumption`);
* a room has finitely many members, and no more bubbles than a millisecond has microseconds (the source allows
  8, CR 172): their overlays stand a millisecond aside (`RepliesAssumption`);
* an operation has one or two clients to ask for each of its parts, one for commands, and one or three stages
  (`CallsAssumption`).

`GenerationQueueProofs` proves `TypeCorrect`, `RoomsRunOneJob`, `TurnsRunInOrder` and `RoomsRunInTurn`, with or
without overlapping processes. The invariants are not inductive: the
claim is two steps, and recovery requeues what it has read. The inductive invariant `Inv` adds:

* `OneHolder`, `PickServed`, `SnapshotOwned`: one process holds the lock, and a pending claim or
  recovery belongs to it;
* `PickAlone`: what the scan saw of the room (nothing else running, nothing ahead unfinished) is
  still true when the claim commits. Nothing but a claim makes a job running, there is one
  dispatcher, and a turn that is over is reopened only by recovery, before anything is picked;
* `SnapshotAlone`: a job read as expired is the only one of its room that may be running, so
  requeueing it puts no second job beside a running one;
* `AheadAccepted`: the history variable holds earlier turns of the room.

Its second part says what becomes of a turn. Lemmas first say what each step does to the rows and the threads
(`WorkerFootprint`, `WorkerLabels`, `WorkerWrites`, `ClaimEffect`, ..., `StepKinds`); every theorem then is one case per kind of step:

* `QueueKeepsLedger`, the refinement of `TurnLedger`, with or without overlapping processes. It needs
  `AheadIsOver` (the turns ahead of one that has a worker are over, and not about to be requeued)
  and `NothingBeforeTheRow` (a job that is not stored yet has no worker, reply, user or recovery).
  A worker's commit maps to `Answer`, `AnswerLate`, `Abandon` or a stutter, recovery to `Reopen` of what
  the room saw as given up.
* `CancellationIsFinal`: the condition of `CancelIsFinal` is stable under every step.
* `NoAbandonedRunningJob`: a running job has an owner, and its worker or its owner's death (`Attended`).
* `FailureIsSilent` and `TurnsDoNotOverlap`, under the assumption `~Draining`: no process is replaced
  before its workers have ended. `OneProcess` says that all workers belong to the process that
  serves, that a job with replies is completed or cancelled for good, and that a job which is being answered
  runs unless it is cancelled. With an orderly stop both fail: an old worker answers a job the new process has failed.

`PostCommitQueueProofs` proves type correctness, `EffectOnce`, `OneWorker`, `ProcessingIsWorked` and
`GivenUpWhenSpent`. Its invariant adds that a worker which is not through with a task holds its lease unless the
task was usurped, and does not hold it when it settles.

`CompressionProofs` proves two things. About `SceneCompression` it proves type correctness and the four properties of `scene_folds`. `NothingIsLost` rests on
`ReadersInv`: whoever holds the current revision and got past his reads has the current story as his basis.
`ToldInOrder`, `NothingElseIsSkipped` and `DeletedIsNotTold` rest on `SummaryInv`: the story stays
within the boundary, and a claimed batch, while its view is current, is exactly the stored
messages between the boundary and its last message, but for the raced ones.

About `ContextHistory`, for histories of any length, it proves the five properties of `history_folds`:

* `TurnsAreFinest` rests on `StartsSeparate`: a cut inside the reach of an earlier message separates
  something (`ReachTies`), and what a cut separates is within the reach of something before it unless that
  reach is forgotten (`SeparatedIsReached`). `TurnsStayWhole` follows, as a fold ends where a group does (`FoldIsCut`).
* `PressureHasAWayOut` rests on `PressureCuts`: a history under pressure exceeds the budget of the raw
  tail, which is sized to the low watermark, so the tail does not start with the first group (`CutsExist`). For tasks the
  property is not inductive; `TaskPressure` is: the pressure a task was queued under lasts until something is
  folded, because a history only grows (`PressureGrows`).
* `FoldsCreateHeadroom` rests on `WithinBudget` and `NewestTurnAlone`: the newest group stays one group without what
  was before it.
* `AcceptedPromptsFit` is arithmetic on `Capacity` (`CapacityIs`).


`ModelCallsProofs` proves `BoundedSpending`, `NoEarlySurrender` and `RowsTellTheTruth`. Spending is bounded by a
product, so the invariant has a bound for every place of a caller (`Budget`: what the folds, routes,
attempts and stages before this one may have cost), and each step moves to a place whose budget is larger
by what it spends. `RowsOK` says which rows a part may have written, `LostOK` that a fallback is in use
only without the client before it. The invariant is one of each caller; the circuits they share decide only
which step is possible, so nothing in it depends on the order of callers.

`SpokenBubbleProofs` proves `PromptIsWhole`, `AnswerIsSound`, `BubblesStand` and `SpeechIsTrue`.

* `PromptInv`: a prompt that is sent was assembled. What was assembled is a matter of operators: the places of the
  sections are the numbers of a total order (`PlacesAre`, `OrderIs`), and what is left of the budget with what the
  sections so far have taken is never less than the budget (`BudgetIsSpent`), so what is dropped had no room.
* `SpeechInv`: what is being said is what the speaker has loaded, a file exists before its name is stored,
  and a file that is not whole has its writer or was cut off.
* `TurnInv`: after validation the answer stays valid, and its bubbles are `Told` of it, an
  invariant of a sequence of bubbles on its own: every bubble comes from a reply with its speaker and keeps
  its text, every reply has its bubble, the bubbles are in the order in which readers sort them, and before the
  first bubble of a character there is room for an overlay. Each command keeps it by one lemma
  (`TakenAreTold`, `FirstOverlayTold`, `LastOverlayTold`, `RewrittenAreTold`). That as many
  replies are shown as the room wants is a bijection (`AsManyAsReplies`); that the stage holds two characters where the
  room does follows from the choice of the least by rank (`ForemostAreTwo`, `CastIsSet`).

`RuntimeSettingsProofs` proves `KeyStands`, `OptionsAreTheUsers`, `FallbackIsSound` and the types of the catalog.

* `OptionsAreTheUsers` is two statements: an enabled option was enabled by a user and not switched off since
  (`EnabledByChoice`), and no step touches an option entered by hand but the user's switching it or clearing the key
  of its account (`ManualIsTheUsers`). The first rests on `Informed`: a request that withdraws options knows every
  enabled one, from what it has loaded or because the user enabled it since (`again`); the second on
  what a request has loaded being rows that keep their account and their source.
* `FileInv`: a reference has one holder, a request that is alone on its account has loaded the reference that is
  still there, and, unless the file is spoiled, one request writes it and what it writes, or has read, stands for
  every account nobody is working on.
* `SettingsInv`: an update that no other overlaps has loaded the row that is still there. The catalog may change
  beside it: the theorem is about the reference, not about whether its model is enabled.

`RoomClientProofs` proves, for the room and its browser together:

* `MessageHasItsTurn`, from `IntakeInv`: what has no turn yet is the message at the desk;
* `EventsOnceInOrder` across reconnections, `AnsweredIsStored` and `FollowsItsTurn` (for `MaxErrors <= 2`, the
  source's bound; nothing is claimed for others);
* `TakenInOnce`: in every step the log only wears (`LogWears`: entries are appended, die, or get a fate once),
  so a message stored beside an earlier one of its request can only come from a lookup that did not reach it;
* `ClearedStaysOut`: the columns of commands are lists that flushes replace as a whole;
* `LedgerTells` and `ResultStands`, from `BattleInv`. Its parts are the parts of the property, and they need each
  other: that a control which changes a match leaves true what earlier messages say of it (`ChangeStep`) needs
  matches to come one after the other, as only the one in progress may change; and that a new match comes after all the
  others needs every match to name messages already stored. The standings are rebuilt when a match ends only; other controls leave the
  completed matches as they are (`SameResults`). That the ranks of the rebuilt table are a numbering without gaps
  is `RanksAreAll`.

`MigrationProofs` proves `BundleIsClosed`, `RepeatsSafely` and `VerifiedIsWhole`. The tool is one thread, so the
invariant says what each of its places has established: of what it has read (`MemoryOK`), of the files
it has written (`WritingOK`), of the tavern (`ApplyingOK`). Between two uses of the tool, a bundle that is no mixture is what
its export has read (`Closed`), an application that came to its end has left everything in place
(`Done`), and a verification still stands (`Reported`), because the first write of an export and the beginning
of an application withdraw both (`Silent`).

Lemmas on the operators these rest on are proved where they are needed: what a filter of a sequence keeps
(`OnlyIs`), the least and greatest number of a kind (`LeastExists`, `GreatestExists`), next numbers, rankings and rebuilt tables.

Recursive functions (sums of tokens, what is left of a budget) are followed without induction over data, which TLAPS cannot do
with the installed provers: a set of numbers for which a claim fails would have a least element, and the claim
passes from each number to the next (`UpTo`, `SumsExist`, `Iterates`).

Only model-checked are the liveness properties: liveness under fairness and ENABLED are beyond TLAPS here.

## 5. Limits

### Known and not covered by a property

* GD 107: an exception in the claim (a locked database) ends the dispatcher thread while requests are
  still accepted. The model has no such step; with it, liveness would be claimed of nothing.
* An EventSource that a non-200 answer has closed for good is rescued only by the error count or the
  timer of the first connection. Leaving the page keeps the reference to the active job, which blocks
  sending in that room until the page becomes visible again; a poll that fails shows a completed turn as failed.
* The sync of a provider reads the rows after its fetch; names that give one key make it fail (MP 124, 531).
* `force` of the migration overwrites what was written in SillyTavern since, and a room that has
  changed from one character to several leaves its old chat behind.

### Not modelled, and why

* Read marker and unread counts: two statements; what can go wrong (a reply stored behind the
  marker) is the case the raced messages of `SceneCompression` show for the boundary.
* Backups and schema migrations: files the running program never reads, and steps before anything else runs.
* Memories and relationships, external memory, markup, the repair of malformed answers: heuristics over
  text without a protocol of their own.
* Characters, worlds, presets, usage rows, prompt snapshots: single-row editing and append-only rows.
* Room deletion, participants, genre changes and the regeneration entry point, test calls to an account,
  speech capability and voice samples, the editor of commands: each a single commit beside the modelled handlers.
* The views of the web client and its cache; containers and proxy.

### What would come next

* An inductive statement about one room with both its queue and its summary: `SceneCompression` leaves open which
  messages a batch takes, `ContextHistory` has one folder.
