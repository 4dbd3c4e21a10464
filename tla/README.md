# Verification of curlycatclaw

curlycatclaw is a personal assistant on Telegram: a Go daemon of supervised
actors around Claude, a companion "updater" container, and a set of skills.
This directory holds TLA+ models of its concurrent core, the TLC runs that check
them and the proofs TLAPS checks. `PROJECT.json` lists, for every definition, the
source lines it stands for.

## 1. Inventory

| component | state it keeps | operations | interacts with |
|---|---|---|---|
| Session run loop (`internal/session/actor.go`) | the turn in flight, the pending queue (10) | receive, dispatch, queue, drain, `/stop`, report, restart after a panic | channel (updates, inbox), supervisor, turn goroutine |
| Supervisor (`internal/actor`) | restart count and backoff per actor | run, recover, restart, cancel, drain 30 s | every actor |
| Telegram channel (`internal/telegram`) | `inbox`, `updates` and `docSend` (64, 64, 8) | receive, download, forward or drop; send, edit, split, draft | Bot API, session, reminders |
| Turn delivery (`streamState`, `toolUseLoop`, `handleWithCLI`) | buffer, message id, `delivered` | delta, overflow, flush, final flush, reset, fallback answer | channel, Claude |
| CLI subprocesses (`internal/claude/subprocess.go`) | one process per user and chat, `initMsgSent`, pipes | get or spawn, send, kill, remove, clean up | session, claude program, plugins (reload file) |
| Reminders (`skills/remind.go`) | table of reminders, tracked jobs, gocron jobs, `firing` | set, update, cancel, delete; schedule, fire, poll, rebuild for a time zone | skills (signals, cap 16), cron executor, channel, SQLite |
| Cron executor (`internal/session/cron.go`) | semaphore of 3 | run a task with tools, 10 rounds, one retry | Claude, skills, MCP |
| Updater sidecar (`cmd/curlycatclaw-updater`) | `UpdateState` in memory and on disk: digests, lock, blacklist | check, update, roll back by itself or by hand, release a stale lock | Docker, registry, the daemon's update client |
| Service catalog of the sidecar (`catalog.go`, `compose_gen.go`) | catalog and its file, generated overlay and its temporary file | register, remove, start, stop, list | Docker, `manage_service`, automatic start of an HTTP extension |
| Summaries (session + `internal/memory/summarizer.go`) | status of each conversation, summaries, their points in the index, semaphore 2 | expire, summarize, store, index, recover, delete | Claude, SQLite, Qdrant |
| Observations (session + `internal/memory/observer.go`, `skills/observation.go`) | extraction state and cursor of each conversation, turn counters, semaphore 3, observations, relations, entities, points | trigger, extract, recover, reindex; keep, revert, forget, restore, update, supersede | Claude, SQLite, Qdrant |
| Embedder migration (`internal/memory/migration.go`, `migrate.go`) | `embedder_state`, versioned collections, aliases, the double write | start, backfill, catch up, swap, complete, resume; the offline command | Qdrant, SQLite, embedders, live indexing |
| Memory store, context, vectors | SQLite tables, Qdrant collections | rows, search | everything above |
| Ingestion (`internal/ingest`) | per source: mode, cursor, status; processed items; daily counters | discover, filter, extract, save, advance, clean up | MCP, Claude, store |
| Self-evaluation (`internal/eval`) | candidates, scores, mined failures | score, mine, gate | Claude, store |
| MCP manager (`internal/mcp/manager.go`) | servers with reserved names | add, remove, call, shut down | session, extensions |
| Extensions and the skills server (`internal/extension`, `mcp_server.go`) | registry and `extensions.json`, credential file, hot-reloader's sessions and proxied tools, reload flag | add, remove, set and unset a variable, load, retry, hot-reload | MCP servers, sidecar, claude program |
| Skill loader, Wasm runtime | loaded skills by directory, fsnotify watches | load, watch, reload, unload, execute | skill registry, the user's files |
| Other skills, configuration, credentials, personality, voice, GWS server, markdown | none or one row or file | sequential | - |

How the parts meet: the channel turns Telegram updates into messages on `updates`;
the session's loop takes one at a time and runs a turn in a goroutine; the turn
talks to Claude (over HTTP, or through a long-lived claude process) and pours the
text into `inbox`, which the channel sends. Skills run inside the turn and signal
other actors (reminders) over small channels, or, in CLI mode, in another process
that shares only the database and a reload file. The sidecar restarts the daemon.

What is hard about it, and what must hold:

* **One turn at a time, in order, with `/stop` in between.** A turn's end, a new
  message, `/stop`, a panic of the loop and shutdown race. No message may be
  forgotten, overtaken or started twice; what `/stop` cancels stays cancelled.
* **Streaming.** A flush waits five seconds for a message id that may come later;
  the inbox may be full; a text is cut across messages. The user must see the
  answer once and in order, and the turn must end.
* **Processes that outlive turns.** A process is reused by the next turn; a kill, a
  time-out or a crash at any moment must leave neither an orphan nor a pipe with
  somebody else's answer, and settings fixed at its start must not go stale.
* **Reminders across a table, a tracked map and a scheduler**, that are updated by
  signals which may be lost, by polling, by jobs that finish and by rebuilds.
* **Updates with a lock on disk** that must survive a crash and yet be released, and
  a rollback that must restore what ran.
* **Ingestion across cycles and crashes**: what a table claims (a cursor, a row, a
  status) must not run ahead of what was done, what was found in a text that counts as
  processed must be kept, and the daily limits must hold over all of it.
* **Memory jobs**: claimed work, full semaphores, recovery after a crash or with jobs
  of an earlier life of the loop still running. What a status or a cursor says must be
  true, and no conversation may stay locked.
* **A migration under live writes**: what serves must never be deleted before its
  successor is whole, wherever the process dies, and it must come to an end.
* **Extensions**: one operation changes a registry, a file, connections, tools and
  credentials, in several steps, beside others and with failures in between.
* **Files others write**: the overlay of the sidecar and the skill directories are
  read, generated and reloaded while they change.

## 2. Modules

| module | models | abstract specification |
|---|---|---|
| `TurnQueue` | what the loop promises: messages start in order, one at a time, or are discarded for good | - |
| `SessionDispatch` | run loop, turn goroutine, supervisor, the channel's side of both queues | implements `TurnQueue` (refinement mapping in the module) |
| `MCSessionDispatch` | values for TLC | |
| `SessionDispatchProofs` | theorems on `SessionDispatch` | |
| `StreamDelivery` | `streamState`, the two loops that feed it, the files of a turn, and the sending side of the channel | |
| `CliSession` | the claude processes and the turns and commands that use them | |
| `TurnProofs` | theorems on `CliSession` and on `StreamDelivery` | |
| `Reminders` | table, skills, actor, gocron jobs, Telegram inbox, time zone rebuilds | |
| `RemindersProofs` | theorems on `Reminders` | |
| `Updater` | the sidecar's handlers, workers and state file, Docker and the registry | |
| `ServiceCatalog` | the sidecar's companion services: catalog, overlay, containers, overlapping requests | |
| `MCUpdater` | both halves of the sidecar for TLC | |
| `UpdaterProofs` | theorems on `Updater` and, through `MCUpdater`, on `ServiceCatalog` | |
| `Ingest`, `MCIngest` | the ingest actor's cycle, its tables and limits, over mail accounts and note directories | |
| `IngestProofs` | theorems on `Ingest` | |
| `EmbedderMigration`, `MCEmbedderMigration` | the background migration, start-up, live indexing and the offline command | |
| `EmbedderMigrationProofs` | theorems on `EmbedderMigration` | |
| `Observations`, `MCObservations` | extraction, the commands and skills on observations, recovery and reindexing | |
| `Summaries` | expiry, summarizing, recovery and deletion of summaries | |
| `MCMemory` | `Observations` and `Summaries`, what is kept of conversations besides their messages, in one run | |
| `ObservationsProofs` | theorems on `Observations` and, through `MCMemory`, on `Summaries` | |
| `McpClients` | the steps on connections: `Manager` in the daemon, `mcpHotReloader` in the skills server | |
| `Extensions` | the registry and the skills that take those steps, start, stop, retry (EXTENDS `McpClients`) | |
| `SkillLoader` | skill collections on disk and their hot-reload | |
| `ExtensionsProofs` | theorems on `Extensions` and, through `MCSkills`, on `SkillLoader` | |
| `MCExtensions`, `MCSkills` | the extensions for TLC; the same composed with `SkillLoader`: all that fills the skill registry at run time | |

### SessionDispatch
`active` and `pendingMsgs` are the loop's; `work` is the set of turn goroutines
with their context. `IdleUpdate`, `WorkDone` and `BusyUpdate` are the arms of the
two `select`s; each includes everything its arm calls (`dispatchMessage`,
`stopActive`, the drop of the oldest message and its notice). `HandlerReturns`,
`HandlerPanics`, `ReportFailure` and `CloseDone` are the goroutine; `Panic` and
`Restart` the supervisor; `CancelRoot` and `Exit` the shutdown. Of a message only
its sender and whether it is `/stop` are kept. The abstract `TurnQueue` knows a set
of messages and which were started or discarded; the mapping reads them off the
real queue.

### StreamDelivery
A turn says numbered pieces of text; `Limit` of them fit into a message. `buf`,
`msgID` and `delivered` are those of `streamState`; a flush is an operation in
progress (`pc` is "flush", "waiting", "flushed") that ends with an id, with none within five seconds,
or at once because the inbox is full. The API loop (rounds, tools, a stream that
fails) and the CLI loop (tool callbacks, the answer in the result) are two modes
chosen initially. Drafts only occupy the inbox. `Channel.Run` sends one message at a
time, in chunks if it is long (`sending`); where `chunkMessage` cuts is left open. The
first chunk answers the flush; a later one that is refused answers a second time.

A turn ends with `drainPendingFiles`: the rows that `send_file` wrote (`table`) are read,
deleted, and handed to the channel one by one; the tools of the turn write some of
them (`own`), scheduled tasks and processes about to be killed the others, at any time.

### CliSession
`proc` holds each process with the settings it was started with, what was written
to its stdin and not answered, and what it printed and nobody has read; `tracked`
is `CLIManager.processes`. A turn is in one of `get`, `init`, `send`, `reading`.
`/stop` (`stopActive`) may come at any of them: it cancels the turn's context, which
kills only a process started by that very turn, and removes the tracked one.
`Send`'s and `spawn`'s selects are random choices, so each of "cancelled", "dead"
and "there is a line" may win when several hold. `handleRetry` changes the effort
for one turn; `EndTurn` is its deferred restore, on every way out. Claude itself is
external: it prints an init event after its first message, then texts and one
result per message; during a message it may change the plugins. Process ids are
used again; which free one is taken does not matter, so one is chosen.

### Reminders
`row` is the table, `jobs` the actor's map, `alive` the jobs gocron has, `run` what
a gocron goroutine or the actor itself is executing (reading the row, running the
task, sending, marking, cleaning up: one step each, since others run in between).
In API mode skills signal the actor; in CLI mode signals are lost and only `poll`
helps. A crash ends every goroutine and keeps the table. SQLite may refuse a statement
of the actor (`Fault`): a row that cannot be read does not fire now, rows that the loop
cannot read are passed over until the next poll, and a row that cannot be marked after
its message was sent (`MarkFails`) stays pending, which `unmarked` counts.

### Updater
`st` and `saved` are `UpdateState` in memory and on disk; each `work[w]` is one
goroutine of an update or a rollback with its steps (inspect, tag, get the image,
up, health, and the way back), each of which may fail as Docker may. Images are
numbered as they are published. `TenMinutesPass` makes a lock stale. A write of the state
file may fail, which every caller only logs (`Save` then leaves `saved` as it was, and
`unsaved` says so until the next write), and a sidecar that cannot read the file starts
with nothing (`Crash`).

### Ingest
`state`, `rows` and `memory` are the tables `ingest_state`, `ingest_processed_items`
and `observations`; `dailyLLMUsed`, `dailyObsKept` and `lastResetDay` the actor's
counters; `cycle` the one `runCycle` that holds `cycleMu`, with the source it is at,
the batch it discovered and the item in hand. Steps are cut where a crash matters:
discover, each item's read, extraction, every single observation saved, the item's
row, the cursor, the status. Each access to a table may fail (`Fault`), with what the
code then does: it logs, and goes on or returns. A shutdown cancels the context,
which the batch's loop looks at between items; a crash ends the process anywhere.
The world changes at any time: messages arrive, notes are edited, midnight passes.

`found` is what the last extraction of each text found, `gone` what of it could not be
saved or was deleted or reworded by the user (`ForgetObservation`); an extraction that is
repeated may find more or less than the one before.

Abstracted: an item's text is its version number; an observation is identified by the
version it came from and its number, which is what the hash of its text tells apart;
`memory` has those whose hash is taken, by active rows (`ObservationExistsByHash`) or by
archived ones (the unique index);
items of a batch are taken in any order (the source's); `Prefilter` is a constant set;
rows that a midnight has passed count as a week old, so that the cleanup may come
early, and it runs at any point of a cycle. Gmail's `after:` includes the day of the
cursor, so a mail source finds its newest message again in every cycle.

### EmbedderMigration
`db` is the row `embedder_state`; `coll` and `alias` are Qdrant's collections, by
version, and aliases; `mgr` the `MigrationManager` with its place in `run`, `op` one
call of `Index` or `IndexSummary` with its embedder, its upsert and its second write,
each under a lock of its own, and `tool` a run of `--migrate-embedder` while the
program is down. Rows are saved (`SaveRow`) and indexed at any time, calls of Qdrant,
SQLite and the embedder fail (`Fault`), the process is stopped or dies anywhere, and
`Boot` takes the row up as `main.go` does, or fails to read it (`BootUnread`) and serves
with the configured embedder as if there had been none, which it records. A row is its number; texts that
`extractText` finds nothing in are a constant. The configuration changes only while no
migration is under way (section 6 says what happens otherwise).

`TargetComplete` and `LiveIndexWhole` make exceptions, which the proof asked for and TLC
confirmed: rows with a batch's worth of consecutive rows without text before them
(`BehindGap`), since such a batch may be taken for the end of its source; a run of the
command that broke off (`damaged`), which can also leave a collection of another embedder
where a source without any text is to go (`Carried`); a start that could not read the row,
until a migration is completed again (`misread`); and an active embedder that cannot be
built again is replaced at the start, so that `active` is not the recorded one.

### Observations
`ext` is `observation_extraction_state`, `worker` the three slots of `obsSem`, `obs`,
`rel` and `entities` the tables, `points` the vector index, `turn` a command or skill
in progress, `run` the loop with its recovery at the start. Each statement of SQLite is
a step, so that extractions, commands, skills and recovery interleave between any two.
`Crash` ends everything; `RestartRun` restarts only the loop, as the supervisor does
after a panic, with extractions at work. Claude's answer is any sequence of contents,
and gives any relation to the observations it was shown.

### Summaries
`status` is `conversations.summarization_status`, `stored` and `indexed` what SQLite and
Qdrant have, `job` the goroutines: those of `asyncSummarize` in the semaphore's slots,
and one per `recoverSummarizations`, which works off its list one after the other.
`Expire` is the new conversation of a chat idle for four hours.

### McpClients and Extensions
A connection is its place in `conns`, with its server, the values its environment was
resolved to and the tools it lists. `servers` is `Manager.servers` (a nil entry is
`Reserved`), `tracked` and `served` are the hot-reloader's sessions and the tools it
registered. `op` holds each call and each connect of the start with its place in the
code; a step is what happens under one lock. `mode` chooses the process: the daemon has
a Manager and no hot-reloader, the skills server the opposite. `disk` is
`extensions.json`, `creds` the credential store, `torn` that its file was cut short: it is
written in place, so a write that fails or is interrupted may lose all values, and who
reads it during one may fail. A connection of a stdio server knows under which call's context
it was started (`by`): in the daemon that ends with the call (`CallReturns`), and the server
with it. A daemon that cannot read the registry goes on with an empty one (`Boot`), and the
reload flag may not be set, which nobody notices (`unasked`). `raced` and `waived` mark names
whose operations overlapped, or for which a known defect of the findings has struck;
what is said of one extension while nothing is under way for it passes over them,
`NoSessionLost`, and that what is held runs, does not.

### ServiceCatalog
`catalog` and `managed` are the map and its file, `overlay` and `overlayTmp` the
generated compose file and its temporary one, `calls` the requests net/http runs at a
time, each with the list it has read. Docker's commands may fail; the sidecar may die
anywhere. `settled` is what the last caller to ask for a service was told.

### SkillLoader
`dirs`, `toml` and `executable` are the user's files, `events` what fsnotify has told,
`watched` the directories it tells of, `skills` what is loaded. `LoadAll` and
`WatchForChanges` visit the directories one after the other; then one goroutine works
off the events. `unseen` marks directories with a change that no event tells, or that were
made anew before their former skill was removed, so that they may have two; `clash` is a
name used twice.

### Halves
`MCUpdater`, `MCMemory` and `MCSkills` each put two modules into one run. The two halves of such a
run share no variable: no step of one reads or changes what the other reads. A property
of one half therefore holds in all interleavings of both if it holds while the other
half stays at a start of its own, and only these are explored; each half is explored in
full.

## 3. Runs

| run | question | bounds |
|---|---|---|
| `dispatch` | conservation, finality of `/stop`, liveness, refinement of `TurnQueue` (order, one turn at a time) | 4 messages, queue of 2, updates 2, inbox 1, one panic: the queue overflows, drains, is flushed and is inherited by a restarted loop |
| `stream` | what the user sees; files arrive; the turn ends | 4 pieces, 2 per message, at most 2 per delta, 2 rounds, inbox 2, 1 foreign message, 2 files: every cut, a full inbox, a late id, a refused chunk and a table that cannot be read or cleared occur |
| `reminders` | sent twice, fired but not sent, closed rows reopened; a due reminder resolves and the schedule follows the table | 1 reminder (plain or a task), 3 skill calls, one gocron slot, 1 signal, one crash, one statement that fails |
| `updater` | lock, no retry loop, what a failure leaves; what the sidecar answered about a service stays true | 2 images, the second broken, 2 overlapping workers, 2 requests, a crash, one failed write or read of the state; 2 services, 2 requests at a time of 4, a restart |
| `cli` | whose answer, orphans, stale settings, one-shot `/retry`; the turn ends | 2 users, 3 messages, 2 efforts, 2 projects, one upset (a command, a death or a plugin change) |
| `ingest_mail` | daily limits, resumption of a backfill, what was found in a processed message is kept | one account with a wanted and an unwanted message, 2 calls and 1 observation a day, 2 observations per message, 2 days, one failed access, one observation deleted by the user, one crash or shutdown |
| `ingest_notes` | sources left "running", rows that claim too much, edits noticed in the end | one note changed twice, 1 observation per version, 2 days, one failed access, one crash or shutdown |
| `migration` | a completed migration has everything, what serves is whole, a migration resolves | 2 sources, at most 4 messages and 3 summaries in batches of 2, one message without text, and the first two summaries, 2 versions, two failed calls, two stops, one run of the command |
| `migration_retry` | does the command recover a failed migration? (no) | the same, one failed call, one stop |
| `observations` | what the cursor has passed, what "pending" promises, what relations relate; what "done" promises of a summary, nothing indexed that is not stored | 2 conversations, 3 messages, 2 contents, 2 slots, 2 observations, 2 commands or skills, a failed call, one crash or restart, one conversation recovered per start; the summaries as in the next run |
| `summaries` | recovery gets through (liveness, so without the other half) | 3 conversations, two of them short, one slot, two recovered per start, a failed call, two crashes or restarts |
| `extensions` | no session lost, what runs is what is registered, variables reach their server; what is loaded is what the files say | an extension and a default, 2 tools, 4 connections, 2 calls at a time of 2, every kind, one trouble, one retry; 2 directories, 3 names, 4 changes of the files |

Every property has a mutant in `PROJECT.json`: a plausible bug of the code, as an
operator beside the one it replaces, with which the property is violated within the
bounds of its run.

Nine more configurations are not part of the runs; each ends with a violation that
shows a finding, the disagreement of the code with a sentence of the repository, and
is repeated with `tlc -config X.cfg M`:

| configuration | module | shows |
|---|---|---|
| `SessionDispatch_flush.cfg` | `MCSessionDispatch` | `/stop` flushes messages of another conversation |
| `StreamDelivery_repeat.cfg` | `StreamDelivery` | in API mode an answer whose id came late is sent again |
| `StreamDelivery_stuck.cfg` | `StreamDelivery` | a refused chunk blocks the channel after a flush gave up |
| `Reminders_fired.cfg` | `Reminders` | a reminder made recurring while it fires is marked fired |
| `CliSession_effort.cfg` | `CliSession` | `/effort reset` does not reach the next turn |
| `Updater_rollback.cfg` | `Updater` | a second rollback runs another image than it records |
| `Observations_archived.cfg` | `MCObservations` | an archived observation is still found and shown |
| `EmbedderMigration_textless.cfg` | `MCEmbedderMigration` | a batch of rows without text ends the backfill before those that follow |
| `MCExtensions_live.cfg` | `MCExtensions` | two connects at a time leave a tool on a closed connection |

The findings without a configuration in the table were read off the code while
modelling it; the models have the behaviour, or name it as a restriction. The type
invariants (`TypeOK`) of the modules hold in their runs as well; where there is a proof
they are part of its invariant (`TypeInv`, `StreamType`, `LoaderType`), elsewhere they are
kept for the reader, and the runs spend their time on the other properties.

Why these bounds are enough: the hazards are about two adjacent things (a turn and
the next, a flush and the next, a fire and an edit, an update and the rollback
after it), at one full queue, with one fault. Each run has one more of each than
its shortest interesting history needs, and every property is broken within the
bounds by a plausible bug of the code (the mutants of `PROJECT.json`).

`cli`: three messages are the least that show a process started, reused after a
`/retry`, and used by a user whose reload file somebody else removed.
`ingest_mail`, `ingest_notes`: a batch of two is the least that can be cut in the
middle, two days the least that a cycle can run over, and a limit of one observation
with two per message the least that is overrun.

Deadlock is not checked where the model stops at its bounds (no more messages)
while the program would wait.

`migration`: two sources are the least that aliases can be moved for one by one; with
batches of two, four messages have a batch cut by a row without text, and the two summaries
without text are a batch that a third stands behind; two failed calls are the least with which
a migration fails and the next start cannot read what it recorded. `observations`:
two slots and two conversations are the least in which an extraction runs beside a
restart that resets its conversation, and one recovered conversation the least that
leaves one out. `summaries`: three conversations with two per start leave one for the
next. `extensions`: two calls at a time, and beside them the connects of the start; three
of the four connections can be to one extension. Four changes of the files make, fill,
and rename in a new directory, and remove it again. `updater`: of four requests two overlap on one service
and two on the overlay.

## 4. Fairness

* `SessionDispatch`: the loop's arms and the supervisor's restart are weakly fair.
  Go's `select` picks among ready cases at random, so an arm that stays ready is
  taken in the end. The turn itself is *not* assumed to end: what needs it says so.
* `StreamDelivery`: the turn's goroutine and the five-second timer are weakly fair;
  the channel is not, so the turn ends even when Telegram hangs, unless it has a file to
  hand over, for which the code sets no limit.
* `CliSession`: the turn's goroutine is weakly fair, and Claude does not talk for ever
  about one message (strong fairness of its result). `handleWithCLI` has no time limit
  of its own, so the second assumption is needed; without it only `/stop` ends a turn.
* `Reminders`: loop and goroutines are weakly fair. A send is strongly fair (Telegram
  does not refuse for ever), and so is a due job of gocron; signals are taken if
  they are offered again and again.
* `Ingest`: the cycle's steps are weakly fair (a goroutine and gocron's job, which
  comes again), so are midnight and the restart that follows a shutdown. Discovery,
  and for each item its reading and its extraction, are strongly fair: the source and
  Claude do not fail for ever. Nothing is assumed of failing tables, crashes or edits,
  which the bounds limit, nor of the order in which items are taken.

* `EmbedderMigration`: the manager's goroutine and the vector store's opening after a
  start are weakly fair; calls fail as often as the bound allows. That is enough for
  `MigrationResolves`, which excepts what fails.
* `Summaries`: each goroutine is weakly fair (its calls have time limits), so that a
  recovery works off its list.
* `Observations`, `Extensions`, `ServiceCatalog`, `SkillLoader`: safety only.

## 5. Proofs

`SessionDispatchProofs` proves, for every number of messages, senders and panics
and every capacity, with no assumption but `SessionDispatch`'s own `ASSUME` (there
is at least one sender, and the capacities are positive numbers):

* `TypeCorrect`, `TurnsAreSerialized`, `NoMessageIsForgotten`, `QueueIsFifo`,
  `NoMessageIsStranded`, `StopCannotBeUndone`: types, one turn at a time,
  conservation, arrival order, an empty queue when no turn runs, and the finality of
  `/stop` (run `dispatch` checks `NothingLost` and `StopIsFinal`; the others are what
  makes them and the refinement inductive);
* `RunLoopImplementsTurnQueue`: the refinement that run checks (its safety part;
  `TurnQueue` has no liveness of its own).

None of the six is inductive alone. The inductive invariant `IInv` is their
conjunction with three more: `FutureUntouched` (messages that have not arrived are
nowhere), `TurnsAreDispatched` (a turn's message is disposed of as "dispatched") and
`NoStopQueued` (a `/stop` that arrives during a turn never waits). Order needs
conservation (a message that leaves the head is the oldest of those that wait),
conservation needs serial turns (a collected turn is the one that was dispatched),
and `StopIsFinal` needs order (everything flushed is older than the `/stop`). The proof
has one lemma per action, collected by one step lemma; the
refinement uses `IInv` at both ends of a step and maps each action to a step of
`TurnQueue` or to a stutter.

`IngestProofs` proves, for any sources, items, limits, days, edits, failures and
restarts, with no assumption but `Ingest`'s own `ASSUME` (sources have different
items, limits are positive), the type invariant and all five invariants of the two ingestion runs:
`TypeCorrect`, `DailyCostIsBounded`, `BackfillSurvivesCrashes`, `ProcessedTextsAreKept`,
`NoSourceIsLockedOut` and `RowsAreHonest`. Not even the types are inductive alone: an
edit may only be seen if versions stay below the number of edits, an observation only
be saved if the limits left room for the item (`VersionsBounded`, `BatchExists`,
`RoomForItem`). The rest of `IInv` is what each property needs: a text being saved was
seen by its extraction (`SeenBeforeSaved`); no message or cursor is dated in the
future, what is older than a batch's new cursor is settled or still in the batch, and
a batch is empty when its cursor is set (`DatesArePast`, `BatchCovers`, `BatchIsEmptied`,
`HandledIsSettled`); the counters account for all but what earlier lives may have used
(`CountersAccount`). `KeptInv` is for `ProcessedTextsAreKept`: of the text in hand all that
was found so far is there or given up, but for what is left to save (`SavedSoFar`), and what
was found is of a version there has been (`FoundIsPast`). A row may come to say of a text that
it was processed only when that text is in hand with nothing left to save, and no other text
becomes the processed one while it is extracted: what is in hand was due when it was taken, so
its row does not claim it (`HandIsDue`), and no row has the fingerprint of a version still to
come (`FingerprintsArePast`). The lemmas are by conjunct, and within a conjunct by action; those
on the shape of a step (`ItemShape`, `StateShape`, `WorldShape`) are shared.

`RemindersProofs` proves `OneMessagePerReminder`, `FiredWasSent` and `ClosedIsFinal`, for
any number of reminders, goroutines, skill calls and crashes. What is hard is that a
reminder is scheduled from a table, a map and gocron, which agree only now and then. The
invariant follows one undisturbed reminder through them: gocron has no job of it but the
tracked one (`AliveIsTracked`); while a goroutine fires it, nobody else does, gocron's job
is gone and the loop is not about to schedule it (`OneCall`, `ToSchedule`); and at any time
at most one call has read the row while it was pending and is not over: it alone sends and
marks, and what was sent more often than the row stayed unmarked is its message, until the
row is fired (`SentByOne`, `FreshCalls`, `MarkIsEarned`). `RecurringStays` and `Untouched` keep the
recurring and the unwritten rows out of this.

`UpdaterProofs` proves `TypeCorrect`, `UpdatesExcludeEachOther`, `NoRetryLoop` and
`FailureIsUndone`, for any images, broken or not, overlapping requests and restarts.
`LockDiscipline` carries the rest, its part in memory: because only one operation works, the blacklist holds
every target that failed and the one in hand is not among them (`FailuresRemembered`), and
the rollback tag still names what ran before (`TagNamesFormer`, `RestoredIsFormer`). With
images that are built here there is no digest to be tried twice (`BuildsHaveNoDigest`).

Its second half proves `AnswersAreKept`, for any companion services, requests that overlap,
failing commands and restarts. What a caller was told stands only while no request for that
service is under way, and requests for one service know of each other (`RequestsKnown`). So
one that ends alone may answer for what it did: it still finds its change of the catalog
(`DoneSoFar`), a removal has also stopped the container unless that failed or it met a start
(`RemovalStops`), and the overlay follows, because a list about to be written is the catalog
but for requests that have changed it since and have still to make a list of their own, and
at most one request writes unless two of them overlapped (`ListsAgree`).

`TurnProofs` proves `TypeCorrect`, `AnswersOwnMessage`, `NothingIsOrphaned` and
`SettingsReachProcess`, for any users, processes and settings. A turn can only be sure of
its answer because no process is left with anything in its pipes: those that are tracked
and not in use are silent, the one in use has at most the turn's message and what answers
it, up to one result that comes last (`PipesOwned`, over `TrackedOnce` and `TurnHasProc`).
`ConfigCurrent` and `ChangesKnown` say the same of settings: what a tracked process was
started with is what its user has now, but for a change that the reload flag still tells.

Its second half proves `FilesAreDelivered` and `TurnsAnswerOnceInOrder` of `StreamDelivery`,
for any amount of text, any message size, delta, inbox, number of rounds, files and foreign
messages. `FilesInv` follows the files: those of the turn are in the table until the turn
takes all of them at once, and then in its hands or with Telegram. `DeliveryInv` does the same
for the text. `buf` and `rest` hold the pieces said last, and nothing else (`BufInv`); an id is
missing only where something was refused, dropped or late (`IdInv`); of all messages only
texts are cut (`Short`); and the texts on the screen, in the channel and in the inbox are in
order, with exactly the pieces `1..Given` if nothing went wrong, where `Given` counts what
left the buffer, and with none if a CLI turn has delivered none (`TextInv`), which is why its
fallback may send the whole answer. That texts are cut and moved is said with relations
between places (`Has`, `Ordered`, `Cut`: which pieces a place has, and that they come before
those of the next), not with equations between concatenations, so that no induction over
the inbox or over a text is needed; `PartsOrdered` leads back to the property.

`ObservationsProofs` proves `CursorIsCovered`, `PendingIsHeld` and `RelationsAreSound`, for
any conversations, slots, observations, commands, failures and restarts. One half of the
invariant is about claims: each extraction, and a start that releases a conversation, has
in hand only a cursor that is covered (`Ranged`, `ReleaseRanged`), and from the moment a
start has read which conversations are pending each of them is worked on, on the start's
list, or excused (`PendingHeld`). The other is about the table: ids only grow, a relation
goes from a newer to an older one, and what an extraction or a command has in hand was made
before what it makes (`Table`, `Named`, `TurnNamed`), even if it is gone by the time it is
related.

Its last part proves `DoneIsNeverClaimed` and `IndexFollowsTable` of the summaries, for any
conversations, slots, retries, failures and restarts. A job that is about to write "done"
already has what "done" claims, and one that is about to index has stored its summary
(`DoneIsJustified`, `IndexingIsStored`); jobs of one conversation may overlap, since what
one has done is only undone by the user.

`EmbedderMigrationProofs` proves `NothingIsLeftBehind` and `WhatServesIsWhole`, for any
sources, embedders, batch sizes, rounds and versions, and any crashes, stops, failed calls
and runs of the command. The invariant says what each of the four places a migration is
kept in vouches for: the recorded cursor, and the goroutine's, for the rows before it
(`CursorsVouch`); the goroutine's place for the collections it has made and filled
(`TargetMade`, `TargetFilled`), for what the row says (`ManagerAgrees`) and for where the
aliases point (`Swapped`); and a version above the active one is nobody's but the
migration's (`NothingAbove`, `Versions`), so that what is found there may be trusted after
a crash. `ToolBuilds` says the same of the command. An empty batch is the end of a source, or
has a batch's worth of rows without text before all that follows, and then the theorems
promise nothing of these (`BehindGap`); `EmbedderMigration_textless.cfg` shows them left
behind. What a start that could not read the row leaves is not excepted for good: the next
migration builds what it serves, and `misread` ends when it is recorded.

`ExtensionsProofs` proves `NoSessionIsLost`, `RunsWhatIsRegisteredAlways` and
`EnvReachesServerAlways`, for any names, tools, callers, calls, connections and troubles, in
either process. Their invariant `IInv` has two kinds of parts. Some hold of every name,
however calls overlap: a call is at a place of its code that its kind, its process and the
phase of the process allow (`Course`); it has a connection in hand only where it goes on to
put it somewhere, and a connection has one server (`HandsInv`); a reserved name is one
call's (`Reservations`); what a call has swapped in stays tracked until the next call takes
it out to close it (`Succeeded`). The others hold of names on which no calls overlapped and
no known defect struck, and say for each place of a call how far registry, skills, server,
tools and environment have come (`Under`, and `Calm` when there is no call); a reference has
its value because the value is stored first and deleted last (`RefersToValue`). A daemon that
could not read `extensions.json` has another registry than the file, until it writes it:
`DiskInv` says of the file what `IInv` says of the registry. And `Live` is about what runs, of
every name: what is held is open, or was started by a call that may have returned
(`ServersLive`, `TrackedLive`), because nothing that is closed is also in another hand
(`HandedApart`, `OldApart`). A step
changes what belongs to one name, so one lemma (`StepKeeps`) carries all other names over
and each action is examined for its own name only. `NoSessionIsLost` is then a property of
each step: what it takes out of a place it puts into another, or closes.

Its last part proves `SkillsAreThoseOfTheFiles` of the skill loader, for any directories and
names, and any changes while the collections are loaded and watched. The property is about
the moments at which the loader has nothing left to do; the invariant says of every moment
what is left to do for each directory without an exception (`Told`). While the directories
are loaded, one that was visited is loaded as its files say (`Started`). Once they are watched
(`Followed`), one that is not watched is about to be, since the event that made it is the last
that tells of it, or its step is in progress; and one that is not loaded as it should be has
an event that waits, or the step in progress, to bring it up to date. A load replaces what a
directory had only if the name is the same, so an event that unregisters must wait if it is
not (`Fixes`, `Loadable`). What is said of one directory survives the changes of another
because no name belongs to two (`NamesApart`).

The assumptions on constants these proofs use are those of the modules' own `ASSUME`s:
bounds are natural numbers, there is a user, a reminder or an embedder, initial numbers do
not exceed their maxima, the value that stands for "none" is not a member of the set it
stands beside (no directory or skill is called "none"), goroutines of different kinds have
different names, a message holds at least one piece of text, and extensions are of the four
kinds of the code. TLC evaluates them in the runs of the modules.

Every invariant that a run checks is thereby a theorem, and so are its action properties and
the safety of the refinement. Only model-checked is liveness (`StopAnswered`, `QueueDrains`,
`TurnReturns`, `TurnEnds`, `DueReminderResolves`, `ScheduleFollowsRow`, `EditsAreNoticed`,
`MigrationResolves`, `RecoveryGetsThrough`): leads-to under fairness is beyond the prover.

## 6. Observations that are not findings

Met while modelling; the repository makes no statement to the contrary or the
effect is deliberate.

* The edit-in-place branch of `flush` cannot be reached while drafts are on, and
  "[error: response incomplete]" never appears for the same reason.
* An overflowing part of a text that meets a full inbox is dropped in silence once
  an earlier part was delivered.
* A crash between the deletion of drained rows and their sending loses those files, and
  a deletion that fails sends them again at the end of the next turn.
* A one-time task that fails is marked fired even if the error report was refused.
* A reminder whose row cannot be marked fired is sent again at the next poll, and for as
  long as SQLite refuses; only a log line tells.
* A write of the sidecar's state that fails is only logged (handler.go:201, 239): the update
  goes on, locked in memory alone, and a sidecar that restarts meanwhile admits another.
* A job's cleanup removes the map entry of its reminder by id, so an edit during a
  fire can leave a job in gocron that is no longer tracked; a recurring reminder that
  is cancelled and deleted between two polls stays tracked for ever.
* An overdue task fires on the actor's own goroutine for up to 20 minutes.
* After ten minutes a second update may start while the first still runs; the
  first one's deferred release then clears the second one's lock.
* Build mode's "rollback" restarts the newest local image.
* A new personality removes only the process of the user whose turn notices it.
* `GetOrCreate` hands a process whose first message was written by the spawner to
  every waiter; nobody calls it twice at once for one key today.
* A backfill's cursor is moved after every batch, also after one that a daily limit or
  a graceful shutdown cut: what was left is not looked at again. A crash, which moves
  no cursor, loses nothing.
* The weekly cleanup deletes the row of every item a week old, so an unchanged note is
  extracted again every week; only observations with equal hashes are recognised, so what
  Claude words anew, or the user has reworded or deleted, is stored (again).
* An item is recorded as handled although its observations could not be saved; and a
  source whose "idle" could not be written is skipped until the next restart.
* The daily counters live in memory and are looked at by the first cycle of a day only:
  a restart, or a cycle that runs over midnight, has a further allowance.
* A Notion page has no fingerprint, so edits of it are not noticed.

Embedder migration:

* If the configuration is changed while a migration is under way, the resumed one
  completes with the earlier target and records the wrong embedder; the model changes
  it only between migrations.
* An embedder that cannot be built again after a restart leaves raw collections that
  are filled with the new one at once, without a migration. A start that fails to
  read `embedder_state` (main.go:420-431) does the same, whatever was recorded, and records
  the new embedder as the active one: the collections stay those of the former until the
  next migration, and what is written meanwhile is mixed or refused. The command goes on
  without what it cannot read (`embedder_state`, aliases), too; that is not modelled.
* A shutdown while the new collections are created marks the migration failed rather
  than leaving it to be resumed.
* `BootstrapAliases` deletes the raw collections before the aliases exist: a failure in
  between leaves nothing to search.
* `ensureTargetCollections` takes a collection that exists for the one it would create,
  whatever its dimension. After a broken-off run of the command and a change of the
  configuration a source without texts keeps a collection of the wrong embedder, and what
  is indexed there later is refused.
* Points of a migration have other ids than those of live indexing; notes are never
  indexed live; the observations' collection is not migrated.

Observations and summaries:

* The unique index on (user, content hash) covers archived rows, `ObservationExistsByHash`
  does not look at them: an extraction or a replacement with the content of an archived
  observation fails. A failing save leaves those saved before it without index,
  entities and relations.
* If the last write of "idle" fails the conversation stays pending until a restart; of
  more than ten such a restart takes up ten. The trigger's counter is reset although the
  claim then finds the conversation pending.
* The count that decides on reindexing includes points of facts, of archived and of
  deleted observations, so that missing ones may go unnoticed. An updated observation
  keeps its old vector.
* `/revert` of an observation with several replacements archives one of them;
  `supersede_observation` of a number that does not exist saves its replacement all the
  same; `/forget_old` removes the vector as well as it can, and an extraction in flight
  may put it back.
* A conversation that expires while both slots are taken, or whose process dies before
  it is marked pending, is not summarized. Without Qdrant at the start a summary is
  "done" without being indexed. A recovery takes the twenty oldest, so that twenty that
  always fail leave the others out.
* `delete_summary` leaves the summary's point in the index, and a conversation whose
  status is "failed" or "indexed_failed" gets its deleted summary again. Of two jobs of
  one conversation the row keeps the first text, the index the second, and one that fails
  late sets "failed" after "done".

Extensions:

* Every skills server and the daemon have a registry of their own and write the whole
  file; the model has one process at a time. The same goes for the credential store,
  whose writes are neither locked across processes nor atomic.
* The connects that are retried at the start bring back the tools of an extension that
  was removed meanwhile.
* A shutdown of the Manager that meets an add can leave the new server running
  (`NoSessionLost` excepts the end of the process).
* Whether the reload flag could be set is not looked at (mcp_server.go:214): without it
  claude goes on with the tools it has, and a server with its old environment.
* A skills server that cannot read the registry goes without extensions; the model counts it
  as one that is down.
* The reload flag is used up by the first turn of any user. In the daemon "will reload on
  the next message" is never true; in a skills server "Available immediately" is not, for
  an exec extension.

Service catalog and skill loader:

* After two requests that overlap, a failed step or a crash the overlay may differ from
  the catalog until it is generated again, which no start does. A registration that is
  answered with an error may have registered, and its repetition is refused.
* Once a removal has failed to stop its service or met a start of it, `AnswersStayTrue`
  promises nothing of that service's container any more (`loose`), and once two lists for the
  overlay were in hand at a time nothing of the overlay (`overlapped`): no later request is
  sure to mend either.
* A removal goes on when stopping fails, and a start accepted before it may run after it:
  either leaves a container. A client that gives up after thirty seconds does not stop
  its handler.
* What changes between `LoadAll` and the moment a directory is watched is missed. A
  directory that is made again and whose skill is renamed before the first event is
  handled may keep the old skill. The skills server of the CLI does not watch, as its
  comment says. Loading a Wasm module registers the host module anew each time, so
  that a second module, or a reload, is refused. That a directory cannot be watched
  (loader.go:288, 292, 373) is ignored, and its changes are missed; in the model `Add`
  always succeeds.

## 7. Not modelled, and the plan

`PROJECT.json` gives the reason for each component. What is left, in this order:

1. The rest of the channel: attachments that are downloaded beside the update loop (a
   later text overtakes them), callbacks, edits.
2. The cron executor: its semaphore, the retry after a 429.
3. Self-evaluation: the life of a candidate through the gate.
4. The rest of ingestion: the Notion source and several accounts of one source (their
   shared limits).
5. Several processes with one extension registry, one database and one reload file.
6. Pure algorithms as functions against a reference: `splitAtBoundary` and `chunkMessage`, the context
   window, rank fusion, backoff.

The runs are as many as the project can afford to repeat on every change; what is to
come will be joined with existing ones where one configuration can answer both
questions.

Of the safety properties of the runs none is left to prove. With the eight modules of proofs
there are, the theorems on what the plan adds are joined with those of the component it
belongs to, as `UpdaterProofs`, `ObservationsProofs`, `TurnProofs` and `ExtensionsProofs` join
two halves.
