# A verification project for EchoSync

EchoSync keeps a music library in step with media servers, playlists and
download clients. Everything it does in the background (syncing, importing,
downloading, enriching metadata, plugin work) is a job of one in-process queue,
everything it remembers is in SQLite databases that admit one writer at a
time, and its parts tell each other what happened over one event bus. A track
travels from a row of the download queue, through a transfer at a peer and the
auto-importer, into the library directory, and from there through the library
sync into the music database. This directory models those parts in TLA+, checks
them with TLC and proves their accounting with TLAPS. Paths below are relative
to the repository root; `task_queue.py` is `src/core/task_manager/task_queue.py`.

## 1. Inventory

| Component | State it keeps | Operations | Interacts with | What is hard | What makes it correct |
|---|---|---|---|---|---|
| **Job queue** (`task_queue.py`) | `_jobs` (name → object), `_heap`, `_is_running`, `_paused_jobs`, two worker semaphores, the write-lease semaphore, `_exclusive_lease_active` | register, trigger, cancel, unregister, kill by plugin, pause, resume, lease a workflow, start, stop; the scheduler's pass; a worker's end | every service registers jobs; the web routes cancel and trigger them; the gate asks the plugin states and the restart flag | the fact "this job is running" is kept three times; calls land between a pass, the launch of its threads and their ends; an entry of the heap outlives the name it was pushed for | no two executions of one name, of two writers, or of a sync and an import; no slot or lease leaked; no job lost, no job out of reach |
| **Database write lease** (`task_queue.py`, `db_write_lease`) | a semaphore, a dictionary thread → depth | enter, nest, leave, time out, be rejected by WAL back-pressure | every session scope; the scheduler, for exclusive jobs | the semaphore and the dictionary change in separate steps; one holder is not in the dictionary | mutual exclusion, no permit lost, no self-deadlock |
| **Session scopes** (`src/database/music_database.py`, `working_database.py`) | an open session per thread, SQLite's own write lock | open, flush, commit in the lease, roll back | the write lease | two locks taken in either order; failing commits | writers serialised, nothing left locked, every scope ends |
| **Process supervisor** (`src/core/task_manager/supervisor.py`) | registry of threads and processes, cancellation events | register, spawn, unregister, cancel, kill with clean-up | worker slots of the queue, session registries | the thread starts before it is registered; thread ids are reused; kills race normal ends | an event reaches the task it was meant for; nothing ended stays registered |
| **Event bus** (`src/core/event_bus.py`) | subscribers, a queue, one dispatch thread, backlog per channel | publish, subscribe, unsubscribe, poll, clear, start, stop | nearly every service | a put after the check for a dispatcher; several dispatchers after a timed-out stop; numbering restarts on clear | a running bus is served; each event handled once and in full |
| **Download manager** (`src/services/download_manager.py`) | rows of `download_queue` with a status, a candidate, a fallback stack and a blacklist; tasks of several asyncio loops | queue, claim, search, start, poll, fall back, recover, deduplicate, purge on import, requeue | provider plugins and their webhooks, web routes, event bus, write lease | a row is read, awaited on and written later; two drivers; a restart in mid-transfer | a row follows the life-cycle, is worked on by one task, never retries what it rejected, is not stuck |
| **Hook manager, rate limiters, request manager** (`src/core/hook_manager.py` ...) | filters by priority, token buckets | add, remove, apply; acquire | plugins | recursion through filters, clock arithmetic | recursion stays bounded; a rate is never exceeded |
| **IO gatekeeper and storage** (`src/core/io_gatekeeper.py`, ...) | files | copy-then-unlink moves, batches with a manifest | importers, reorganiser | a copy whose unlink fails | no file lost |
| **Auto importer, library watcher** (`src/services/auto_importer.py`, `library_watcher.py`) | debounce timers, files being processed, review tasks, the library mutex | watch, scan, batch, finalise, review, retry, approve, reject, evict | metadata enhancer, gatekeeper, event bus, job queue | timers against guards; a name that is free now and taken at the move; decisions in parallel with reviews | complete files only, none overwritten, none forgotten |
| **Library sync and media scans** (`src/services/library_sync_service.py`, `src/core/media_scan_manager.py`) | rows of `local_media` with a time and tags; the phase of a scan | walk, prune, read, upsert in chunks, rebuild; be cancelled | native reader, supervisor, write lease, library mutex | files change while they are walked and read; what cannot be read looks like what is gone | no edit missed, no row of a present file dropped, rows converge |
| **Sync service, playlist sync** | plan and history of a sync | match, sync, report | matching engine, download manager | partial failure | a rerun completes what failed |
| **Suggestion engine, lifecycle actions** | ratings, staged deletions | rate, stage, veto, delete | working database | a vote between stage and deletion | nothing rated well is deleted |
| **Plugin framework** (`src/core/nexus_framework/`) | registry, states, permissions | load, unload, update | job queue (`kill_jobs_by_plugin`), hooks, routes | what a plugin registered must go with it | no call into an unloaded plugin |
| **Plugin cache, OAuth sidecar, task health** | entries with expiry; pending sessions; none | get, set, evict; start, call back; report | plugins, web | small | size and expiry respected |
| **Deduplication, hygiene, reorganisation, metadata** | database rows | batch passes | write lease, `lease_task` | long passes that other jobs interrupt | idempotent passes |
| **Matching engine, native extension** | none | scoring, parsing, fingerprints | everyone | numeric | pure functions of floating-point weights |
| **Configuration, web API, provider plugins** | key-value pairs; none | read, write; requests | everyone | input and output | outside the scope of a state model |

`PROJECT.json` lists the same components with their sources, and, at the line
where each one bites, the hazards of the code that matter most.

## 2. Plan

Done:

1. `WriteLease` and its promise `LimitedHolds`; `SessionScope`, which composes
   the lease with SQLite's lock. Type, accounting and exclusion proved, and the
   refinement of the promise.
2. `JobQueue`, the core of the system. Type and slot accounting proved.
3. `DownloadQueue` with its promise `DownloadLifecycle`, `EventBus`,
   `ImportFlow` (auto-importer, library mutex, gatekeeper, review queue) and
   `LibrarySync` (sync, native reader, cancellation by the supervisor).
4. Proofs: every safety property the passing runs check, and the three
   refinements (`Promise`, `ScopesUseLease`, `Lifecycle`).

Next, in this order:

5. Proofs with weaker hypotheses: `LeasesGate` without `OwnLeases`, the life-cycle
   with the web routes that only requeue.
6. The supervisor's registry with reused thread ids, as a module that
   `LibrarySync` and `JobQueue` would share.
7. The debounced media-server scan, the polled backlog of the event bus, and
   pure algorithms (hook recursion, token bucket).

## 3. Modules and how they correspond to the code

**`JobQueue.tla`** An *object* (`ScheduledJob`) is kept apart from the *name* it
is registered under. `jobs` is `_jobs`, `job` the fields of each object,
`heap` how many entries of `_heap` an object has, `deferred` the pass's
`temp_heap`, `isRunning` is `_is_running`, `paused` is `_paused_jobs`, `slots` the
two worker semaphores, `permits` the write-lease semaphore, `exec` what each
worker thread does and for which object, `loop`/`toRun`/`started` the scheduler
threads.

| Code | Actions |
|---|---|
| `register_job` | `RegisterRunning`, `RegisterNew`, `RegisterEvicting` (its three branches) |
| `execute_job_now`, `trigger_job` | `Trigger` |
| `cancel_job`, `kill_jobs_by_plugin`, `unregister_job` | `Cancel`, `KillByPlugin`, `Unregister` |
| `start`, `stop` | `Start`, `Stop` |
| `_run_loop` | `BeginPass`; per popped job `Discard`, `Refuse`, `Postpone`, `Dispatch`; `EndPass`; after the lock is released one `Launch` per job; `Repeat` |
| `_execute_wrapper`, `_finalize_job_after_run` | `Return`, `Finalize` |
| `pause_job`, `resume_job`, `is_paused` | `Pause`, `Resume`, `IsPaused` |
| `lease_task` | `LeaseEnter`, `LeaseExit`, `LeaseDrop` (its three locked sections) |
| `spawn_supervised_thread` on the general pool | `Help`, `HelpEnds` |
| `can_execute` and the gates it calls | `CanExecute`, `Refused`, `WriteHeavyRunning`, `NameRunning` |

Atomicity follows the lock: each locked section is one action, and a pass of
the scheduler, which holds the lock from its first pop to its last push,
excludes them all (`LockFree`) while its own steps interleave with what takes no
lock: `Return`, which writes the status without the lock, and supervised
threads. `Refuse` contains the effect `can_execute` has on the job it refuses.

Abstractions: time is whether a job is *due* (see the module's header); the
order in which due jobs are popped is arbitrary; parameters are present or
absent; progress reports, history and logging are left out. `stop`'s bounded
wait for the loop is arbitrary: a loop may end before or after a new `start`.
Thread creation is assumed to succeed, and an interval to be positive.
`update_job_interval` only moves `next_run` and has no action.

**`WriteLease.tla`** `db_write_lease` in steps no lock protects together:
look in the dictionary (`EnterNested`, `EnterOuter`), WAL back-pressure
(`WalAccepts`, `WalRejects`), the semaphore (`Acquire`, `TimeOut`), the
dictionary again (`Record`), and on the way out `ExitNested`, `ExitOuter`,
`Release`. `Grant` and `Revoke` are the permit the scheduler takes for a job
with `exclusive_db_lease`. `nested` and `outer` are ghosts: the open blocks of a
thread, which the code keeps on its stacks.

**`LimitedHolds.tla`** The promise of a lease: clients come and go, never more
than `Limit` inside.

**`SessionScope.tla`** extends `WriteLease` with a session per thread and
SQLite's write lock, which a session holds from its first flush to its commit
or rollback. Threads have one of three styles found in the code: a scope
opened inside a lease; a scope whose body flushes with no lease and whose
commit takes one; a scope that writes only in its commit. A body may raise
(`BodyRaises`), the lease or the lock may time out, and a commit may fail inside
its lease with the transaction open or already rolled back (`CommitFails`); the
lease block closes before the scope's rollback, as in the code. SQLite is external
and modelled from how the code relies on it (`busy_timeout`, one writer).

**`DownloadQueue.tla`** `rows` is the table `download_queue`; a row keeps its
track, status, `retry_count`, `plugin_id` (`plugin`), `active_candidate_id`,
`candidate_stack` and its blacklist. `tasks` are the running calls of
`_execute_waterfall_search_and_download`, named by the loop that runs them,
what created them and their row. `stage` says where each driver is:
the background loop (`Daemon`, `start_background_task`) or a cycle
(`process_downloads_now`, with a loop of its own). `remote` is the provider.

| Code | Actions |
|---|---|
| `queue_download` | `QueueFind`, `QueueWrite` (its two sessions) |
| `_execute_waterfall_search_and_download` | `Begin`, `SearchFinds`, `SearchFails`, `Accepted`, `Refused`, `NoneStarted`, `Report`, `ReportFails` |
| `_process_loop`, `process_downloads_now` | `StartLoop`, `StartCycle`, `PollEnd` |
| `_requeue_retryable_failed_items`, `_recover_stuck_items`, `_deduplicate_queue`, `_purge_existing_tracks_from_queue` | `Requeue`, `Recover`, `Dedupe`, `Purge` |
| `_process_queued_items` | `Lock`, `Claim`, `Dispatch`, `Gather` |
| `_check_active_downloads` | `PollStart`, `PollItem` per row |
| `_on_track_imported` | `TrackImported` |
| slskd's webhooks, `handle_verification_failure` | `HookComplete`, `HookFailed` |
| the routes of `src/web/routes/downloads.py` | `SetStatus`, `RequeueAllFailed`, `DeleteRows`, `StartNow` |
| `stop_background_task`, the death of the process | `Stop`, `Crash` |
| a session that fails | `Breaks` (a waterfall), `PollItemFails`, `DriveFails` (a cycle, or a round of the loop), `LoopDies` (the recovery of the loop); `Write` where the failure is passed over |
| two sessions that overlap | `LostUpdate` |

A session works, or fails and writes nothing: the lease of its commit times out, or
the commit raises. What follows is the code's: a failure inside the `try` of a
waterfall writes FAILED, one outside it, or in the handler, is dropped by
`gather` and leaves the row as it is; a batch, a poll or a cycle is cut short.
`orphaned` is a history variable: the rows that were left SEARCHING that way.
Sessions of several threads overlap where they write the JSON column
`echo_sync_track`, which holds the blacklist: each reads it and writes it back
whole, so the last to commit drops what another one rejected meanwhile.
`LostUpdate` is that loss, possible where there is a second writer beside the
loop (`~OneWriter`): a webhook, a start by hand, or another driver.

Abstractions: a session is otherwise one step, and so is what one loop does between two
awaits; a webhook, which looks for a substring of the file's name, the user or the
title (`plugin.py:107-118`), may take any newer live row for its own (`Resolved`); what a search finds is any ranking of at most three candidates the
provider offers that are not in the blacklist the task has read; the semaphore
and the limit of 30 rows are larger than the instances; a second task for the
same row in the same loop is merged with the first; the test and the
acquisition of `_processing_queue_lock`, which no await separates, are one step.
Statuses are upper-case here: the column's type (`StatusStr`) compares without
case.

**`DownloadLifecycle.tla`** The promise of the statuses, from the transitions
`DownloadRepository` guards and the ones the manager makes: nothing moves after
a restart before one recovery has taken every interrupted row back to the
queue, and then every row moves along the listed edges. `DownloadQueue`
instantiates it over its rows (`Lifecycle`, `LifecycleSpec`).

**`EventBus.tla`** `queue`, `running`, `dispatcher` and `subscribers` are the
fields of the bus; `thread` and `holding` what each dispatcher thread does,
`publisher` and `stopper` where the calls of `publish` and `stop` are.
`Publish`, `EnsureStarted` and `Put` are the copy of the subscribers, the check
with `start`, and the put; `Stop`, `Signal`, `Join` and `Forget` are the flag,
the sentinel, the join and the reference that is forgotten, whichever it is by
then; `PublishRaises` is the publish that reads `_dispatcher` twice
(`event_bus.py:197`) and finds it forgotten the second time; `Take`, `Drain`, `Exit`, `Call` and `Done` the dispatcher. `owed` is a history variable: the handlers that
each published event has yet to reach.

**`ImportFlow.tla`** `file` and `age` are the download directory, `timer` the
watchdog's debounce timers, `library` what stands at "title.ext" and "title
(k).ext", `review` the review task of each path, `mutex` the library mutex,
`processing` is `_processing_files`, `untasked` the part of `_recently_completed` that
matters: paths decided less than 10 s ago that got no review task. `paused`
and `abandoned` are history variables, `faults` counts what `MaxFaults` bounds.

| Code | Actions |
|---|---|
| `on_created`, `on_modified`, `on_moved`, `_schedule` | `Create`, `Grow`, `MoveIn` |
| `_fire` | `Fire` (the file it finds gone is part of `Vanish`) |
| `scan_and_process` | `Scan` |
| `process_batch` | `Acquire`, `TimeOut`, `Filter`, `FilterBreaks`, `Expire`, `Resolve`, `Decided`, `Finish` |
| `finalize_import`, `_move_file` with the gatekeeper's move | `Tag`, `TagFails`, `Place`, `Move`, `MoveFails`, `Record`, `RecordFails` |
| `create_or_update_review_task` | `Asked`, which may be swallowed |
| the writer of a download | `Create`, `Grow`, `MoveIn`, `Pause` |
| `_retry_aged_review_tasks`, the review routes | `Retry`, `Approve`, `Reject`, `Ignore` |
| `_on_track_imported` | `TrackImported` |

Abstractions: every download is a copy of one recording, the worst case for
names; every file is larger than 64 KB; whether a file is identified with
enough confidence is a choice; a decided path with a review task may be in
`_recently_completed` or not (`Recents`), one without is in it until
`Expire`; approved and rejected tasks are both `closed`. A
thread never waits for a *free* mutex as long as the 15 s cool-off. Five things go
wrong beyond a failed tag or move, `MaxFaults` of them in one behaviour: a writer that
pauses for the cool-off, an `exists()` of phase 1 that raises, a
copy that breaks off or whose source stays, a review task that cannot be written, a failure
after the move.

**`LibrarySync.tla`** `disk` is the version at each path, named by its
modification time; `rows` is `local_media` with the stored time and the version
whose tags were stored (0: guessed from the file's name); `sync` the local
variables of `sync_library`; `kill` what the supervisor knows of the run;
`flying` the paths under `suppress_path`. The steps are `Clear`, `Read` and
`Walk` per file (or `StatFails`), `Prune`, then per dirty file `Stamp` and
`Tags` (or `TagsFail`), in the order in which the native reader takes them;
`Look`, for a file that neither its tags nor its name identify (`Untagged`
versions, `Unnamed` files), which gets a review task and no row if it exists;
`Time`, which makes the row and asks the file for its time once more if the
reader had none, so that the time may be later than the tags (`late`, a history
field of the row); and `Upsert` per chunk. `Finish` is every return, `Fail` a refused lease or a locked
database, `Kill` and `GiveUp` are `kill_with_cleanup`.
Artists, albums, the review tasks themselves,
`decouple_collapsed_media` and the removal of empty directories are left out.

**`MC*.tla`** hold the instances; **`*_proofs.tla`** the theorems.

## 4. Runs

Bounds are the constants of each `.cfg`. Objects, names and threads are the
only unbounded things of the queue: an object nothing refers to is reused, so
no object count is exhausted by running long, and `heap` counts entries, so an
object that was pushed twice is seen. The views forget the fields of unused
objects. Two threads and two loops suffice for every conflict the properties
speak of, which are between two executions.

| Run | Shows |
|---|---|
| `jobqueue_gate` | A recurring sync, a recurring import, a plugin's write job and a leased workflow: `SingleExecution`, `WriteExclusion`, `SyncImportExclusion`, `LeaseGatesWriters` hold under `UndisturbedSpec`, everything but cancellation and removal. |
| `jobqueue_requeue` | Two loops (stop and start), re-registration, disabling, triggers with parameters, a retry: `QueuedIsRegistered`, `NotStranded`, `ParamsKept`. |
| `jobqueue_cancel` | Cancellation, removal, kill by plugin and eviction (`MaxPending = 1`) at any moment, an exclusive job, WAL pressure, a supervised thread on the single slot: `TypeOK`, `SlotAccounting`, `LeaseAccounting`. |
| `jobqueue_drain` | Three jobs compete for one slot, the write gate and the exclusive lease, with failures and retries: `Drains`. |
| `session_scope` | One thread of each style, one permit (SQLite), nesting to depth three, one exclusive job: `PermitAccounting`, `PromiseSpec`, `MutualExclusion`, `LockReleased`, `WritersSerialised`, `ScopesEnd`; bodies that raise, commits that fail and both time-outs included. Deadlock is checked. |
| `downloads_loop` | The background loop over two tracks with two and one candidates, one row left DOWNLOADING by an earlier life of the process, one caller of `queue_download`, a crash, a stop and sessions that fail: `SearchOwned`, `DownloadingTraced`, `OneWaterfall`, `RejectedNotStarted`, `RejectedKept`, `LifecycleSpec`, `Settles`. |
| `downloads_cycles` | Separate cycles over one row, with webhooks, every web operation, imports, a provider that comes and goes, sessions that fail or overlap: `Unstuck`. |
| `event_bus` | One publisher with two events, two calls of `stop`, three dispatcher threads, a handler that subscribes and unsubscribes: `RunningIsServed`, `OnceInFull`, `Drained`. |
| `import_watch` | A file written in place and one renamed into the directory, one timer thread, the scan, users who reject and ignore, one fault (`MaxFaults = 1`): `ProcessingAccounted`, `KeepsBoth`, `OnlyWholeImported`, `Handled`. |
| `import_review` | Two renamed files, with a thread that retries and approves outside the mutex, no fault (`MaxFaults = 0`): `BatchesKeepBoth`. |
| `library_sync` | Two files, one of which has no telling name, the third version of a file without tags, chunks of one row, four happenings (`MaxEvents`: edits, deletions, unmounted directories, moves, failures, kills, forced runs): `NeverBehind`, `PresentKept`, `Converges`; deadlock is checked. |

Bounds of the last five modules: `MaxId`, `MaxEvents`, `MaxRetries`
(downloads), `MaxDispatchers`, `MaxPublished`, `MaxSubscribed` (bus),
`MaxCopies`, `MaxFaults` (importer), `MaxEvents` (sync). `MaxEvents` and `MaxFaults` cap what the
environment does and what fails, never what the program does: after the last event the
program goes on for ever, which is what the liveness properties speak of. Two
happenings suffice for the races of the download rows, since each needs one
event between a read and the write after it and at most one that prepares it;
four allow the sync an edit during a read, a kill, and a later failure in one
behaviour. With two tracks and a ladder of two candidates the fallback falls
through all its rungs. Three dispatchers are what two stops can bring about.
`PageSize` is the code's 25, so that paging never shows in the instances.

`jobqueue_cancel` keeps the restart flag down (`CancelSpec`): it only pauses
jobs and is exercised by `jobqueue_gate`. Deadlock is not checked for the job
queue, which stops when it is stopped or drained, nor for the downloads, the
bus and the importer, which come to rest when nothing is left to do.

### Where the code and its documents differ

`jobqueue_two_writers` shows that cancelling clears `running` while the thread goes
on, so that the write gate opens for a second writer; ADR 0001 promises mutual
exclusion of write-heavy tasks.

The model shows more of the kind, which have no run of their own:

- A scheduled job that is cancelled stays in the heap and starts all the same
  (`task_queue.py:449`; the docstring says "a running or scheduled job cleanly").
- A refused writer waits with a later `next_run`, and a writer that becomes due
  meanwhile starts first (ADR 0001: "queue in FIFO order").
- A recurring job removed while it runs is pushed back to the heap with no name
  left to reach it (`unregister_job`: "completely remove"); `QueuedIsRegistered`
  holds only where nothing is removed.
- A job that holds the exclusive permit, which the nesting dictionary does not
  know of, waits for itself when it opens a lease block, until the timeout.
- A scope whose body flushes writes with no lease (`system-invariants.md`: "All
  database mutations MUST acquire `db_write_lease`"). A commit that fails, under
  no lease but its own, keeps SQLite's transaction open after that lease has
  closed, until the rollback (`music_database.py:916-919`,
  `working_database.py:516-523`), while the next writer is inside the lease.
  `WritersSerialised` names both exceptions.
- Parameters of a trigger are cleared by every finalisation, before a retry too
  (`task_queue.py:482`, pushed back at 487), and a registration between the
  dispatch and the launch of a job replaces them (548): the retry, or the run, goes
  without. `ParamsKept` is about jobs that no execution has.
- `_recover_stuck_items` says "on startup" but runs in every cycle
  (`download_manager.py:2414`): searches of other threads and live transfers are
  put back into the queue and started again. `OneWaterfall` and
  `LifecycleSpec` are therefore about the background loop.
- A row purged because its track was imported is still fetched when its
  waterfall has begun: the task holds the id and starts the transfer.
- A row in RETRYING is picked up by no query, and nothing calls
  `handle_verification_success`, so rows stay in RETRYING (after a crash, or
  without a provider) and in VERIFYING; `Unstuck` and `Settles` are about the
  other statuses. With a user who starts rows by hand, two waterfalls do work on one row.
- Poll results overwrite a status that a user set while the poll was under way.
- A waterfall whose session fails before its `try` (`download_manager.py:826-866`),
  or in the handler that is to write FAILED (1315), ends with the row in SEARCHING;
  `gather(..., return_exceptions=True)` (805) only counts it. The same is
  left by a poll whose rejection is committed but whose session does not end well, and by
  a batch that cannot be undone without a provider. A cycle recovers such a row; the
  background loop recovers only when it starts. `SearchOwned` and `Settles` make
  an exception of these rows (`orphaned`) and of nothing else.
- The recovery of the background loop is outside its `try`: if it fails, the task
  is dead, `_loop_task` stays set and `start_background_task` returns at once.
- The blacklist of a row is part of a JSON column that `_update_status` (1995-1998),
  `transition_to_verifying` (2032-2035), the poll (1427-1436, 1465-1474) and the slskd
  plugin (`plugin.py:197-200`) read and write back whole. Overlapping sessions
  lose a rejection, so `RejectedKept` is about one writing loop (`OneWriter`).
- An event put after the last dispatcher has drained the queue and ended stays there until
  the next `publish` starts another; a `publish` that finds `_dispatcher` forgotten
  between its two reads (`event_bus.py:197`) raises.
- Retries of review tasks and approvals move files without the library mutex:
  two of them, or one and a batch, can choose one free name, and the second
  move replaces the first file. `KeepsBoth` is checked without them,
  `BatchesKeepBoth` with them.
- The module docstring of `auto_importer.py` (21-26) says that the scan runs every
  5 minutes and that the watcher skips pending files; the scan runs every
  three hours, and a timer's batch looks at no review task (`Fire`).
- `_DownloadDirEventHandler` (885-888) promises that still-downloading files "are never read
  prematurely": one whose writer pauses for the 15 s of the guard is imported as it
  is. `OnlyWholeImported` excepts it (`paused`).
- `exists()` (656) is outside any `try`, after the path was added to `_processing_files`
  (654): if it raises, that path and those of the batch before it are barred
  from every scan until the process restarts. `ProcessingAccounted` and `Handled`
  except them (`abandoned`).
- A copy to another device writes to the final name (`fs_ops.rs:27-31`,
  `io_gatekeeper.py:266-274`): one that breaks off leaves a partial file in the library.
  Its source stays, and its next import takes another name.
- `create_or_update_review_task` swallows whatever it fails with
  (`metadata_enhancer.py:1818-1819`), so a failed import may leave no task; a later scan
  finds the file again, which is what `Handled` needs. A failure after the move
  queues a review of a file that is no longer there.
- TRACK_IMPORTED closes the pending task of a file that has not been imported,
  and statuses of review tasks are overwritten by a batch under way.
- A sync whose read of a file fails stores a title made from the file's name with
  the file's present time, so no incremental sync reads the tags again; nor does
  it read a file that was replaced by one with an earlier time.
- Where the native reader has no time for a file but reads its tags, the time is
  asked for afterwards (`library_sync_service.py:324-327`): a write between the two
  is never noticed. `NeverBehind` and `Converges` leave these rows out (`late`).
- A file that neither its tags nor its name identify gets a review task and no row
  (287-309), in every sync anew; `Converges` asks for no row of it.
- `clear` restarts the numbering of a channel of the event bus, whose class
  comment promises polling "without missing events" (not modelled).

Three behaviours were observed that no document contradicts: re-registering a
running job with the other value of `exclusive_db_lease` makes its end return a
permit nobody took (the instances register each name with one value); two
workflows that lease one name hide each other from the write gate when the
first ends (the instances have one workflow per name); a paused workflow that
is cancelled waits until it is resumed.

## 5. Fairness

`jobqueue_drain` assumes weak fairness of each scheduler thread (a loop that
never blocks for good), strong fairness of each worker (its function returns,
and `_finalize_job_after_run` gets a lock the scheduler frees between
two passes, again and again), and strong fairness of time passing for a queued
job. The instance has no supervised threads, whose targets may run for ever
and keep the slot. `session_scope` assumes weak fairness of each thread; both waits of the
code are bounded (`timeout=30.0`, `busy_timeout`), so a step, the time-out at
least, is always enabled.

`DownloadQueue`: weak fairness of every call, task, driver and transfer.
asyncio runs ready tasks in turn, cycles come again (the six-hourly job), and a
peer's transfer ends one way or the other or is reported as lost. Users,
webhooks, crashes and the library are not fair.
`EventBus`: weak fairness of threads that have something to do; nothing is assumed
of subscribers, publishers or stops beginning.
`ImportFlow`: weak fairness of threads; strong fairness of time passing
(`Ripen`, which reads of the file by others postpone), weak fairness of the 10 s of
`_recently_completed`, strong fairness of each timer, which has
a thread of its own while the instance has one for all, and of the scheduled scan, which
tries the mutex every three hours and sooner or later finds it free.
`LibrarySync`: weak fairness of the run's thread, of the end of a move, and of
the next incremental run (every six hours). Kills and failures are events and
therefore finitely many, without which no run need ever end well.

## 6. What is proved

For every value of the constants that satisfies the module's assumptions
(`LeaseAssumption`, `StyleAssumption`, `QueueAssumption`, `DownloadAssumption`,
`EarlierAssumption`, `BusAssumption`, `ImportAssumption`, `SyncAssumption`: finite sets of threads where something is counted, natural
numbers as bounds, registrations of the right type, names that stand for
nothing kept apart from those that stand for something):

- `WriteLease_proofs`: `TypeCorrect`, `PermitsAccounted`, `DepthsAccounted`,
  `Exclusion`, `Refinement`. The inductive invariant is `IInv == TypeOK /\
  DepthAccounting /\ PermitAccounting`. Permit accounting is not inductive
  alone: that a thread which waits is not already counted, and that one which
  leaves is counted exactly once, follows from the depths. A step adds or
  removes one holder or leaves both sets alone (`StepHolders`), which gives the
  accounting by cardinalities, and the refinement. `Exclusion` follows because two
  holders would leave a negative number of permits.
- `JobQueue_proofs`: `TypeCorrect` and `SlotsAccounted`. Type correctness needs
  `Selected`: the threads a loop is about to launch are selected, and by that
  loop alone, or a launch could make an idle thread run no object. Slot
  accounting rests on `LabelKept`: no step changes the name or the category, which
  decides the pool, of an object somebody executes, since a re-registration of a
  running name keeps them and new jobs only get objects nobody refers to. Then a
  step changes executions by a dispatch, a finalisation or not at all
  (`StepExecutions`), each of which is accounted for.
- `JobQueueGates_proofs`: `OneExecution`, `QueuedReachable`, `NoneStranded`,
  `WritersExcluded`, `SyncOrImport`, `WaitingKeepsParams`, `LeasesGate`,
  `LeaseAccounted`. All but the last are about `UndisturbedSpec`, as the runs
  that check them: `cancel_job`, `remove_job` and plugin eviction leave objects
  in the heap or executed that their name no longer leads to. The code keeps the
  fact that a job runs in the object, in `_is_running` and in the thread, and
  each gate reads another of the three. The invariant `GInv` says that they
  agree: an execution is marked at both places under its name (`Tracked`), a mark
  is backed by an execution (`Backed`), and an object has one executor. What waits
  does so under its name (`Placed`), once and while nobody executes it (`Once`,
  which needs `DeferredInPass`: only a pass has jobs put aside), and every enabled
  job waits or is executed (`InReach`). One step fails without the others: a
  finalisation clears the mark of a *name*, which is right only if no other
  object of that name runs. `WritersExcluded` and `SyncOrImport` then follow
  because the gate looks at marks, and marks are executions. `LeasesGate` assumes
  `OwnLeases`, that no two workflows lease one name: the first to leave would
  clear the mark of the other. `LeaseAccounted` is about everything, cancellation
  included; it assumes `OneLeaseValue`, that no name is registered both with the
  exclusive lease and without it, because the permit is returned by what the
  settings say at the end (`ReturnsLease`), not by whether one was taken.

- `ImportFlow_proofs`: `TypeCorrect`, `NoneLeftProcessing`, `BatchesNeverReplace`,
  `OnlyWholeReach`. The inductive invariant adds to the
  types `MutexHeld` (a batch's thread is at work exactly while it has the
  mutex), `NoBatchLeft`, `OwnFile`, `GuardsHold` and `NameFree`. `GuardsHold` is why the
  guards suffice although a file is moved long after they looked: what is still
  written, by a writer that never paused, has no settled age, no review task and no
  thread that will finalise it, so nothing already past the guards can be it.
  `NameFree` says that the name a batch has chosen is not taken by a batch before it
  moves: by `MutexHeld` no other batch is at work. `ProcessingAccounted` needs
  `MutexHeld` too, or two batches would share the set, and `OwnFile`: a batch takes
  out of the set only what is its own, never what a broken batch has left there.
- `LibrarySync_proofs`: `NoEditMissed`, `SteadyKept`, `SyncTypeCorrect`. The inductive invariant has,
  beside types, `TimesPass` (a version is named by a time that has passed, and
  a file that is being read is at its stamped version, at a later one, or
  gone, and so are the tags read from it), `ChunkNeverBehind`, which says of the chunk
  in memory what `NeverBehind` says of
  the rows it becomes, and `Walked`: a file that was there all along is seen by
  the walk or still to come, so the prune spares its row. The proof of
  `NeverBehind` uses that the native reader takes the time before the tags; a row whose
  time was asked for afterwards is `late` and left out.
  `SyncTypeCorrect` has an invariant of its own, `SInv`: the bounds of the times,
  `OneRead`, `Room` (the chunk may be full only while it is due, or one more row
  would overflow it) and `Over` (nothing registered is left of a run that ended).
- `EventBus_proofs`: `TypeCorrect`, `RunningServed`, `DeliveredOnce`. The inductive
  invariant is `IInv == BusTypeOK /\ Numbered /\ RunningIsServed /\ OnePlace /\
  FreeHands`. `Numbered`
  says that a publisher about to put an event has numbered it: an event could
  otherwise pass for a sentinel, and the count of sentinels be wrong.
  `RunningIsServed` is inductive with the types: each action that stops the
  bus, signals, takes a sentinel or starts a dispatcher moves one unit from one
  side of the inequality to the other (`SentinelsAppended` and `SentinelsTaken`
  count the sentinels of a queue, `FS_AddElement` and `FS_RemoveElement` the
  threads). `OnceInFull` says that an event has, wherever it is, exactly the handlers left
  that it is owed. It is not inductive alone, since two copies of an event could
  each be right and call a handler twice: `OnePlace` adds that an event is with its
  publisher, at one place in the queue or with one dispatcher, and `FreeHands` that
  a dispatcher which takes an event holds none.
- `DownloadQueue_proofs`: `TypeCorrect`, `RejectedForGood`, `LoopOwnsSearches`,
  `LoopTraces`, `LoopSearchesOnce`, `LoopAvoidsRejected`, `LoopImplements`.
  `TypeCorrect` needs `Underway`: a waterfall that searches has a track, and one
  that reports has the candidate it started, or the head of an empty list would be
  stored in the row. Each of its three parts (rows, tasks, the rest) is kept by a
  step because of the other two. `RejectedForGood` says of each write to a
  row that it keeps the blacklist or is the one of `queue_download`; it assumes
  `OneWriter`, since the overlapping sessions of two writers lose a rejection.
  `LoopOwnsSearches` assumes that the background loop is the only driver
  (`TheLoop`): a cycle's claim puts rows into SEARCHING that the loop's recovery
  takes back. Its invariant `LInv` adds `Owned`, which is `SearchOwned` for that
  loop, and `BatchSpent`: a batch is
  empty except while it is dispatched, and each row leaves it as it gets its task or
  is orphaned by a session that fails.
  The last four are about the loop alone (`Alone`): no web operation, webhook or
  import call-back, no two calls of `queue_download` at a time, and an earlier table with
  one row per track whose DOWNLOADING rows name a transfer of their own track. Their invariant `Order`
  says that a row has one owner: its waterfall, the batch or the poll (`Owners`), each
  of which finds the row in the status it expects; that a track has one row
  (`OneRowEach`; a deduplication may fail, and the loop goes on); and that what a call of `queue_download` has found is
  still there when it writes (`CallsFit`). The last is why one caller is assumed:
  of two calls that find the same failed row, the second may write when the
  row is already searched again, and takes it back to QUEUED. Two waterfalls then
  work on it, and TLC shows `OneWaterfall` violated on an instance with two
  callers. `LoopImplements` is the refinement: no write of the
  manager looks at the old status, but by `Order` the old status is known where
  each of them happens, so every step is a step of `DownloadLifecycle` or a stutter. It
  assumes `EarlierPlain` as well: at the start no row is PAUSED or CANCELLED, which the
  life-cycle does not know. This, and the
  absence of interrupted rows between recovery and purge, is kept (`Plain`).
- `SessionScope_proofs`: `ScopesUseLease`, `LocksReleased`, `Serialised`. Every
  step of the scopes is one of the lease or a stutter (`LeaseStep`), so
  `ScopesUseLease` carries the five theorems of `WriteLease_proofs` over to the
  composition. `Serialised` (one permit) rests on `WriterInside`: a scope that
  neither flushes early nor has failed with no lease around it is inside the lease
  while it holds the lock of the file. It is kept because
  an enclosing lease is left only after the commit or rollback, a failed commit included,
  and no step of another thread
  changes whether this one is inside (`OuterKept`); `Exclusion` gives the rest.

Every invariant and action property of a passing run is stated by one of these
theorems, but for `KeepsBoth`, which holds only where no thread finalises outside the
mutex, as in the run `import_watch`, and says there what `BatchesNeverReplace` proves without that
assumption. Only model-checked besides are the liveness properties `Drains`, `ScopesEnd`,
`Settles`, `Unstuck`, `Drained`, `Handled` and `Converges`: they need fairness and
ENABLED, which are out of the prover's reach.

## 7. What is not modelled

For good: the matching engine (floating-point scoring) and audio decoding,
configuration, most of the web layer and provider plugins (input and output),
metadata resolution (a sequential waterfall over external services). Of the
modelled parts: wall-clock intervals, history, progress and telemetry of the
job queue; the supervisor's registry beyond one run, child processes and the
clean-up of sessions; search strategies and album downloads of the download
manager; the polled backlog of the event bus; the library watcher's own timers
(`src/services/library_watcher.py`) and how a file is identified; artists,
albums and decoupling in the library sync. Components with status
`not_modelled` in `PROJECT.json` give their reason there.
