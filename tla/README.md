# Augmentum in TLA+

Specifications of the parts of Augmentum whose correctness depends on the order
in which things happen, model-checked with TLC on small instances and, for the
properties that matter most, proved for every instance with TLAPS. Paths below
are relative to `src/`.

1. [The system](#1-the-system)
2. [What is modelled](#2-what-is-modelled)
3. [Jobs and JobLifecycle](#3-jobs-and-joblifecycle)
4. [SharedConn](#4-sharedconn)
5. [Calls](#5-calls)
6. [Engine](#6-engine)
7. [StandingTasks](#7-standingtasks)
8. [The runs](#8-the-runs)
9. [What is proved](#9-what-is-proved)
10. [What the runs found](#10-what-the-runs-found)
11. [Not modelled](#11-not-modelled)
12. [Plan](#12-plan)

How to run, in this directory: `tlc -config MCJobs_queue.cfg MCJobs` (any pair of
section 8), `tlapm JobsProofs.tla` (any of the proof modules of section 2).

## 1. The system

Augmentum is one Python process: an asyncio application (`augmentum/proxy/
server.py`) that serves models, a web UI and long-running agents from one SQLite
database. Coroutines interleave at every `await`; one aiosqlite connection is
shared by nearly all stores; background loops (worker, sweeper, scheduler,
timers) run beside the requests; child processes (`llama-server`) live and die
on their own; the process is restarted by its container.
That is where its hard behaviours come from.

| Component | State | Operations | Hard behaviours | What makes it correct |
|---|---|---|---|---|
| Background job queue (`state/jobs_store.py`, `jobs/`) | table `background_jobs`; cancel events, registry of active jobs and progress cache in memory; wake-up event | create, claim, progress, mark completed / failed / cancelled / retryable, request_cancel, reset_for_retry, delete, requeue_crashed; worker loop; sweeper | every statement is an await; crash mid-job; sweeper against a late handler; cancel against claim | attempts bounded, no job lost or stuck, no cancel lost or leaked, one event per end |
| Shared SQLite connection (`state/backends/sqlite.py`) | open transaction, queue of the connection's thread | execute (wrapped), commit, rollback, transactional_write | many coroutines in one transaction; failing statements; cancelled tasks whose statements still run | no transaction left open, nothing written after an error was reported, acknowledged writes durable |
| Connect calls (`connect/`) | two `call_sessions` rows per call, in-memory missed-call timers, attached sockets | invite, accept, decline, hangup (WebSocket and notification action), timeout, recovery at startup | two rows updated by separate commits, sibling tabs, timer against answer, restart loses timers | both rows agree at the end, terminal states stay, every ringing call is resolved |
| Model engine lifecycle (`models/llama_server_manager.py`, `models/llama_cpp.py`) | engine state, child process, start future, idle monitor task, idle clock | start, stop, swap, ensure, idle tick, reconcile of a stray server | no lock around start and stop; a monitor that stops itself; processes that crash or do not die; clients that go away | a loaded model is always watched, no state is left without an owner, a future is always set |
| Standing tasks and scheduler (`scheduling/service.py`, `companion_runtime/standing_tasks.py`) | `companion_standing_tasks`, run history | scan, step, run_now, add, remove, pause, resume, reschedule | two dispatchers, a wall clock that cancels, counters read before a long await and written after it | a task is run by one dispatcher, told once, gets its turn; a broken one is paused |
| Self-edit boot guard (`selfedit/rollback.py`) | boot counter, snapshot tree, last-good ref: files | record attempt, mark healthy, snapshot, restore | crash between two file operations | a crash loop ends in the last good tree |
| Fabric durable guards (`fabric/durable_guards.py`) | replay watermarks, spent nonces | check_and_advance_seq, spend_nonce, prune | read, then upsert; concurrent frames; restart | nothing accepted twice |
| Cast pairing and invites (`cast/pair_store.py`, `invite_store.py`) | codes, tokens, sessions with expiry | start, approve, poll, consume, revoke | reuse, expiry | a token is used by one session |
| Load balancer (`models/load_balancer.py`) | members, cool-downs | select, note_failure, note_success | cool-down expiry | a usable member is found when there is one |
| Self-edit promotion, run ledger sweep, stale-write guard, sessions, resource ledger, notifications, offers | tables | see the sources in `PROJECT.json` | mostly one writer | data conditions |
| Agents, companion, memory, dream, coder, tools, MCP, modes | prompts and model answers | loops around model calls | answers decide the control flow | not expressible as a state property |
| Media, voice, image, VFS, marketplace, game streaming, UI | files, processes | pipelines | I/O | out of scope |

How they interact: requests and offers create jobs and call `wake()`; the worker
runs handlers in the same process; every store writes through the shared
connection, so a failure in one store touches what the others have not yet
committed (this is what `SharedConn` is about); the sweeper and the recovery at
startup correct rows that a handler or a crash left behind. Chats make the engine
load what they need, and share its one process with loads and unloads over HTTP;
standing tasks and calls have nothing in common with these but the database.

## 2. What is modelled

| Module | Models | Checked by | Proved in |
|---|---|---|---|
| `Jobs` | the job queue as a whole: table, overlay, worker, sweeper, requests, crash and restart | `MCJobs` with five configurations | `JobsProofs`, `JobsCancelProofs` |
| `JobLifecycle` | the abstract life of the rows of the job queue, which `Jobs` implements | run `queue` | `JobsRefinementProofs` |
| `SharedConn` | the write discipline of the shared connection | `MCSharedConn` with three configurations | `SharedConnProofs` |
| `DurableWrites` | what the connection promises of what is durable, which `SharedConn` implements | run `conn_blocks` | `SharedConnRefinementProofs` |
| `Calls` | a call between two users of one instance | `MCCalls` | `CallsProofs` |
| `Engine` | the managed `llama-server` and all who start and stop it | `MCEngine` with two configurations | `EngineProofs` |
| `StandingTasks` | the tasks of all users and the two dispatchers that run them | `MCStandingTasks` | `StandingTasksProofs` |
| `TaskRows` | what the rows of the tasks promise, which `StandingTasks` implements | run `standing` | `StandingTasksProofs` |

`PROJECT.json` maps every definition that stands for code to its lines.

## 3. Jobs and JobLifecycle

**Grain.** An action is one SQL statement with the commit or fetch that goes
with it, and the code up to the next await. A write and its commit are two trips
to the connection's thread, and the rollback of any coroutine whose statement fails
can fall between them: the commit then has nothing to commit and the call returns as
if it had (`conn_lost` of section 10 has the interleaving). So every write is
`Writes(after)`: `Committed`, or `Undone`. What is left out is that another statement
may *read* the write before it is undone.
The claim's SELECT runs on a separate read connection (`proxy/server.py`, where
`JobsStore` is constructed); a snapshot that is a little old is the same as a SELECT
that ran a little earlier, which the interleaving already has.

**State.** `db` holds per row the status (`none` before creation, `deleted`
after), `attempts`, `cancel_requested`, and `stale`, which says that `updated_at`
is older than the sweeper's cutoff. `ev`, `active`, `cached` are `_cancel_events`,
`_active`, `_progress_cache`. `rpc` and `cur` are the worker's position and job,
`spc`, `todo`, `swept` the sweeper's. `req[c]` is a request between its read and
its write. `heard`, `asked` and `told` are histories that properties refer to.

**Actions.**

| Actions | Code |
|---|---|
| `ClaimSelect`, `ClaimUpdate`, `ClaimError`, `Wake` | `claim_next_pending`, `JobRunner._loop`, `_sleep` |
| `HandlerProgress`, `HandlerSeesCancel`, `HandlerEnds`, `HandlerReturns`, `ProgressError` | `_run_one`, `JobContext` |
| `Mark`, `RetryCheck`, `RetryRequeue`, `RetryExhausted`, `MarkError`, `Emit` | `mark_completed`, `mark_failed`, `mark_cancelled`, `_on_task_done`, `_emit_terminal` |
| `Age`, `SweepFind`, `SweepMark`, `SweepEmit`, `SweepError` | `JobMonitor._sweep_once`, `_find_stalled_jobs`, `_force_terminate` |
| `Create`, `CreateError` | `JobsStore.create`, with or without `wake()` |
| `CancelRead`, `CancelPendingWrite`, `CancelRunningWrite` | `request_cancel` |
| `Retry`, `RetryError`, `DeleteRead`, `DeleteWrite`, `WriteError` | `reset_for_retry`, `delete_job` and their routes |
| `Crash`, `Start`, `Boot`, `BootError` | a process death, and `requeue_crashed` in the server's lifespan |

**Faults.** A statement of this component may raise (`DbError`): a failing DML is
rolled back by the wrapper of section 4, and a commit that raises leaves its change in
the open transaction, for the next commit to keep or the next rollback to drop. So
both outcomes are allowed: the row changed, or it did not, while the code after it does
not run. And a write may be `Undone` by the rollback of another's, whichever store that
belongs to, while the code after it runs. Each counts in `dbErrors` (`MaxDbErrors`).

**Abstracted.** Owners, payloads, results and progress values; the 30 s poll and
the back-off after an error (the worker may wake at any time); `id` order stands
for `created_at` order; a graceful `stop()` cancels the worker and is a crash
with no job held or with one. `add_follow_up` and `delete_older_than` have no
caller and are left out. A handler does nothing but report progress, look for a
cancel and return; its result may be anything `_run_one` distinguishes.

**Fairness** (`FairSpec`): weak fairness of the worker, the sweeper, the boot
sequence, a request's own second statement, and of the passage of time. Each is a
loop or a coroutine the event loop runs whenever it can; the restart is the
container's policy. Handlers return unless they are in `Hung`. Nothing is assumed
of users or of faults.

## 4. SharedConn

All stores share one aiosqlite connection. `aiosqlite` puts each operation in a
queue that one thread works off; the coroutine awaits a future. There is one
transaction, opened by the first DML statement, whoever asked for it, and ended
by anyone's commit or rollback. `disk`, `work` and `tx` are that; `queue` is the
thread's; `st`, `answer`, `done` are the writers'.

A writer executes a group of `Statements` DML statements and commits, inside
`transactional_write` (`Blocks`) or bare. Three things are in the model that the
happy path does not show:

- `RunError`: a statement fails (`database is locked`) with the transaction left
  open, or a commit fails and leaves it open;
- `RaiseFromExecute`: `install_safe_rollback` rolls back when `in_transaction` is
  true *as the coroutine looks at it*, on the event loop, whatever the queue
  still holds;
- `Cancel`: the awaiting task is cancelled. Its operation stays in the queue and
  is executed all the same (`Orphaned`), and the exception handlers run.

The thread and aiosqlite are libraries: their definitions are marked external and
follow from how `sqlite.py` uses them (its comments at lines 287-316 and 455-482
describe the same behaviour). Not modelled: a second cancellation while a rollback
is awaited, a rollback that fails, savepoints. `NoGhostTransaction` does not speak
of states where a bare writer has raised: its unguarded `commit` is exactly
what the comment at 463-466 describes as leaving a transaction open.

**DurableWrites** is what a caller may rely on, without queue, transaction or thread:
`disk` only grows; a group's writes join it while the group is running, or after it has
raised if it was a bare one; a group raises only after a fault, and returns when all of
it is durable or, after a fault, not even then (`CommittedOnCleanExit` of section 10).
`outcome` is `st` with the states of a group on its way taken together, `faulty` says
that an error or a cancellation has been spent.

## 5. Calls

A call has two rows in `call_sessions`, one per party, and every transition updates
them in two awaited statements. `row` is their `state` column. `at[a]` is what an
actor is doing and its next step: the caller's connections (`Dialers`, more than one
when a client reconnects or has two tabs) and the callee's (`Tabs`), each of which
handles one envelope at a time, and the callee's clicks on the notification's buttons
(`Clicks`). `timer` are the missed-call tasks in the order the invites have started
them and `reg` the entry of `_TIMERS`: a timer that is cancelled or replaced goes on to
its `finally`, which pops whatever entry is there by then. `blocked` is the callee's
block list, which the invite consults half-way; `rung` and `noted` say what the callee
has been told and so which verbs can arrive. `answered`, `unarmed` and `overtaken` are
histories that properties refer to.

An invite does not always end with a timer. Its lifetime comes from the client: `int()`
of it may raise, and `_handle_invite` logs that and returns (`ArmFails`); or it is an
int so large that the task's first division raises (`SleepRaises`). The docstring of
`connect/call_lifecycle.py` (lines 3-7) says that a call nobody answers is flipped to
missed after the lifetime; these calls ring until somebody hangs up or the process
restarts. A write may be undone by another's rollback, as in section 3 (`Sets`).

| Actions | Code |
|---|---|
| `BeginInvite`, `InsertCaller`, `InviteBlocked`, `InsertCallee`, `Ring`, `ArmTimer`, `ArmFails` | `_handle_invite`, `arm_invite_timer` |
| `Begin`, `Guard`, `Cancel`, `WriteFirst`, `WriteSecond` | `handle_signaling_envelope`, `handle_call_action`, `_update_call_session_state` |
| `TimerStarts`, `SleepRaises`, `TimerExpires`, `TimerCancelled`, `TimerReads`, `TimerMarksCaller`, `TimerMarksCallee` | `_wait_then_maybe_mark_missed`, `_mark_missed` |
| `AnswerFails`, `InviteFails`, `TimerFails`, `Restart` | the receive loop's isolation of an envelope, the timer's `except`, `recover_stale_invites_on_startup` |

The sweep at startup is one step with the restart, since nothing else runs by then, and
may leave any ringing row alone (it looks at the row's age). Fairness: the event loop
goes on with what an actor has begun, and sleeps end; nothing makes a user answer, hang
up or retry. `RingingIsOwned` and `RingingResolves` except what the code has no answer
to, and name it: statements that raise or are undone and restarts (`faults`;
`recover_stale_invites_on_startup` skips young rows), a last invite without a timer
(`unarmed`: then both rows ring, never one), and a hangup from the caller's other
connection that comes before the invite has inserted its rows (`overtaken`: the hangup
finds no callee's row, the insert follows it, and the timer bails out because the
caller's row no longer rings). `AnsweredStays` starts when an accept is through in both
rows and no rival is about to write: an accept that falls between the timer's re-check
and its two updates is overwritten with `missed`, and the model has that behaviour.

## 6. Engine

`LlamaServerManager` holds one child process without a lock: chats take
`_ensure_lock` around their check and start, but loads and unloads over HTTP and the
idle monitor call `start` and `stop` directly. An action is the code between two
awaits. `state`, `proc`, `model`, `starting` (`_starting_future`, with the start it
belongs to), `idle` (`_idle_task`) are the manager's fields; `doomed` are the monitor
tasks that have been cancelled and have not run since; `server` is whoever holds the
port, which after a failed kill is not `proc`. `at[a]` is where a request or a
monitor is: its place in `start` or `stop`, the model it wants, what follows the
`stop` it is in, and whose future it awaits. `starting` is `_starting_future` only while
that is not `done()`, which is all the gate in `start` looks at.

| Actions | Code |
|---|---|
| `Start` (claim, prepare, spawn, health), `ExecFails` | `start` |
| `Stop` (sample, dying, released) | `stop`, `stop_idle_monitor` |
| `Probe` (nothing healthy on the port, or a server that is killed and waited for) | `reconcile_stranded_subprocess`, from `start` and from the monitor |
| `ChatBegins`, `Ensures`, `ChatCancelled` | `request_in_flight`, `_ensure_server`, `_start_with_oom_backoff` |
| `LoadSwaps`, `LoadStarts`, `Unload` | `proxy/model_routes.py`, `proxy/fabric_routes.py` |
| `Tick`, `MonitorEnds` | `_idle_monitor_loop` |
| `ServerLoads`, `ServerDies` | the child process |

Assumed: at least one layer is on the GPU, so that `stop` awaits a VRAM sample
before it terminates the process (without one it has no await there, and fewer
interleavings). A client that goes away cancels its request at whatever await it is
at (`MaxCancels`); at the shared future of another's start it cancels that future with
itself, since nothing shields it (`CancelsFuture`), and all who await it end with it.
Fairness: weak for everything the event loop has started, for the
monitors' sleeps and for the process that loads or times out; strong for a chat that
waits for the lock, since asyncio's lock is first in, first out. Nothing makes a user
ask.

## 7. StandingTasks

`row` is `companion_standing_tasks`: whether the row exists, `enabled` and the two
counters. `next_run_at` is kept as `due`, the tasks whose time has come, and `ahead`,
which of its user's other due tasks came earlier; that is all the query's ORDER BY
tells apart. `at[d]` is the run of a dispatcher: the task, the counters *as they were
when it was picked*, and what it is about to write. `todo` is the rest of the scan's
list of users. `told` counts how often a dispatcher has surfaced the present
occurrence, `strays` how often the occurrence was put back before now.

**Schedules.** `_compute_next_run_at` is modelled by what its result is: a moment to
come (`MovesOn`) or one that has passed (`Strays`). Most modes assert the former; the
comments at lines 258-263 and 344-351 explain why. Two do not: a deadline takes an
offset boundary later than now and then adds up to 90 s of jitter in either direction
(214-222), a dated anchor does the same (316-322); and in the hour that a change of
clocks repeats, any local time may come out an hour early. So a task in `Loose` may be
rescheduled before now, is due again at once, and is run and told again. How far back
decides which of its user's due tasks it passes, so `Strays` puts it in front of any
that a moment in the past could (`Earlier`). The bound is `MaxJitters`: a jitter reaches
back 90 s at most, a repeated hour one hour, and a target that has passed is ended by
its run, or its task is paused by its errors; so a task that waits is passed by such a
one only a bounded number of times, and the bound does not hide a starvation. A task in
`Loose` may also be retired by its run like a one-shot (`Ends`): that is a deadline on
its day.

| Actions | Code |
|---|---|
| `Scans`, `PicksNothing`, `PickFails`, `Picks` | `SchedulerService._scan_once`, `_due_user_ids`, the tick verb, the due query of `step` |
| `RunnerReturns`, `RunnerFails`, `RunnerTimesOut`, `Tells` | `step`: the runner, its exceptions, its cancellation, `_surface_result` |
| `Writes` | the one-shot's UPDATE and `_persist_run` |
| `WriteFails`, `TimesOutBare`, `Stops`, `Restart` | a statement that raises, a wall clock that strikes outside the runner, `stop()`, a new process |
| `RunsNow` | `run_now` |
| `Adds`, `Removes`, `Toggles`, `Edit`, `Elapses` | the CRUD functions and their routes, and time |

`run_now` is one step, its write: what it writes uses nothing of what it has read but that
the row was there, so the requests in progress need no state. A write that another's
rollback undoes (section 3) leaves the table as a `WriteFails` or an edit that was not
made does.

The bounds are on edits, faults and jitters; occurrences are unbounded, since a schedule that
moves on becomes due again. `Outcomes` says what each task's runner may do, so that a
task can be one that never returns. Fairness: weak for the service (its loop scans
every minute, and a run ends by itself or at the limit of 180 s) and for the passage
of time. The tick verb has none: the presence gate may keep it from running for as
long as it likes, so `DueServed` and `StuckPauses` speak of the service's users.

**TaskRows** is the table alone, without dispatchers, schedules or requests: only the
user enables a task; a run's result clears both counts, its failure leaves some count of
errors, which the limit turns into a pause, its timeout counts in the other column, and
none of them enables a row that is paused by then. `StandingTasks` implements it with
the same `row`: between a run's read and its write anything may have happened to the
row, and what the run writes must still be one of these steps. Its one-shots are
`OneShot` and `Loose`, since either may be retired.

## 8. The runs

| Run | Instance | Shows | States |
|---|---|---|---|
| `queue` | two jobs of different priority and `max_attempts` 2 and 1, one of an unknown type and created without `wake()`, the other with a handler that hangs, one request, a crash, a failing statement, a user retry, fairness | `TypeOK`, `AttemptsBounded`, `RunningIsHeld`, `NoLostWakeup`, `RunningResolves`, `ClaimableServed`, `ImplementsLifecycle` | 284 k |
| `requests` | one job, two concurrent requests, a crash, two statements that fail or are undone, two user retries | `FinishedIsClean`, `NoPhantomCancel`, `CancelNotLost` | 2.1 M |
| `cancel_race` | one job, one request | `CancelledNotStarted` fails | |
| `stuck_pending` | one job, one request, one crash, fairness | `PendingResolves` fails | |
| `one_event` | one job, one request, one crash | `ExactlyOneEvent` fails | |
| `conn_blocks` | two blocks and a bare writer of two statements, two errors, two cancellations | `TypeOK`, `NoGhostTransaction`, `AckedUnlessFailure`, `NoLateWrite`, `ImplementsDurableWrites` | 535 k |
| `conn_lost` | two blocks of one statement, one error | `CommittedOnCleanExit` fails | |
| `conn_ghost` | two bare writers of one statement, one cancellation | `ClearedBeforeReraise` fails | |
| `calls` | a caller with two connections and two invites, one tab, one click, two verbs, one fault, fairness | `TypeOK`, `AnsweredStays`, `RingingIsOwned`, `RegisteredIsLive`, `NeverRingsAgain`, `RingingResolves` | 456 k |
| `engine` | a chat, a load, an unload, three monitors, two models, one fault, one client that goes away, fairness | `TypeOK`, `MonitorCovers`, `StoppingIsOwned`, `AwaitsOwnModel`, `Rests` | 450 k |
| `engine_future` | a chat and two loads, no fault | `FutureCleared` fails | |
| `standing` | the owner's one-shot, a guest's deadline and a guest's task that only fails and hangs, one jitter, one edit, one fault, limits 2 and 1, fairness | `TypeOK`, `NotTwice`, `BrokenIsPaused`, `FiredOnce`, `DueServed`, `StuckPauses`, `ImplementsTaskRows` | 306 k |

**Why these bounds.** There is one worker and one sweeper, so two jobs are what
priority, starvation and "another job" need; a third adds no new relation. A request
touches one row, so two requests on one row are every race between them; a second retry
is what a phantom from an earlier life needs. One crash in every position covers
recovery, since recovery leaves nothing in memory that a second crash could find.
`MaxAttempts` 2 and 1 separate "put back" from "exhausted". In `requests`, two faults
are a write undone and a second one that loses what the first has left. On the
connection, three writers let one fail, one succeed and one interfere; two statements
are the least a partial group can have; two errors allow a failing statement followed by
a failing commit. For a call, one tab and one click are the two kinds of rival an answer
has, the caller's second connection is what lets a hangup or a retry overtake its own
invite, and the second invite is what re-arms a timer; a second tab adds what the click
already does. Two verbs (`MaxVerbs`) are every race of a verb with a verb, with the
timer and with an invite. For the engine, a chat, a load and an unload are one of each
kind of caller, and a third monitor is what two swaps and a stop need; two models make a
swap. For the standing tasks, two tasks of one user are what starvation needs and a
third of another user gives each dispatcher one; `MaxErrors` 2 tells a count from the
limit. The other limit is 1: with 2 the liveness run has 700 k states and takes too long
to be run with the others. So counting timeouts up to a limit is not in the run: that a
timeout adds one to the count that was read, whatever it is, and pauses at the limit,
whatever that is, is `CutShort` of `TaskRows`, and proved for every limit
(`RowsTheorem`). One jitter is enough for a task to be told once more and to pass one
that waits. What is proved (section 9) holds for any number of jobs, requests, crashes,
errors, connections, invites, chats, loads and tasks, which settles the question for
those properties. Deadlock is checked in `requests` and the violation runs of `Jobs`;
elsewhere the system really may stop: a hung handler with everything else done, writers
that finish, a call that is over, requests that have been answered, a table with nothing
enabled.

**What the properties say**, the hardest to test first:

- `CancelNotLost`: the event and the row are two channels; the sweeper drops the
  one and rewrites the other while the handler is at work. A handler that has been
  told sees it, whatever else fails. Told by a request that did write, that is: one
  that was answered with an error does not count, nor one whose UPDATE another's
  rollback has undone. That one is answered OK and has set the event only, so the
  sweeper's purge loses the cancel.
- `NoPhantomCancel`: an event is keyed by the job's id, and a row has several
  lives. Each life starts with no set event.
- `RunningIsHeld`, `RunningResolves`: no running row without a worker, and no
  running row for ever. The second has one exception that the code really has:
  each cancel request stamps `updated_at`, so a user who keeps clicking holds the
  sweeper off.
- `AttemptsBounded`: checked in one place, added to in another, across retries,
  crashes and resets.
- `NoLostWakeup`, `ClaimableServed`: the `asyncio.Event` is cleared in a `finally`.
- `FinishedIsClean`: nothing in memory outlives a finished row.
- `NoLateWrite`: after `transactional_write` has raised, nothing of its block
  becomes durable, by a statement still queued or by another's commit.
- `ImplementsLifecycle`: whatever the worker, the sweeper, the requests and the
  recovery do to a row is a step of `JobLifecycle`: one job at a time is started, only
  within its budget, only the user's retry renews the budget, a stored result is never
  put back to be run again, and a cancel request once in a row is never taken back by
  anything but a retry or a delete. While a fault may leave a commit open, more than
  one row may be running.
- `ImplementsDurableWrites`: whoever commits or rolls back, in whatever order the thread
  works off its queue, a block touches the disk only while it runs, raises only because
  of a fault and, as long as there was none, returns only when all of it is durable.
- `ImplementsTaskRows`: a run writes minutes after it has read, over edits, pauses and
  other runs; its write must still count what its outcome counts and enable nothing.
- `AwaitsOwnModel`: starts overtake each other, fail, are retried and cancelled, while
  others await their future; nobody is left with one that is done, or that loads another
  model than it has asked for.
- `AnsweredStays`, `NeverRingsAgain`: the UPDATE has no guard on the state it leaves,
  only re-checks before it keep a late timer, a sibling's decline or a retried invite
  from undoing what has been answered.
- `RingingIsOwned`, `RingingResolves`, `RegisteredIsLive`: cancelling, re-arming and
  bailing out never leave a ringing row to nobody nor a dead timer in the registry,
  but for the exceptions of section 5. With the last invite's timer missing, the rows
  still ring together.
- `MonitorCovers`, `StoppingIsOwned`, `Rests`: overlapping starts, stops and swaps
  leave no loaded model unwatched and no `stopping` without a `stop()`; left alone,
  the engine unloads.
- `NotTwice`: nobody claims a row before running it; only the lanes keep it from being
  run twice. They are disjoint by what the code compares, and the model takes a task's
  user and the owner as fixed, so there is no race to it; what it guards is
  `_due_user_ids`.
- `FiredOnce`: an occurrence is told once, and once more for each time its schedule was
  put back before now, although a run tells before it writes, edits and resumed tasks
  make it due again, and a one-shot is retired by another write than the rest.
- `BrokenIsPaused`, `StuckPauses`: counters that are read before a run of minutes and
  written after it still reach their limits and never pass them, whatever users do
  meanwhile, and although an error leaves the one count and a timeout the other.
- `DueServed`: one task per user and scan, and a stuck one does not starve the others.
- `NoGhostTransaction`, `AckedUnlessFailure`: no transaction is left behind; as
  long as nothing fails, sharing the connection is harmless.

`RunningIsHeld`, `FinishedIsClean`, `NoPhantomCancel` and `NoLostWakeup` carry
`dbErrors = 0`: with a failing statement they are false in the code. A `mark_*`
whose commit raises leaves a terminal row with its overlay, whose set event
cancels the job's next life; the sweeper then repairs the row, which is what
`RunningResolves` checks with an error.

## 9. What is proved

With TLAPS, for every number of jobs and requests, every `MaxAttempts` and
`Priority`, and every bound on crashes, failing statements and retries. Each proof
module assumes what its component's named ASSUME says of the constants
(`JobsAssumption`, `SharedConnAssumption`, `CallsAssumption`, `EngineAssumption`,
`StandingAssumption`) and nothing else: that sets are disjoint and bounds are numbers.

In `JobsProofs` and `JobsCancelProofs`:

| Theorem | States | Strengthening |
|---|---|---|
| `Typing` | `Spec => [](TypeOK /\ Linked)` | `Linked`: a worker or a sweeper between two statements about a job holds that job |
| `AttemptsTheorem` | `[]AttemptsBounded` | `AttemptsInv`: when `mark_failed`'s requeue is due, the row, if it is still there, has attempts left: only the claim counts up, and the worker cannot claim in between |
| `RunningTheorem` | `[]RunningIsHeld` | inductive with `Typed` |
| `WakeupTheorem` | `[]NoLostWakeup` | inductive with `Typed` |
| `CleanTheorem` | `[]FinishedIsClean` | `CleanInv`: while the process is down nothing is in memory, which is what the recovery relies on when it fails rows |
| `PhantomTheorem` | `[]NoPhantomCancel` | `PhantomInv`: no terminal or unborn row has a set event |
| `CancelTheorem` | `[]CancelNotLost` | `ToldInv`: the job of a told handler has its row, its event is set or gone, and its row says cancel or the request is about to write it |

**The argument.** Every step changes the table by one of six row effects (kept,
taken by the claim, ended, put back, born, dropped), defined at the head of
`JobsProofs`. `TableSteps` proves, once, that every action's table is `Legal`, that
is, made of these effects. `TypedStep`, `AttemptsStep` and the others then argue
about effects and about the few actions that matter to them. The invariants with
`dbErrors = 0` use `ErrorsCounted`: a step that raises is counted.

In `JobsRefinementProofs`, `RefinementTheorem`: `Spec => ImplementsLifecycle`. The
mapping is the identity on the columns and `faulty` is `dbErrors > 0`. A step leaves
the table alone, changes one row, or is the recovery (`StepShape`). The effect on the one
row is an action of `JobLifecycle` or leaves its variables alone (`RowStep`): the start
needs that no other row is running, which is `RunningIsHeld`, and putting back that
the budget is not used up, which is `AttemptsInv`, and that the row has no result, which
is `ResultInv`: the job the worker holds has none until the worker itself writes it. The
recovery is the abstract one (`RecoverStep`).

In `SharedConnProofs`:

| Theorem | States | Strengthening |
|---|---|---|
| `Typing` | `Spec => [](TypeOK /\ QueueInv /\ DoneInv)` | `QueueInv`: a writer is in the queue at most once, with the operation it waits for |
| `LateTheorem` | `Spec => NoLateWrite` | `LateInv`: a block that rolls back has its rollback behind everything it has asked for, and nothing of its own is left once that has run |
| `GhostTheorem` | `[]NoGhostTransaction` | `GhostInv`: an open transaction, or a statement in the queue that will open one, has a commit or rollback behind it in the queue, or a writer that still has to ask for one |
| `AckTheorem` | `[]AckedUnlessFailure` | `AckInv`: what a writer has seen succeed is on disk or in the open transaction, and nobody rolls back |

`WriterStep` reduces every step of a writer to one form (`WriterEffect`: what it
takes out of the queue, what it puts at its end, the state it goes to) and
`ThreadStep` does so for the thread; each invariant is then proved once for either.
`LateTheorem` depends on the queue being first in, first out and on
`transactional_write` catching `BaseException`; `GhostTheorem` on the second.

In `SharedConnRefinementProofs`, `DurableTheorem`: `Spec => ImplementsDurableWrites`. A
step of the thread adds to the disk only what was in the transaction, and what is there
belongs to a writer that may still write (`ThreadPersists`); that is `LateInv` for blocks
that raise and `SettledInv` for the others: a writer that has not begun, or whose commit
has run, has nothing of its own in the queue or in the transaction. A step of a writer
leaves the disk alone and turns one outcome (`WriterTurns`), and that a returned group is
durable is `AckInv`.

In `CallsProofs`, for any number of connections, clicks, invites, verbs and faults:

| Theorem | States | Strengthening |
|---|---|---|
| `Typing` | `[]TypeOK` | |
| `RegisteredTheorem` | `[]RegisteredIsLive` | each timer is started by its own invite, and the entry is popped before or with its end |
| `NeverRingsTheorem` | `NeverRingsAgain` | a box-action property, from `Typing` |
| `AnsweredTheorem` | `[]AnsweredStays` | `UndoneByNone`: once answered, no rival is about to write and no timer is between its re-check and its writes; a blocked caller is never answered |
| `OwnedTheorem` | `[]RingingIsOwned` | `RowsMade`: which rows are there at each of an invite's steps, and before anyone can answer; `WrittenIsClosed`: what a verb or a timer has written does not ring. Both hold only while nothing has failed and no hangup has overtaken the inserts |

In `EngineProofs`, for any number of chats, loads, unloads, monitors and models:

| Theorem | States | Strengthening |
|---|---|---|
| `Typing` | `[]TypeOK` | `TypeInv`: an actor's place fits what it is |
| `MonitorTheorem` | `[]MonitorCovers` | `MonitorInv`: a registered monitor is between two ticks, and a ready engine has one |
| `StoppingTheorem` | `[]StoppingIsOwned` | `StoppingInv`: a `stop()` that has not taken the process yet will find it |
| `AwaitsTheorem` | `[]AwaitsOwnModel` | `HeldInv`: the registered future, too, belongs to a start that loads its path and has not set it, or that has raised before its `try` |

The first two argue from the few steps that move an actor out of a tick or a stop
(`CalmStep`, `StopsKeep`); `AwaitsTheorem` from the three ways a step can matter to those
who wait: somebody moves and still owes what it owed (`HeldMove`), a future is set or
cancelled and all who await it go on (`HeldReleases`), or a start is joined or claimed.

In `StandingTasksProofs`, for any number of users and tasks, any schedules and any limits:

| Theorem | States | Strengthening |
|---|---|---|
| `Typing`, `BrokenTheorem` | `[]TypeOK`, `[]BrokenIsPaused` | `Inv`: what a run has read is below the limit, because it only picks enabled rows; so what it writes back is at most the limit, and pauses the row when it is |
| `NotTwiceTheorem` | `[]NotTwice` | `LaneInv`: a dispatcher's task is of its own lane |
| `FiredTheorem` | `[]FiredOnce` | `ToldInv`: an occurrence that has been told as often as it may (`Spent`) has its row off or gone, or the run that has told it is about to write, which starts it over or puts it back before now once more (`Renewed`) |
| `RowsTheorem` | `ImplementsTaskRows` | `WriteInv`: what a run is about to write is something its runner may have done; with `Inv`, every write is a step of `TaskRows` (`RowsStep`) |

**Only model-checked.** Liveness under fairness (`RunningResolves`,
`ClaimableServed`, `PendingResolves`, `RingingResolves`, `Rests`, `DueServed`,
`StuckPauses`) is out of the prover's reach, as is anything with ENABLED and
induction over data. Every invariant, every action property and every refinement of the
passing runs is proved.

## 10. What the runs found

Disagreements between the code and what its docs say; each has a run that fails.

- `CancelledNotStarted`: `claim_next_pending` ignores its UPDATE's rowcount, so a
  job cancelled between the SELECT and the UPDATE is started all the same.
- `PendingResolves`: a job put back to pending with `cancel_requested = 1` is
  skipped by every claim.
- `ExactlyOneEvent`: several ends emit no terminal event, a swept job whose handler
  answers late emits two.
- `CommittedOnCleanExit`: a failing writer's rollback takes with it what another
  block has executed and not committed; that block then exits cleanly.
- `ClearedBeforeReraise`: a task cancelled while its DML is queued leaves an open
  transaction.
- `FutureCleared`: `start()` registers its future and then awaits the reconcile and
  `stop()` outside the `try` that would set it; when one of them raises, the future
  stays, and a chat that waits for it holds the lock for ever.

Seen while modelling, outside any run: several callers of `create()` never call
`wake()` (for example `offers/catalog/knowledge_packs.py`, `vfs/index.py`,
`proxy/learning_routes.py`), so their jobs wait for the poll, although the comment at
`jobs/runner.py:80` expects the call; a late handler's `mark_completed` overwrites the
sweeper's `failed` and `mark_failed(retryable=True)` revives it.

In the engine: a chat whose client goes away while it waits for another's start cancels
the shared future (`llama_server_manager.py:1971` awaits it unshielded). A load that has
coalesced with the same start ends with `CancelledError` although that start goes on, and
the next request for the same model finds the future done and kills the start instead of
joining it. The comment at 1973 reckons only with a future "cancelled by stop() /
shutdown".

In a call: the docstring at `connect/call_lifecycle.py:3-7` has every unanswered call end
as missed; one whose client sends a lifetime that is no number rings on (`unarmed` of
section 5).

In the standing tasks: a deadline's jitter may put `next_run_at` back before now
(`Strays` of section 7), where the comment at `standing_tasks.py:174` speaks of the
soonest boundary strictly after now. The comment at `scheduling/service.py:184` says that the
schedule has advanced when the wall clock strikes, but after the runner has returned
nothing shields the judge, the surface and the write, so the occurrence may be told
again (`FiredOnce` excepts it with the faults). `run_now`'s docstring returns None for
a disabled task and promises the tick's result handling; it does not look at `enabled`,
and a one-shot it has delivered is neither disabled nor marked, so it is delivered
again. A graceful stop counts as a timeout of the run it cancels. A run that ends after
its task was edited writes back `params` as a whole; a run that fails after its user has
resumed the task writes the old error count plus one, and may pause it again at once.

## 11. Not modelled

`PROJECT.json` lists every component with its status and the reason. The repository is
very large (some 1500 implementation files), and most of it is not a state machine:
loops around model calls (what happens is decided by the model's answer), media and
file pipelines (I/O), route tables, catalogues, UI, vendored code. The project takes
the parts whose correctness depends on the order of steps, and so covers a small share
of the lines. Of the modelled components:

- Jobs: `add_follow_up` and `delete_older_than` (no caller).
- Shared connection: savepoints, WAL checkpoints, backups, the query methods.
- Calls: offer, answer and candidate relay, calls across instances, presence and the
  hub's delivery, the history.
- Engine: pins, profiles and layer arithmetic, KV warm-up and slots, load options,
  secondary and classifier servers.
- Standing tasks: the runners, which moment `next_run_at` is (only whether it is to come,
  and which others it passes), the judge, the run log.
- All three: a statement that reads what another's rollback undoes afterwards.

## 12. Plan

In this order; each module is written to be proved about (constants with
assumptions, one action per operation, no RECURSIVE operator).

1. `BootGuard`: files as atomic units, crash between any two (`selfedit/rollback.py`,
   `apply.py` and the container's entrypoint). Properties: after `threshold` failed
   boots the tree is the last good one; a snapshot is not lost.
2. `FabricGuards`: watermark and nonce under concurrent frames and restarts.
   Property: no sequence number accepted twice.
3. Cast pairing, the port pool and the load balancer.
4. Across instances: the relay of a call's envelopes between two hubs.
