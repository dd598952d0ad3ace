------------------------------- MODULE Jobs --------------------------------
(***************************************************************************)
(* The background-job queue: the background_jobs table and its in-memory    *)
(* overlay (state/jobs_store.py), the single worker loop (jobs/runner.py),  *)
(* the reliability monitor (jobs/monitor.py), the HTTP requests that cancel, *)
(* retry and delete jobs, and process crashes with the recovery at startup. *)
(*                                                                          *)
(* An action is one SQL statement, with the commit or the fetch that goes   *)
(* with it and the code that runs up to the next await.  Everything else    *)
(* interleaves between those points, in any order.  A write and its commit   *)
(* are two trips to the connection's thread; what another coroutine's       *)
(* rollback does in between is the choice in Writes.                        *)
(***************************************************************************)
EXTENDS Naturals, FiniteSets

CONSTANTS
    JobIds,        \* the ids, naturals in creation order
    NoJob,         \* not an id
    Clients,       \* the HTTP requests that may be in progress at once
    MaxAttempts,   \* max_attempts of each job
    Priority,      \* priority of each job
    Quiet,         \* jobs whose creator does not call wake() after create()
    Unhandled,     \* jobs whose job_type has no registered handler
    Hung,          \* jobs whose handler never returns and never reports
    MaxCrashes,    \* bound: process crashes
    MaxDbErrors,   \* bound: statements that raise, or are undone
    MaxResets,     \* bound: user retries
    EventCap       \* bound: events counted per job

ASSUME JobsAssumption ==
    /\ JobIds \subseteq Nat
    /\ NoJob \notin JobIds
    /\ MaxAttempts \in [JobIds -> Nat \ {0}]
    /\ Priority \in [JobIds -> Nat]
    /\ MaxCrashes \in Nat /\ MaxDbErrors \in Nat /\ MaxResets \in Nat
    /\ EventCap \in Nat

VARIABLES
    db,            \* the table: status, attempts, cancel_requested, stale
    ev,            \* _cancel_events: no event, an event not set, a set event
    active,        \* keys of _active
    cached,        \* keys of _progress_cache
    rpc, cur,      \* where the worker loop is, and the job it holds
    wakeup,        \* _wakeup.is_set()
    spc, todo, swept, \* the sweeper: where, rows found, row being reported
    req,           \* the requests in progress, between their statements
    heard,         \* history: terminal events since creation or user retry
    asked,         \* history: jobs asked to cancel since creation or user retry
    told,          \* history: handlers at work that a cancel request has told
    crashes, dbErrors, resets   \* counts the bounds apply to

overlay  == <<ev, active, cached>>
runner   == <<rpc, cur>>
sweeper  == <<spc, todo, swept>>
history  == <<heard, asked, told>>
counts   == <<crashes, dbErrors, resets>>
vars     == <<db, overlay, runner, wakeup, sweeper, req, history, counts>>

Terminal   == {"completed", "failed", "cancelled"}
Status     == {"none", "pending", "running", "deleted"} \cup Terminal
\* The worker holds a job from the claim to the end of its mark_* call.
InFlightPc == {"claimed", "handler", "completed", "failed", "cancelled",
               "retryable", "requeue", "exhausted", "unhandled"}
RunnerPc   == InFlightPc \cup {"down", "idle", "asleep", "backoff", "emit"}
Op         == {"cancelPending", "cancelRunning", "delete"}

Row == [status: Status, attempts: Nat, cancel: BOOLEAN, stale: BOOLEAN]

\* Every statement that writes a row stamps updated_at: the row is not stale.
Fresh(status, attempts, cancel) ==
    [status |-> status, attempts |-> attempts, cancel |-> cancel, stale |-> FALSE]

NoReq   == [op |-> "none", job |-> NoJob]
Request == [op: Op, job: JobIds] \cup {NoReq}

\* The table and its overlay.
StoreOK ==
    /\ db \in [JobIds -> Row]
    /\ ev \in [JobIds -> {"none", "clear", "set"}]
    /\ active \in SUBSET JobIds /\ cached \in SUBSET JobIds

\* The worker and the sweeper.
LoopsOK ==
    /\ rpc \in RunnerPc /\ cur \in JobIds \cup {NoJob}
    /\ wakeup \in BOOLEAN
    /\ spc \in {"down", "wait", "sweep", "emit"}
    /\ todo \in SUBSET JobIds /\ swept \in JobIds \cup {NoJob}

RequestsOK == req \in [Clients -> Request]

CountsOK ==
    /\ heard \in [JobIds -> 0 .. EventCap]
    /\ asked \in SUBSET JobIds /\ told \in SUBSET JobIds
    /\ crashes \in 0 .. MaxCrashes /\ dbErrors \in 0 .. MaxDbErrors
    /\ resets \in 0 .. MaxResets

\* Every variable has its type.
TypeOK == StoreOK /\ LoopsOK /\ RequestsOK /\ CountsOK

Init ==
    /\ db = [j \in JobIds |-> Fresh("none", 0, FALSE)]
    /\ ev = [j \in JobIds |-> "none"] /\ active = {} /\ cached = {}
    /\ rpc = "idle" /\ cur = NoJob /\ wakeup = FALSE
    /\ spc = "wait" /\ todo = {} /\ swept = NoJob
    /\ req = [c \in Clients |-> NoReq]
    /\ heard = [j \in JobIds |-> 0] /\ asked = {} /\ told = {}
    /\ crashes = 0 /\ dbErrors = 0 /\ resets = 0

-----------------------------------------------------------------------------
(* Helpers *)

Up == rpc # "down"
Exists(j) == db[j].status \notin {"none", "deleted"}
InFlight(j) == cur = j /\ rpc \in InFlightPc

\* UPDATE background_jobs ... WHERE id: no row changes when the id is gone.
Update(j, row) == IF Exists(j) THEN [db EXCEPT ![j] = row] ELSE db

SetStatus(j, s) == Update(j, Fresh(s, db[j].attempts, db[j].cancel))

\* mutant: _purge_runtime forgets the cancel event
PurgeKeepsEvent(j) ==
    UNCHANGED ev /\ active' = active \ {j} /\ cached' = cached \ {j}

\* mutant: _purge_runtime forgets the registry of active jobs
PurgeKeepsActive(j) ==
    ev' = [ev EXCEPT ![j] = "none"] /\ UNCHANGED active /\ cached' = cached \ {j}

Purge(j) ==
    /\ ev' = [ev EXCEPT ![j] = "none"]
    /\ active' = active \ {j}
    /\ cached' = cached \ {j}

\* mutant: no fallback to the row
CancelSeenInMemory(j) == ev[j] = "set"

\* is_cancel_requested: the event when there is one, the row otherwise.
CancelSeen(j) == IF ev[j] # "none" THEN ev[j] = "set" ELSE db[j].cancel

\* mutant: one attempt too many
AttemptsLeftOffByOne(j) == db[j].attempts <= MaxAttempts[j]

AttemptsLeft(j) == db[j].attempts < MaxAttempts[j]

Emitted(j) == IF heard[j] < EventCap THEN [heard EXCEPT ![j] = @ + 1] ELSE heard

Fault == dbErrors < MaxDbErrors /\ dbErrors' = dbErrors + 1

\* A statement of this module raises.  A failed UPDATE leaves the table alone;
\* a failed commit leaves it changed, and the connection's next commit keeps
\* that, or its next rollback does not.  What the rollback after a failed
\* UPDATE does to the others is Undone, at their own step.
DbError(after) == Fault /\ db' \in {db, after} /\ UNCHANGED <<crashes, resets>>

Committed(after) == db' = after /\ UNCHANGED dbErrors

\* All stores share one connection: between an UPDATE and its commit another
\* coroutine's failing statement, of any store, rolls the UPDATE back.  The
\* commit then has nothing to commit and the call returns as if it had.
Undone == Fault /\ db' = db

Writes(after) ==
    /\ Committed(after) \/ Undone
    /\ UNCHANGED <<crashes, resets>>

-----------------------------------------------------------------------------
(* The worker loop *)

Claimable == {j \in JobIds : db[j].status = "pending" /\ ~db[j].cancel}

\* ORDER BY priority DESC, created_at ASC LIMIT 1.
First(j) ==
    \A k \in Claimable \ {j} :
        \/ Priority[k] < Priority[j]
        \/ Priority[k] = Priority[j] /\ j < k

ClaimSelect ==
    /\ rpc = "idle"
    /\ \/ Claimable = {} /\ rpc' = "asleep" /\ UNCHANGED cur
       \/ \E j \in Claimable : First(j) /\ rpc' = "claimed" /\ cur' = j
    /\ UNCHANGED <<db, overlay, wakeup, sweeper, req, history, counts>>

\* mutant: the sleep has no time limit
WakeOnEvent ==
    /\ rpc \in {"asleep", "backoff"} /\ wakeup
    /\ rpc' = "idle" /\ wakeup' = FALSE
    /\ UNCHANGED <<db, overlay, cur, sweeper, req, history, counts>>

\* The sleep ends when the event is set or after the poll interval; the one
\* after a failed claim likewise.
Wake ==
    /\ rpc \in {"asleep", "backoff"}
    /\ rpc' = "idle" /\ wakeup' = FALSE
    /\ UNCHANGED <<db, overlay, cur, sweeper, req, history, counts>>

\* mutant: attempts counted down
ClaimedCountsDown(j) ==
    IF db[j].status = "pending"
    THEN Update(j, Fresh("running", db[j].attempts - 1, db[j].cancel))
    ELSE db

\* The UPDATE is gated on status = 'pending'.
Claimed(j) ==
    IF db[j].status = "pending"
    THEN Update(j, Fresh("running", db[j].attempts + 1, db[j].cancel))
    ELSE db

\* The number of rows it changed is not looked at: the job is handed to its
\* handler either way.
ClaimUpdate ==
    /\ rpc = "claimed"
    /\ Writes(Claimed(cur))
    /\ ev' = [ev EXCEPT ![cur] = IF @ = "none" THEN "clear" ELSE @]
    /\ active' = active \cup {cur}
    /\ rpc' = IF cur \in Unhandled THEN "unhandled" ELSE "handler"
    /\ UNCHANGED <<cached, cur, wakeup, sweeper, req, history>>

\* The SELECT or the claim raises.
ClaimError ==
    /\ \/ rpc = "idle" /\ DbError(db)
       \/ rpc = "claimed" /\ DbError(Claimed(cur))
    /\ rpc' = "backoff" /\ cur' = NoJob
    /\ UNCHANGED <<overlay, wakeup, sweeper, req, history>>

\* ctx.update_progress: the cache always, the row unless throttled.
HandlerProgress ==
    /\ rpc = "handler" /\ cur \notin Hung
    /\ cached' = cached \cup {cur}
    /\ \/ Writes(SetStatus(cur, db[cur].status))
       \/ cur \in cached /\ UNCHANGED <<db, counts>>
    /\ UNCHANGED <<ev, active, runner, wakeup, sweeper, req, history>>

\* The row's update raises: the handler fails, or goes on.
ProgressError ==
    /\ rpc = "handler" /\ cur \notin Hung
    /\ DbError(SetStatus(cur, db[cur].status))
    /\ cached' = cached \cup {cur}
    /\ UNCHANGED <<ev, active, runner, wakeup, sweeper, req, history>>

HandlerEnds(outcome) ==
    /\ rpc = "handler" /\ cur \notin Hung
    /\ rpc' = outcome /\ told' = told \ {cur}
    /\ UNCHANGED <<db, overlay, cur, wakeup, sweeper, req, heard, asked, counts>>

HandlerReturns == \E o \in {"completed", "failed", "retryable"} : HandlerEnds(o)

\* ctx.check_cancel raises JobCancelled.
HandlerSeesCancel == rpc = "handler" /\ CancelSeen(cur) /\ HandlerEnds("cancelled")

\* The row after the write the worker is about to make.
Marked ==
    SetStatus(cur, IF rpc = "requeue" THEN "pending"
                   ELSE IF rpc \in Terminal THEN rpc ELSE "failed")

\* mark_completed, mark_failed or mark_cancelled, then _emit_terminal; a job of
\* an unknown type is failed without one.
Mark ==
    /\ rpc \in Terminal \cup {"unhandled"}
    /\ Writes(Marked)
    /\ Purge(cur)
    /\ IF rpc = "unhandled"
       THEN rpc' = "idle" /\ cur' = NoJob
       ELSE rpc' = "emit" /\ UNCHANGED cur
    /\ UNCHANGED <<wakeup, sweeper, req, history>>

\* mark_failed(retryable=True) reads the attempts ...
RetryCheck ==
    /\ rpc = "retryable"
    /\ rpc' = IF Exists(cur) /\ AttemptsLeft(cur)
              THEN "requeue" ELSE "exhausted"
    /\ UNCHANGED <<db, overlay, cur, wakeup, sweeper, req, history, counts>>

\* ... and puts the job back, keeping its overlay ...
RetryRequeue ==
    /\ rpc = "requeue"
    /\ Writes(Marked)
    /\ rpc' = "idle" /\ cur' = NoJob
    /\ UNCHANGED <<overlay, wakeup, sweeper, req, history>>

\* ... or fails it for good.  The caller emits nothing in either case.
RetryExhausted ==
    /\ rpc = "exhausted"
    /\ Writes(Marked)
    /\ Purge(cur)
    /\ rpc' = "idle" /\ cur' = NoJob
    /\ UNCHANGED <<wakeup, sweeper, req, history>>

\* A mark_* call raises.  mark_completed is inside the try block, so the job is
\* then marked failed; any other leaves the loop, which is started again.
MarkError ==
    /\ rpc \in InFlightPc \ {"claimed", "handler"}
    /\ DbError(IF rpc = "retryable" THEN db ELSE Marked)
    /\ IF rpc = "completed"
       THEN rpc' = "failed" /\ UNCHANGED cur
       ELSE rpc' = "idle" /\ cur' = NoJob
    /\ UNCHANGED <<overlay, wakeup, sweeper, req, history>>

\* emit_terminal reaches the subscribers.
Emit ==
    /\ rpc = "emit"
    /\ heard' = Emitted(cur)
    /\ rpc' = "idle" /\ cur' = NoJob
    /\ UNCHANGED <<db, overlay, wakeup, sweeper, req, asked, told, counts>>

Runner ==
    \/ ClaimSelect \/ Wake \/ ClaimUpdate
    \/ HandlerReturns \/ HandlerSeesCancel
    \/ Mark \/ RetryCheck \/ RetryRequeue \/ RetryExhausted \/ Emit

-----------------------------------------------------------------------------
(* The monitor's sweeper *)

\* Nothing has touched the row for the runtime deadline.
Age(j) ==
    /\ db[j].status = "running" /\ ~db[j].stale
    /\ db' = [db EXCEPT ![j] = [status |-> "running", attempts |-> @.attempts,
                                cancel |-> @.cancel, stale |-> TRUE]]
    /\ UNCHANGED <<overlay, runner, wakeup, sweeper, req, history, counts>>

\* mutant: updated_at compared the wrong way round
StalledFresh == {j \in JobIds : db[j].status = "running" /\ ~db[j].stale}

Stalled == {j \in JobIds : db[j].status = "running" /\ db[j].stale}

SweepFind ==
    /\ spc = "wait" /\ Stalled # {}
    /\ spc' = "sweep" /\ todo' = Stalled
    /\ UNCHANGED <<db, overlay, runner, wakeup, swept, req, history, counts>>

\* _force_terminate marks the row it read, whatever its status is by now.
SweepMark(j) ==
    /\ spc = "sweep" /\ j \in todo
    /\ Writes(SetStatus(j, "failed"))
    /\ Purge(j)
    /\ todo' = todo \ {j} /\ swept' = j /\ spc' = "emit"
    /\ UNCHANGED <<runner, wakeup, req, history>>

SweepEmit ==
    /\ spc = "emit"
    /\ heard' = Emitted(swept)
    /\ spc' = (IF todo = {} THEN "wait" ELSE "sweep") /\ swept' = NoJob
    /\ UNCHANGED <<db, overlay, runner, wakeup, todo, req, asked, told, counts>>

\* mark_failed raises: the rest of the pass is given up until the next one.
SweepError ==
    /\ spc = "sweep" /\ \E j \in todo : DbError(SetStatus(j, "failed"))
    /\ spc' = "wait" /\ todo' = {}
    /\ UNCHANGED <<overlay, runner, wakeup, swept, req, history>>

Sweep == SweepFind \/ (\E j \in JobIds : SweepMark(j)) \/ SweepEmit

-----------------------------------------------------------------------------
(* Requests *)

\* mutant: no caller wakes the worker
NobodyWakes(j) == wakeup

Woken(j) == wakeup \/ j \notin Quiet

\* create(), and wake() when the caller makes it.  Ids count up.
Created(j) == [db EXCEPT ![j] = Fresh("pending", 0, FALSE)]
Creatable(j) ==
    /\ Up /\ db[j].status = "none"
    /\ \A k \in JobIds : k < j => db[k].status # "none"

Create(j) ==
    /\ Creatable(j) /\ Writes(Created(j))
    /\ wakeup' = Woken(j)
    /\ UNCHANGED <<overlay, runner, sweeper, req, history>>

CreateError(j) ==
    /\ Creatable(j) /\ DbError(Created(j))
    /\ UNCHANGED <<overlay, runner, wakeup, sweeper, req, history>>

\* request_cancel reads the status.  For a running job it sets the event
\* before it writes; a terminal job ends the request.
CancelRead(c, j) ==
    /\ Up /\ req[c] = NoReq
    /\ \/ /\ db[j].status = "pending"
          /\ req' = [req EXCEPT ![c] = [op |-> "cancelPending", job |-> j]]
          /\ UNCHANGED <<ev, asked, told>>
       \/ /\ db[j].status = "running"
          /\ req' = [req EXCEPT ![c] = [op |-> "cancelRunning", job |-> j]]
          /\ ev' = [ev EXCEPT ![j] = "set"]
          /\ asked' = asked \cup {j}
          /\ told' = IF rpc = "handler" /\ cur = j THEN told \cup {j} ELSE told
    /\ UNCHANGED <<db, active, cached, runner, wakeup, sweeper, heard, counts>>

\* The table after a request's write: neither cancel looks at the status again.
Written(c) ==
    LET j == req[c].job IN
    CASE req[c].op = "cancelPending" -> Update(j, Fresh("cancelled", db[j].attempts, TRUE))
      [] req[c].op = "cancelRunning" -> Update(j, Fresh(db[j].status, db[j].attempts, TRUE))
      [] req[c].op = "delete" -> Update(j, Fresh("deleted", 0, FALSE))

CancelPendingWrite(c) ==
    /\ req[c].op = "cancelPending"
    /\ Writes(Written(c))
    /\ Purge(req[c].job)
    /\ req' = [req EXCEPT ![c] = NoReq]
    /\ UNCHANGED <<runner, wakeup, sweeper, history>>

CancelRunningWrite(c) ==
    /\ req[c].op = "cancelRunning"
    /\ \/ Committed(Written(c)) /\ UNCHANGED told
       \/ Undone /\ told' = told \ {req[c].job}
    /\ req' = [req EXCEPT ![c] = NoReq]
    /\ UNCHANGED <<overlay, runner, wakeup, sweeper, heard, asked, crashes, resets>>

\* The retry route: reset_for_retry, guarded in its WHERE clause, then wake().
Retryable(j) ==
    /\ Up /\ db[j].status \in {"failed", "cancelled"}
    /\ resets < MaxResets

Retry(j) ==
    /\ Retryable(j)
    /\ \/ /\ Committed(Update(j, Fresh("pending", 0, FALSE)))
          /\ heard' = [heard EXCEPT ![j] = 0] /\ asked' = asked \ {j} /\ told' = told \ {j}
       \/ Undone /\ UNCHANGED history
    /\ resets' = resets + 1
    /\ wakeup' = TRUE
    /\ UNCHANGED <<overlay, runner, sweeper, req, crashes>>

RetryError(j) ==
    /\ Retryable(j) /\ DbError(Update(j, Fresh("pending", 0, FALSE)))
    /\ asked' = asked \ {j} /\ told' = told \ {j}
    /\ UNCHANGED <<overlay, runner, wakeup, sweeper, req, heard>>

\* The delete route reads that the job is not active, then deletes the row.
DeleteRead(c, j) ==
    /\ Up /\ req[c] = NoReq /\ db[j].status \in Terminal
    /\ req' = [req EXCEPT ![c] = [op |-> "delete", job |-> j]]
    /\ UNCHANGED <<db, overlay, runner, wakeup, sweeper, history, counts>>

DeleteWrite(c) ==
    /\ req[c].op = "delete"
    /\ \/ Committed(Written(c)) /\ told' = told \ {req[c].job}
       \/ Undone /\ UNCHANGED told
    /\ req' = [req EXCEPT ![c] = NoReq]
    /\ UNCHANGED <<overlay, runner, wakeup, sweeper, heard, asked, crashes, resets>>

Write(c) == CancelPendingWrite(c) \/ CancelRunningWrite(c) \/ DeleteWrite(c)

\* The write raises and the request is answered with an error.
WriteError(c) ==
    /\ req[c] # NoReq /\ DbError(Written(c))
    /\ told' = told \ {req[c].job}
    /\ req' = [req EXCEPT ![c] = NoReq]
    /\ UNCHANGED <<overlay, runner, wakeup, sweeper, heard, asked>>

-----------------------------------------------------------------------------
(* Crash and restart *)

\* Everything in memory is lost, the requests in progress included.
Crash ==
    /\ Up /\ crashes < MaxCrashes /\ crashes' = crashes + 1
    /\ ev' = [j \in JobIds |-> "none"] /\ active' = {} /\ cached' = {}
    /\ rpc' = "down" /\ cur' = NoJob /\ wakeup' = FALSE
    /\ spc' = "down" /\ todo' = {} /\ swept' = NoJob
    /\ req' = [c \in Clients |-> NoReq] /\ told' = {}
    /\ UNCHANGED <<db, heard, asked, dbErrors, resets>>

\* mutant: recovery looks only at jobs that can still be tried
RecoveredRetriesOnly(j) ==
    IF db[j].status = "running" /\ AttemptsLeft(j)
    THEN Fresh("pending", db[j].attempts, db[j].cancel)
    ELSE db[j]

\* requeue_crashed: back to pending while attempts remain, failed otherwise.
Recovered(j) ==
    IF db[j].status = "running"
    THEN Fresh(IF AttemptsLeft(j) THEN "pending" ELSE "failed",
               db[j].attempts, db[j].cancel)
    ELSE db[j]

Start == rpc' = "idle" /\ spc' = "wait"
         /\ UNCHANGED <<overlay, cur, wakeup, todo, swept, req, history>>

AllRecovered == [j \in JobIds |-> Recovered(j)]

Boot == rpc = "down" /\ Start /\ Writes(AllRecovered)

\* requeue_crashed raises; the startup logs it and goes on.
BootError == rpc = "down" /\ Start /\ DbError(AllRecovered)

-----------------------------------------------------------------------------
Next ==
    \/ Runner \/ HandlerProgress \/ ClaimError \/ ProgressError \/ MarkError
    \/ Sweep \/ SweepError
    \/ \E j \in JobIds :
         Age(j) \/ Create(j) \/ CreateError(j) \/ Retry(j) \/ RetryError(j)
    \/ \E c \in Clients, j \in JobIds : CancelRead(c, j) \/ DeleteRead(c, j)
    \/ \E c \in Clients : Write(c) \/ WriteError(c)
    \/ Crash \/ Boot \/ BootError

Spec == Init /\ [][Next]_vars

\* The event loop runs the worker, the sweeper and the requests it has begun;
\* a restart policy brings the process back; time passes.  Handlers other than
\* the Hung ones return.  Nothing makes a user act or a fault happen.
Fairness ==
    /\ WF_vars(Runner)
    /\ WF_vars(Sweep)
    /\ WF_vars(Boot)
    /\ \A c \in Clients : WF_vars(Write(c))
    /\ \A j \in JobIds : WF_vars(Age(j))

FairSpec == Spec /\ Fairness

-----------------------------------------------------------------------------
(* Properties *)

\* The row's attempts never pass max_attempts, whatever mixture of retryable
\* failures, crashes and user retries the job goes through: mark_failed and
\* requeue_crashed put a row back only below the limit, and the claim adds one.
AttemptsBounded ==
    \A j \in JobIds :
        /\ db[j].attempts <= MaxAttempts[j]
        /\ db[j].status = "pending" => AttemptsLeft(j)

\* A row says running only while the worker holds that job: no interleaving of
\* requests, sweeper, crash and recovery leaves a running row behind, unless
\* the process is down or a statement has raised or been undone.
RunningIsHeld ==
    \A j \in JobIds :
        db[j].status = "running" => InFlight(j) \/ ~Up \/ dbErrors > 0

\* A job that is over and that the worker does not hold has no overlay left: no
\* entry in list_active, no progress shown over its final row, no cancel event
\* waiting for its next life.
FinishedIsClean ==
    \A j \in JobIds :
        db[j].status \in Terminal /\ ~InFlight(j) /\ dbErrors = 0 =>
            ev[j] = "none" /\ j \notin active /\ j \notin cached

\* A set cancel event belongs to a cancel request made in this life of the row:
\* a job the user retries is not cancelled by the request that ended it before.
\* (A mark_* call whose commit raises leaves a terminal row with its event.)
NoPhantomCancel ==
    \A j \in JobIds : ev[j] = "set" /\ Exists(j) /\ dbErrors = 0 => j \in asked

\* A handler at work that a cancel request has told sees the cancel at its next
\* check, even when the sweeper has failed its row and dropped the event.  Two
\* kinds of request do not count: one answered with an error, and one answered
\* OK whose write another coroutine's rollback has undone (then the event is
\* all there is, and the sweeper's purge loses the cancel).
CancelNotLost ==
    rpc = "handler" /\ cur \in told =>
        \/ CancelSeen(cur)
        \/ \E c \in Clients : req[c] = [op |-> "cancelRunning", job |-> cur]

\* The worker does not sleep on a job whose creator woke it, nor on a retried
\* one: a wake() between the empty SELECT and the wait is not lost.  Only a
\* create() or a retry whose commit raised leaves a row without the call.
NoLostWakeup ==
    rpc = "asleep" /\ ~wakeup /\ dbErrors = 0 => Claimable \subseteq Quiet

\* No row is running for ever, even when its handler hangs: the handler ends
\* it, the sweeper does, or the recovery at the next start.  Only a user who
\* keeps asking to cancel it holds the sweeper off: each request is an UPDATE
\* that stamps updated_at.
RunningResolves ==
    \A j \in JobIds :
        (db[j].status = "running") ~>
            (db[j].status # "running" \/ \E c \in Clients : req[c].job = j)

\* Every job that can be claimed is claimed or cancelled in the end, unless the
\* one worker is inside a handler that hangs.
ClaimableServed ==
    \A j \in JobIds :
        (j \in Claimable) ~> (j \notin Claimable \/ (rpc = "handler" /\ cur \in Hung))

\* The table keeps the promises of JobLifecycle, whatever everyone does.
Lifecycle == INSTANCE JobLifecycle WITH
    status <- [j \in JobIds |-> db[j].status],
    used   <- [j \in JobIds |-> db[j].attempts],
    cancel <- [j \in JobIds |-> db[j].cancel],
    faulty <- dbErrors > 0

\* Every statement on the table is one legal move of one row, or the recovery
\* of all running rows at once: one job is started at a time unless a
\* statement has raised, no job is started or put back beyond its attempts,
\* only a user's retry renews them, and a cancel request stays in its row.
ImplementsLifecycle == Lifecycle!Spec

\* What the docs say and the code does not do.

\* request_cancel: "Pending jobs are cancelled immediately (worker won't
\* dispatch them)".  A handler is started only on a row the claim made running.
CancelledNotStarted ==
    [][rpc = "claimed" /\ rpc' = "handler" => db'[cur].status = "running"]_vars

\* requeue_crashed: "so a user never stares at a spinner that will never
\* resolve".  A pending job is run, cancelled or failed in the end.
PendingResolves ==
    \A j \in JobIds : (db[j].status = "pending") ~> (db[j].status # "pending")

\* JobMonitor: "every job that reaches a terminal state (success, failure,
\* cancellation, timeout) emits exactly one event".
Settled(j) ==
    /\ db[j].status \in Terminal /\ cur # j /\ swept # j /\ j \notin todo
    /\ \A c \in Clients : req[c].job # j

ExactlyOneEvent == \A j \in JobIds : Settled(j) => heard[j] = 1

=============================================================================
