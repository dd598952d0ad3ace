--------------------------- MODULE StandingTasks ----------------------------
(***************************************************************************)
(* The standing tasks of all users (companion_runtime/standing_tasks.py) and *)
(* who runs them: the scheduler service's scan (scheduling/service.py), the   *)
(* companion's tick verb for its owner (companion_runtime/verbs/              *)
(* tick_scheduler.py), and the requests that run a task at once or edit it    *)
(* (proxy/companion_routes.py).                                              *)
(*                                                                          *)
(* A dispatcher runs one task at a time, under a limit on its wall clock.  An *)
(* action is one SQL statement with its commit, or one await of the run.     *)
(***************************************************************************)
EXTENDS Naturals

CONSTANTS
    Tasks, Users,
    UserOf,        \* the user of each task
    Owner,         \* the companion's owner
    Companion,     \* the companion runtime is on
    OneShot,       \* tasks with params.one_shot
    Loose,         \* tasks whose next_run_at may be put back before now: the
                   \* deadlines and dated anchors, whose jitter is added last; in
                   \* the hour that a change of clocks repeats, any local time
    Outcomes,      \* what the runner of each task may do: return, fail, hang
    NoTask,
    MaxErrors,     \* _MAX_CONSECUTIVE_ERRORS
    MaxTimeouts,   \* _MAX_CONSECUTIVE_BUDGET_TIMEOUTS
    MaxJitters,    \* bound: how often next_run_at is put back before now
    MaxEdits,      \* bound: what users do to their tasks
    MaxFaults      \* bound: statements that raise, stops, restarts, and runs that
                   \* time out outside their runner

Dispatchers == {"service", "tick"}

ASSUME StandingAssumption ==
    /\ UserOf \in [Tasks -> Users] /\ Companion \in BOOLEAN
    /\ Outcomes \in [Tasks -> SUBSET {"returns", "fails", "hangs"}]
    /\ OneShot \subseteq Tasks /\ Loose \subseteq Tasks /\ NoTask \notin Tasks
    /\ MaxErrors \in Nat \ {0} /\ MaxTimeouts \in Nat \ {0}
    /\ MaxJitters \in Nat /\ MaxEdits \in Nat /\ MaxFaults \in Nat

VARIABLES
    row,      \* companion_standing_tasks: is it there, enabled, its two counters
    due,      \* the tasks whose next_run_at has passed
    ahead,    \* for each of them, its user's others with an earlier next_run_at
    at,       \* what each dispatcher is doing, with the row as it was read
    todo,     \* the users the service has still to step in this scan
    told,     \* history: how often a dispatcher has surfaced the task since its
              \* next_run_at was last a moment to come, or a user asked again
    strays,   \* history: how often, since then, it was put back before now
    jitters, edits, faults   \* counts the bounds apply to

queue  == <<due, ahead, told, strays, jitters>>
table  == <<row, queue>>
runs   == <<at, todo>>
counts == <<edits, faults>>
vars   == <<table, runs, counts>>

Row == [there : BOOLEAN, on : BOOLEAN, errs : Nat, slow : Nat]
Fresh == [there |-> TRUE, on |-> TRUE, errs |-> 0, slow |-> 0]
Gone  == [there |-> FALSE, on |-> FALSE, errs |-> 0, slow |-> 0]

\* A run: in the runner, about to surface, about to write its outcome.
Run == [pc : {"asleep", "running", "telling", "writing"}, task : Tasks \cup {NoTask},
        errs : Nat, slow : Nat,
        write : {"none", "success", "failure", "timeout", "delivered"}]
Asleep == [pc |-> "asleep", task |-> NoTask, errs |-> 0, slow |-> 0, write |-> "none"]

\* A row's errors never pass the limit, and those ahead of a task are due.
TypeOK ==
    /\ row \in [Tasks -> Row] /\ \A t \in Tasks : row[t].errs <= MaxErrors
    /\ due \subseteq Tasks /\ ahead \in [Tasks -> SUBSET due]
    /\ at \in [Dispatchers -> Run] /\ todo \subseteq Users
    /\ \A d \in Dispatchers : at[d] # Asleep => at[d].task \in Tasks
    /\ told \in [Tasks -> Nat] /\ strays \in [Tasks -> Nat]
    /\ jitters \in 0 .. MaxJitters /\ edits \in 0 .. MaxEdits /\ faults \in 0 .. MaxFaults

Init ==
    /\ row \in [Tasks -> {Fresh, Gone}]
    /\ due = {} /\ ahead = [t \in Tasks |-> {}]
    /\ at = [d \in Dispatchers |-> Asleep] /\ todo = {}
    /\ told = [t \in Tasks |-> 0] /\ strays = [t \in Tasks |-> 0]
    /\ jitters = 0 /\ edits = 0 /\ faults = 0

-----------------------------------------------------------------------------
(* Helpers *)

\* mutant: the service steps the companion's owner too
LaneSkipsNobody(d) ==
    IF d = "service" THEN Users ELSE IF Companion THEN {Owner} ELSE {}

\* The users a dispatcher steps: with the companion on, its owner is the tick
\* verb's.
Lane(d) ==
    {u \in Users : IF d = "service" THEN ~(Companion /\ u = Owner)
                                    ELSE Companion /\ u = Owner}

\* The rows the due query finds for a user, and the first of them.
Ready(u) == {t \in due : row[t].there /\ row[t].on /\ UserOf[t] = u}

\* mutant: the one that has become due last
FirstIsLatest(t, u) == t \in Ready(u) /\ \A x \in Ready(u) : t \notin ahead[x]

First(t, u) == t \in Ready(u) /\ ahead[t] \cap Ready(u) = {}

\* What is surfaced from now on is another occurrence.
StartsOver(t) == told' = [told EXCEPT ![t] = 0] /\ strays' = [strays EXCEPT ![t] = 0]

\* next_run_at is a moment to come: the occurrence is over.
MovesOn(t) ==
    /\ due' = due \ {t}
    /\ ahead' = [x \in Tasks |-> IF x = t THEN {} ELSE ahead[x] \ {t}]
    /\ StartsOver(t) /\ UNCHANGED jitters

\* The user's due tasks with a next_run_at before some moment.
Earlier(t, S) ==
    /\ S \subseteq {x \in due \ {t} : UserOf[x] = UserOf[t]}
    /\ \A x \in S : ahead[x] \ {t} \subseteq S

\* A boundary later than now, and a negative jitter that nothing checks: the
\* task is due at once, before those that have become due after that moment.
Strays(t) ==
    /\ jitters < MaxJitters /\ jitters' = jitters + 1
    /\ strays' = [strays EXCEPT ![t] = @ + 1]
    /\ due' = due \cup {t}
    /\ \E S \in SUBSET due :
         /\ Earlier(t, S)
         /\ ahead' = [x \in Tasks |->
              IF x = t THEN S
              ELSE IF x \in due \ S /\ UserOf[x] = UserOf[t] THEN ahead[x] \cup {t}
              ELSE ahead[x] \ {t}]
    /\ UNCHANGED told

\* _compute_next_run_at: the cron, anchored and interval modes make sure that
\* the moment is to come.
Reschedules(t) == MovesOn(t) \/ (t \in Loose /\ Strays(t))

\* next_run_at is now, or the clock has come to it.
JoinsLine(t) ==
    /\ due' = due \cup {t}
    /\ ahead' = [ahead EXCEPT ![t] = {x \in due : UserOf[x] = UserOf[t]}]
    /\ UNCHANGED jitters

\* mutant: the limit is passed before a task is paused
ExhaustedAfter(n, limit) == n > limit

Exhausted(n, limit) == n >= limit

\* mutant: the write of a run resumes a task that was paused meanwhile
PersistsResumes(t, errs, slow, pause) ==
    IF row[t].there
    THEN /\ row' = [row EXCEPT ![t] = [there |-> TRUE, on |-> ~pause,
                                       errs |-> errs, slow |-> slow]]
         /\ Reschedules(t)
    ELSE UNCHANGED table

\* _persist_run: one UPDATE by id, which finds no row or whatever row has the
\* id now.
Persists(t, errs, slow, pause) ==
    IF row[t].there
    THEN /\ row' = [row EXCEPT ![t] = [there |-> TRUE, on |-> @.on /\ ~pause,
                                       errs |-> errs, slow |-> slow]]
         /\ Reschedules(t)
    ELSE UNCHANGED table

Fault == faults < MaxFaults /\ faults' = faults + 1 /\ UNCHANGED edits

-----------------------------------------------------------------------------
(* A dispatcher picks a task *)

\* SELECT DISTINCT user_id: the scan's list of users, the owner skipped.
Scans ==
    /\ at["service"] = Asleep /\ todo = {}
    /\ \E u \in Lane("service") : Ready(u) # {}
    /\ todo' = {u \in Lane("service") : Ready(u) # {}}
    /\ UNCHANGED <<table, at, counts>>

\* A tick, or the next user of the scan.
Turn(d, u) == d = "tick" \/ u \in todo

Picks(d, u, t) ==
    /\ at[d] = Asleep /\ u \in Lane(d) /\ Turn(d, u) /\ First(t, u)
    /\ at' = [at EXCEPT ![d] = [pc |-> "running", task |-> t, errs |-> row[t].errs,
                                slow |-> row[t].slow, write |-> "none"]]
    /\ todo' = IF d = "service" THEN todo \ {u} ELSE todo
    /\ UNCHANGED <<table, counts>>

\* Nothing is due any more when the user's turn comes.
PicksNothing(u) ==
    /\ at["service"] = Asleep /\ u \in todo /\ Ready(u) = {}
    /\ todo' = todo \ {u}
    /\ UNCHANGED <<table, at, counts>>

\* The due query raises: the user has to wait for the next scan.
PickFails(u) ==
    /\ at["service"] = Asleep /\ u \in todo /\ Fault
    /\ todo' = todo \ {u}
    /\ UNCHANGED <<table, at>>

-----------------------------------------------------------------------------
(* ... and runs it *)

In(d, pc) == at[d].pc = pc
Goes(d, pc, write) == at' = [at EXCEPT ![d].pc = pc, ![d].write = write]
Rests(d) == at' = [at EXCEPT ![d] = Asleep]
May(d, outcome) == In(d, "running") /\ outcome \in Outcomes[at[d].task]

\* A one-shot is delivered by its run, and a deadline by the one on its day.
Ends(t) ==
    IF t \in OneShot THEN {"delivered"}
    ELSE IF t \in Loose THEN {"success", "delivered"} ELSE {"success"}

\* The result is surfaced if it is noteworthy and the judge does not object.
RunnerReturns(d) ==
    /\ May(d, "returns")
    /\ \E pc \in {"telling", "writing"}, write \in Ends(at[d].task) : Goes(d, pc, write)
    /\ UNCHANGED <<table, todo, counts>>

RunnerFails(d) ==
    /\ May(d, "fails") /\ Goes(d, "writing", "failure")
    /\ UNCHANGED <<table, todo, counts>>

\* The wall clock's limit, with the runner at work: CancelledError, and a
\* shielded write.
RunnerTimesOut(d) ==
    /\ May(d, "hangs") /\ Goes(d, "writing", "timeout")
    /\ UNCHANGED <<table, todo, counts>>

Tells(d) ==
    /\ In(d, "telling") /\ Goes(d, "writing", at[d].write)
    /\ told' = [told EXCEPT ![at[d].task] = @ + 1]
    /\ UNCHANGED <<row, due, ahead, strays, jitters, todo, counts>>

\* mutant: a delivered one-shot stays enabled
StaysOn(t) == row

\* A delivered one-shot is kept, disabled and with its next_run_at as it was.
Retired(t) == IF row[t].there THEN [row EXCEPT ![t].on = FALSE] ELSE row

\* mutant: a timeout is not counted
SlowKept(d) == at[d].slow

SlowAfter(d) == at[d].slow + 1

\* A timeout leaves the errors; it writes the ones of the row as it was picked.
CutOff(d) ==
    Persists(at[d].task, at[d].errs, SlowAfter(d), Exhausted(SlowAfter(d), MaxTimeouts))

\* The write of a runner that has ended.  An error leaves the timeouts as they
\* are now.
Outcome(d) ==
    LET t == at[d].task IN
    \/ at[d].write = "success" /\ Persists(t, 0, 0, FALSE)
    \/ /\ at[d].write = "failure"
       /\ Persists(t, at[d].errs + 1, row[t].slow, Exhausted(at[d].errs + 1, MaxErrors))
    \/ at[d].write = "delivered" /\ row' = Retired(t) /\ UNCHANGED queue

\* The statement that ends a run.
Statement(d) ==
    In(d, "writing") /\ (Outcome(d) \/ (at[d].write = "timeout" /\ CutOff(d)))

Writes(d) ==
    /\ Statement(d) /\ Rests(d)
    /\ UNCHANGED <<todo, counts>>

\* An UPDATE or a commit that raises: the dispatcher goes on to its next task,
\* and what a failed commit leaves open the next one keeps.
WriteFails(d) ==
    /\ Statement(d) \/ (In(d, "writing") /\ UNCHANGED table)
    /\ Rests(d) /\ Fault
    /\ UNCHANGED todo

\* The limit comes before the runner has begun or after it has returned, while
\* the judge, the surface or the write is awaited: nothing shields these.
TimesOutBare(d) ==
    /\ \/ at[d].pc \in {"running", "telling"} /\ UNCHANGED table
       \/ In(d, "writing") /\ at[d].write # "timeout" /\ (Outcome(d) \/ UNCHANGED table)
    /\ Rests(d) /\ Fault
    /\ UNCHANGED todo

\* stop(): the run is cancelled, and its handler writes a timeout.
Stops(d) ==
    /\ In(d, "running") /\ CutOff(d) /\ Rests(d) /\ Fault
    /\ UNCHANGED todo

Runs(d) ==
    \/ RunnerReturns(d) \/ RunnerFails(d) \/ RunnerTimesOut(d) \/ Tells(d) \/ Writes(d)

-----------------------------------------------------------------------------
(* run_now *)

\* The request's write, at any time after it has looked for the row: it uses
\* nothing of what it has read, and one that finds the row gone does nothing.  A
\* run that fails records its error only, and so does a watch's probe that is
\* cut off by a limit of its own.
RunsNow(t) ==
    /\ row[t].there /\ "returns" \in Outcomes[t] /\ Persists(t, 0, 0, FALSE)
    /\ UNCHANGED <<runs, counts>>

-----------------------------------------------------------------------------
(* Users, time, restarts *)

Edits == edits < MaxEdits /\ edits' = edits + 1 /\ UNCHANGED faults

\* add_task: due at once, or at its first anchor.  SQLite gives the id of the
\* last row that was removed again.
Adds(t) ==
    /\ ~row[t].there /\ row' = [row EXCEPT ![t] = Fresh]
    /\ \/ JoinsLine(t) /\ StartsOver(t)
       \/ Reschedules(t)
    /\ Edits /\ UNCHANGED runs

Removes(t) ==
    /\ row[t].there /\ row' = [row EXCEPT ![t] = Gone] /\ MovesOn(t)
    /\ Edits /\ UNCHANGED runs

\* mutant: the errors of before the pause count on
ToggledKeepsErrors(t, on) == [row EXCEPT ![t].on = on]

\* set_enabled: the errors start again, the timeouts do not.
Toggled(t, on) == [row EXCEPT ![t].on = on, ![t].errs = 0]

\* A user who resumes a one-shot asks for another delivery.
Toggles(t, on) ==
    /\ row[t].there /\ row' = Toggled(t, on)
    /\ IF on THEN StartsOver(t) ELSE UNCHANGED <<told, strays>>
    /\ Edits /\ UNCHANGED <<due, ahead, jitters, runs>>

\* update_task with a new schedule.
Edit(t) ==
    /\ row[t].there /\ Reschedules(t)
    /\ Edits /\ UNCHANGED <<row, runs>>

Elapses(t) ==
    /\ row[t].there /\ t \notin due /\ JoinsLine(t)
    /\ UNCHANGED <<row, told, strays, runs, counts>>

\* The runs are gone, the table stays.
Restart ==
    /\ Fault
    /\ at' = [d \in Dispatchers |-> Asleep] /\ todo' = {}
    /\ UNCHANGED table

-----------------------------------------------------------------------------
Service ==
    \/ Scans
    \/ \E u \in Users : PicksNothing(u) \/ \E t \in Tasks : Picks("service", u, t)
    \/ Runs("service")

Next ==
    \/ Service
    \/ \E u \in Users, t \in Tasks : Picks("tick", u, t)
    \/ Runs("tick")
    \/ \E d \in Dispatchers : WriteFails(d) \/ TimesOutBare(d) \/ Stops(d)
    \/ \E u \in Users : PickFails(u)
    \/ \E t \in Tasks :
         \/ RunsNow(t) \/ Adds(t) \/ Removes(t) \/ Edit(t) \/ Elapses(t)
         \/ \E on \in BOOLEAN : Toggles(t, on)
    \/ Restart

Spec == Init /\ [][Next]_vars

\* The service scans every minute and its runs end, by themselves or at the
\* limit; time passes.  The tick verb is left out: the presence gate may keep it
\* from running.  Nothing makes a user act or a fault happen.
Fairness == WF_vars(Service) /\ \A t \in Tasks : WF_vars(Elapses(t))

FairSpec == Spec /\ Fairness

-----------------------------------------------------------------------------
(* Properties *)

\* No task is run by two dispatchers at once: the scan and the verb read the
\* same table and hold no lock, only their lanes keep them apart.
NotTwice ==
    \A d, e \in Dispatchers : at[d].task # NoTask /\ at[d].task = at[e].task => d = e

\* An enabled task has fewer consecutive errors than the limit, whatever users
\* do while it runs and although the count that is written back is an old one:
\* a broken task is always paused in time.
BrokenIsPaused == \A t \in Tasks : row[t].on => row[t].errs < MaxErrors

\* As long as nothing raises, stops or restarts and no run is cut off outside
\* its runner, an occurrence is surfaced once: not by two runs, nor again by a
\* one-shot that stays enabled, a resumed task or a run-now request.  A deadline
\* or a dated task is surfaced once more for each time its schedule was put back
\* before now, which the code does, and for no other reason.
FiredOnce == faults = 0 => \A t \in Tasks : told[t] <= 1 + strays[t]

\* Only a user enables a task; a run's write, however old what it has read, counts
\* its outcome and pauses at the limit: the table keeps the promises of TaskRows.
Rows == INSTANCE TaskRows WITH OneShot <- OneShot \cup Loose

ImplementsTaskRows == Rows!Spec

\* An enabled task that is due is run, paused or rescheduled, although others of
\* its user keep becoming due, hang and fail.
Serviced(t) == UserOf[t] \in Lane("service")
DueServed ==
    \A t \in Tasks : Serviced(t) =>
        (t \in Ready(UserOf[t]) ~> t \notin Ready(UserOf[t]))

\* "A permanently-stuck task still eventually pauses": one whose runner never
\* returns, whether it fails, hangs or does now the one and now the other.
StuckPauses ==
    \A t \in Tasks : Serviced(t) /\ "returns" \notin Outcomes[t] => <>[](~row[t].on)

=============================================================================
