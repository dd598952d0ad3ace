------------------------------- MODULE Calls --------------------------------
(***************************************************************************)
(* One call between two users of the same instance: the two call_sessions  *)
(* rows, one per party (connect/call_routing.py), the verbs that arrive on  *)
(* WebSockets and from the notification's buttons, the missed-call timer    *)
(* and its registry _TIMERS, and the sweep at startup                       *)
(* (connect/call_lifecycle.py).                                             *)
(*                                                                          *)
(* An action is one SQL statement with its commit, or one synchronous       *)
(* stretch of code between two awaits.  A connection handles one envelope   *)
(* at a time; different connections, clicks and timers interleave.  Calls   *)
(* share nothing but the connection to the database, so one is enough: what *)
(* the rollbacks of the others do to its writes is the choice in Sets.      *)
(***************************************************************************)
EXTENDS Naturals

CONSTANTS
    Dialers,       \* the caller's connections: a reconnecting client has two
    Tabs,          \* the callee's connections
    Clicks,        \* the callee's requests for a notification's button
    MaxInvites,    \* bound: invites, the retries of a client included
    MaxVerbs,      \* bound: accepts, declines and hangups
    MaxFaults      \* bound: statements that raise or are undone, and restarts

Actors == Dialers \cup Tabs \cup Clicks
Timers == 1 .. MaxInvites

ASSUME CallsAssumption ==
    /\ Dialers \cap (Tabs \cup Clicks) = {} /\ Tabs \cap Clicks = {}
    /\ MaxInvites \in Nat /\ MaxVerbs \in Nat /\ MaxFaults \in Nat

VARIABLES
    blocked,    \* the callee has blocked the caller; taken not to change
    row,        \* the state column of each party's row
    at,         \* what each actor is doing, and its next step
    invites,    \* how many invites have begun
    verbs,      \* how many accepts, declines and hangups have
    rung,       \* EVENT_INVITE has been routed: the callee knows the call_id
    noted,      \* the notification with its two buttons has been published
    timer,      \* the tasks the invites have started, in that order
    reg,        \* _TIMERS[call_id]: a timer, or 0
    answered,   \* history: accepted in full, with nobody else about to write
    unarmed,    \* history: the last invite to get that far has no timer, for
                \* the lifetime its client sent is not one
    overtaken,  \* history: the caller's other connection began to hang up
                \* before the invite had inserted its rows
    faults      \* statements that raised or were undone, and restarts

begun   == <<invites, verbs>>
history == <<answered, unarmed, overtaken>>
vars == <<blocked, row, at, begun, rung, noted, timer, reg, history, faults>>

Party == {"caller", "callee"}
Ringing  == {"ringing", "invited"}
Terminal == {"ended", "declined", "missed"}
State == {"none", "connected"} \cup Ringing \cup Terminal

Idle   == [verb |-> "idle", step |-> "none"]
Answer == [verb : {"accept", "decline", "hangup"},
           step : {"guard", "cancel", "first", "second"}]
Invite == [verb : {"invite"},
           step : {"insertCaller", "missed", "insertCallee", "ring", "arm"}]

\* A timer task: created and not yet run, asleep, cancelled in its sleep, about
\* to read the rows or to write the first or the second, through.
TimerState == {"none", "new", "asleep", "cancelled", "read", "first", "second", "done"}

TypeOK ==
    /\ blocked \in BOOLEAN
    /\ row \in [Party -> State]
    /\ at \in [Actors -> Answer \cup Invite \cup {Idle}]
    /\ invites \in 0 .. MaxInvites /\ verbs \in 0 .. MaxVerbs
    /\ rung \in BOOLEAN /\ noted \in BOOLEAN
    /\ timer \in [Timers -> TimerState]
    /\ reg \in {0} \cup Timers
    /\ answered \in BOOLEAN /\ unarmed \in BOOLEAN /\ overtaken \in BOOLEAN
    /\ faults \in 0 .. MaxFaults

Init ==
    /\ blocked \in BOOLEAN
    /\ row = [p \in Party |-> "none"]
    /\ at = [a \in Actors |-> Idle]
    /\ invites = 0 /\ verbs = 0 /\ rung = FALSE /\ noted = FALSE
    /\ timer = [t \in Timers |-> "none"] /\ reg = 0
    /\ answered = FALSE /\ unarmed = FALSE /\ overtaken = FALSE /\ faults = 0

-----------------------------------------------------------------------------
(* Helpers *)

BothIn(S) == \A p \in Party : row[p] \in S

Goes(a, verb, step) == at' = [at EXCEPT ![a] = [verb |-> verb, step |-> step]]
Then(a, step) == Goes(a, at[a].verb, step)
Returns(a) == at' = [at EXCEPT ![a] = Idle]

At(a, verb, step) == at[a] = [verb |-> verb, step |-> step]
Answering(a) == at[a].verb \in {"accept", "decline", "hangup"}

Fault == faults < MaxFaults /\ faults' = faults + 1

\* A statement and its commit.  Between the two a failing statement of anybody
\* on the shared connection may roll the write back, and nobody is told.
Sets(after) ==
    \/ row' = after /\ UNCHANGED faults
    \/ row' = row /\ Fault

\* UPDATE call_sessions SET state WHERE call_id AND user_id: whatever the state
\* was, and nothing when there is no row.
Updated(p, s) == IF row[p] = "none" THEN row ELSE [row EXCEPT ![p] = s]

\* mutant: INSERT OR REPLACE
Replaced(p, s) == [row EXCEPT ![p] = s]

\* INSERT OR IGNORE: the row of a retried invite stays as it is.
Inserted(p, s) == IF row[p] = "none" THEN [row EXCEPT ![p] = s] ELSE row

\* mutant: accept writes a state nobody else knows
FinalAccepted == [accept |-> "accepted", decline |-> "declined", hangup |-> "ended"]

\* The state each verb writes, and the party whose row it writes first: its
\* own on a WebSocket, the caller's for a button.
Final == [accept |-> "connected", decline |-> "declined", hangup |-> "ended"]
FirstRow(a)  == IF a \in Tabs THEN "callee" ELSE "caller"

\* mutant: only the row of the party that acts
FirstRowOnly(a) == FirstRow(a)

SecondRow(a) == IF a \in Tabs THEN "caller" ELSE "callee"

\* cancel_invite_timer: takes the registered task out and cancels it.  A task
\* that has not run yet never will; one asleep gets to its finally.
Unregistered ==
    IF reg = 0 THEN timer
    ELSE [timer EXCEPT ![reg] = IF @ = "new" THEN "done"
                                ELSE IF @ = "asleep" THEN "cancelled" ELSE @]

CancelTimer == timer' = Unregistered /\ reg' = 0

\* The actors about to write something other than connected.
Rivals == {a \in Actors : at[a].verb \in {"decline", "hangup"} /\ at[a].step # "guard"}
MarkingMissed == \E t \in Timers : timer[t] \in {"first", "second"}

-----------------------------------------------------------------------------
(* The caller invites *)

BeginInvite(d) ==
    /\ at[d] = Idle /\ invites < MaxInvites
    /\ invites' = invites + 1
    /\ Goes(d, "invite", "insertCaller")
    /\ UNCHANGED <<blocked, row, verbs, rung, noted, timer, reg, history, faults>>

InsertCaller(d) ==
    /\ At(d, "invite", "insertCaller")
    /\ Sets(Inserted("caller", "ringing"))
    /\ Then(d, IF blocked THEN "missed" ELSE "insertCallee")
    /\ UNCHANGED <<blocked, begun, rung, noted, timer, reg, history>>

\* A blocked caller's call is missed at once; no row, event or timer follows.
InviteBlocked(d) ==
    /\ At(d, "invite", "missed")
    /\ Sets(Updated("caller", "missed"))
    /\ Returns(d)
    /\ UNCHANGED <<blocked, begun, rung, noted, timer, reg, history>>

InsertCallee(d) ==
    /\ At(d, "invite", "insertCallee")
    /\ Sets(Inserted("callee", "invited"))
    /\ Then(d, "ring")
    /\ UNCHANGED <<blocked, begun, rung, noted, timer, reg, history>>

\* EVENT_INVITE, then the notification: a failure to publish it is logged.
Ring(d) ==
    /\ At(d, "invite", "ring")
    /\ rung' = TRUE /\ noted' \in {noted, TRUE}
    /\ Then(d, "arm")
    /\ UNCHANGED <<blocked, row, begun, timer, reg, history, faults>>

\* The task that create_task makes next.
NewTask(t) == timer[t] = "none" /\ \A u \in Timers : u < t => timer[u] # "none"

\* mutant: a retried invite cancels the timer and does not arm another
ArmOnce(t) ==
    timer' = (IF reg = 0 THEN [timer EXCEPT ![t] = "new"] ELSE Unregistered)
    /\ reg' = (IF reg = 0 THEN t ELSE 0)

\* arm_invite_timer: cancels a registered timer and replaces it.
Arm(t) ==
    /\ timer' = [Unregistered EXCEPT ![t] = "new"]
    /\ reg' = t

ArmTimer(d) ==
    /\ At(d, "invite", "arm")
    /\ \E t \in Timers : NewTask(t) /\ Arm(t)
    /\ Returns(d) /\ unarmed' = FALSE
    /\ UNCHANGED <<blocked, row, begun, rung, noted, answered, overtaken, faults>>

\* int() of the client's lifetime raises; the handler logs that and returns.
\* A timer that an earlier invite has armed goes on.
ArmFails(d) ==
    /\ At(d, "invite", "arm")
    /\ Returns(d) /\ unarmed' = TRUE
    /\ UNCHANGED <<blocked, row, begun, rung, noted, timer, reg, answered,
                   overtaken, faults>>

Inviting(d) ==
    \/ InsertCaller(d) \/ InviteBlocked(d) \/ InsertCallee(d) \/ Ring(d)
    \/ ArmTimer(d) \/ ArmFails(d)

-----------------------------------------------------------------------------
(* Accept, decline, hangup *)

\* What an actor can know of: the caller its call, on any of its connections;
\* the callee's tabs the event; a click the notification.
MayBegin(a, verb) ==
    \/ a \in Dialers /\ verb = "hangup" /\ invites > 0
    \/ a \in Tabs /\ rung
    \/ a \in Clicks /\ noted /\ verb \in {"accept", "decline"}

\* The invite has inserted every row it is going to.
RowsIn == row["caller"] # "none" /\ (blocked \/ row["callee"] # "none")

\* The audit row is written first; a decline on a WebSocket begins with its
\* guard, a button with the timer.
Begin(a, verb) ==
    /\ at[a] = Idle /\ MayBegin(a, verb)
    /\ verbs < MaxVerbs /\ verbs' = verbs + 1
    /\ Goes(a, verb, IF a \in Clicks THEN "cancel"
                     ELSE IF verb = "decline" THEN "guard" ELSE "first")
    /\ answered' = (answered /\ (verb = "accept" \/ (verb = "decline" /\ a \in Tabs)))
    /\ overtaken' = (overtaken \/ (a \in Dialers /\ ~RowsIn))
    /\ UNCHANGED <<blocked, row, invites, rung, noted, timer, reg, unarmed, faults>>

\* mutant: the guard looks for a call that is over
AcceptedLooksAtTerminal == row["callee"] \in Terminal

\* A decline is dropped when a sibling tab has accepted.
Accepted == row["callee"] = "connected"

Guard(a) ==
    /\ At(a, "decline", "guard")
    /\ IF Accepted THEN Returns(a) ELSE Then(a, "first")
    /\ UNCHANGED <<blocked, row, begun, rung, noted, timer, reg, history, faults>>

WriteFirst(a) ==
    /\ Answering(a) /\ at[a].step = "first"
    /\ Sets(Updated(FirstRow(a), Final[at[a].verb]))
    /\ Then(a, "second")
    /\ UNCHANGED <<blocked, begun, rung, noted, timer, reg, history>>

\* The second row; then, on a WebSocket, the timer.
WriteSecond(a) ==
    /\ Answering(a) /\ at[a].step = "second"
    /\ Sets(Updated(SecondRow(a), Final[at[a].verb]))
    /\ IF a \in Clicks THEN Returns(a) ELSE Then(a, "cancel")
    /\ answered' = (answered \/ (/\ \A p \in Party : row'[p] = "connected"
                                 /\ Rivals = {} /\ ~MarkingMissed))
    /\ UNCHANGED <<blocked, begun, rung, noted, timer, reg, unarmed, overtaken>>

\* cancel_invite_timer, after the writes of a WebSocket verb, before a button's.
Cancel(a) ==
    /\ Answering(a) /\ at[a].step = "cancel"
    /\ CancelTimer
    /\ IF a \in Clicks THEN Then(a, "first") ELSE Returns(a)
    /\ UNCHANGED <<blocked, row, begun, rung, noted, history, faults>>

Answers(a) == Guard(a) \/ WriteFirst(a) \/ WriteSecond(a) \/ Cancel(a)

-----------------------------------------------------------------------------
(* The missed-call timer *)

TimerGoes(t, s) == timer' = [timer EXCEPT ![t] = s]

TimerStarts(t) ==
    /\ timer[t] = "new" /\ TimerGoes(t, "asleep")
    /\ UNCHANGED <<blocked, row, at, begun, rung, noted, reg, history, faults>>

\* mutant: no finally
ReleasedLeaks == reg

\* The finally of the sleep, whether it has expired or been cancelled: it takes
\* out whatever is registered for the call, a newer timer included.
Released == 0

TimerExpires(t) ==
    /\ timer[t] = "asleep" /\ TimerGoes(t, "read") /\ reg' = Released
    /\ UNCHANGED <<blocked, row, at, begun, rung, noted, history, faults>>

\* The lifetime is an int too large to divide: the sleep raises before it
\* begins, the finally runs, and nothing handles the exception.
SleepRaises(t) ==
    /\ timer[t] = "new" /\ TimerGoes(t, "done") /\ reg' = Released
    /\ unarmed' = TRUE
    /\ UNCHANGED <<blocked, row, at, begun, rung, noted, answered, overtaken, faults>>

TimerCancelled(t) ==
    /\ timer[t] = "cancelled" /\ TimerGoes(t, "done") /\ reg' = Released
    /\ UNCHANGED <<blocked, row, at, begun, rung, noted, history, faults>>

\* mutant: the timer marks the call without looking
StillRingingUnchecked == TRUE

\* Every row of the call is still ringing or invited.
StillRinging == BothIn(Ringing)

TimerReads(t) ==
    /\ timer[t] = "read"
    /\ TimerGoes(t, IF StillRinging THEN "first" ELSE "done")
    /\ UNCHANGED <<blocked, row, at, begun, rung, noted, reg, history, faults>>

\* The caller's row, then the callee's; the missed-call notification, the
\* dismissal of the other one and the event to the caller follow.
TimerMarksCaller(t) ==
    /\ timer[t] = "first" /\ TimerGoes(t, "second")
    /\ Sets(Updated("caller", "missed"))
    /\ UNCHANGED <<blocked, at, begun, rung, noted, reg, history>>

TimerMarksCallee(t) ==
    /\ timer[t] = "second" /\ TimerGoes(t, "done")
    /\ Sets(Updated("callee", "missed"))
    /\ UNCHANGED <<blocked, at, begun, rung, noted, reg, history>>

TimerRuns(t) ==
    \/ TimerStarts(t) \/ TimerExpires(t) \/ TimerCancelled(t)
    \/ TimerReads(t) \/ TimerMarksCaller(t) \/ TimerMarksCallee(t)

-----------------------------------------------------------------------------
(* Statements that raise, and restarts *)

\* A failed UPDATE leaves the row; a failed commit leaves it written.
Fails(after) ==
    /\ Fault
    /\ row' \in {row, after}

\* The exception ends the handling of the envelope or the request.
AnswerFails(a) ==
    /\ Answering(a)
    /\ \/ at[a].step = "guard" /\ Fails(row)
       \/ at[a].step = "first" /\ Fails(Updated(FirstRow(a), Final[at[a].verb]))
       \/ at[a].step = "second" /\ Fails(Updated(SecondRow(a), Final[at[a].verb]))
    /\ Returns(a)
    /\ UNCHANGED <<blocked, begun, rung, noted, timer, reg, history>>

InviteFails(d) ==
    /\ \/ At(d, "invite", "insertCaller") /\ Fails(Inserted("caller", "ringing"))
       \/ At(d, "invite", "insertCallee") /\ Fails(Inserted("callee", "invited"))
       \/ At(d, "invite", "missed") /\ Fails(Updated("caller", "missed"))
    /\ Returns(d)
    /\ UNCHANGED <<blocked, begun, rung, noted, timer, reg, history>>

\* _wait_then_maybe_mark_missed logs what _mark_missed raises.
TimerFails(t) ==
    /\ \/ timer[t] = "read" /\ Fails(row)
       \/ timer[t] = "first" /\ Fails(Updated("caller", "missed"))
       \/ timer[t] = "second" /\ Fails(Updated("callee", "missed"))
    /\ TimerGoes(t, "done")
    /\ UNCHANGED <<blocked, at, begun, rung, noted, reg, history>>

\* mutant: the sweep takes every row that is not over
SweptTooMany(p) == row[p] \in Ringing \cup {"connected"}

Swept(p) == row[p] \in Ringing

\* Timers and handlers are gone; the sweep at startup marks the rows older than
\* grace_ms that still ring, and the age of a row is the clock's to decide.
Restart ==
    /\ Fault
    /\ at' = [a \in Actors |-> Idle]
    /\ timer' = [t \in Timers |-> IF timer[t] = "none" THEN "none" ELSE "done"]
    /\ reg' = 0
    /\ \E old \in {{}, {"caller"}, Party} :
         row' = [p \in Party |-> IF p \in old /\ Swept(p) THEN "missed" ELSE row[p]]
    /\ UNCHANGED <<blocked, begun, rung, noted, history>>

-----------------------------------------------------------------------------
Next ==
    \/ \E d \in Dialers : BeginInvite(d) \/ Inviting(d) \/ InviteFails(d)
    \/ \E a \in Actors :
         \/ \E verb \in {"accept", "decline", "hangup"} : Begin(a, verb)
         \/ Answers(a) \/ AnswerFails(a)
    \/ \E t \in Timers : TimerRuns(t) \/ SleepRaises(t) \/ TimerFails(t)
    \/ Restart

Spec == Init /\ [][Next]_vars

\* The event loop goes on with what has begun, and a sleep ends when the
\* client's lifetime is over; nothing makes a user act, a statement fail or the
\* process restart.
Fairness ==
    /\ \A d \in Dialers : WF_vars(Inviting(d))
    /\ \A a \in Actors : WF_vars(Answers(a))
    /\ \A t \in Timers : WF_vars(TimerRuns(t))

FairSpec == Spec /\ Fairness

-----------------------------------------------------------------------------
(* Properties *)

\* A call that was accepted, in both rows and with nobody about to write
\* something else, stays connected in both until somebody hangs up or presses
\* the decline button: not the timer, armed or fired late, nor a sibling tab's
\* decline, a retried invite, a failing statement or the sweep at startup.
AnsweredStays == answered => BothIn({"connected"})

\* While no statement has raised or been undone and the process has not
\* restarted, a row that rings has somebody who will change it: the invite
\* still being made, a verb or a timer with that row still to write, or, if
\* both rows ring, a timer that is going to look.  No cancel, re-arm or bail-out
\* leaves a row to nobody.  The code does in two cases, which the property
\* names: the timer of the last invite could not be armed (both rows then still
\* ring), and a hangup from the caller's other connection has overtaken the
\* inserts (the timer bails out over the callee's row).
Writes(a, p) ==
    /\ Answering(a)
    /\ \/ at[a].step = "first"
       \/ at[a].step = "cancel" /\ a \in Clicks
       \/ at[a].step = "second" /\ SecondRow(a) = p

WillMark(t, p) == timer[t] = "first" \/ (timer[t] = "second" /\ p = "callee")

RingingIsOwned ==
    faults = 0 /\ ~overtaken =>
        \A p \in Party : row[p] \in Ringing =>
            \/ \E a \in Actors : Writes(a, p)
            \/ \E t \in Timers : WillMark(t, p)
            \/ /\ BothIn(Ringing \cup {"none"})
               /\ \/ unarmed \/ \E d \in Dialers : at[d].verb = "invite"
                  \/ \E t \in Timers : timer[t] \in {"new", "asleep", "read"}

\* _TIMERS holds no task that has finished or been cancelled: what it would
\* leak is an entry per unanswered call.
RegisteredIsLive == reg # 0 => timer[reg] \in {"new", "asleep"}

\* A row that has left the ringing states never rings again, whatever a
\* retried invite inserts.
NeverRingsAgain ==
    [][\A p \in Party : row[p] \notin Ringing \cup {"none"}
                            => row'[p] \notin Ringing \cup {"none"}]_vars

\* A call that rings comes to a moment when neither row rings, unless a
\* statement raises or is undone, the process restarts, a hangup overtakes the
\* invite, or the last invite's lifetime arms no timer.
RingingResolves ==
    (\E p \in Party : row[p] \in Ringing)
        ~> (\/ faults > 0 \/ overtaken \/ unarmed
            \/ \A p \in Party : row[p] \notin Ringing)

=============================================================================
