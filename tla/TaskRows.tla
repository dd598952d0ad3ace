------------------------------ MODULE TaskRows ------------------------------
(***************************************************************************)
(* What the table of standing tasks promises, whatever the dispatchers, the   *)
(* requests, the users and the restarts that StandingTasks models do to it:   *)
(* who may pause a task, who may resume it, and what its two counters say.   *)
(***************************************************************************)
EXTENDS Naturals

CONSTANTS Tasks, OneShot, Outcomes, MaxErrors, MaxTimeouts

VARIABLE row    \* is the task there, is it enabled, its errors and timeouts

Fresh == [there |-> TRUE, on |-> TRUE, errs |-> 0, slow |-> 0]
Gone  == [there |-> FALSE, on |-> FALSE, errs |-> 0, slow |-> 0]

Init == row \in [Tasks -> {Fresh, Gone}]

Becomes(t, r) == row' = [row EXCEPT ![t] = r]

Counts(t, on, errs, slow) ==
    /\ row[t].there
    /\ Becomes(t, [there |-> TRUE, on |-> on, errs |-> errs, slow |-> slow])

-----------------------------------------------------------------------------
(* The user: the one way to be enabled *)

Add(t)    == ~row[t].there /\ Becomes(t, Fresh)
Remove(t) == row[t].there /\ Becomes(t, Gone)

\* Resumed or paused, the task has its budget of errors again.
Toggle(t) == \E on \in BOOLEAN : Counts(t, on, 0, row[t].slow)

-----------------------------------------------------------------------------
(* The runs *)

\* Nothing but a result clears both counts, and it resumes nothing.
Succeed(t) ==
    "returns" \in Outcomes[t] /\ Counts(t, row[t].on, 0, 0)

\* One more error than some earlier count, which the limit turns into a pause.
Fail(t) ==
    /\ "fails" \in Outcomes[t]
    /\ \E n \in 1 .. MaxErrors :
         Counts(t, row[t].on /\ n < MaxErrors, n, row[t].slow)

\* A timeout is counted apart, and does not make the errors reach their limit.
CutShort(t) ==
    LET r == row'[t] IN
    /\ r.errs \in 0 .. MaxErrors - 1 /\ r.slow \in Nat \ {0}
    /\ Counts(t, row[t].on /\ r.slow < MaxTimeouts, r.errs, r.slow)

\* What has been delivered once is kept, and not run again.
Retire(t) ==
    /\ t \in OneShot /\ "returns" \in Outcomes[t]
    /\ Counts(t, FALSE, row[t].errs, row[t].slow)

Next ==
    \E t \in Tasks :
        \/ Add(t) \/ Remove(t) \/ Toggle(t)
        \/ Succeed(t) \/ Fail(t) \/ CutShort(t) \/ Retire(t)

Spec == Init /\ [][Next]_row

=============================================================================
