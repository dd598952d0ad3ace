---------------------------- MODULE JobLifecycle ----------------------------
(***************************************************************************)
(* What the job queue promises of the rows of background_jobs, whatever the *)
(* worker, the sweeper, the requests, the crashes and the failed statements *)
(* that Jobs models do to them: a single-server queue with a budget of      *)
(* attempts per job, that only a user's retry renews.                       *)
(***************************************************************************)
EXTENDS Naturals

CONSTANTS JobIds, MaxAttempts

VARIABLES
    status,     \* the status column; "none" before the row, "deleted" after it
    used,       \* the attempts column: claims since creation or user retry
    cancel,     \* the cancel_requested column
    faulty      \* a statement has raised since the table was made

vars == <<status, used, cancel, faulty>>

Over    == {"completed", "failed", "cancelled"}
Present == {"pending", "running"} \cup Over

Init ==
    /\ status = [j \in JobIds |-> "none"]
    /\ used = [j \in JobIds |-> 0]
    /\ cancel = [j \in JobIds |-> FALSE]
    /\ faulty = FALSE

\* Row j goes to status s with n attempts; no other row changes.
Becomes(j, s, n) ==
    /\ status' = [status EXCEPT ![j] = s]
    /\ used' = [used EXCEPT ![j] = n]

\* A cancel request, once in the row, stays there.
CancelKept(j) ==
    \E c \in BOOLEAN :
        (cancel[j] => c) /\ cancel' = [cancel EXCEPT ![j] = c]

CancelCleared(j) == cancel' = [cancel EXCEPT ![j] = FALSE]

Submit(j) ==
    /\ status[j] = "none"
    /\ Becomes(j, "pending", 0) /\ CancelCleared(j)

\* One job runs at a time, and only within its budget.
Start(j) ==
    /\ status[j] = "pending" /\ used[j] < MaxAttempts[j]
    /\ \A k \in JobIds \ {j} : status[k] = "running" => faulty
    /\ Becomes(j, "running", used[j] + 1) /\ CancelKept(j)

RequestCancel(j) ==
    /\ status[j] \in Present
    /\ Becomes(j, status[j], used[j]) /\ cancel' = [cancel EXCEPT ![j] = TRUE]

\* Tried again, with at least one attempt left.  A stored result is final: only
\* a sweep's failure and the user's retry lead back from it.
PutBack(j) ==
    /\ status[j] \in Present \ {"completed"} /\ used[j] < MaxAttempts[j]
    /\ Becomes(j, "pending", used[j]) /\ CancelKept(j)

Finish(j) ==
    /\ status[j] \in Present
    /\ \E s \in Over : Becomes(j, s, used[j])
    /\ CancelKept(j)

\* The user's retry: the one way to a new budget.
Reopen(j) ==
    /\ status[j] \in {"failed", "cancelled"}
    /\ Becomes(j, "pending", 0) /\ CancelCleared(j)

Drop(j) ==
    /\ status[j] \in Present
    /\ Becomes(j, "deleted", 0) /\ CancelCleared(j)

\* A restart leaves no row running: each is tried again or failed.
Recover ==
    /\ status' = [j \in JobIds |->
                    IF status[j] # "running" THEN status[j]
                    ELSE IF used[j] < MaxAttempts[j] THEN "pending" ELSE "failed"]
    /\ UNCHANGED <<used, cancel>>

\* The recovery of a running row that has attempts left or none is all or
\* nothing; a fault changes no row by itself.
Next ==
    /\ \/ \E j \in JobIds :
            \/ Submit(j) \/ Start(j) \/ RequestCancel(j) \/ PutBack(j)
            \/ Finish(j) \/ Reopen(j) \/ Drop(j)
       \/ Recover
       \/ UNCHANGED <<status, used, cancel>>
    /\ faulty' \in {faulty, TRUE}

Spec == Init /\ [][Next]_vars

=============================================================================
