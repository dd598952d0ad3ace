------------------------ MODULE JobsRefinementProofs ------------------------
(***************************************************************************)
(* The job queue implements JobLifecycle, for every set of jobs and every   *)
(* bound: the table's initial state is its initial state, and every step of *)
(* the worker, the sweeper, the requests, a crash or a recovery is one of    *)
(* its steps or leaves its variables alone.                                 *)
(***************************************************************************)
EXTENDS JobsProofs

-----------------------------------------------------------------------------
(* A statement writes one row, except for the recovery *)

OneRow(t) == \E j \in JobIds : \A k \in JobIds \ {j} : t[k] = db[k]

\* The table stays as it is, one row changes, or the recovery writes them all.
Shape(t) == t = db \/ OneRow(t) \/ (rpc = "down" /\ t = AllRecovered)

LEMMA UpdateShape ==
    ASSUME StoreOK, NEW j \in JobIds, NEW row PROVE Shape(Update(j, row))
  BY UpdateRows DEF Shape, OneRow

LEMMA ErrorShape ==
    ASSUME NEW after, Shape(after), DbError(after) PROVE Shape(db')
  BY DEF DbError, Shape

LEMMA WritesShape ==
    ASSUME NEW after, Shape(after), Committed(after) \/ Undone \/ Writes(after)
    PROVE  Shape(db')
  BY DEF Committed, Undone, Writes, Shape

LEMMA MarkedShape ==
    ASSUME Typed, rpc \in InFlightPc PROVE Shape(Marked)
  BY TypesOfRows, UpdateShape DEF Marked, SetStatus, Typed, TypeOK

LEMMA StepShape == Typed /\ [Next]_vars => Shape(db')
  <1> SUFFICES ASSUME Typed, [Next]_vars PROVE Shape(db') OBVIOUS
  <1>t. StoreOK BY DEF Typed, TypeOK
  <1>c. rpc \in InFlightPc => cur \in JobIds BY TypesOfRows
  <1>0. Shape(db) BY DEF Shape
  <1>1. CASE ClaimUpdate \/ ClaimError
    <2>1. rpc = "claimed" => Shape(Claimed(cur))
      BY <1>t, <1>c, <1>0, UpdateShape DEF Claimed, InFlightPc
    <2> QED BY <1>0, <1>1, <2>1, WritesShape, ErrorShape DEF ClaimUpdate, ClaimError
  <1>2. CASE HandlerProgress \/ ProgressError
    <2>1. rpc = "handler" BY <1>2 DEF HandlerProgress, ProgressError
    <2>2. Shape(SetStatus(cur, db[cur].status))
      BY <1>t, <1>c, <2>1, UpdateShape DEF SetStatus, InFlightPc
    <2> QED BY <1>0, <1>2, <2>2, WritesShape, ErrorShape DEF HandlerProgress, ProgressError
  <1>3. CASE Mark \/ RetryRequeue \/ RetryExhausted \/ MarkError
    <2>1. rpc \in InFlightPc
      BY <1>3 DEF Mark, RetryRequeue, RetryExhausted, MarkError, InFlightPc, Terminal
    <2>2. Shape(Marked) BY <2>1, MarkedShape
    <2> QED
      BY <1>0, <1>3, <2>2, WritesShape, ErrorShape DEF Mark, RetryRequeue, RetryExhausted, MarkError
  <1>4. CASE \E j \in JobIds : Age(j)
    BY <1>4, <1>t DEF Age, Shape, OneRow, StoreOK
  <1>5. CASE SweepError \/ \E j \in JobIds : SweepMark(j)
    <2>1. \A j \in JobIds : Shape(SetStatus(j, "failed"))
      BY <1>t, UpdateShape DEF SetStatus
    <2>2. todo \subseteq JobIds BY DEF Typed, TypeOK, LoopsOK
    <2> QED BY <1>5, <2>1, <2>2, WritesShape, ErrorShape DEF SweepError, SweepMark
  <1>6. CASE \E j \in JobIds : Create(j) \/ CreateError(j)
    <2>1. \A j \in JobIds : Shape(Created(j))
      BY <1>t DEF Created, Shape, OneRow, StoreOK
    <2> QED BY <1>6, <2>1, WritesShape, ErrorShape DEF Create, CreateError
  <1>7. CASE \E j \in JobIds : Retry(j) \/ RetryError(j)
    <2>1. \A j \in JobIds : Shape(Update(j, Fresh("pending", 0, FALSE)))
      BY <1>t, UpdateShape
    <2> QED BY <1>7, <2>1, WritesShape, ErrorShape DEF Retry, RetryError
  <1>8. CASE \E c \in Clients : Write(c) \/ WriteError(c)
    <2> PICK c \in Clients : Write(c) \/ WriteError(c) BY <1>8
    <2>1. req[c] # NoReq
      BY DEF Write, CancelPendingWrite, CancelRunningWrite, DeleteWrite, WriteError, NoReq
    <2>2. PICK row \in Row : Written(c) = Update(req[c].job, row)
      BY <2>1, WrittenRow
    <2>3. req[c].job \in JobIds BY <2>1, WrittenRow
    <2>4. Shape(Written(c)) BY <1>t, <2>2, <2>3, UpdateShape
    <2> QED
      BY <2>4, WritesShape, ErrorShape
      DEF Write, CancelPendingWrite, CancelRunningWrite, DeleteWrite, WriteError
  <1>9. CASE Boot \/ BootError
    <2>1. rpc = "down" => Shape(AllRecovered) BY DEF Shape
    <2> QED BY <1>9, <2>1, WritesShape, ErrorShape DEF Boot, BootError
  <1>10. \/ ClaimSelect \/ Wake \/ HandlerReturns \/ HandlerSeesCancel
         \/ RetryCheck \/ Emit \/ SweepFind \/ SweepEmit \/ Crash \/ UNCHANGED vars
         \/ \E c \in Clients, j \in JobIds : CancelRead(c, j) \/ DeleteRead(c, j)
         => UNCHANGED db
    BY DEF ClaimSelect, Wake, HandlerReturns, HandlerSeesCancel, HandlerEnds,
           RetryCheck, Emit, SweepFind, SweepEmit, Crash, CancelRead, DeleteRead, vars
  <1> QED
    BY <1>0, <1>1, <1>2, <1>3, <1>4, <1>5, <1>6, <1>7, <1>8, <1>9, <1>10
    DEF Next, Runner, Sweep

\* The count of failed statements never goes down.
LEMMA ErrorsGrow ==
    ASSUME Typed, [Next]_vars PROVE dbErrors \in Nat /\ dbErrors' \in Nat /\ dbErrors <= dbErrors'
  BY FaultsCounted DEF Fault

-----------------------------------------------------------------------------
(* A stored result is final *)

\* The job the worker has taken and not yet finished has no result in its row:
\* the claim has found it pending, and only the worker writes a result.
ResultInv ==
    \A j \in JobIds :
        rpc \in {"claimed", "handler", "retryable", "requeue"} /\ cur = j
            => db[j].status # "completed"

LEMMA ResultStep == Typed /\ ResultInv /\ [Next]_vars => ResultInv'
  <1> SUFFICES ASSUME Typed, ResultInv, [Next]_vars, NEW k \in JobIds,
                      rpc' \in {"claimed", "handler", "retryable", "requeue"},
                      cur' = k
               PROVE  db'[k].status # "completed"
    BY DEF ResultInv
  <1> DEFINE Held == rpc \in {"claimed", "handler", "retryable", "requeue"} /\ cur = k
  <1>1. \/ Held
        \/ UNCHANGED db /\ db[k].status = "pending"
    <2>1. CASE UNCHANGED runner BY <2>1 DEF runner
    <2>2. CASE ClaimSelect BY <2>2 DEF ClaimSelect, Claimable
    <2>3. CASE ClaimUpdate \/ HandlerReturns \/ HandlerSeesCancel \/ RetryCheck
      BY <2>3 DEF ClaimUpdate, HandlerReturns, HandlerSeesCancel, HandlerEnds, RetryCheck
    <2>4. \/ Wake \/ Mark \/ RetryRequeue \/ RetryExhausted \/ Emit
          \/ ClaimError \/ MarkError \/ Crash \/ Boot \/ BootError
          => rpc' \in {"idle", "emit", "failed", "backoff", "down"}
      <3>1. Wake \/ Emit => rpc' = "idle" BY DEF Wake, Emit
      <3>2. Mark => rpc' \in {"idle", "emit"} BY DEF Mark
      <3>3. RetryRequeue \/ RetryExhausted => rpc' = "idle"
        BY DEF RetryRequeue, RetryExhausted
      <3>4. ClaimError => rpc' = "backoff" BY DEF ClaimError
      <3>5. MarkError => rpc' \in {"idle", "failed"} BY DEF MarkError
      <3>6. Crash => rpc' = "down" BY DEF Crash
      <3>7. Boot \/ BootError => rpc' \in {"idle", "down"} BY DEF Boot, BootError, Start
      <3> QED BY <3>1, <3>2, <3>3, <3>4, <3>5, <3>6, <3>7
    <2>5. \/ HandlerProgress \/ ProgressError \/ Sweep \/ SweepError \/ UNCHANGED vars
          \/ \E j \in JobIds :
               Age(j) \/ Create(j) \/ CreateError(j) \/ Retry(j) \/ RetryError(j)
          \/ \E c \in Clients, j \in JobIds : CancelRead(c, j) \/ DeleteRead(c, j)
          \/ \E c \in Clients : Write(c) \/ WriteError(c)
          => UNCHANGED runner
      BY DEF HandlerProgress, ProgressError, Sweep, SweepFind, SweepMark, SweepEmit,
             SweepError, vars, Age, Create, CreateError, Retry, RetryError, CancelRead,
             DeleteRead, Write, CancelPendingWrite, CancelRunningWrite, DeleteWrite,
             WriteError
    <2> QED BY <2>1, <2>2, <2>3, <2>4, <2>5 DEF Next, Runner
  <1>2. Effect(k, db'[k]) BY TableSteps DEF Legal
  <1>3. Held => db[k].status # "completed" BY DEF ResultInv
  <1> QED
    BY <1>1, <1>2, <1>3
    DEF Effect, Kept, Taken, Ended, PutBack, Born, Dropped

-----------------------------------------------------------------------------
(* The refinement *)

\* The actions of JobLifecycle that change one row.
RowAction(j) ==
    \/ Lifecycle!Submit(j) \/ Lifecycle!Start(j) \/ Lifecycle!RequestCancel(j)
    \/ Lifecycle!PutBack(j) \/ Lifecycle!Finish(j) \/ Lifecycle!Reopen(j)
    \/ Lifecycle!Drop(j)

AbstractlyUnchanged ==
    UNCHANGED <<[j \in JobIds |-> db[j].status], [j \in JobIds |-> db[j].attempts],
                [j \in JobIds |-> db[j].cancel]>>

\* What an effect on the one row that changes is in the life of its job.
LEMMA RowStep ==
    ASSUME Typed, AttemptsInv, RunningIsHeld, ResultInv, db' \in [JobIds -> Row],
           NEW j \in JobIds, Effect(j, db'[j]),
           \A k \in JobIds \ {j} : db'[k] = db[k]
    PROVE  RowAction(j) \/ AbstractlyUnchanged
  <1>t. /\ db[j].status \in Status /\ db[j].attempts \in Nat
        /\ db[j].cancel \in BOOLEAN /\ db'[j].cancel \in BOOLEAN
    BY TypesOfRows DEF Row
  <1>p. Exists(j) => db[j].status \in Lifecycle!Present
    BY <1>t DEF Exists, Status, Terminal, Lifecycle!Present, Lifecycle!Over
  <1>f. ASSUME NEW s, NEW n, NEW c,
               db'[j].status = s, db'[j].attempts = n, db'[j].cancel = c
        PROVE  /\ [k \in JobIds |-> db'[k].status]
                    = [[k \in JobIds |-> db[k].status] EXCEPT ![j] = s]
               /\ [k \in JobIds |-> db'[k].attempts]
                    = [[k \in JobIds |-> db[k].attempts] EXCEPT ![j] = n]
               /\ [k \in JobIds |-> db'[k].cancel]
                    = [[k \in JobIds |-> db[k].cancel] EXCEPT ![j] = c]
    <2>1. \A k \in JobIds : k # j => db'[k] = db[k] OBVIOUS
    <2>2. [k \in JobIds |-> db'[k].status]
            = [[k \in JobIds |-> db[k].status] EXCEPT ![j] = s]
      BY <1>f, <2>1
    <2>3. [k \in JobIds |-> db'[k].attempts]
            = [[k \in JobIds |-> db[k].attempts] EXCEPT ![j] = n]
      BY <1>f, <2>1
    <2>4. [k \in JobIds |-> db'[k].cancel]
            = [[k \in JobIds |-> db[k].cancel] EXCEPT ![j] = c]
      BY <1>f, <2>1
    <2> QED BY <2>2, <2>3, <2>4
  <1>1. CASE Kept(j, db'[j])
    <2>1. CASE db'[j].cancel = db[j].cancel
      BY <1>1, <2>1 DEF Kept, AbstractlyUnchanged
    <2>2. CASE db'[j].cancel # db[j].cancel
      <3>1. /\ Exists(j) /\ db'[j].cancel = TRUE
            /\ db'[j].status = db[j].status /\ db'[j].attempts = db[j].attempts
        BY <1>1, <1>t, <2>2 DEF Kept
      <3>2. Lifecycle!RequestCancel(j)
        BY <1>p, <1>f, <3>1 DEF Lifecycle!RequestCancel, Lifecycle!Becomes
      <3> QED BY <3>2 DEF RowAction
    <2> QED BY <2>1, <2>2
  <1>2. CASE Taken(j, db'[j])
    <2>1. /\ db[j].status = "pending" /\ db[j].attempts < MaxAttempts[j]
          /\ \A k \in JobIds \ {j} : db[k].status = "running" => dbErrors > 0
      BY <1>2
      DEF Taken, AttemptsInv, AttemptsBounded, AttemptsLeft, RunningIsHeld, InFlight, Up
    <2>2. /\ db'[j].status = "running" /\ db'[j].attempts = db[j].attempts + 1
          /\ db[j].cancel => db'[j].cancel
      BY <1>2 DEF Taken
    <2>3. Lifecycle!Start(j)
      BY <1>t, <1>f, <2>1, <2>2
      DEF Lifecycle!Start, Lifecycle!Becomes, Lifecycle!CancelKept
    <2> QED BY <2>3 DEF RowAction
  <1>3. CASE Ended(j, db'[j])
    <2>1. /\ db'[j].status \in Lifecycle!Over /\ db'[j].attempts = db[j].attempts
          /\ Exists(j) /\ (db[j].cancel => db'[j].cancel)
      BY <1>3 DEF Ended, Terminal, Lifecycle!Over
    <2>2. Lifecycle!Finish(j)
      BY <1>t, <1>p, <1>f, <2>1
      DEF Lifecycle!Finish, Lifecycle!Becomes, Lifecycle!CancelKept
    <2> QED BY <2>2 DEF RowAction
  <1>4. CASE PutBack(j, db'[j])
    <2>1. db[j].attempts < MaxAttempts[j] /\ Exists(j) /\ db[j].status # "completed"
      BY <1>4 DEF PutBack, AttemptsInv, AttemptsLeft, ResultInv
    <2>2. /\ db'[j].status = "pending" /\ db'[j].attempts = db[j].attempts
          /\ db[j].cancel => db'[j].cancel
      BY <1>4 DEF PutBack
    <2>3. Lifecycle!PutBack(j)
      BY <1>t, <1>p, <1>f, <2>1, <2>2
      DEF Lifecycle!PutBack, Lifecycle!Becomes, Lifecycle!CancelKept
    <2> QED BY <2>3 DEF RowAction
  <1>5. CASE Born(j, db'[j])
    <2>1. /\ db'[j].status = "pending" /\ db'[j].attempts = 0
          /\ db'[j].cancel = FALSE
          /\ db[j].status \in {"none", "failed", "cancelled"}
      BY <1>5, <1>t DEF Born
    <2>2. Lifecycle!Submit(j) \/ Lifecycle!Reopen(j)
      BY <1>f, <2>1
      DEF Lifecycle!Submit, Lifecycle!Reopen, Lifecycle!Becomes, Lifecycle!CancelCleared
    <2> QED BY <2>2 DEF RowAction
  <1>6. CASE Dropped(j, db'[j])
    <2>1. /\ db'[j].status = "deleted" /\ db'[j].attempts = 0
          /\ db'[j].cancel = FALSE /\ Exists(j)
      BY <1>6, <1>t DEF Dropped
    <2>2. Lifecycle!Drop(j)
      BY <1>p, <1>f, <2>1
      DEF Lifecycle!Drop, Lifecycle!Becomes, Lifecycle!CancelCleared
    <2> QED BY <2>2 DEF RowAction
  <1> QED BY <1>1, <1>2, <1>3, <1>4, <1>5, <1>6 DEF Effect

\* The recovery is the abstract one.
LEMMA RecoverStep ==
    ASSUME Typed, db' = AllRecovered PROVE Lifecycle!Recover
  <1>1. ASSUME NEW k \in JobIds
        PROVE  /\ db'[k].status = IF db[k].status # "running" THEN db[k].status
                                  ELSE IF db[k].attempts < MaxAttempts[k]
                                  THEN "pending" ELSE "failed"
               /\ db'[k].attempts = db[k].attempts /\ db'[k].cancel = db[k].cancel
    BY <1>1 DEF AllRecovered, Recovered, AttemptsLeft, Fresh
  <1> QED BY <1>1 DEF Lifecycle!Recover

LEMMA LifecycleStep ==
    Typed /\ AttemptsInv /\ RunningIsHeld /\ ResultInv /\ [Next]_vars
        => [Lifecycle!Next]_Lifecycle!vars
  <1> SUFFICES ASSUME Typed, AttemptsInv, RunningIsHeld, ResultInv, [Next]_vars
               PROVE  Lifecycle!Next
    OBVIOUS
  <1>1. db' \in [JobIds -> Row] /\ \A k \in JobIds : Effect(k, db'[k])
    BY TableSteps DEF Legal
  <1>2. (dbErrors' > 0) = (dbErrors > 0) \/ (dbErrors' > 0) = TRUE
    BY ErrorsGrow
  <1>3. CASE UNCHANGED db BY <1>2, <1>3 DEF Lifecycle!Next
  <1>4. CASE OneRow(db')
    <2> PICK j \in JobIds : \A k \in JobIds \ {j} : db'[k] = db[k]
      BY <1>4 DEF OneRow
    <2>1. RowAction(j) \/ AbstractlyUnchanged BY <1>1, RowStep
    <2> QED BY <1>2, <2>1 DEF RowAction, AbstractlyUnchanged, Lifecycle!Next
  <1>5. CASE db' = AllRecovered
    BY <1>2, <1>5, RecoverStep DEF Lifecycle!Next
  <1> QED BY <1>3, <1>4, <1>5, StepShape DEF Shape

\* The job queue keeps the promises of JobLifecycle.
THEOREM RefinementTheorem == Spec => ImplementsLifecycle
  <1>1. Init => Lifecycle!Init
    BY DEF Init, Lifecycle!Init, Fresh
  <1>2. Typed /\ AttemptsInv /\ RunningIsHeld /\ ResultInv /\ [Next]_vars
            => [Lifecycle!Next]_Lifecycle!vars
    BY LifecycleStep
  <1>3. Init => AttemptsInv BY AttemptsInit
  <1>4. Typed /\ AttemptsInv /\ [Next]_vars => AttemptsInv'
    BY AttemptsStep
  <1>5. Init => ResultInv BY DEF Init, ResultInv
  <1>6. Typed /\ ResultInv /\ [Next]_vars => ResultInv'
    BY ResultStep
  <1> QED
    BY <1>1, <1>2, <1>3, <1>4, <1>5, <1>6, Typing, RunningTheorem, PTL
    DEF Spec, Typed, ImplementsLifecycle, Lifecycle!Spec

=============================================================================
