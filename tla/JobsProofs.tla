----------------------------- MODULE JobsProofs -----------------------------
(***************************************************************************)
(* Theorems about the job queue, for every set of jobs and requests, every  *)
(* max_attempts and every bound on crashes, failed statements and retries.  *)
(***************************************************************************)
EXTENDS Jobs, TLAPS

USE JobsAssumption

-----------------------------------------------------------------------------
(* Types *)

\* Whoever is between two statements about a job knows which job: the worker
\* from the claim to the event, the sweeper before its event.
Linked ==
    /\ rpc \in InFlightPc \cup {"emit"} => cur \in JobIds
    /\ spc = "emit" => swept \in JobIds

Typed == TypeOK /\ Linked

\* What the later proofs need of the types.
LEMMA TypesOfRows ==
    ASSUME Typed
    PROVE  /\ \A j \in JobIds : db[j] \in Row /\ db[j].status \in Status
                                /\ db[j].attempts \in Nat /\ db[j].cancel \in BOOLEAN
           /\ MaxAttempts \in [JobIds -> Nat \ {0}]
           /\ rpc \in InFlightPc \cup {"emit"} => cur \in JobIds
  BY DEF Typed, TypeOK, StoreOK, Row, Linked

\* A request takes and gives back its slot; one in progress is about a job.
LEMMA Requests ==
    ASSUME RequestsOK, NEW c \in Clients
    PROVE  /\ req' = [req EXCEPT ![c] = NoReq] => RequestsOK'
           /\ \A op \in Op, j \in JobIds :
                req' = [req EXCEPT ![c] = [op |-> op, job |-> j]] => RequestsOK'
           /\ req[c] # NoReq => req[c].op \in Op /\ req[c].job \in JobIds
           /\ req[c].op \in Op => req[c] # NoReq
  BY DEF RequestsOK, Request, NoReq, Op

-----------------------------------------------------------------------------
(* What the statements do to the table *)

\* What a statement may turn row k into: the same, a claimed job, a finished
\* one, one put back by a retry or by the recovery, a new life, nothing.
Kept(k, r) ==
    /\ r = db[k] \/ Exists(k)
    /\ r.status = db[k].status /\ r.attempts = db[k].attempts
    /\ db[k].cancel => r.cancel

Taken(k, r) ==
    /\ rpc = "claimed" /\ cur = k /\ db[k].status = "pending"
    /\ r.status = "running" /\ r.attempts = db[k].attempts + 1
    /\ db[k].cancel => r.cancel

Ended(k, r) ==
    /\ Exists(k)
    /\ r.status \in Terminal /\ r.attempts = db[k].attempts
    /\ r.status = "completed" => rpc = "completed" /\ cur = k
    /\ db[k].cancel => r.cancel

PutBack(k, r) ==
    /\ Exists(k)
    /\ \/ rpc = "requeue" /\ cur = k
       \/ rpc = "down" /\ db[k].status = "running" /\ AttemptsLeft(k)
    /\ r.status = "pending" /\ r.attempts = db[k].attempts
    /\ db[k].cancel => r.cancel

Born(k, r) ==
    /\ db[k].status \in {"none", "failed", "cancelled"}
    /\ r.status = "pending" /\ r.attempts = 0 /\ ~r.cancel

Dropped(k, r) ==
    /\ \E c \in Clients : req[c].op = "delete" /\ req[c].job = k
    /\ Exists(k)
    /\ r.status = "deleted" /\ r.attempts = 0 /\ ~r.cancel

Effect(k, r) ==
    \/ Kept(k, r) \/ Taken(k, r) \/ Ended(k, r)
    \/ PutBack(k, r) \/ Born(k, r) \/ Dropped(k, r)

Legal(t) == t \in [JobIds -> Row] /\ \A k \in JobIds : Effect(k, t[k])

\* An UPDATE by id writes its row when the row is there, and no other.
LEMMA UpdateRows ==
    ASSUME StoreOK, NEW j, NEW row, NEW k \in JobIds
    PROVE  Update(j, row)[k] = IF k = j /\ Exists(j) THEN row ELSE db[k]
  BY DEF StoreOK, Update

LEMMA LegalTable == ASSUME Typed PROVE Legal(db)
  BY DEF Legal, Effect, Kept, Typed, TypeOK, StoreOK

LEMMA LegalUpdate ==
    ASSUME Typed, NEW j \in JobIds, NEW row \in Row, Exists(j) => Effect(j, row)
    PROVE  Legal(Update(j, row))
  <1>1. StoreOK BY DEF Typed, TypeOK
  <1>2. Update(j, row) \in [JobIds -> Row] BY <1>1 DEF StoreOK, Update
  <1>3. ASSUME NEW k \in JobIds PROVE Effect(k, Update(j, row)[k])
    <2>1. CASE k = j /\ Exists(j) BY <1>1, <2>1, UpdateRows
    <2>2. CASE ~(k = j /\ Exists(j))
      <3>1. Update(j, row)[k] = db[k] BY <1>1, <2>2, UpdateRows
      <3> QED BY <3>1, LegalTable DEF Legal
    <2> QED BY <2>1, <2>2
  <1> QED BY <1>2, <1>3 DEF Legal

LEMMA FreshRow ==
    ASSUME NEW s \in Status, NEW a \in Nat, NEW c \in BOOLEAN
    PROVE  /\ Fresh(s, a, c) \in Row
           /\ Fresh(s, a, c).status = s /\ Fresh(s, a, c).attempts = a
           /\ c => Fresh(s, a, c).cancel
  BY DEF Fresh, Row

\* Ending a job, or leaving its status as it is.
LEMMA LegalSetStatus ==
    ASSUME Typed, NEW j \in JobIds, NEW s \in Status,
           \/ s = db[j].status \/ s \in Terminal \ {"completed"}
           \/ s = "completed" /\ rpc = "completed" /\ cur = j
           \/ s = "pending" /\ rpc = "requeue" /\ cur = j
    PROVE  Legal(SetStatus(j, s))
  <1> DEFINE row == Fresh(s, db[j].attempts, db[j].cancel)
  <1>1. db[j].attempts \in Nat /\ db[j].cancel \in BOOLEAN
    BY TypesOfRows DEF Row
  <1>2. /\ row \in Row /\ row.status = s /\ row.attempts = db[j].attempts
        /\ db[j].cancel => row.cancel
    BY <1>1, FreshRow
  <1>3. Exists(j) => Effect(j, row)
    <2> HIDE DEF row
    <2>1. CASE s = db[j].status BY <1>2, <2>1 DEF Effect, Kept
    <2>2. CASE \/ s \in Terminal \ {"completed"}
               \/ s = "completed" /\ rpc = "completed" /\ cur = j
      BY <1>2, <2>2 DEF Effect, Ended, Terminal
    <2>3. CASE s = "pending" /\ rpc = "requeue" /\ cur = j
      BY <1>2, <2>3 DEF Effect, PutBack
    <2> QED BY <2>1, <2>2, <2>3
  <1> QED BY <1>2, <1>3, LegalUpdate DEF SetStatus

LEMMA LegalClaimed == ASSUME Typed, rpc = "claimed" PROVE Legal(Claimed(cur))
  <1> DEFINE row == Fresh("running", db[cur].attempts + 1, db[cur].cancel)
  <1>1. cur \in JobIds BY TypesOfRows DEF InFlightPc
  <1>2. db[cur].attempts + 1 \in Nat /\ db[cur].cancel \in BOOLEAN
    <2>1. db[cur].attempts \in Nat BY <1>1, TypesOfRows
    <2>2. db[cur].cancel \in BOOLEAN BY <1>1, TypesOfRows
    <2> QED BY <2>1, <2>2
  <1>3. /\ row \in Row /\ row.status = "running"
        /\ row.attempts = db[cur].attempts + 1 /\ (db[cur].cancel => row.cancel)
    BY <1>2, FreshRow DEF Status
  <1>4. CASE db[cur].status = "pending"
    <2>1. Effect(cur, row)
      <3> HIDE DEF row
      <3> QED BY <1>3, <1>4 DEF Effect, Taken
    <2>2. Legal(Update(cur, row)) BY <1>1, <1>3, <2>1, LegalUpdate
    <2> QED BY <1>4, <2>2 DEF Claimed
  <1>5. CASE db[cur].status # "pending" BY <1>5, LegalTable DEF Claimed
  <1> QED BY <1>4, <1>5

LEMMA LegalMarked ==
    ASSUME Typed, rpc \in InFlightPc \ {"claimed", "handler", "retryable"}
    PROVE  Legal(Marked)
  <1>1. cur \in JobIds BY TypesOfRows DEF InFlightPc
  <1>2. CASE rpc \in Terminal
    <2>1. Marked = SetStatus(cur, rpc) BY <1>2 DEF Marked, Terminal
    <2> QED BY <1>1, <1>2, <2>1, LegalSetStatus DEF Status
  <1>3. CASE rpc = "requeue"
    <2>1. Marked = SetStatus(cur, "pending") BY <1>3 DEF Marked, Terminal
    <2> QED BY <1>1, <1>3, <2>1, LegalSetStatus DEF Status
  <1>4. CASE rpc \in {"unhandled", "exhausted"}
    <2>1. Marked = SetStatus(cur, "failed") BY <1>4 DEF Marked, Terminal
    <2> QED BY <1>1, <2>1, LegalSetStatus DEF Status, Terminal
  <1> QED BY <1>2, <1>3, <1>4 DEF InFlightPc, Terminal

\* A request's write: a cancel ends a job or raises its flag, a delete drops it.
LEMMA WrittenRow ==
    ASSUME Typed, NEW c \in Clients, req[c] # NoReq
    PROVE  /\ req[c].job \in JobIds
           /\ \E row \in Row :
                /\ Written(c) = Update(req[c].job, row)
                /\ Exists(req[c].job) => Effect(req[c].job, row)
                /\ req[c].op = "cancelPending" => row.status = "cancelled"
                /\ req[c].op = "cancelRunning" => row.cancel /\ row.status = db[req[c].job].status
  <1> DEFINE j == req[c].job
  <1>1. j \in JobIds /\ req[c].op \in Op BY Requests DEF Typed, TypeOK
  <1>2. db[j].attempts \in Nat /\ db[j].status \in Status BY <1>1, TypesOfRows
  <1>3. CASE req[c].op = "cancelPending"
    <2> DEFINE row == Fresh("cancelled", db[j].attempts, TRUE)
    <2>1. /\ row \in Row /\ row.status = "cancelled"
          /\ row.attempts = db[j].attempts /\ row.cancel
      BY <1>2 DEF Fresh, Row, Status, Terminal
    <2>2. Written(c) = Update(j, row) BY <1>3 DEF Written
    <2>3. Exists(j) => Effect(j, row)
      <3> HIDE DEF row, j
      <3> QED BY <2>1 DEF Effect, Ended, Terminal
    <2> QED BY <1>1, <1>3, <2>1, <2>2, <2>3
  <1>4. CASE req[c].op = "cancelRunning"
    <2> DEFINE row == Fresh(db[j].status, db[j].attempts, TRUE)
    <2>1. /\ row \in Row /\ row.status = db[j].status
          /\ row.attempts = db[j].attempts /\ row.cancel
      BY <1>2 DEF Fresh, Row
    <2>2. Written(c) = Update(j, row) BY <1>4 DEF Written
    <2>3. Exists(j) => Effect(j, row)
      <3> HIDE DEF row, j
      <3> QED BY <2>1 DEF Effect, Kept
    <2> QED BY <1>1, <1>4, <2>1, <2>2, <2>3
  <1>5. CASE req[c].op = "delete"
    <2> DEFINE row == Fresh("deleted", 0, FALSE)
    <2>1. row \in Row /\ row.status = "deleted" /\ row.attempts = 0 /\ ~row.cancel
      BY DEF Fresh, Row, Status
    <2>2. Written(c) = Update(j, row) BY <1>5 DEF Written
    <2>3. Exists(j) => Effect(j, row)
      <3>1. \E d \in Clients : req[d].op = "delete" /\ req[d].job = j BY <1>5
      <3> HIDE DEF row, j
      <3> QED BY <2>1, <3>1 DEF Effect, Dropped
    <2> QED BY <1>1, <1>5, <2>1, <2>2, <2>3
  <1> QED BY <1>1, <1>3, <1>4, <1>5 DEF Op

LEMMA LegalWritten ==
    ASSUME Typed, NEW c \in Clients, req[c] # NoReq PROVE Legal(Written(c))
  <1>1. PICK row \in Row : /\ Written(c) = Update(req[c].job, row)
                           /\ Exists(req[c].job) => Effect(req[c].job, row)
    BY WrittenRow
  <1>2. req[c].job \in JobIds BY WrittenRow
  <1>3. Legal(Update(req[c].job, row)) BY <1>1, <1>2, LegalUpdate
  <1> QED BY <1>1, <1>3

LEMMA LegalBirths ==
    ASSUME Typed, NEW j \in JobIds
    PROVE  /\ db[j].status = "none" => Legal(Created(j))
           /\ db[j].status \in {"failed", "cancelled"}
              => Legal(Update(j, Fresh("pending", 0, FALSE)))
  <1> DEFINE row == Fresh("pending", 0, FALSE)
  <1>1. row \in Row /\ row.status = "pending" /\ row.attempts = 0 /\ ~row.cancel
    BY DEF Fresh, Row, Status
  <1>2. db[j].status \in {"none", "failed", "cancelled"} => Effect(j, row)
    <2> HIDE DEF row
    <2> QED BY <1>1 DEF Effect, Born
  <1>3. ASSUME db[j].status = "none" PROVE Legal(Created(j))
    <2>1. Created(j) \in [JobIds -> Row]
      BY <1>1 DEF Created, Typed, TypeOK, StoreOK
    <2>2. ASSUME NEW k \in JobIds PROVE Effect(k, Created(j)[k])
      <3>1. CASE k = j
        BY <1>2, <1>3, <3>1 DEF Created, Typed, TypeOK, StoreOK
      <3>2. CASE k # j
        <4>1. Created(j)[k] = db[k] BY <3>2 DEF Created, Typed, TypeOK, StoreOK
        <4> QED BY <4>1, LegalTable DEF Legal
      <3> QED BY <3>1, <3>2
    <2> QED BY <2>1, <2>2 DEF Legal
  <1> QED BY <1>1, <1>2, <1>3, LegalUpdate

LEMMA LegalAged ==
    ASSUME Typed, NEW j \in JobIds, Age(j) PROVE Legal(db')
  <1>1. StoreOK BY DEF Typed, TypeOK
  <1>2. db' \in [JobIds -> Row] BY <1>1 DEF Age, StoreOK, Row, Status
  <1>3. ASSUME NEW k \in JobIds PROVE Kept(k, db'[k])
    BY <1>1, <1>3 DEF Age, StoreOK, Kept, Exists
  <1> QED BY <1>2, <1>3 DEF Legal, Effect

\* The recovery leaves no running row, and puts back jobs with attempts left.
LEMMA LegalRecovered ==
    ASSUME Typed, rpc = "down"
    PROVE  /\ Legal(AllRecovered)
           /\ \A k \in JobIds : AllRecovered[k].status # "running"
  <1>1. ASSUME NEW k \in JobIds
        PROVE  Recovered(k) \in Row /\ Effect(k, Recovered(k))
               /\ Recovered(k).status # "running"
    <2>1. db[k] \in Row /\ db[k].attempts \in Nat /\ db[k].cancel \in BOOLEAN
      BY <1>1, TypesOfRows DEF Row
    <2>2. CASE db[k].status # "running"
      BY <1>1, <2>1, <2>2, LegalTable DEF Recovered, Legal
    <2>3. CASE db[k].status = "running" /\ AttemptsLeft(k)
      <3> DEFINE row == Fresh("pending", db[k].attempts, db[k].cancel)
      <3>1. /\ row \in Row /\ row.status = "pending"
            /\ row.attempts = db[k].attempts /\ (db[k].cancel => row.cancel)
        <4>1. "pending" \in Status BY DEF Status
        <4> QED BY <2>1, <4>1, FreshRow
      <3>2. Recovered(k) = row BY <2>3 DEF Recovered
      <3> HIDE DEF row
      <3> QED BY <2>3, <3>1, <3>2 DEF Effect, PutBack, Exists
    <2>4. CASE db[k].status = "running" /\ ~AttemptsLeft(k)
      <3> DEFINE row == Fresh("failed", db[k].attempts, db[k].cancel)
      <3>1. /\ row \in Row /\ row.status = "failed"
            /\ row.attempts = db[k].attempts /\ (db[k].cancel => row.cancel)
        BY <2>1, FreshRow DEF Status, Terminal
      <3>2. Recovered(k) = row BY <2>4 DEF Recovered
      <3> HIDE DEF row
      <3> QED BY <2>4, <3>1, <3>2 DEF Effect, Ended, Exists, Terminal
    <2> QED BY <2>2, <2>3, <2>4
  <1> QED BY <1>1 DEF AllRecovered, Legal

\* A statement that raises leaves one of two legal tables.
LEMMA LegalError ==
    ASSUME Typed, NEW after, Legal(after), DbError(after) PROVE Legal(db')
  BY LegalTable DEF DbError

\* So does one that another coroutine's rollback may undo.
LEMMA LegalWrites ==
    ASSUME Typed, NEW after, Legal(after), Committed(after) \/ Undone \/ Writes(after)
    PROVE  Legal(db')
  BY LegalTable DEF Committed, Undone, Writes

\* Every step of the queue has one of these effects on every row.
LEMMA TableSteps == Typed /\ [Next]_vars => Legal(db')
  <1> SUFFICES ASSUME Typed, [Next]_vars PROVE Legal(db') OBVIOUS
  <1>c. rpc \in InFlightPc => cur \in JobIds /\ db[cur].status \in Status
    BY TypesOfRows
  <1>1. CASE UNCHANGED db BY <1>1, LegalTable
  <1>2. CASE ClaimUpdate BY <1>2, LegalClaimed, LegalWrites DEF ClaimUpdate
  <1>3. CASE ClaimError
    BY <1>3, LegalTable, LegalClaimed, LegalError DEF ClaimError
  <1>4. CASE HandlerProgress \/ ProgressError
    <2>1. rpc = "handler" BY <1>4 DEF HandlerProgress, ProgressError
    <2>2. Legal(SetStatus(cur, db[cur].status))
      BY <1>c, <2>1, LegalSetStatus DEF InFlightPc
    <2> QED
      BY <1>4, <2>2, LegalTable, LegalWrites, LegalError
      DEF HandlerProgress, ProgressError
  <1>5. CASE Mark \/ RetryRequeue \/ RetryExhausted
    BY <1>5, LegalMarked, LegalWrites
    DEF Mark, RetryRequeue, RetryExhausted, InFlightPc, Terminal
  <1>6. CASE MarkError
    BY <1>6, LegalTable, LegalMarked, LegalError DEF MarkError
  <1>7. CASE \E j \in JobIds : Age(j) BY <1>7, LegalAged
  <1>8. CASE SweepError \/ \E j \in JobIds : SweepMark(j)
    <2>1. \A j \in JobIds : Legal(SetStatus(j, "failed"))
      BY LegalSetStatus DEF Terminal, Status
    <2>2. todo \subseteq JobIds BY DEF Typed, TypeOK, LoopsOK
    <2> QED BY <1>8, <2>1, <2>2, LegalWrites, LegalError DEF SweepError, SweepMark
  <1>9. CASE \E j \in JobIds : Create(j) \/ CreateError(j) \/ Retry(j) \/ RetryError(j)
    BY <1>9, LegalBirths, LegalWrites, LegalError
    DEF Create, CreateError, Creatable, Retry, RetryError, Retryable
  <1>10. CASE \E c \in Clients : Write(c) \/ WriteError(c)
    <2> PICK c \in Clients : Write(c) \/ WriteError(c) BY <1>10
    <2>1. req[c] # NoReq
      BY DEF Write, CancelPendingWrite, CancelRunningWrite, DeleteWrite, WriteError, NoReq
    <2>2. Legal(Written(c)) BY <2>1, LegalWritten
    <2> QED
      BY <2>2, LegalWrites, LegalError
      DEF Write, CancelPendingWrite, CancelRunningWrite, DeleteWrite, WriteError
  <1>11. CASE Boot \/ BootError
    BY <1>11, LegalRecovered, LegalWrites, LegalError DEF Boot, BootError
  <1>12. \/ ClaimSelect \/ Wake \/ HandlerReturns \/ HandlerSeesCancel
         \/ RetryCheck \/ Emit \/ SweepFind \/ SweepEmit \/ Crash \/ UNCHANGED vars
         \/ \E c \in Clients, j \in JobIds : CancelRead(c, j) \/ DeleteRead(c, j)
         => UNCHANGED db
    BY DEF ClaimSelect, Wake, HandlerReturns, HandlerSeesCancel, HandlerEnds,
           RetryCheck, Emit, SweepFind, SweepEmit, Crash, CancelRead, DeleteRead, vars
  <1> QED
    BY <1>1, <1>2, <1>3, <1>4, <1>5, <1>6, <1>7, <1>8, <1>9, <1>10, <1>11, <1>12
    DEF Next, Runner, Sweep

-----------------------------------------------------------------------------
(* Type correctness *)

LEMMA TypedStep == Typed /\ [Next]_vars => Typed'
  <1> SUFFICES ASSUME TypeOK, Linked, [Next]_vars PROVE Typed'
    BY DEF Typed
  <1> USE DEF Linked, TypeOK, LoopsOK, CountsOK, InFlightPc, RunnerPc, Terminal
  <1> USE DEF overlay, runner, sweeper, history, counts
  <1>a. db' \in [JobIds -> Row]
    BY TableSteps DEF Typed, Legal
  <1>b. UNCHANGED overlay => StoreOK' BY <1>a DEF StoreOK
  <1>c. UNCHANGED req => RequestsOK' BY DEF RequestsOK
  <1>d. \A after : DbError(after) \/ Writes(after)
          => dbErrors' \in 0 .. MaxDbErrors /\ UNCHANGED <<crashes, resets>>
    BY DEF DbError, Writes, Committed, Undone, Fault
  <1>g. \A after : Committed(after) \/ Undone => dbErrors' \in 0 .. MaxDbErrors
    BY DEF Committed, Undone, Fault
  <1>e. \A j \in JobIds : Purge(j) => StoreOK' BY <1>a DEF Purge, StoreOK
  <1>f. Linked' /\ LoopsOK' /\ StoreOK' /\ RequestsOK' /\ CountsOK' => Typed'
    BY DEF Typed
  <1>1. CASE ClaimSelect BY <1>1, <1>b, <1>c, <1>f DEF ClaimSelect, Claimable
  <1>2. CASE Wake BY <1>2, <1>b, <1>c, <1>f DEF Wake
  <1>3. CASE ClaimUpdate
    <2>1. StoreOK' BY <1>3, <1>a DEF ClaimUpdate, StoreOK
    <2> QED BY <1>3, <1>c, <1>d, <1>f, <2>1 DEF ClaimUpdate
  <1>4. CASE ClaimError BY <1>4, <1>b, <1>c, <1>d, <1>f DEF ClaimError
  <1>5. CASE HandlerProgress
    <2>1. StoreOK' BY <1>5, <1>a DEF HandlerProgress, StoreOK
    <2> QED BY <1>5, <1>c, <1>d, <1>f, <2>1 DEF HandlerProgress
  <1>6. CASE ProgressError
    <2>1. StoreOK' BY <1>6, <1>a DEF ProgressError, StoreOK
    <2> QED BY <1>6, <1>c, <1>d, <1>f, <2>1 DEF ProgressError
  <1>7. CASE HandlerReturns \/ HandlerSeesCancel
    BY <1>7, <1>b, <1>c, <1>f DEF HandlerReturns, HandlerSeesCancel, HandlerEnds
  <1>8. CASE Mark BY <1>8, <1>c, <1>d, <1>e, <1>f DEF Mark
  <1>9. CASE RetryCheck BY <1>9, <1>b, <1>c, <1>f DEF RetryCheck
  <1>10. CASE RetryRequeue BY <1>10, <1>b, <1>c, <1>d, <1>f DEF RetryRequeue
  <1>11. CASE RetryExhausted BY <1>11, <1>c, <1>d, <1>e, <1>f DEF RetryExhausted
  <1>12. CASE MarkError BY <1>12, <1>b, <1>c, <1>d, <1>f DEF MarkError
  <1>13. CASE Emit BY <1>13, <1>b, <1>c, <1>f DEF Emit, Emitted
  <1>14. CASE \E j \in JobIds : Age(j) BY <1>14, <1>b, <1>c, <1>f DEF Age
  <1>15. CASE SweepFind BY <1>15, <1>b, <1>c, <1>f DEF SweepFind, Stalled
  <1>16. CASE \E j \in JobIds : SweepMark(j) 
    BY <1>16, <1>c, <1>d, <1>e, <1>f DEF SweepMark
  <1>17. CASE SweepEmit BY <1>17, <1>b, <1>c, <1>f DEF SweepEmit, Emitted
  <1>18. CASE SweepError BY <1>18, <1>b, <1>c, <1>d, <1>f DEF SweepError
  <1>19. CASE \E j \in JobIds : Create(j)
    BY <1>19, <1>b, <1>c, <1>d, <1>f DEF Create, Woken
  <1>20. CASE \E j \in JobIds : CreateError(j)
    BY <1>20, <1>b, <1>c, <1>d, <1>f DEF CreateError
  <1>21. CASE \E c \in Clients, j \in JobIds : CancelRead(c, j)
    <2>1. StoreOK' BY <1>21, <1>a DEF CancelRead, StoreOK
    <2>2. RequestsOK' BY <1>21, Requests DEF CancelRead, Op
    <2>3. LoopsOK' /\ Linked' BY <1>21 DEF CancelRead
    <2>4. CountsOK' BY <1>21 DEF CancelRead
    <2> QED BY <2>1, <2>2, <2>3, <2>4, <1>f
  <1>22. CASE \E c \in Clients : Write(c)
    <2> PICK c \in Clients : Write(c) BY <1>22
    <2>1. RequestsOK'
      BY Requests DEF Write, CancelPendingWrite, CancelRunningWrite, DeleteWrite
    <2>2. CASE CancelPendingWrite(c)
      <3>1. req[c].job \in JobIds BY <2>2, Requests DEF CancelPendingWrite, Op
      <3> QED BY <2>1, <2>2, <3>1, <1>d, <1>e, <1>f DEF CancelPendingWrite
    <2>3. CASE CancelRunningWrite(c) 
      BY <2>1, <2>3, <1>b, <1>g, <1>f DEF CancelRunningWrite
    <2>4. CASE DeleteWrite(c) BY <2>1, <2>4, <1>b, <1>g, <1>f DEF DeleteWrite
    <2> QED BY <2>2, <2>3, <2>4 DEF Write
  <1>23. CASE \E c \in Clients : WriteError(c)
    <2>1. RequestsOK' BY <1>23, Requests DEF WriteError
    <2> QED BY <1>23, <2>1, <1>b, <1>d, <1>f DEF WriteError
  <1>24. CASE \E j \in JobIds : Retry(j)
    <2> PICK j \in JobIds : Retry(j) BY <1>24
    <2>1. dbErrors' \in 0 .. MaxDbErrors BY <1>g DEF Retry
    <2>2. resets' \in 0 .. MaxResets /\ crashes' \in 0 .. MaxCrashes
      BY DEF Retry, Retryable
    <2>3. /\ heard' \in [JobIds -> 0 .. EventCap]
          /\ asked' \in SUBSET JobIds /\ told' \in SUBSET JobIds
      <3>1. CASE UNCHANGED history BY <3>1
      <3>2. CASE /\ heard' = [heard EXCEPT ![j] = 0]
                 /\ asked' = asked \ {j} /\ told' = told \ {j}
        BY <3>2
      <3> QED BY <3>1, <3>2 DEF Retry
    <2> QED BY <2>1, <2>2, <2>3, <1>b, <1>c, <1>f DEF Retry
  <1>25. CASE \E j \in JobIds : RetryError(j)
    BY <1>25, <1>b, <1>c, <1>d, <1>f DEF RetryError
  <1>26. CASE \E c \in Clients, j \in JobIds : DeleteRead(c, j)
    <2>1. RequestsOK' BY <1>26, Requests DEF DeleteRead, Op
    <2> QED BY <1>26, <2>1, <1>b, <1>f DEF DeleteRead
  <1>27. CASE Crash
    <2>1. StoreOK' BY <1>27, <1>a DEF Crash, StoreOK
    <2>2. RequestsOK' BY <1>27 DEF Crash, RequestsOK, Request
    <2>3. LoopsOK' /\ Linked' BY <1>27 DEF Crash
    <2>4. CountsOK' BY <1>27 DEF Crash
    <2> QED BY <2>1, <2>2, <2>3, <2>4, <1>f
  <1>28. CASE Boot BY <1>28, <1>b, <1>c, <1>d, <1>f DEF Boot, Start
  <1>29. CASE BootError BY <1>29, <1>b, <1>c, <1>d, <1>f DEF BootError, Start
  <1>30. CASE UNCHANGED vars BY <1>30, <1>b, <1>c, <1>f DEF vars
  <1> QED
    BY <1>1, <1>2, <1>3, <1>4, <1>5, <1>6, <1>7, <1>8, <1>9, <1>10, <1>11,
       <1>12, <1>13, <1>14, <1>15, <1>16, <1>17, <1>18, <1>19, <1>20, <1>21,
       <1>22, <1>23, <1>24, <1>25, <1>26, <1>27, <1>28, <1>29, <1>30
    DEF Next, Runner, Sweep

\* The types hold in every reachable state of every instance.
THEOREM Typing == Spec => [](TypeOK /\ Linked)
  <1>1. Init => Typed
    <2> SUFFICES ASSUME Init PROVE Typed OBVIOUS
    <2>1. StoreOK BY DEF Init, StoreOK, Fresh, Row, Status
    <2>2. RequestsOK BY DEF Init, RequestsOK, Request
    <2>3. LoopsOK /\ Linked
      BY DEF Init, LoopsOK, Linked, RunnerPc, InFlightPc
    <2>4. CountsOK BY DEF Init, CountsOK
    <2> QED BY <2>1, <2>2, <2>3, <2>4 DEF Typed, TypeOK
  <1>2. Typed /\ [Next]_vars => Typed'
    BY TypedStep
  <1> QED BY <1>1, <1>2, PTL DEF Spec, Typed

-----------------------------------------------------------------------------
(* The number of attempts *)

\* A retry that has found attempts left still has them when it writes: only
\* the claim counts up, and the worker cannot claim in between.
AttemptsInv ==
    /\ AttemptsBounded
    /\ \A j \in JobIds :
         rpc = "requeue" /\ cur = j /\ Exists(j) => AttemptsLeft(j)

\* Only mark_failed's check takes the worker to the requeue.
LEMMA RequeueStep ==
    ASSUME [Next]_vars, rpc' = "requeue"
    PROVE  \/ rpc = "requeue" /\ cur' = cur
           \/ UNCHANGED <<db, cur>> /\ Exists(cur) /\ AttemptsLeft(cur)
  <1> USE DEF runner, sweeper, Terminal
  <1>1. CASE RetryCheck BY <1>1 DEF RetryCheck
  <1>2. CASE UNCHANGED runner BY <1>2
  <1>3. ~(\/ ClaimSelect \/ Wake \/ ClaimUpdate \/ HandlerReturns
          \/ HandlerSeesCancel \/ Mark \/ RetryRequeue \/ RetryExhausted \/ Emit)
    BY DEF ClaimSelect, Wake, ClaimUpdate, HandlerReturns, HandlerSeesCancel,
           HandlerEnds, Mark, RetryRequeue, RetryExhausted, Emit
  <1>4. ~(ClaimError \/ MarkError \/ Crash \/ Boot \/ BootError)
    BY DEF ClaimError, MarkError, Crash, Boot, BootError, Start
  <1>5. \/ HandlerProgress \/ ProgressError \/ SweepFind \/ SweepEmit
        \/ SweepError \/ UNCHANGED vars
        \/ \E j \in JobIds : \/ Age(j) \/ SweepMark(j) \/ Create(j)
                             \/ CreateError(j) \/ Retry(j) \/ RetryError(j)
        \/ \E c \in Clients, j \in JobIds : CancelRead(c, j) \/ DeleteRead(c, j)
        \/ \E c \in Clients : Write(c) \/ WriteError(c)
        => UNCHANGED runner
    BY DEF HandlerProgress, ProgressError, SweepFind, SweepEmit, SweepError, vars,
           Age, SweepMark, Create, CreateError, Retry, RetryError, CancelRead,
           DeleteRead, Write, CancelPendingWrite, CancelRunningWrite, DeleteWrite,
           WriteError
  <1> QED BY <1>1, <1>2, <1>3, <1>4, <1>5 DEF Next, Runner, Sweep

LEMMA AttemptsStep == Typed /\ AttemptsInv /\ [Next]_vars => AttemptsInv'
  <1> SUFFICES ASSUME Typed, AttemptsInv, [Next]_vars, NEW k \in JobIds
               PROVE  (/\ db[k].attempts <= MaxAttempts[k]
                       /\ db[k].status = "pending" => AttemptsLeft(k)
                       /\ rpc = "requeue" /\ cur = k /\ Exists(k) => AttemptsLeft(k))'
    BY DEF AttemptsInv, AttemptsBounded
  <1>1. Effect(k, db'[k]) BY TableSteps DEF Legal
  <1>2. /\ db[k].attempts \in Nat /\ MaxAttempts[k] \in Nat \ {0}
        /\ db[k].attempts <= MaxAttempts[k]
        /\ db[k].status = "pending" => db[k].attempts < MaxAttempts[k]
        /\ rpc = "requeue" /\ cur = k /\ Exists(k) => db[k].attempts < MaxAttempts[k]
    BY TypesOfRows DEF AttemptsInv, AttemptsBounded, AttemptsLeft
  <1>3. /\ db'[k].attempts <= MaxAttempts[k]
        /\ db'[k].status = "pending" => db'[k].attempts < MaxAttempts[k]
    BY <1>1, <1>2
    DEF Effect, Kept, Taken, Ended, PutBack, Born, Dropped, AttemptsLeft, Terminal
  <1>4. ASSUME rpc' = "requeue", cur' = k, Exists(k)'
        PROVE  db'[k].attempts < MaxAttempts[k]
    <2>1. CASE rpc = "requeue" /\ cur' = cur
      BY <1>1, <1>2, <1>4, <2>1
      DEF Effect, Kept, Taken, Ended, PutBack, Born, Dropped, Exists
    <2>2. CASE UNCHANGED <<db, cur>> /\ AttemptsLeft(cur)
      BY <1>4, <2>2 DEF AttemptsLeft
    <2> QED BY <1>4, <2>1, <2>2, RequeueStep
  <1> QED BY <1>3, <1>4 DEF AttemptsLeft

LEMMA AttemptsInit == Init => AttemptsInv
  BY DEF Init, AttemptsInv, AttemptsBounded, AttemptsLeft, Fresh

\* No job is tried more often than max_attempts, and what is pending can still
\* be tried, for any number of jobs, requests, crashes and failed statements.
THEOREM AttemptsTheorem == Spec => []AttemptsBounded
  <1>1. Init => AttemptsInv BY AttemptsInit
  <1>2. Typed /\ AttemptsInv /\ [Next]_vars => AttemptsInv'
    BY AttemptsStep
  <1>3. AttemptsInv => AttemptsBounded
    BY DEF AttemptsInv
  <1> QED BY <1>1, <1>2, <1>3, Typing, PTL DEF Spec, Typed

-----------------------------------------------------------------------------
(* Steps without a fault *)

\* The actions in which a statement raises.
Errors ==
    \/ ClaimError \/ ProgressError \/ MarkError \/ SweepError \/ BootError
    \/ \E j \in JobIds : CreateError(j) \/ RetryError(j)
    \/ \E c \in Clients : WriteError(c)

\* Without a fault no statement raises, and what is written stays.
LEMMA NoFault ==
    ASSUME ~Fault
    PROVE  ~Errors /\ ~Undone /\ \A after : Writes(after) => Committed(after)
  BY DEF Errors, Undone, Writes, DbError, ClaimError, ProgressError, MarkError,
         SweepError, BootError, CreateError, RetryError, WriteError

\* A step counts its fault, and only a fault is counted.
LEMMA FaultsCounted ==
    ASSUME Typed, [Next]_vars
    PROVE  dbErrors \in Nat /\ (dbErrors' = dbErrors \/ Fault)
  <1>1. dbErrors \in Nat BY DEF Typed, TypeOK, CountsOK
  <1>2. CASE ~Fault
    <2>1. ~Errors /\ ~Undone /\ \A after : Writes(after) => dbErrors' = dbErrors
      BY <1>2, NoFault DEF Committed
    <2>2. CASE \/ ClaimUpdate \/ HandlerProgress \/ Mark \/ RetryRequeue
               \/ RetryExhausted \/ Boot \/ \E j \in JobIds : SweepMark(j) \/ Create(j)
      BY <1>1, <2>1, <2>2
      DEF ClaimUpdate, HandlerProgress, Mark, RetryRequeue, RetryExhausted, Boot,
          SweepMark, Create, counts
    <2>4. CASE \E j \in JobIds : Retry(j) 
      BY <1>1, <2>1, <2>4 DEF Retry, Committed
    <2>5. CASE \E c \in Clients : Write(c)
      BY <1>1, <2>1, <2>5
      DEF Write, CancelPendingWrite, CancelRunningWrite, DeleteWrite, Committed
    <2>3. \/ ClaimSelect \/ Wake \/ HandlerReturns \/ HandlerSeesCancel \/ RetryCheck
          \/ Emit \/ SweepFind \/ SweepEmit \/ Crash \/ UNCHANGED vars
          \/ \E j \in JobIds : Age(j)
          \/ \E c \in Clients, j \in JobIds : CancelRead(c, j) \/ DeleteRead(c, j)
          => dbErrors' = dbErrors
      BY DEF vars, counts, ClaimSelect, Wake, HandlerReturns, HandlerSeesCancel,
             HandlerEnds, RetryCheck, Emit, Age, SweepFind, SweepEmit, CancelRead,
             DeleteRead, Crash
    <2> QED BY <2>1, <2>2, <2>3, <2>4, <2>5, <1>1 DEF Errors, Next, Runner, Sweep
  <1> QED BY <1>1, <1>2

\* While the count is zero no fault has happened.
LEMMA ErrorsCounted ==
    ASSUME Typed, [Next]_vars, dbErrors' = 0
    PROVE  /\ dbErrors = 0 /\ ~Errors /\ ~Undone
           /\ \A after : Writes(after) => db' = after
  <1>1. dbErrors = 0 /\ ~Fault BY FaultsCounted DEF Fault
  <1> QED BY <1>1, NoFault DEF Committed

-----------------------------------------------------------------------------
(* Running rows *)

\* The worker's last write of a job does not leave its row running.
LEMMA MarkedRows ==
    ASSUME StoreOK, NEW k \in JobIds
    PROVE  /\ k # cur => Marked[k] = db[k]
           /\ k = cur => Marked[k].status # "running"
  <1> DEFINE s == IF rpc = "requeue" THEN "pending"
                  ELSE IF rpc \in Terminal THEN rpc ELSE "failed"
  <1> DEFINE row == Fresh(s, db[cur].attempts, db[cur].cancel)
  <1>1. Marked = Update(cur, row) BY DEF Marked, SetStatus
  <1>2. row.status = s /\ s # "running" BY DEF Fresh, Terminal
  <1> HIDE DEF row
  <1>3. Marked[k] = IF k = cur /\ Exists(cur) THEN row ELSE db[k]
    BY <1>1, UpdateRows
  <1> QED BY <1>2, <1>3 DEF Exists

LEMMA RunningStep == Typed /\ RunningIsHeld /\ [Next]_vars => RunningIsHeld'
  <1> SUFFICES ASSUME Typed, RunningIsHeld, [Next]_vars, dbErrors' = 0,
                      NEW k \in JobIds, db'[k].status = "running"
               PROVE  (InFlight(k) \/ ~Up)'
    <2>1. Typed /\ [Next]_vars => dbErrors' = 0 \/ dbErrors' > 0
      BY FaultsCounted DEF Fault
    <2> QED BY <2>1 DEF RunningIsHeld
  <1>t. StoreOK BY DEF Typed, TypeOK
  <1>n. /\ dbErrors = 0 /\ ~Errors
        /\ \A after : Writes(after) => db' = after
    BY ErrorsCounted
  <1>h. db[k].status = "running" => InFlight(k) \/ ~Up BY <1>n DEF RunningIsHeld
  <1>e. \/ db[k].status = "running"
        \/ rpc = "claimed" /\ cur = k
    BY TableSteps
    DEF Legal, Effect, Kept, Taken, Ended, PutBack, Born, Dropped, Terminal
  <1> USE DEF InFlight, Up, InFlightPc, Terminal
  <1> USE DEF overlay, runner, sweeper, history, counts
  <1>1. CASE UNCHANGED runner BY <1>1, <1>e, <1>h
  <1>2. CASE ClaimSelect \/ Wake \/ HandlerReturns \/ HandlerSeesCancel
             \/ RetryCheck \/ Emit
    BY <1>2, <1>h
    DEF ClaimSelect, Wake, HandlerReturns, HandlerSeesCancel, HandlerEnds,
        RetryCheck, Emit
  <1>3. CASE ClaimUpdate BY <1>3, <1>e, <1>h DEF ClaimUpdate
  <1>4. CASE Mark \/ RetryRequeue \/ RetryExhausted
    <2>1. db' = Marked BY <1>4, <1>n DEF Mark, RetryRequeue, RetryExhausted
    <2>2. k # cur /\ db[k].status = "running" BY <1>t, <2>1, MarkedRows
    <2> QED BY <1>4, <1>h, <2>2 DEF Mark, RetryRequeue, RetryExhausted
  <1>5. CASE Crash BY <1>5 DEF Crash
  <1>6. CASE Boot
    <2>1. db' = AllRecovered BY <1>6, <1>n DEF Boot
    <2> QED BY <1>6, <2>1, LegalRecovered DEF Boot
  <1>7. \/ HandlerProgress \/ SweepFind \/ SweepEmit \/ UNCHANGED vars
        \/ \E j \in JobIds : Age(j) \/ SweepMark(j) \/ Create(j) \/ Retry(j)
        \/ \E c \in Clients, j \in JobIds : CancelRead(c, j) \/ DeleteRead(c, j)
        \/ \E c \in Clients : Write(c)
        => UNCHANGED runner
    BY DEF HandlerProgress, SweepFind, SweepEmit, vars, Age, SweepMark, Create, Retry,
           CancelRead, DeleteRead, Write, CancelPendingWrite, CancelRunningWrite,
           DeleteWrite
  <1> QED
    BY <1>n, <1>1, <1>2, <1>3, <1>4, <1>5, <1>6, <1>7
    DEF Next, Runner, Sweep, Errors

\* While no statement raises or is undone, a running row is the job in the
\* worker's hands.
THEOREM RunningTheorem == Spec => []RunningIsHeld
  <1>1. Init => RunningIsHeld
    BY DEF Init, RunningIsHeld, Fresh
  <1>2. Typed /\ RunningIsHeld /\ [Next]_vars => RunningIsHeld'
    BY RunningStep
  <1> QED BY <1>1, <1>2, Typing, PTL DEF Spec, Typed

-----------------------------------------------------------------------------
(* Sleep and wakeup *)

LEMMA WakeupStep == Typed /\ NoLostWakeup /\ [Next]_vars => NoLostWakeup'
  <1> SUFFICES ASSUME Typed, NoLostWakeup, [Next]_vars,
                      rpc' = "asleep", ~wakeup', dbErrors' = 0,
                      NEW k \in JobIds, k \in Claimable'
               PROVE  k \in Quiet
    BY DEF NoLostWakeup, Claimable
  <1>t. StoreOK /\ wakeup \in BOOLEAN BY DEF Typed, TypeOK, LoopsOK
  <1>n. /\ dbErrors = 0 /\ ~Errors /\ ~Undone
        /\ \A after : Writes(after) => db' = after
    BY ErrorsCounted
  <1>h. rpc = "asleep" /\ ~wakeup /\ k \in Claimable => k \in Quiet
    BY <1>n DEF NoLostWakeup
  <1> USE DEF overlay, runner, sweeper, history, counts
  <1>1. CASE UNCHANGED <<rpc, wakeup>> /\ k \in Claimable BY <1>1, <1>h
  <1>2. CASE ClaimSelect BY <1>2 DEF ClaimSelect, Claimable
  <1>3. CASE \E j \in JobIds : Create(j)
    <2> PICK j \in JobIds : Create(j) BY <1>3
    <2>1. CASE k = j BY <2>1, <1>t DEF Create, Woken
    <2>2. CASE k # j
      <3>1. db'[k] = db[k] BY <2>2, <1>n, <1>t DEF Create, Created, StoreOK
      <3>2. k \in Claimable BY <3>1 DEF Claimable
      <3>3. UNCHANGED rpc /\ (wakeup => wakeup') BY <1>t DEF Create, Woken
      <3> QED BY <3>2, <3>3, <1>h
    <2> QED BY <2>1, <2>2
  <1>4. CASE \E j \in JobIds : Retry(j) BY <1>4 DEF Retry
  <1>5. CASE \/ \E j \in JobIds : Age(j) \/ SweepMark(j)
             \/ \E c \in Clients : Write(c)
    <2>1. UNCHANGED <<rpc, wakeup>>
      BY <1>5
      DEF Age, SweepMark, Write, CancelPendingWrite, CancelRunningWrite, DeleteWrite
    <2>2. db[k].status = "pending" /\ ~db[k].cancel
      <3>1. CASE \E j \in JobIds : Age(j)
        BY <3>1, <1>t DEF Age, Claimable, StoreOK
      <3>2. CASE \E j \in JobIds : SweepMark(j)
        <4>1. \E j : db' = Update(j, Fresh("failed", db[j].attempts, db[j].cancel))
          BY <3>2, <1>n DEF SweepMark, SetStatus
        <4> QED BY <4>1, <1>t, UpdateRows DEF Fresh, Claimable
      <3>3. CASE \E c \in Clients : Write(c)
        <4> PICK c \in Clients : Write(c) BY <3>3
        <4>1. req[c] # NoReq /\ db' = Written(c)
          BY <1>n
          DEF Write, CancelPendingWrite, CancelRunningWrite, DeleteWrite, NoReq, Committed
        <4>2. Written(c)[k].status = "pending" /\ ~Written(c)[k].cancel
          BY <4>1 DEF Claimable
        <4>3. req[c].op \in Op /\ req[c].job \in JobIds
          BY <4>1, Requests DEF Typed, TypeOK
        <4> DEFINE j == req[c].job
        <4>4. \E row : Written(c) = Update(j, row)
                       /\ (row.status # "pending" \/ row.cancel)
          BY <4>3 DEF Written, Fresh, Op
        <4>5. Written(c)[k] = db[k]
          <5> HIDE DEF j
          <5> QED BY <4>2, <4>4, <1>t, UpdateRows
        <4> QED BY <4>2, <4>5
      <3> QED BY <1>5, <3>1, <3>2, <3>3
    <2>3. k \in Claimable BY <2>2 DEF Claimable
    <2> QED BY <2>1, <2>3, <1>1
  <1>6. \/ SweepFind \/ SweepEmit \/ UNCHANGED vars
        \/ \E c \in Clients, j \in JobIds : CancelRead(c, j) \/ DeleteRead(c, j)
        => UNCHANGED <<db, rpc, wakeup>>
    BY DEF SweepFind, SweepEmit, CancelRead, DeleteRead, vars
  <1>7. UNCHANGED db => k \in Claimable BY DEF Claimable
  <1>8. ~(\/ Wake \/ ClaimUpdate \/ HandlerReturns \/ HandlerSeesCancel \/ Mark
          \/ RetryCheck \/ RetryRequeue \/ RetryExhausted \/ Emit)
    BY DEF Wake, ClaimUpdate, HandlerReturns, HandlerSeesCancel, HandlerEnds, Mark,
           RetryCheck, RetryRequeue, RetryExhausted, Emit
  <1>9. ~(HandlerProgress \/ Crash \/ Boot)
    BY DEF HandlerProgress, Crash, Boot, Start
  <1> QED
    BY <1>n, <1>1, <1>2, <1>3, <1>4, <1>5, <1>6, <1>7, <1>8, <1>9
    DEF Next, Runner, Sweep, Errors

\* A job whose creator woke the worker is never left to the poll interval.
THEOREM WakeupTheorem == Spec => []NoLostWakeup
  <1>1. Init => NoLostWakeup
    BY DEF Init, NoLostWakeup
  <1>2. Typed /\ NoLostWakeup /\ [Next]_vars => NoLostWakeup'
    BY WakeupStep
  <1> QED BY <1>1, <1>2, Typing, PTL DEF Spec, Typed

=============================================================================
