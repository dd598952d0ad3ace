-------------------------- MODULE JobsCancelProofs --------------------------
(***************************************************************************)
(* Theorems about the in-memory overlay of the job queue: what it holds for *)
(* a job that is over, whose request a cancel event stands for, and that a  *)
(* handler does not miss the request it was sent.                           *)
(***************************************************************************)
EXTENDS JobsProofs

USE JobsAssumption

-----------------------------------------------------------------------------
(* The overlay of a finished job *)

Clean(j) == ev[j] = "none" /\ j \notin active /\ j \notin cached

\* While the process is down there is no memory; the recovery at startup fails
\* rows without touching the overlay.
CleanInv ==
    /\ FinishedIsClean
    /\ rpc = "down" => \A j \in JobIds : Clean(j)

LEMMA CleanStep == Typed /\ CleanInv /\ [Next]_vars => CleanInv'
  <1> SUFFICES ASSUME Typed, CleanInv, [Next]_vars, NEW k \in JobIds,
                      \/ /\ db'[k].status \in Terminal /\ ~InFlight(k)' /\ dbErrors' = 0
                      \/ rpc' = "down"
               PROVE  Clean(k)'
    BY DEF CleanInv, FinishedIsClean, Clean
  <1>t. StoreOK BY DEF Typed, TypeOK
  <1>n. dbErrors' = 0 => /\ dbErrors = 0 /\ ~Errors
                         /\ \A after : Writes(after) => db' = after
    BY ErrorsCounted
  <1>w. /\ \A after : Writes(after) \/ Committed(after) => db' \in {db, after}
        /\ Undone => db' = db
    BY DEF Writes, Committed, Undone
  <1>h. \/ db[k].status \in Terminal /\ ~InFlight(k) /\ dbErrors = 0
        \/ rpc = "down"
        => Clean(k)
    BY DEF CleanInv, FinishedIsClean, Clean
  <1> USE TypesOfRows DEF InFlight, InFlightPc, Terminal, Clean
  <1> USE DEF overlay, runner, sweeper, history, counts
  <1>1. CASE UNCHANGED <<overlay, runner>> /\ db'[k].status = db[k].status
    BY <1>1, <1>h, <1>n
  <1>2. CASE ClaimSelect \/ Wake \/ HandlerReturns \/ HandlerSeesCancel
             \/ RetryCheck \/ Emit
    BY <1>2, <1>h
    DEF ClaimSelect, Wake, HandlerReturns, HandlerSeesCancel, HandlerEnds,
        RetryCheck, Emit
  <1>3. CASE ClaimUpdate
    <2>1. k # cur BY <1>3 DEF ClaimUpdate
    <2>2. db'[k] = db[k]
      BY <1>3, <1>t, <1>w, <2>1, UpdateRows DEF ClaimUpdate, Claimed
    <2> QED BY <1>3, <1>t, <1>h, <1>n, <2>1, <2>2 DEF ClaimUpdate, StoreOK
  <1>4. CASE Errors
    <2>1. rpc' = "down" BY <1>4, <1>n
    <2>2. UNCHANGED <<overlay, rpc>>
      BY <1>4, <2>1
      DEF Errors, ClaimError, ProgressError, MarkError, SweepError, BootError,
          Start, CreateError, RetryError, WriteError
    <2> QED BY <2>1, <2>2, <1>h
  <1>5. CASE HandlerProgress
    <2>1. db' = db \/ db' = SetStatus(cur, db[cur].status)
      BY <1>5, <1>w DEF HandlerProgress
    <2>2. db' = SetStatus(cur, db[cur].status) => db'[k].status = db[k].status
      BY <1>t, UpdateRows DEF SetStatus, Fresh
    <2>3. db'[k].status = db[k].status BY <2>1, <2>2
    <2> QED BY <1>5, <1>h, <1>n, <2>3 DEF HandlerProgress
  <1>6. CASE Mark \/ RetryExhausted
    <2>1. db' \in {db, Marked} BY <1>6, <1>w DEF Mark, RetryExhausted
    <2>2. k = cur \/ db'[k] = db[k] BY <1>t, <2>1, MarkedRows
    <2> QED BY <1>6, <1>t, <1>h, <1>n, <2>2 DEF Mark, RetryExhausted, Purge, StoreOK
  <1>7. CASE RetryRequeue
    <2>0. dbErrors' = 0 BY <1>7 DEF RetryRequeue
    <2>1. db' = Update(cur, Fresh("pending", db[cur].attempts, db[cur].cancel))
      BY <1>7, <1>n, <2>0 DEF RetryRequeue, Marked, SetStatus
    <2>2. db'[k].status \in Terminal => k # cur \/ ~Exists(k)
      BY <1>t, <2>1, UpdateRows DEF Fresh
    <2>3. db'[k].status \in Terminal => k # cur /\ db'[k] = db[k]
      BY <1>t, <2>1, <2>2, UpdateRows DEF Exists
    <2> QED BY <1>7, <1>h, <1>n, <2>3 DEF RetryRequeue
  <1>8. CASE \E j \in JobIds : Age(j) \/ Create(j) \/ Retry(j)
    <2>1. db'[k].status \in Terminal => db'[k] = db[k]
      <3>1. CASE \E j \in JobIds : Age(j) BY <3>1, <1>t DEF Age, StoreOK
      <3>2. CASE \E j \in JobIds : Create(j)
        <4> PICK j \in JobIds : Create(j) BY <3>2
        <4>1. db' \in {db, Created(j)} BY <1>w DEF Create
        <4>2. Created(j)[k] = db[k] \/ Created(j)[k].status = "pending"
          BY <1>t DEF Created, Fresh, StoreOK
        <4> QED BY <4>1, <4>2
      <3>3. CASE \E j \in JobIds : Retry(j)
        BY <3>3, <1>t, <1>w, UpdateRows DEF Retry, Fresh
      <3> QED BY <1>8, <3>1, <3>2, <3>3
    <2> QED BY <1>8, <1>h, <1>n, <2>1 DEF Age, Create, Retry
  <1>9. CASE \E j \in JobIds : SweepMark(j)
    <2> PICK j \in JobIds : SweepMark(j) BY <1>9
    <2>1. PICK row : db' \in {db, Update(j, row)} BY <1>w DEF SweepMark, SetStatus
    <2>2. Update(j, row)[k] = IF k = j /\ Exists(j) THEN row ELSE db[k]
      BY <1>t, UpdateRows
    <2>3. k = j \/ db'[k] = db[k] BY <2>1, <2>2
    <2> QED BY <1>t, <1>h, <1>n, <2>3 DEF SweepMark, Purge, StoreOK
  <1>10. CASE \E c \in Clients, j \in JobIds : CancelRead(c, j)
    <2> PICK c \in Clients, j \in JobIds : CancelRead(c, j) BY <1>10
    <2>1. db[j].status \in {"pending", "running"} /\ rpc # "down"
      BY DEF CancelRead, Up
    <2>2. k # j /\ ev'[k] = ev[k] BY <1>t, <2>1 DEF CancelRead, StoreOK
    <2> QED BY <1>h, <1>n, <2>2 DEF CancelRead
  <1>11. CASE \E c \in Clients : CancelPendingWrite(c)
    <2> PICK c \in Clients : CancelPendingWrite(c) BY <1>11
    <2>1. \E row : db' \in {db, Update(req[c].job, row)}
      BY <1>w DEF CancelPendingWrite, Written
    <2>2. k = req[c].job \/ db'[k] = db[k] BY <1>t, <2>1, UpdateRows
    <2> QED BY <1>t, <1>h, <1>n, <2>2 DEF CancelPendingWrite, Purge, StoreOK
  <1>12. CASE \E c \in Clients : CancelRunningWrite(c) \/ DeleteWrite(c)
    <2> PICK c \in Clients : CancelRunningWrite(c) \/ DeleteWrite(c) BY <1>12
    <2> DEFINE i == req[c].job
    <2>1. \/ db' = Update(i, Fresh(db[i].status, db[i].attempts, TRUE))
          \/ db' = Update(i, Fresh("deleted", 0, FALSE))
          \/ db' = db
      BY <1>w DEF CancelRunningWrite, DeleteWrite, Written
    <2>2. db'[k].status \in Terminal => db'[k].status = db[k].status
      BY <2>1, <1>t, UpdateRows DEF Fresh
    <2> QED BY <1>h, <1>n, <2>2 DEF CancelRunningWrite, DeleteWrite
  <1>13. CASE Crash BY <1>13 DEF Crash
  <1>14. CASE Boot BY <1>14, <1>h DEF Boot, Start
  <1>15. \/ SweepFind \/ SweepEmit \/ UNCHANGED vars
         \/ \E c \in Clients, j \in JobIds : DeleteRead(c, j)
         => UNCHANGED <<db, overlay, runner>>
    BY DEF SweepFind, SweepEmit, DeleteRead, vars
  <1> QED
    BY <1>1, <1>2, <1>3, <1>4, <1>5, <1>6, <1>7, <1>8, <1>9, <1>10, <1>11,
       <1>12, <1>13, <1>14, <1>15
    DEF Next, Runner, Sweep, Write, Errors

\* Nothing in memory outlives a job.
THEOREM CleanTheorem == Spec => []FinishedIsClean
  <1>1. Init => CleanInv
    BY DEF Init, CleanInv, FinishedIsClean, Clean
  <1>2. Typed /\ CleanInv /\ [Next]_vars => CleanInv'
    BY CleanStep
  <1>3. CleanInv => FinishedIsClean
    BY DEF CleanInv
  <1> QED BY <1>1, <1>2, <1>3, Typing, PTL DEF Spec, Typed

-----------------------------------------------------------------------------
(* Whose request a set event stands for *)

\* A set event is only ever found over a live row, which is what a user retry
\* and a new job rely on: neither touches the event.
PhantomInv ==
    dbErrors = 0 => \A j \in JobIds : ev[j] = "set" =>
        /\ rpc # "down"
        /\ db[j].status \notin Terminal \cup {"none"}
        /\ Exists(j) => j \in asked

LEMMA PhantomStep == Typed /\ PhantomInv /\ [Next]_vars => PhantomInv'
  <1> SUFFICES ASSUME Typed, PhantomInv, [Next]_vars, dbErrors' = 0,
                      NEW k \in JobIds, ev'[k] = "set"
               PROVE  (/\ rpc # "down"
                       /\ db[k].status \notin Terminal \cup {"none"}
                       /\ Exists(k) => k \in asked)'
    BY DEF PhantomInv
  <1>t. StoreOK BY DEF Typed, TypeOK
  <1>n. /\ dbErrors = 0 /\ ~Errors /\ ~Undone
        /\ \A after : Writes(after) => db' = after
    BY ErrorsCounted
  <1>h. ev[k] = "set" =>
          /\ rpc # "down"
          /\ db[k].status \notin Terminal \cup {"none"}
          /\ Exists(k) => k \in asked
    BY <1>n DEF PhantomInv
  <1> USE TypesOfRows DEF InFlightPc
  <1> USE DEF overlay, runner, sweeper, history, counts
  \* Most steps leave the event alone and the row live.
  <1>1. CASE /\ ev[k] = "set" /\ rpc' # "down" /\ asked \subseteq asked'
             /\ db'[k].status = db[k].status
    BY <1>1, <1>h DEF Exists
  <1>2. CASE ClaimSelect \/ Wake \/ HandlerReturns \/ HandlerSeesCancel
             \/ RetryCheck \/ Emit
    <2>1. UNCHANGED <<db, ev, asked>> /\ rpc' # "down"
      BY <1>2
      DEF ClaimSelect, Wake, HandlerReturns, HandlerSeesCancel, HandlerEnds,
          RetryCheck, Emit
    <2> QED BY <2>1, <1>1
  <1>3. CASE ClaimUpdate
    <2> DEFINE row == Fresh("running", db[cur].attempts + 1, db[cur].cancel)
    <2>1. ev[k] = "set" /\ UNCHANGED asked /\ rpc' # "down"
      BY <1>3, <1>t DEF ClaimUpdate, StoreOK
    <2>2. \/ db' = db
          \/ db[cur].status = "pending" /\ db' = Update(cur, row)
      BY <1>3, <1>n DEF ClaimUpdate, Claimed
    <2>3. CASE db' = db BY <2>1, <2>3, <1>1
    <2>4. CASE db[cur].status = "pending" /\ db' = Update(cur, row)
      <3>1. row.status = "running" BY DEF Fresh
      <3> HIDE DEF row
      <3>2. CASE k = cur /\ Exists(cur)
        <4>1. db'[k].status = "running" BY <2>4, <3>1, <3>2, <1>t, UpdateRows
        <4> QED BY <2>1, <3>2, <4>1, <1>h DEF Exists, Terminal
      <3>3. CASE ~(k = cur /\ Exists(cur))
        <4>1. db'[k] = db[k] BY <2>4, <3>3, <1>t, UpdateRows
        <4> QED BY <2>1, <4>1, <1>1
      <3> QED BY <3>2, <3>3
    <2> QED BY <2>2, <2>3, <2>4
  <1>4. CASE HandlerProgress
    <2>1. /\ ev[k] = "set" /\ UNCHANGED asked /\ rpc' # "down"
          /\ db' = db \/ db' = SetStatus(cur, db[cur].status)
      BY <1>4, <1>n DEF HandlerProgress
    <2>2. db' = SetStatus(cur, db[cur].status) => db'[k].status = db[k].status
      BY <1>t, UpdateRows DEF SetStatus, Fresh
    <2> QED BY <2>1, <2>2, <1>1
  <1>5. CASE RetryRequeue
    <2>1. /\ ev[k] = "set" /\ UNCHANGED asked /\ rpc' # "down"
          /\ db' = Update(cur, Fresh("pending", db[cur].attempts, db[cur].cancel))
      BY <1>5, <1>n DEF RetryRequeue, Marked, SetStatus
    <2>2. CASE k = cur /\ Exists(cur)
      <3>1. db'[k].status = "pending" BY <2>1, <2>2, <1>t, UpdateRows DEF Fresh
      <3> QED BY <2>1, <2>2, <3>1, <1>h DEF Terminal
    <2>3. CASE ~(k = cur /\ Exists(cur))
      <3>1. db'[k] = db[k] BY <2>1, <2>3, <1>t, UpdateRows
      <3> QED BY <2>1, <3>1, <1>1
    <2> QED BY <2>2, <2>3
  <1>6. CASE Mark \/ RetryExhausted
    <2>1. db' = Marked BY <1>6, <1>n DEF Mark, RetryExhausted
    <2>2. k # cur /\ ev[k] = "set" /\ UNCHANGED asked /\ rpc' # "down"
      BY <1>6, <1>t DEF Mark, RetryExhausted, Purge, StoreOK
    <2>3. db'[k] = db[k] BY <1>t, <2>1, <2>2, MarkedRows
    <2> QED BY <2>2, <2>3, <1>1
  <1>7. CASE \E j \in JobIds : Age(j)
    <2>1. db'[k].status = db[k].status /\ UNCHANGED <<ev, rpc, asked>>
      BY <1>7, <1>t DEF Age, StoreOK
    <2> QED BY <2>1, <1>h, <1>1
  <1>8. CASE \E j \in JobIds : Create(j) \/ Retry(j)
    <2> PICK j \in JobIds : Create(j) \/ Retry(j) BY <1>8
    <2>1. /\ UNCHANGED <<ev, rpc>> /\ asked \ {j} \subseteq asked'
          /\ db[j].status \in Terminal \cup {"none"}
      BY <1>n DEF Create, Creatable, Retry, Retryable, Terminal
    <2>2. k # j BY <2>1, <1>h
    <2>3. db'[k] = db[k]
      <3>1. CASE Create(j) BY <3>1, <2>2, <1>n, <1>t DEF Create, Created, StoreOK
      <3>2. CASE Retry(j)
        <4>1. \E row : db' = Update(j, row) BY <3>2, <1>n DEF Retry, Committed
        <4> QED BY <4>1, <2>2, <1>t, UpdateRows
      <3> QED BY <3>1, <3>2
    <2> QED BY <2>1, <2>2, <2>3, <1>h DEF Exists
  <1>9. CASE \E j \in JobIds : SweepMark(j)
    <2> PICK j \in JobIds : SweepMark(j) BY <1>9
    <2>1. k # j /\ ev[k] = "set" /\ UNCHANGED <<rpc, asked>>
      BY <1>t DEF SweepMark, Purge, StoreOK
    <2>2. \E row : db' = Update(j, row) BY <1>n DEF SweepMark, SetStatus
    <2>3. db'[k] = db[k] BY <1>t, <2>1, <2>2, UpdateRows
    <2> QED BY <2>1, <2>3, <1>h, <1>1
  <1>10. CASE \E c \in Clients, j \in JobIds : CancelRead(c, j)
    <2> PICK c \in Clients, j \in JobIds : CancelRead(c, j) BY <1>10
    <2>1. UNCHANGED <<db, rpc>> /\ rpc # "down" BY DEF CancelRead, Up
    <2>2. CASE ev[k] = "set"
      <3>1. asked \subseteq asked' BY DEF CancelRead
      <3> QED BY <2>1, <2>2, <3>1, <1>1
    <2>3. CASE ev[k] # "set"
      <3>1. k = j /\ db[j].status = "running" /\ j \in asked'
        BY <2>3, <1>t DEF CancelRead, StoreOK
      <3> QED BY <2>1, <3>1 DEF Terminal
    <2> QED BY <2>2, <2>3
  <1>11. CASE \E c \in Clients : Write(c)
    <2> PICK c \in Clients : Write(c) BY <1>11
    <2> DEFINE i == req[c].job
    <2>1. ev[k] = "set" /\ UNCHANGED <<rpc, asked>>
      BY <1>t
      DEF Write, CancelPendingWrite, CancelRunningWrite, DeleteWrite, Purge, StoreOK
    <2>2. CASE CancelPendingWrite(c)
      <3>1. k # i BY <2>2, <1>t DEF CancelPendingWrite, Purge, StoreOK
      <3>2. \E row : db' = Update(i, row) BY <2>2, <1>n DEF CancelPendingWrite, Written
      <3>3. db'[k] = db[k] BY <3>1, <3>2, <1>t, UpdateRows
      <3> QED BY <3>3, <2>1, <1>h, <1>1
    <2>3. CASE CancelRunningWrite(c)
      <3>1. db' = Update(i, Fresh(db[i].status, db[i].attempts, TRUE))
        BY <2>3, <1>n DEF CancelRunningWrite, Written, Committed
      <3>2. db'[k].status = db[k].status BY <3>1, <1>t, UpdateRows DEF Fresh
      <3> QED BY <3>2, <2>1, <1>h, <1>1
    <2>4. CASE DeleteWrite(c)
      <3>1. db' = Update(i, Fresh("deleted", 0, FALSE))
        BY <2>4, <1>n DEF DeleteWrite, Written, Committed
      <3>2. db'[k] = db[k] \/ db'[k].status = "deleted"
        BY <3>1, <1>t, UpdateRows DEF Fresh
      <3> QED BY <3>2, <2>1, <1>h DEF Exists, Terminal
    <2> QED BY <2>2, <2>3, <2>4 DEF Write
  <1>12. ~(Crash \/ Boot)
    BY <1>h DEF Crash, Boot, Start
  <1>13. \/ SweepFind \/ SweepEmit \/ UNCHANGED vars
         \/ \E c \in Clients, j \in JobIds : DeleteRead(c, j)
         => UNCHANGED <<db, ev, rpc, asked>>
    BY DEF SweepFind, SweepEmit, DeleteRead, vars
  <1>14. UNCHANGED <<db, ev, rpc, asked>> => ev[k] = "set" /\ rpc' # "down"
    BY <1>h
  <1> QED
    BY <1>n, <1>1, <1>2, <1>3, <1>4, <1>5, <1>6, <1>7, <1>8, <1>9, <1>10, <1>11,
       <1>12, <1>13, <1>14
    DEF Next, Runner, Sweep, Errors

\* No cancel request outlives the job's life it was made in.
THEOREM PhantomTheorem == Spec => []NoPhantomCancel
  <1>1. Init => PhantomInv
    BY DEF Init, PhantomInv
  <1>2. Typed /\ PhantomInv /\ [Next]_vars => PhantomInv'
    BY PhantomStep
  <1>3. PhantomInv => NoPhantomCancel
    BY DEF PhantomInv, NoPhantomCancel
  <1> QED BY <1>1, <1>2, <1>3, Typing, PTL DEF Spec, Typed

-----------------------------------------------------------------------------
(* A handler that was told *)

Requested(j) == \E c \in Clients : req[c] = [op |-> "cancelRunning", job |-> j]

\* The handler told of a cancel is the one at work, its row is there, and its
\* event is set or gone: with the event gone the row answers for it.
ToldInv ==
    \A j \in told :
        /\ rpc = "handler" /\ cur = j
        /\ Exists(j) /\ ev[j] # "clear"
        /\ db[j].cancel \/ Requested(j)

\* What no statement but a delete does to a row that is there: remove it, or
\* lower its cancel_requested (a user retry does, of a job that is over).
Mild(t, k) ==
    /\ t[k].status \notin {"none", "deleted"}
    /\ db[k].cancel => t[k].cancel

LEMMA MildTables ==
    ASSUME StoreOK, NEW k \in JobIds, Exists(k), NEW j, NEW s, NEW a, NEW c,
           k = j => s \notin {"none", "deleted"} /\ (db[k].cancel => c)
    PROVE  Mild(Update(j, Fresh(s, a, c)), k)
  <1> DEFINE row == Fresh(s, a, c)
  <1>1. row.status = s /\ row.cancel = c BY DEF Fresh
  <1> HIDE DEF row
  <1>2. CASE k = j
    <2>1. Update(j, row)[k] = row BY <1>2, UpdateRows
    <2>2. s \notin {"none", "deleted"} /\ (db[k].cancel => c) BY <1>2
    <2>3. Mild(Update(j, row), k) BY <1>1, <2>1, <2>2, Zenon DEF Mild
    <2> QED BY <2>3 DEF row
  <1>3. CASE k # j
    <2>1. Update(j, row)[k] = db[k] BY <1>3, UpdateRows
    <2>2. Mild(Update(j, row), k) BY <2>1 DEF Mild, Exists
    <2> QED BY <2>2 DEF row
  <1> QED BY <1>2, <1>3

LEMMA MildWritten ==
    ASSUME Typed, NEW k \in JobIds, Exists(k), NEW c \in Clients, req[c] # NoReq,
           req[c].op = "delete" => req[c].job # k
    PROVE  Mild(Written(c), k)
  <1> DEFINE j == req[c].job
  <1>t. StoreOK /\ req[c].op \in Op BY Requests DEF Typed, TypeOK
  <1>1. CASE req[c].op = "cancelPending"
    <2>1. Written(c) = Update(j, Fresh("cancelled", db[j].attempts, TRUE))
      BY <1>1 DEF Written
    <2>2. Mild(Update(j, Fresh("cancelled", db[j].attempts, TRUE)), k)
      BY <1>t, MildTables
    <2> QED BY <2>1, <2>2
  <1>2. CASE req[c].op = "cancelRunning"
    <2>1. Written(c) = Update(j, Fresh(db[j].status, db[j].attempts, TRUE))
      BY <1>2 DEF Written
    <2>2. Mild(Update(j, Fresh(db[j].status, db[j].attempts, TRUE)), k)
      BY <1>t, MildTables DEF Exists
    <2> QED BY <2>1, <2>2
  <1>3. CASE req[c].op = "delete"
    <2>1. Written(c) = Update(j, Fresh("deleted", 0, FALSE))
      BY <1>3 DEF Written
    <2>2. Mild(Update(j, Fresh("deleted", 0, FALSE)), k)
      BY <1>3, <1>t, MildTables
    <2> QED BY <2>1, <2>2
  <1> QED BY <1>1, <1>2, <1>3, <1>t DEF Op

\* The row of a handler that stays told.
LEMMA ToldRow ==
    ASSUME Typed, ToldInv, [Next]_vars, NEW k \in told, k \in told'
    PROVE  Mild(db', k)
  <1>t. /\ StoreOK /\ k \in JobIds /\ rpc = "handler" /\ cur = k /\ Exists(k)
        /\ todo \subseteq JobIds
    BY DEF Typed, TypeOK, CountsOK, LoopsOK, ToldInv
  <1>0. Mild(db, k) BY <1>t DEF Mild, Exists
  <1>d. \A after : DbError(after) \/ Writes(after) \/ Committed(after)
                    => (Mild(after, k) => Mild(db', k))
    BY <1>0 DEF DbError, Writes, Committed, Undone
  <1>u. Undone => Mild(db', k) BY <1>0 DEF Undone
  <1>s. \A j \in JobIds : Mild(SetStatus(j, "failed"), k)
    BY <1>t, MildTables DEF SetStatus
  <1>k. Mild(SetStatus(cur, db[cur].status), k)
    BY <1>t, MildTables DEF SetStatus, Exists
  <1>1. CASE UNCHANGED db BY <1>1, <1>0 DEF Mild
  <1>2. CASE HandlerProgress \/ ProgressError
    BY <1>2, <1>0, <1>k, <1>d DEF HandlerProgress, ProgressError
  <1>3. CASE SweepError \/ \E j \in JobIds : SweepMark(j)
    BY <1>3, <1>t, <1>s, <1>d DEF SweepError, SweepMark
  <1>4. CASE \E j \in JobIds : Age(j)
    BY <1>4, <1>t DEF Age, Mild, StoreOK, Exists
  <1>5. CASE \E j \in JobIds : Create(j) \/ CreateError(j)
    <2>1. ASSUME NEW j \in JobIds, Creatable(j) PROVE Mild(Created(j), k)
      <3>1. k # j BY <1>t, <2>1 DEF Creatable, Exists
      <3>2. Created(j)[k] = db[k] BY <1>t, <3>1 DEF Created, StoreOK
      <3> QED BY <3>2, <1>0 DEF Mild
    <2> QED BY <1>5, <2>1, <1>d DEF Create, CreateError
  <1>6. CASE \E j \in JobIds : Retry(j) \/ RetryError(j)
    <2> PICK j \in JobIds : Retry(j) \/ RetryError(j) BY <1>6
    <2>0. CASE Undone BY <2>0, <1>u
    <2>1. ~Undone => k # j BY DEF Retry, RetryError
    <2>2. ~Undone => Mild(Update(j, Fresh("pending", 0, FALSE)), k)
      BY <1>t, <2>1, MildTables
    <2> QED BY <2>0, <2>2, <1>d DEF Retry, RetryError
  <1>7. CASE \E c \in Clients : Write(c) \/ WriteError(c)
    <2> PICK c \in Clients : Write(c) \/ WriteError(c) BY <1>7
    <2>1. req[c] # NoReq
      BY DEF Write, CancelPendingWrite, CancelRunningWrite, DeleteWrite, WriteError, NoReq
    <2>0. CASE Undone BY <2>0, <1>u
    <2>2. ~Undone => (req[c].op = "delete" => req[c].job # k)
      BY DEF Write, CancelPendingWrite, CancelRunningWrite, DeleteWrite, WriteError
    <2>3. ~Undone => Mild(Written(c), k) BY <1>t, <2>1, <2>2, MildWritten
    <2> QED
      BY <2>0, <2>3, <1>d
      DEF Write, CancelPendingWrite, CancelRunningWrite, DeleteWrite, WriteError
  <1>8. ~(\/ Wake \/ ClaimUpdate \/ Mark \/ RetryCheck \/ RetryRequeue
          \/ RetryExhausted \/ ClaimError \/ MarkError \/ Boot \/ BootError)
    BY <1>t
    DEF Wake, ClaimUpdate, Mark, RetryCheck, RetryRequeue, RetryExhausted,
        ClaimError, MarkError, Boot, BootError, InFlightPc, Terminal
  <1>9. \/ ClaimSelect \/ HandlerReturns \/ HandlerSeesCancel \/ Emit
        \/ SweepFind \/ SweepEmit \/ Crash \/ UNCHANGED vars
        \/ \E c \in Clients, j \in JobIds : CancelRead(c, j) \/ DeleteRead(c, j)
        => UNCHANGED db
    BY DEF ClaimSelect, HandlerReturns, HandlerSeesCancel, HandlerEnds, Emit,
           SweepFind, SweepEmit, Crash, CancelRead, DeleteRead, vars
  <1> QED
    BY <1>1, <1>2, <1>3, <1>4, <1>5, <1>6, <1>7, <1>8, <1>9
    DEF Next, Runner, Sweep

LEMMA ToldStep == Typed /\ ToldInv /\ [Next]_vars => ToldInv'
  <1> SUFFICES ASSUME Typed, ToldInv, [Next]_vars, NEW k \in told'
               PROVE  (/\ rpc = "handler" /\ cur = k
                       /\ Exists(k) /\ ev[k] # "clear"
                       /\ db[k].cancel \/ Requested(k))'
    BY DEF ToldInv
  <1>t. StoreOK /\ RequestsOK /\ told \subseteq JobIds
    BY DEF Typed, TypeOK, CountsOK
  <1>h. k \in told =>
          /\ k \in JobIds /\ rpc = "handler" /\ cur = k
          /\ Exists(k) /\ ev[k] # "clear"
          /\ db[k].cancel \/ Requested(k)
          /\ Exists(k)' /\ (db[k].cancel => db'[k].cancel)
    BY <1>t, ToldRow DEF ToldInv, Mild, Exists
  <1> USE DEF overlay, runner, sweeper, history, counts
  <1>r. UNCHANGED req => Requested(k)' = Requested(k) BY DEF Requested
  \* A request's slot being taken leaves the others as they are.
  <1>q. ASSUME NEW c \in Clients, NEW r, req[c] = NoReq, req' = [req EXCEPT ![c] = r]
        PROVE  Requested(k) => Requested(k)'
    <2> SUFFICES ASSUME NEW d \in Clients, req[d] = [op |-> "cancelRunning", job |-> k]
                 PROVE  req'[d] = req[d]
      BY DEF Requested
    <2>1. d # c BY <1>q DEF NoReq
    <2> QED BY <1>q, <2>1, <1>t DEF RequestsOK
  <1>1. CASE k \in told /\ UNCHANGED <<ev, runner, req>> BY <1>1, <1>h, <1>r
  <1>2. ~(\/ ClaimSelect \/ Wake \/ ClaimUpdate \/ Mark \/ RetryCheck
          \/ RetryRequeue \/ RetryExhausted \/ Emit)
    BY <1>h
    DEF ClaimSelect, Wake, ClaimUpdate, Mark, RetryCheck, RetryRequeue,
        RetryExhausted, Emit, Terminal
  <1>3. ~(ClaimError \/ MarkError \/ Crash \/ Boot \/ BootError)
    BY <1>h DEF ClaimError, MarkError, Crash, Boot, BootError, Start, InFlightPc
  <1>4. ~(HandlerReturns \/ HandlerSeesCancel)
    BY <1>h DEF HandlerReturns, HandlerSeesCancel, HandlerEnds
  <1>5. CASE \E j \in JobIds : SweepMark(j)
    <2>1. k \in told /\ UNCHANGED <<runner, req>> /\ ev'[k] \in {"none", ev[k]}
      BY <1>5, <1>h, <1>t DEF SweepMark, Purge, StoreOK
    <2> QED BY <2>1, <1>h, <1>r
  <1>6. CASE \E c \in Clients, j \in JobIds : CancelRead(c, j)
    <2> PICK c \in Clients, j \in JobIds : CancelRead(c, j) BY <1>6
    <2>1. CASE k \in told
      <3>1. UNCHANGED runner /\ req[c] = NoReq
            /\ \E r : req' = [req EXCEPT ![c] = r]
        BY DEF CancelRead
      <3>2. ev'[k] # "clear" BY <2>1, <1>t, <1>h DEF CancelRead, StoreOK
      <3> QED BY <2>1, <3>1, <3>2, <1>h, <1>q
    <2>2. CASE k \notin told
      <3>1. /\ k = j /\ db[j].status = "running" /\ rpc = "handler" /\ cur = j
            /\ req' = [req EXCEPT ![c] = [op |-> "cancelRunning", job |-> j]]
            /\ ev'[j] = "set" /\ UNCHANGED <<db, runner>>
        BY <2>2, <1>t DEF CancelRead, StoreOK
      <3>2. Requested(k)' BY <3>1, <1>t DEF Requested, RequestsOK
      <3> QED BY <3>1, <3>2 DEF Exists
    <2> QED BY <2>1, <2>2
  <1>7. CASE \E c \in Clients, j \in JobIds : DeleteRead(c, j)
    <2> PICK c \in Clients, j \in JobIds : DeleteRead(c, j) BY <1>7
    <2>1. /\ k \in told /\ UNCHANGED <<ev, runner>> /\ req[c] = NoReq
          /\ \E r : req' = [req EXCEPT ![c] = r]
      BY DEF DeleteRead
    <2> QED BY <2>1, <1>h, <1>q
  <1>8. CASE \E c \in Clients : Write(c) \/ WriteError(c)
    <2> PICK c \in Clients : Write(c) \/ WriteError(c) BY <1>8
    <2>1. k \in told /\ UNCHANGED runner /\ ev'[k] \in {"none", ev[k]}
      BY <1>t, <1>h
      DEF Write, CancelPendingWrite, CancelRunningWrite, DeleteWrite, WriteError,
          Purge, StoreOK
    <2>2. ASSUME NEW d \in Clients, d # c PROVE req'[d] = req[d]
      BY <2>2, <1>t
      DEF Write, CancelPendingWrite, CancelRunningWrite, DeleteWrite, WriteError,
          RequestsOK
    <2>3. Requested(k) => Requested(k)' \/ req[c] = [op |-> "cancelRunning", job |-> k]
      BY <2>2 DEF Requested
    <2>4. req[c] = [op |-> "cancelRunning", job |-> k] => db'[k].cancel
      <3> SUFFICES ASSUME req[c] = [op |-> "cancelRunning", job |-> k]
                   PROVE  db'[k].cancel
        OBVIOUS
      <3>1. CancelRunningWrite(c)
        BY <2>1
        DEF Write, CancelPendingWrite, DeleteWrite, WriteError
      <3>2. req[c].job = k /\ req[c].op = "cancelRunning" OBVIOUS
      <3>3. db' = Written(c) BY <3>1, <3>2 DEF CancelRunningWrite, Committed
      <3>4. Written(c) = Update(k, Fresh(db[k].status, db[k].attempts, TRUE))
        BY <3>2 DEF Written
      <3>5. k \in JobIds /\ Exists(k) BY <2>1, <1>h
      <3>6. db'[k] = Fresh(db[k].status, db[k].attempts, TRUE)
        <4> DEFINE row == Fresh(db[k].status, db[k].attempts, TRUE)
        <4>1. db' = Update(k, row) BY <3>3, <3>4
        <4> HIDE DEF row
        <4>2. Update(k, row)[k] = row BY <3>5, <1>t, UpdateRows
        <4>3. db'[k] = row BY <4>1, <4>2
        <4> QED BY <4>3 DEF row
      <3> QED BY <3>6 DEF Fresh
    <2> QED BY <2>1, <2>3, <2>4, <1>h
  <1>9. \/ HandlerProgress \/ ProgressError \/ SweepFind \/ SweepEmit \/ SweepError
        \/ UNCHANGED vars
        \/ \E j \in JobIds :
             Age(j) \/ Create(j) \/ CreateError(j) \/ Retry(j) \/ RetryError(j)
        => k \in told /\ UNCHANGED <<ev, runner, req>>
    BY DEF HandlerProgress, ProgressError, SweepFind, SweepEmit, SweepError, Age,
           Create, CreateError, Retry, RetryError, vars
  <1> QED
    BY <1>1, <1>2, <1>3, <1>4, <1>5, <1>6, <1>7, <1>8, <1>9
    DEF Next, Runner, Sweep

\* A handler that a cancel request has found at work sees it when it next asks.
THEOREM CancelTheorem == Spec => []CancelNotLost
  <1>1. Init => ToldInv
    BY DEF Init, ToldInv
  <1>2. Typed /\ ToldInv /\ [Next]_vars => ToldInv'
    BY ToldStep
  <1>3. Typed /\ ToldInv => CancelNotLost
    <2> SUFFICES ASSUME Typed, ToldInv, rpc = "handler", cur \in told, ~CancelSeen(cur)
                 PROVE  Requested(cur)
      BY DEF CancelNotLost, Requested
    <2>1. cur \in JobIds /\ ev[cur] \in {"none", "set"}
      BY DEF Typed, TypeOK, StoreOK, CountsOK, ToldInv
    <2> QED BY <2>1 DEF CancelSeen, ToldInv
  <1> QED BY <1>1, <1>2, <1>3, Typing, PTL DEF Spec, Typed

=============================================================================
