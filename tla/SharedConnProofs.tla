-------------------------- MODULE SharedConnProofs --------------------------
(***************************************************************************)
(* Theorems about the shared connection, for any number of writers, any     *)
(* length of their groups and any number of errors and cancellations.       *)
(***************************************************************************)
EXTENDS SharedConn, TLAPS

USE SharedConnAssumption

-----------------------------------------------------------------------------
(* Types, and what is in the queue *)

\* c waits for an operation that the thread has not run yet.
Asking(c) == st[c] \in Waiting /\ answer[c] = "none"

\* o is what c, which waits in this state, has asked for.
Fits(c, o) ==
    /\ o.op = IF st[c] \in {"saferollback", "rollback"} THEN "rollback" ELSE st[c]
    /\ o.op = "write" => o.row = <<c, done[c] + 1>>

\* Whoever is named in the queue waits for that operation and for no other.
QueueInv ==
    /\ \A i \in DOMAIN queue : queue[i].who # Nobody =>
          Asking(queue[i].who) /\ Fits(queue[i].who, queue[i])
    /\ \A i, k \in DOMAIN queue :
          queue[i].who = queue[k].who /\ queue[i].who # Nobody => i = k

\* A group asks for statements until it has seen them all succeed.
DoneInv ==
    \A c \in Writers : /\ st[c] = "idle" => done[c] = 0
                       /\ st[c] = "write" => done[c] < Statements
                       /\ st[c] = "commit" => done[c] = Statements

Typed == TypeOK /\ QueueInv /\ DoneInv

\* What a non-empty queue gives: its head is an operation, its tail the rest.
LEMMA Queued ==
    ASSUME Typed, queue # <<>>
    PROVE  /\ Head(queue) \in Operation /\ Head(queue) = queue[1]
           /\ Head(queue).who \in Writers \cup {Nobody}
           /\ Head(queue).op \in {"write", "commit", "rollback"}
           /\ Head(queue).op = "write" => Head(queue).row \in Write
           /\ Tail(queue) \in Seq(Operation)
           /\ DOMAIN Tail(queue) = 1 .. (Len(queue) - 1)
           /\ \A i \in DOMAIN Tail(queue) :
                Tail(queue)[i] = queue[i + 1] /\ i + 1 \in DOMAIN queue
           /\ DOMAIN queue = 1 .. Len(queue) /\ Len(queue) \in Nat \ {0}
  <1>1. queue \in Seq(Operation) BY DEF Typed, TypeOK
  <1>2. Head(queue) \in Operation /\ Head(queue) = queue[1] BY <1>1
  <1> QED BY <1>1, <1>2 DEF Operation

\* The thread takes the head of the queue and tells whoever waits for it.
LEMMA ThreadStep ==
    ASSUME Typed, Thread
    PROVE  /\ queue # <<>> /\ queue' = Tail(queue) /\ UNCHANGED <<st, done>>
           /\ \/ Head(queue).who = Nobody /\ answer' = answer
              \/ /\ Head(queue).who \in Writers
                 /\ Asking(Head(queue).who) /\ Fits(Head(queue).who, Head(queue))
                 /\ \E x \in {"ok", "error"} :
                      answer' = [answer EXCEPT ![Head(queue).who] = x]
  <1>1. queue # <<>> /\ queue' = Tail(queue) /\ UNCHANGED <<st, done>>
    BY DEF Thread, RunWrite, RunCommit, RunRollback, RunError
  <1>2. \E x \in {"ok", "error"} : Answer(Head(queue).who, x)
    BY DEF Thread, RunWrite, RunCommit, RunRollback, RunError
  <1>3. Head(queue).who # Nobody =>
          Asking(Head(queue).who) /\ Fits(Head(queue).who, Head(queue))
    BY <1>1, Queued DEF Typed, QueueInv
  <1> QED BY <1>1, <1>2, <1>3, Queued DEF Answer

\* q is the queue with c's own operation, if there is one, in nobody's name.
Freed(c, q) ==
    /\ q \in Seq(Operation) /\ DOMAIN q = DOMAIN queue
    /\ \A i \in DOMAIN queue :
          /\ q[i].op = queue[i].op
          /\ q[i].op = "write" => q[i].row = queue[i].row
          /\ q[i].who # c
          /\ queue[i].who # c => q[i] = queue[i]
          /\ queue[i].who = c => q[i].who = Nobody

\* A writer that is not waiting is not in the queue; a cancelled one is taken out.
LEMMA FreedQueue ==
    ASSUME Typed, NEW c \in Writers
    PROVE  /\ ~Asking(c) => Freed(c, queue)
           /\ Freed(c, Orphaned(c))
  <1>1. queue \in Seq(Operation) BY DEF Typed, TypeOK
  <1>2. ~Asking(c) => Freed(c, queue)
    BY <1>1 DEF Typed, QueueInv, Freed
  <1>3. \A i \in DOMAIN queue :
          queue[i] \in Operation /\ Orphaned(c)[i] \in Operation
    BY <1>1 DEF Orphaned, Operation
  <1>4. Orphaned(c) \in Seq(Operation) /\ DOMAIN Orphaned(c) = DOMAIN queue
    BY <1>1, <1>3 DEF Orphaned
  <1>5. \A i \in DOMAIN queue :
          /\ Orphaned(c)[i].op = queue[i].op
          /\ Orphaned(c)[i].op = "write" => Orphaned(c)[i].row = queue[i].row
          /\ queue[i].who # c => Orphaned(c)[i] = queue[i]
          /\ queue[i].who = c => Orphaned(c)[i].who = Nobody
    BY <1>3 DEF Orphaned, Operation
  <1> QED BY <1>2, <1>4, <1>5 DEF Freed

\* A step of a writer: it ends, or waits for an operation at the queue's end.
Asks(c, q) ==
    \E s \in Waiting : \E job \in Operation :
        /\ job.who = c /\ queue' = Append(q, job)
        /\ st' = [st EXCEPT ![c] = s] /\ Fits(c, job)'

Ends(c, q) ==
    \E s \in Ended : queue' = q /\ st' = [st EXCEPT ![c] = s]

\* The next statement, or the commit, goes to the end of the queue.
LEMMA NextStatementAsks ==
    ASSUME Typed, NEW c \in Writers, NEW n \in 0 .. Statements, NextStatement(c, n),
           done'[c] = n
    PROVE  /\ Asks(c, queue) /\ answer' = [answer EXCEPT ![c] = "none"]
           /\ st'[c] = IF n < Statements THEN "write" ELSE "commit"
  <1> DEFINE w == [who |-> c, op |-> "write", row |-> <<c, n + 1>>]
             m == [who |-> c, op |-> "commit"]
  <1>1. st \in [Writers -> {"idle"} \cup Waiting \cup Ended] BY DEF Typed, TypeOK
  <1>2. CASE n < Statements
    <2>1. w \in Operation BY <1>2 DEF Operation, Write
    <2>2. queue' = Append(queue, w) /\ st' = [st EXCEPT ![c] = "write"]
          /\ answer' = [answer EXCEPT ![c] = "none"]
      BY <1>2 DEF NextStatement, Ask
    <2>3. Fits(c, w)' BY <2>2, <1>1 DEF Fits
    <2> QED BY <1>1, <1>2, <2>1, <2>2, <2>3 DEF Asks, Waiting
  <1>3. CASE n >= Statements
    <2>1. m \in Operation BY DEF Operation
    <2>2. queue' = Append(queue, m) /\ st' = [st EXCEPT ![c] = "commit"]
          /\ answer' = [answer EXCEPT ![c] = "none"]
      BY <1>3 DEF NextStatement, Ask
    <2>3. Fits(c, m)' BY <2>2, <1>1 DEF Fits
    <2> QED BY <1>1, <1>3, <2>1, <2>2, <2>3 DEF Asks, Waiting
  <1> QED BY <1>2, <1>3

\* What an exception that leaves the group does.
LEMMA RaiseOutEnds ==
    ASSUME Typed, NEW c \in Writers, NEW q, RaiseOut(c, q)
    PROVE  /\ answer' = [answer EXCEPT ![c] = "none"]
           /\ c \in Blocks => Asks(c, q) /\ st'[c] = "rollback"
           /\ c \notin Blocks => Ends(c, q) /\ st'[c] = "raised"
  <1> DEFINE r == [who |-> c, op |-> "rollback"]
  <1>1. st \in [Writers -> {"idle"} \cup Waiting \cup Ended] BY DEF Typed, TypeOK
  <1>2. CASE c \in Blocks
    <2>1. r \in Operation BY DEF Operation
    <2>2. queue' = Append(q, r) /\ st' = [st EXCEPT ![c] = "rollback"]
          /\ answer' = [answer EXCEPT ![c] = "none"]
      BY <1>2 DEF RaiseOut, Ask
    <2>3. Fits(c, r)' BY <2>2, <1>1 DEF Fits
    <2> QED BY <1>1, <1>2, <2>1, <2>2, <2>3 DEF Asks, Waiting
  <1>3. CASE c \notin Blocks BY <1>1, <1>3 DEF RaiseOut, End, Ends, Ended
  <1> QED BY <1>2, <1>3

\* What an exception that leaves execute does.
LEMMA RaiseFromExecuteEnds ==
    ASSUME Typed, NEW c \in Writers, NEW q, RaiseFromExecute(c, q)
    PROVE  /\ answer' = [answer EXCEPT ![c] = "none"]
           /\ \/ Asks(c, q) /\ st'[c] = "saferollback"
              \/ c \in Blocks /\ Asks(c, q) /\ st'[c] = "rollback"
              \/ c \notin Blocks /\ Ends(c, q) /\ st'[c] = "raised"
  <1> DEFINE r == [who |-> c, op |-> "rollback"]
  <1>1. st \in [Writers -> {"idle"} \cup Waiting \cup Ended] BY DEF Typed, TypeOK
  <1>2. CASE tx
    <2>1. r \in Operation BY DEF Operation
    <2>2. queue' = Append(q, r) /\ st' = [st EXCEPT ![c] = "saferollback"]
          /\ answer' = [answer EXCEPT ![c] = "none"]
      BY <1>2 DEF RaiseFromExecute, Ask
    <2>3. Fits(c, r)' BY <2>2, <1>1 DEF Fits
    <2> QED BY <1>1, <2>1, <2>2, <2>3 DEF Asks, Waiting
  <1>3. CASE ~tx BY <1>3, RaiseOutEnds DEF RaiseFromExecute
  <1> QED BY <1>2, <1>3

\* What each step of a writer does, in the terms the proofs below use.
WriterEffect(c, q) ==
    /\ Freed(c, q) /\ UNCHANGED conn
    /\ answer' = [answer EXCEPT ![c] = "none"]
    /\ done' \in [Writers -> 0 .. Statements]
    /\ \A d \in Writers \ {c} : done'[d] = done[d]
    /\ \/ /\ Asks(c, q) /\ st[c] \in {"idle"} \cup Waiting
          /\ \/ /\ st[c] \in {"idle", "write"} /\ ~Asking(c)
                /\ \/ st'[c] = "write" /\ done'[c] < Statements
                   \/ st'[c] = "commit" /\ done'[c] = Statements
             \/ st'[c] = "saferollback"
             \/ st'[c] = "rollback" /\ c \in Blocks
       \/ /\ Ends(c, q) /\ st[c] \in Waiting
          /\ \/ st'[c] = "raised" /\ c \notin Blocks
             \/ st'[c] = "raised" /\ st[c] = "rollback" /\ answer[c] # "none"
             \/ st'[c] = "acked" /\ st[c] = "commit" /\ answer[c] = "ok"

\* Begin, Resume and Cancel are WriterEffects.
LEMMA WriterStep ==
    ASSUME Typed, NEW c \in Writers, Begin(c) \/ Resume(c) \/ Cancel(c)
    PROVE  \E q : WriterEffect(c, q)
  <1> USE DEF Typed, TypeOK, DoneInv
  <1>q. Freed(c, Orphaned(c)) /\ (~Asking(c) => Freed(c, queue))
    BY FreedQueue
  <1>1. CASE Begin(c)
    <2>1. /\ UNCHANGED <<conn, done>> /\ NextStatement(c, 0) /\ done'[c] = 0
          /\ 0 \in 0 .. Statements /\ ~Asking(c) /\ st[c] = "idle"
      BY <1>1 DEF Begin, Asking, Waiting
    <2>2. Asks(c, queue) /\ answer' = [answer EXCEPT ![c] = "none"] /\ st'[c] = "write"
      BY <2>1, NextStatementAsks
    <2>3. WriterEffect(c, queue) BY <2>1, <2>2, <1>q DEF WriterEffect
    <2> QED BY <2>3
  <1>2. CASE Resume(c)
    <2>1. ~Asking(c) /\ UNCHANGED conn /\ answer[c] # "none" /\ st[c] \in Waiting
      BY <1>2 DEF Resume, Asking, Waiting
    <2>2. CASE /\ st[c] = "write" /\ answer[c] = "ok"
               /\ done' = [done EXCEPT ![c] = @ + 1] /\ NextStatement(c, done[c] + 1)
      <3>1. done'[c] = done[c] + 1 /\ done[c] + 1 \in 0 .. Statements
            /\ done' \in [Writers -> 0 .. Statements]
            /\ st[c] \in {"idle", "write"}
            /\ \A d \in Writers \ {c} : done'[d] = done[d]
        BY <2>2
      <3>2. Asks(c, queue) /\ answer' = [answer EXCEPT ![c] = "none"]
            /\ st'[c] = IF done[c] + 1 < Statements THEN "write" ELSE "commit"
        BY <2>2, <3>1, NextStatementAsks
      <3>3. \/ st'[c] = "write" /\ done'[c] < Statements
            \/ st'[c] = "commit" /\ done'[c] = Statements
        BY <3>1, <3>2
      <3>4. WriterEffect(c, queue) BY <2>1, <3>1, <3>2, <3>3, <1>q DEF WriterEffect
      <3> QED BY <3>4
    <2>3. CASE RaiseFromExecute(c, queue) /\ UNCHANGED done
      <3>1. WriterEffect(c, queue)
        BY <2>1, <2>3, <1>q, RaiseFromExecuteEnds DEF WriterEffect
      <3> QED BY <3>1
    <2>4. CASE st[c] = "commit" /\ answer[c] = "ok" /\ End(c, queue, "acked")
               /\ UNCHANGED done
      <3>1. Ends(c, queue) /\ st'[c] = "acked" /\ answer' = [answer EXCEPT ![c] = "none"]
        BY <2>4 DEF End, Ends, Ended
      <3>2. WriterEffect(c, queue) BY <2>1, <2>4, <3>1, <1>q DEF WriterEffect
      <3> QED BY <3>2
    <2>5. CASE RaiseOut(c, queue) /\ UNCHANGED done
      <3>1. WriterEffect(c, queue) BY <2>1, <2>5, <1>q, RaiseOutEnds DEF WriterEffect
      <3> QED BY <3>1
    <2>6. CASE st[c] = "rollback" /\ End(c, queue, "raised") /\ UNCHANGED done
      <3>1. Ends(c, queue) /\ st'[c] = "raised" /\ answer' = [answer EXCEPT ![c] = "none"]
        BY <2>6 DEF End, Ends, Ended
      <3>2. WriterEffect(c, queue) BY <2>1, <2>6, <3>1, <1>q DEF WriterEffect
      <3> QED BY <3>2
    <2> QED BY <1>2, <2>2, <2>3, <2>4, <2>5, <2>6 DEF Resume
  <1>3. CASE Cancel(c)
    <2>1. UNCHANGED <<conn, done>> /\ st[c] \in Waiting
          /\ (RaiseFromExecute(c, Orphaned(c)) \/ RaiseOut(c, Orphaned(c)))
      BY <1>3 DEF Cancel, Waiting
    <2>2. WriterEffect(c, Orphaned(c))
      BY <2>1, <1>q, RaiseFromExecuteEnds, RaiseOutEnds DEF WriterEffect
    <2> QED BY <2>2
  <1> QED BY <1>1, <1>2, <1>3

\* The queue after an operation was put at its end.
LEMMA AskedQueue ==
    ASSUME Typed, NEW c \in Writers, NEW q, Freed(c, q), NEW job \in Operation,
           queue' = Append(q, job)
    PROVE  /\ queue' \in Seq(Operation)
           /\ DOMAIN queue' = 1 .. (Len(queue) + 1) /\ DOMAIN queue = 1 .. Len(queue)
           /\ Len(queue) \in Nat
           /\ queue'[Len(queue) + 1] = job
           /\ \A i \in DOMAIN queue : queue'[i] = q[i]
  <1>1. queue \in Seq(Operation) /\ q \in Seq(Operation) /\ DOMAIN q = DOMAIN queue
    BY DEF Typed, TypeOK, Freed
  <1>2. Len(q) = Len(queue) BY <1>1
  <1> QED BY <1>1, <1>2

\* A step of the thread keeps the types and the queue's discipline.
LEMMA TypedThread == Typed /\ Thread => Typed'
  <1> SUFFICES ASSUME Typed, Thread PROVE Typed' OBVIOUS
  <1>1. TypeOK'
    <2>1. queue' \in Seq(Operation) BY ThreadStep, Queued
    <2>2. answer' \in [Writers -> {"none", "ok", "error"}]
      BY ThreadStep DEF Typed, TypeOK
    <2>3. disk' \in SUBSET Write /\ work' \in SUBSET Write /\ tx' \in BOOLEAN
      BY Queued DEF Typed, TypeOK, Thread, RunWrite, RunCommit, RunRollback, RunError
    <2>4. errors' \in 0 .. MaxErrors /\ cancels' \in 0 .. MaxCancels
      BY DEF Typed, TypeOK, Thread, RunWrite, RunCommit, RunRollback, RunError
    <2> QED BY <2>1, <2>2, <2>3, <2>4, ThreadStep DEF Typed, TypeOK
  <1>2. QueueInv'
    <2>1. \A i \in DOMAIN queue' : i + 1 \in DOMAIN queue /\ queue'[i] = queue[i + 1]
                                   /\ i + 1 # 1 /\ i \in Nat
      BY ThreadStep, Queued
    <2>2. 1 \in DOMAIN queue /\ Head(queue) = queue[1] BY ThreadStep, Queued
    <2>3. \A i \in DOMAIN queue' : queue'[i].who # Nobody => queue'[i].who # Head(queue).who
      BY <2>1, <2>2 DEF Typed, QueueInv
    <2>4. ASSUME NEW i \in DOMAIN queue', queue'[i].who # Nobody
          PROVE  Asking(queue[i].who)' /\ Fits(queue[i].who, queue[i])'
      <3>1. Asking(queue'[i].who) /\ Fits(queue'[i].who, queue'[i])
        BY <2>1, <2>4 DEF Typed, QueueInv
      <3>2. queue'[i] \in Operation /\ queue'[i].who \in Writers
        BY <2>4, <1>1 DEF TypeOK, Operation
      <3>3. answer'[queue'[i].who] = answer[queue'[i].who]
        BY <2>3, <2>4, <3>2, ThreadStep DEF Typed, TypeOK
      <3> QED BY <3>1, <3>3, ThreadStep DEF Asking, Fits
    <2>5. \A i, k \in DOMAIN queue' :
            queue'[i].who = queue'[k].who /\ queue'[i].who # Nobody => i = k
      BY <2>1 DEF Typed, QueueInv
    <2> QED BY <2>4, <2>5 DEF QueueInv
  <1>3. DoneInv' BY ThreadStep DEF Typed, DoneInv
  <1> QED BY <1>1, <1>2, <1>3 DEF Typed

\* So does a step of a writer.
LEMMA TypedWriter ==
    ASSUME Typed, NEW c \in Writers, NEW q, WriterEffect(c, q),
           errors' \in 0 .. MaxErrors, cancels' \in 0 .. MaxCancels
    PROVE  Typed'
  <1> USE DEF WriterEffect
  <1>1. answer' \in [Writers -> {"none", "ok", "error"}] /\ answer'[c] = "none"
        /\ \A d \in Writers \ {c} : answer'[d] = answer[d]
    BY DEF Typed, TypeOK
  <1>2. st' \in [Writers -> {"idle"} \cup Waiting \cup Ended]
        /\ \A d \in Writers \ {c} : st'[d] = st[d]
    <2>1. st \in [Writers -> {"idle"} \cup Waiting \cup Ended] BY DEF Typed, TypeOK
    <2>2. PICK s \in {"idle"} \cup Waiting \cup Ended : st' = [st EXCEPT ![c] = s]
      BY DEF Asks, Ends
    <2> QED BY <2>1, <2>2
  <1>3. q \in Seq(Operation) /\ DOMAIN q = DOMAIN queue BY DEF Freed
  <1>4. ASSUME NEW i \in DOMAIN queue, q[i].who # Nobody
        PROVE  /\ q[i].who \in Writers \ {c} /\ q[i] = queue[i]
               /\ Asking(q[i].who)' /\ Fits(q[i].who, q[i])'
    <2>1. q[i].who \in Writers \ {c} /\ q[i] = queue[i]
      BY <1>3, <1>4 DEF Freed, Operation
    <2>2. Asking(q[i].who) /\ Fits(q[i].who, q[i]) BY <1>4, <2>1 DEF Typed, QueueInv
    <2> QED BY <1>1, <1>2, <2>1, <2>2 DEF Asking, Fits
  <1>5. \A i, k \in DOMAIN queue : q[i].who = q[k].who /\ q[i].who # Nobody => i = k
    BY <1>4 DEF Typed, QueueInv
  <1>6. queue' \in Seq(Operation) /\ QueueInv'
    <2>1. CASE Ends(c, q)
      BY <2>1, <1>3, <1>4, <1>5 DEF Ends, QueueInv
    <2>2. CASE Asks(c, q)
      <3>1. PICK s \in Waiting, job \in Operation :
              /\ job.who = c /\ queue' = Append(q, job)
              /\ st' = [st EXCEPT ![c] = s] /\ Fits(c, job)'
        BY <2>2 DEF Asks
      <3> DEFINE n == Len(queue) + 1
      <3>2. /\ queue' \in Seq(Operation) /\ DOMAIN queue' = DOMAIN queue \cup {n}
            /\ queue'[n] = job /\ \A i \in DOMAIN queue : queue'[i] = q[i]
        <4>1. Freed(c, q) OBVIOUS
        <4>2. /\ queue' \in Seq(Operation) /\ DOMAIN queue = 1 .. Len(queue)
              /\ DOMAIN queue' = 1 .. (Len(queue) + 1) /\ Len(queue) \in Nat
              /\ queue'[n] = job /\ \A i \in DOMAIN queue : queue'[i] = q[i]
          BY <3>1, <4>1, AskedQueue
        <4> QED BY <4>2
      <3>3. Asking(c)' BY <3>1, <1>1 DEF Asking, Typed, TypeOK
      <3>4. \A i \in DOMAIN queue' : queue'[i].who # Nobody =>
               Asking(queue[i].who)' /\ Fits(queue[i].who, queue[i])'
        BY <3>1, <3>2, <3>3, <1>4
      <3>5. \A i \in DOMAIN queue : q[i].who # c BY DEF Freed
      <3>6. \A i, k \in DOMAIN queue' :
               queue'[i].who = queue'[k].who /\ queue'[i].who # Nobody => i = k
        <4>1. queue'[n].who = c /\ \A i \in DOMAIN queue : queue'[i].who = q[i].who
          BY <3>1, <3>2
        <4>2. \A i \in DOMAIN queue' : i = n \/ (i \in DOMAIN queue /\ queue'[i].who # c)
          BY <3>2, <3>5, <4>1
        <4> QED BY <4>1, <4>2, <1>5
      <3> QED BY <3>2, <3>4, <3>6 DEF QueueInv
    <2> QED BY <2>1, <2>2
  <1>7. DoneInv' BY <1>2 DEF Typed, DoneInv
  <1>8. disk' = disk /\ work' = work /\ tx' = tx BY DEF conn
  <1> QED BY <1>1, <1>2, <1>6, <1>7, <1>8 DEF Typed, TypeOK

LEMMA TypedStep == Typed /\ [Next]_vars => Typed'
  <1> SUFFICES ASSUME Typed, [Next]_vars PROVE Typed' OBVIOUS
  <1>1. CASE Thread BY <1>1, TypedThread
  <1>2. ASSUME NEW c \in Writers, Begin(c) \/ Resume(c) \/ Cancel(c) PROVE Typed'
    <2>1. PICK q : WriterEffect(c, q) BY <1>2, WriterStep
    <2>2. errors' \in 0 .. MaxErrors /\ cancels' \in 0 .. MaxCancels
      BY <1>2 DEF Begin, Resume, Cancel, Typed, TypeOK
    <2> QED BY <2>1, <2>2, TypedWriter
  <1>3. CASE UNCHANGED vars
    <2>1. UNCHANGED <<disk, work, tx, queue, st, answer, done, errors, cancels>>
      BY <1>3 DEF vars, conn, writers
    <2> QED BY <2>1 DEF Typed, TypeOK, QueueInv, DoneInv, Asking, Fits
  <1> QED BY <1>1, <1>2, <1>3 DEF Next

\* The types hold, and whoever waits for an answer has one operation in the
\* queue at most, the one it waits for.
THEOREM Typing == Spec => [](TypeOK /\ QueueInv /\ DoneInv)
  <1>1. Init => Typed
    <2> SUFFICES ASSUME Init PROVE Typed OBVIOUS
    <2>1. queue \in Seq(Operation) /\ DOMAIN queue = {} BY DEF Init
    <2>2. done \in [Writers -> 0 .. Statements] /\ errors \in 0 .. MaxErrors
          /\ cancels \in 0 .. MaxCancels
      BY DEF Init
    <2>3. TypeOK BY <2>1, <2>2 DEF Init, TypeOK
    <2>4. QueueInv BY <2>1 DEF QueueInv
    <2>5. DoneInv BY DEF Init, DoneInv
    <2> QED BY <2>3, <2>4, <2>5 DEF Typed
  <1>2. Typed /\ [Next]_vars => Typed' BY TypedStep
  <1> QED BY <1>1, <1>2, PTL DEF Spec, Typed

-----------------------------------------------------------------------------
(* No late write *)

WrittenBy(c, o) == o.op = "write" /\ o.row \in WritesOf(c)

\* Nothing of c's is left: not in the open transaction, not in the queue.
Spotless(c) ==
    /\ work \cap WritesOf(c) = {}
    /\ \A i \in DOMAIN queue : ~WrittenBy(c, queue[i])

\* A block that rolls back has its rollback behind everything it has asked for,
\* and is spotless from the moment the rollback has run.
LateInv ==
    \A c \in Blocks :
        /\ st[c] = "raised" \/ (st[c] = "rollback" /\ answer[c] # "none") => Spotless(c)
        /\ st[c] = "rollback" =>
             \A i, k \in DOMAIN queue :
                queue[i].who = c /\ i < k => ~WrittenBy(c, queue[k])

\* The thread runs only what is in the queue, and brings nothing back.
LEMMA SpotlessThread ==
    ASSUME Typed, Thread, NEW c \in Writers, Spotless(c) PROVE Spotless(c)'
  <1>1. /\ queue # <<>> /\ queue' = Tail(queue)
        /\ Head(queue) = queue[1] /\ 1 \in DOMAIN queue
        /\ \A i \in DOMAIN queue' : i + 1 \in DOMAIN queue /\ queue'[i] = queue[i + 1]
    BY ThreadStep, Queued
  <1>2. \A i \in DOMAIN queue' : ~WrittenBy(c, queue'[i]) BY <1>1 DEF Spotless
  <1>3. ~WrittenBy(c, Head(queue)) BY <1>1 DEF Spotless
  <1>4. work' \cap WritesOf(c) = {}
    BY <1>3 DEF Spotless, WrittenBy, Thread, RunWrite, RunCommit, RunRollback, RunError
  <1> QED BY <1>2, <1>4 DEF Spotless, WrittenBy, WritesOf

\* Another writer, or one that ends, asks for no write of c's.
LEMMA SpotlessWriter ==
    ASSUME Typed, NEW c \in Writers, Spotless(c),
           NEW d \in Writers, NEW q, WriterEffect(d, q), d # c \/ Ends(d, q)
    PROVE  Spotless(c)'
  <1> USE DEF WriterEffect
  <1>1. /\ work' = work /\ DOMAIN q = DOMAIN queue
        /\ \A i \in DOMAIN queue : WrittenBy(c, q[i]) => WrittenBy(c, queue[i])
    BY DEF conn, Freed, WrittenBy
  <1>2. CASE Ends(d, q)
    <2>1. queue' = q BY <1>2 DEF Ends
    <2> QED BY <1>1, <2>1 DEF Spotless, WrittenBy, WritesOf
  <1>3. CASE Asks(d, q) /\ d # c
    <2>1. PICK job \in Operation : queue' = Append(q, job) /\ Fits(d, job)'
      BY <1>3 DEF Asks
    <2>2. ~WrittenBy(c, job) BY <1>3, <2>1 DEF Fits, WrittenBy, WritesOf
    <2>3. Freed(d, q) OBVIOUS
    <2>4. /\ DOMAIN queue' = 1 .. (Len(queue) + 1) /\ DOMAIN queue = 1 .. Len(queue)
          /\ Len(queue) \in Nat /\ queue'[Len(queue) + 1] = job
          /\ \A i \in DOMAIN queue : queue'[i] = q[i]
      BY <2>1, <2>3, AskedQueue
    <2>5. \A i \in DOMAIN queue' : i \in DOMAIN queue \/ queue'[i] = job BY <2>4
    <2>6. \A i \in DOMAIN queue' : ~WrittenBy(c, queue'[i])
      BY <1>1, <2>2, <2>4, <2>5 DEF Spotless
    <2> QED BY <1>1, <2>6 DEF Spotless, WrittenBy, WritesOf
  <1> QED BY <1>2, <1>3

LEMMA LateThread == Typed /\ LateInv /\ Thread => LateInv'
  <1> SUFFICES ASSUME Typed, LateInv, Thread, NEW c \in Blocks
               PROVE  (/\ st[c] = "raised" \/ (st[c] = "rollback" /\ answer[c] # "none")
                            => Spotless(c)
                       /\ st[c] = "rollback" =>
                            \A i, k \in DOMAIN queue :
                               queue[i].who = c /\ i < k => ~WrittenBy(c, queue[k]))'
    BY DEF LateInv
  <1>t. /\ queue # <<>> /\ queue' = Tail(queue) /\ UNCHANGED <<st, done>>
        /\ Head(queue) = queue[1] /\ 1 \in DOMAIN queue
        /\ \A i \in DOMAIN queue' : /\ i \in Nat \ {0} /\ i + 1 \in DOMAIN queue
                                    /\ queue'[i] = queue[i + 1]
    BY ThreadStep, Queued
  <1>1. Spotless(c) => Spotless(c)' BY SpotlessThread, SharedConnAssumption
  <1>2. st[c] = "rollback" =>
          \A i, k \in DOMAIN queue' :
             queue'[i].who = c /\ i < k => ~WrittenBy(c, queue'[k])
    BY <1>t DEF LateInv
  <1>3. ASSUME st[c] = "rollback", answer[c] = "none", answer'[c] # "none"
        PROVE  Spotless(c)'
    <2>1. Head(queue).who = c
      BY <1>3, ThreadStep DEF Typed, TypeOK
    <2>2. Head(queue).op = "rollback"
      BY <1>3, <2>1, ThreadStep DEF Fits
    <2>3. work' = {}
      BY <2>2 DEF Thread, RunWrite, RunCommit, RunRollback, RunError
    <2>4. \A k \in DOMAIN queue' : ~WrittenBy(c, queue'[k])
      BY <1>3, <1>t, <2>1 DEF LateInv
    <2> QED BY <2>3, <2>4 DEF Spotless, WrittenBy, WritesOf
  <1> QED BY <1>t, <1>1, <1>2, <1>3 DEF LateInv, WrittenBy, WritesOf

LEMMA LateWriter ==
    ASSUME Typed, LateInv, NEW d \in Writers, NEW q, WriterEffect(d, q)
    PROVE  LateInv'
  <1> SUFFICES ASSUME NEW c \in Blocks
               PROVE  (/\ st[c] = "raised" \/ (st[c] = "rollback" /\ answer[c] # "none")
                            => Spotless(c)
                       /\ st[c] = "rollback" =>
                            \A i, k \in DOMAIN queue :
                               queue[i].who = c /\ i < k => ~WrittenBy(c, queue[k]))'
    BY DEF LateInv
  <1> USE DEF WriterEffect
  <1>f. /\ work' = work /\ c \in Writers
        /\ d # c => st'[c] = st[c] /\ answer'[c] = answer[c]
        /\ answer'[d] = "none"
    BY DEF conn, Asks, Ends, Typed, TypeOK
  <1>q. /\ DOMAIN q = DOMAIN queue /\ \A i \in DOMAIN queue : q[i].who # d
        /\ \A i \in DOMAIN queue : WrittenBy(c, q[i]) => WrittenBy(c, queue[i])
        /\ \A i \in DOMAIN queue : q[i].who = c => queue[i].who = c
    BY DEF Freed, WrittenBy
  <1>1. CASE Ends(d, q)
    <2>1. queue' = q BY <1>1 DEF Ends
    <2>2. Spotless(c) => Spotless(c)' BY <1>1, <1>f, SpotlessWriter
    <2>3. d = c => st'[c] # "rollback" /\ (st'[c] = "raised" => Spotless(c))
      BY <1>1 DEF LateInv, Ends, Asks, Ended, Waiting, Typed, TypeOK
    <2> QED BY <1>f, <1>q, <2>1, <2>2, <2>3 DEF LateInv, WrittenBy, WritesOf
  <1>2. CASE Asks(d, q)
    <2>1. PICK s \in Waiting, job \in Operation :
            /\ job.who = d /\ queue' = Append(q, job)
            /\ st' = [st EXCEPT ![d] = s] /\ Fits(d, job)'
      BY <1>2 DEF Asks
    <2> DEFINE n == Len(queue) + 1
    <2>2. /\ DOMAIN queue' = DOMAIN queue \cup {n} /\ DOMAIN queue \in SUBSET Nat
          /\ \A i \in DOMAIN queue : i < n
          /\ queue'[n] = job /\ \A i \in DOMAIN queue : queue'[i] = q[i]
      <3>1. Freed(d, q) OBVIOUS
      <3>2. /\ DOMAIN queue' = 1 .. (Len(queue) + 1) /\ DOMAIN queue = 1 .. Len(queue)
            /\ Len(queue) \in Nat /\ queue'[Len(queue) + 1] = job
            /\ \A i \in DOMAIN queue : queue'[i] = q[i]
        BY <2>1, <3>1, AskedQueue
      <3> QED BY <3>2
    <2>3. d # c => ~WrittenBy(c, job)
      BY <2>1 DEF Fits, WrittenBy, WritesOf
    <2>4. d # c /\ Spotless(c) => Spotless(c)' BY <1>f, SpotlessWriter
    <2>5. d = c => st'[c] # "raised"
      BY <2>1 DEF Typed, TypeOK, Waiting
    <2>6. \A i, k \in DOMAIN queue' :
             d = c /\ queue'[i].who = c /\ i < k => ~WrittenBy(c, queue'[k])
      BY <1>q, <2>2
    <2>7. d # c /\ st[c] = "rollback" =>
             \A i, k \in DOMAIN queue' :
                queue'[i].who = c /\ i < k => ~WrittenBy(c, queue'[k])
      BY <1>q, <2>1, <2>2, <2>3 DEF LateInv
    <2> QED BY <1>f, <2>4, <2>5, <2>6, <2>7 DEF LateInv, WrittenBy, WritesOf
  <1> QED BY <1>1, <1>2

LEMMA LateStep == Typed /\ LateInv /\ [Next]_vars => LateInv'
  <1> SUFFICES ASSUME Typed, LateInv, [Next]_vars PROVE LateInv' OBVIOUS
  <1>1. CASE Thread BY <1>1, LateThread
  <1>2. CASE \E c \in Writers : Begin(c) \/ Resume(c) \/ Cancel(c)
    BY <1>2, WriterStep, LateWriter
  <1>3. CASE UNCHANGED vars
    <2>1. UNCHANGED <<work, queue, st, answer>> BY <1>3 DEF vars, conn, writers
    <2> QED BY <2>1 DEF LateInv, Spotless, WrittenBy, WritesOf
  <1> QED BY <1>1, <1>2, <1>3 DEF Next

\* After transactional_write has raised, nothing of its block becomes durable:
\* its rollback is queued behind all it has asked for, and no one writes for it.
THEOREM LateTheorem == Spec => NoLateWrite
  <1>1. Init => LateInv
    BY DEF Init, LateInv
  <1>2. Typed /\ LateInv /\ [Next]_vars =>
          [\A c \in Blocks :
              st[c] = "raised" => disk' \cap WritesOf(c) = disk \cap WritesOf(c)]_vars
    <2> SUFFICES ASSUME Typed, LateInv, [Next]_vars, NEW c \in Blocks, st[c] = "raised"
                 PROVE  disk' \cap WritesOf(c) = disk \cap WritesOf(c)
      OBVIOUS
    <2>1. work \cap WritesOf(c) = {} BY DEF LateInv, Spotless
    <2>2. disk' = disk \/ disk' = disk \cup work
      BY DEF Next, Thread, RunWrite, RunCommit, RunRollback, RunError, Begin, Resume,
             Cancel, conn, vars
    <2> QED BY <2>1, <2>2
  <1> QED BY <1>1, <1>2, LateStep, Typing, PTL DEF Spec, Typed, NoLateWrite

-----------------------------------------------------------------------------
(* No ghost transaction *)

\* c will still ask for a commit or a rollback, or is a bare writer that has
\* raised and may have left a transaction.
Owes(c) ==
    \/ st[c] \in {"write", "saferollback"}
    \/ st[c] = "commit" /\ answer[c] = "error"
    \/ st[c] = "raised" /\ c \notin Blocks

Closes(o) == o.who # Nobody /\ o.op \in {"commit", "rollback"}

\* An open transaction, or a statement in the queue that will open one, has its
\* end before it: in the queue, asked for by someone who hears if it fails, or
\* still to be asked for.
ClosedAfter(i) ==
    (\E c \in Writers : Owes(c)) \/ \E k \in DOMAIN queue : i < k /\ Closes(queue[k])

GhostInv ==
    /\ tx => ClosedAfter(0)
    /\ \A i \in DOMAIN queue : queue[i].op = "write" => ClosedAfter(i)

LEMMA GhostThread == Typed /\ GhostInv /\ Thread => GhostInv'
  <1> SUFFICES ASSUME Typed, GhostInv, Thread PROVE GhostInv' OBVIOUS
  <1>t. /\ queue # <<>> /\ queue' = Tail(queue) /\ UNCHANGED <<st, done>>
        /\ Head(queue) = queue[1] /\ 1 \in DOMAIN queue
        /\ DOMAIN queue = 1 .. Len(queue) /\ Len(queue) \in Nat
        /\ DOMAIN queue' = 1 .. (Len(queue) - 1)
        /\ \A i \in DOMAIN queue' : queue'[i] = queue[i + 1] /\ i + 1 \in DOMAIN queue
    BY ThreadStep, Queued
  <1>1. ASSUME NEW c \in Writers, Owes(c) PROVE Owes(c)'
    <2>1. answer'[c] = answer[c] \/ st[c] # "commit"
      BY <1>1, ThreadStep DEF Owes, Asking, Typed, TypeOK
    <2> QED BY <1>1, <1>t, <2>1 DEF Owes
  \* What closes the transaction behind the first operation still does.
  <1>2. ASSUME NEW i \in Nat \ {0}, ClosedAfter(i) PROVE ClosedAfter(i - 1)'
    <2>1. CASE \E c \in Writers : Owes(c) BY <1>1, <2>1 DEF ClosedAfter
    <2>2. CASE \E k \in DOMAIN queue : i < k /\ Closes(queue[k])
      <3>1. PICK k \in DOMAIN queue : i < k /\ Closes(queue[k]) BY <2>2
      <3>2. k - 1 \in DOMAIN queue' /\ i - 1 < k - 1 /\ queue'[k - 1] = queue[k]
        BY <3>1, <1>t
      <3> QED BY <3>1, <3>2 DEF ClosedAfter, Closes
    <2> QED BY <1>2, <2>1, <2>2 DEF ClosedAfter
  <1>3. ASSUME NEW i \in DOMAIN queue', queue'[i].op = "write" PROVE ClosedAfter(i)'
    <2>1. i + 1 \in Nat \ {0} /\ ClosedAfter(i + 1) BY <1>3, <1>t DEF GhostInv
    <2>2. ClosedAfter((i + 1) - 1)' BY <2>1, <1>2
    <2>3. (i + 1) - 1 = i BY <1>t
    <2> QED BY <2>2, <2>3
  <1>4. tx' => ClosedAfter(0)'
    <2>1. CASE RunWrite \/ (RunError /\ Head(queue).op = "write")
      <3>1. ClosedAfter(1) BY <2>1, <1>t DEF GhostInv, RunWrite
      <3>2. ClosedAfter(1 - 1)' BY <3>1, <1>2
      <3> QED BY <3>2
    <2>2. CASE RunCommit \/ RunRollback BY <2>2 DEF RunCommit, RunRollback
    <2>3. CASE RunError /\ Head(queue).op = "commit"
      <3>1. ClosedAfter(0) BY <2>3 DEF GhostInv, RunError
      <3>2. CASE \E c \in Writers : Owes(c) BY <1>1, <3>2 DEF ClosedAfter
      <3>3. CASE \E k \in DOMAIN queue : 1 < k /\ Closes(queue[k])
        <4>1. ClosedAfter(1) BY <3>3 DEF ClosedAfter
        <4>2. ClosedAfter(1 - 1)' BY <4>1, <1>2
        <4> QED BY <4>2
      <3>4. CASE Closes(queue[1])
        <4> DEFINE c == Head(queue).who
        <4>1. c \in Writers /\ Fits(c, Head(queue)) BY <3>4, <1>t, ThreadStep DEF Closes
        <4>2. st[c] = "commit" BY <4>1, <2>3 DEF Fits
        <4>3. answer'[c] = "error"
          BY <4>1, <2>3 DEF RunError, Answer, Typed, TypeOK
        <4> QED BY <4>1, <4>2, <4>3, <1>t DEF Owes, ClosedAfter
      <3> QED BY <3>1, <3>2, <3>3, <3>4, <1>t DEF ClosedAfter
    <2> QED BY <2>1, <2>2, <2>3 DEF Thread, RunError
  <1> QED BY <1>3, <1>4 DEF GhostInv

LEMMA GhostWriter ==
    ASSUME Typed, GhostInv, NEW d \in Writers, NEW q, WriterEffect(d, q)
    PROVE  GhostInv'
  <1> USE DEF WriterEffect
  <1>f. /\ tx' = tx /\ answer'[d] = "none"
        /\ \A c \in Writers \ {d} : st'[c] = st[c] /\ answer'[c] = answer[c]
    BY DEF conn, Asks, Ends, Typed, TypeOK
  <1>q. /\ DOMAIN q = DOMAIN queue
        /\ \A i \in DOMAIN queue : /\ q[i].op = queue[i].op
                                   /\ queue[i].who # d => q[i] = queue[i]
    BY DEF Freed
  <1>d. DOMAIN queue = 1 .. Len(queue) /\ Len(queue) \in Nat BY DEF Typed, TypeOK
  <1>1. \A c \in Writers \ {d} : Owes(c) => Owes(c)' BY <1>f DEF Owes
  <1>2. CASE Asks(d, q)
    <2>1. PICK s \in Waiting, job \in Operation :
            job.who = d /\ queue' = Append(q, job) /\ Fits(d, job)'
      BY <1>2 DEF Asks
    <2>0. PICK n \in Nat : n = Len(queue) + 1 BY <1>d
    <2>2. /\ DOMAIN queue' = 1 .. n /\ queue'[n] = job
          /\ \A i \in DOMAIN queue : queue'[i] = q[i]
      <3>1. Freed(d, q) OBVIOUS
      <3>2. /\ DOMAIN queue' = 1 .. (Len(queue) + 1) /\ queue'[Len(queue) + 1] = job
            /\ \A i \in DOMAIN queue : queue'[i] = q[i]
        BY <2>1, <3>1, AskedQueue
      <3> QED BY <2>0, <3>2
    <2>3. Owes(d)' \/ Closes(job)
      <3>1. st'[d] \in Waiting BY <1>2 DEF Asks, Typed, TypeOK
      <3>2. st'[d] \in {"write", "saferollback"} \/ job.op \in {"commit", "rollback"}
        BY <2>1, <3>1 DEF Fits, Waiting
      <3> QED BY <2>1, <3>2 DEF Owes, Closes
    <2>4. \A i \in 0 .. Len(queue) : ClosedAfter(i)'
      <3>1. CASE Owes(d)' BY <3>1 DEF ClosedAfter
      <3>2. CASE Closes(job)
        <4>1. n \in DOMAIN queue' /\ Closes(queue[n])' BY <2>0, <2>2, <3>2 DEF Closes
        <4>2. \A i \in 0 .. Len(queue) : i < n BY <2>0, <1>d
        <4> QED BY <4>1, <4>2 DEF ClosedAfter
      <3> QED BY <2>3, <3>1, <3>2
    <2>5. queue'[n].op = "write" => ClosedAfter(n)'
      BY <2>1, <2>2, <2>3 DEF Closes, ClosedAfter
    <2>6. tx' => ClosedAfter(0)' BY <2>4, <1>d
    <2>7. ASSUME NEW i \in DOMAIN queue', queue'[i].op = "write" PROVE ClosedAfter(i)'
      <3>1. i \in 0 .. Len(queue) \/ i = n BY <2>0, <2>2, <1>d
      <3> QED BY <3>1, <2>4, <2>5, <2>7
    <2> QED BY <2>6, <2>7 DEF GhostInv
  <1>3. CASE Ends(d, q)
    <2>1. queue' = q BY <1>3 DEF Ends
    <2>2. CASE st'[d] = "raised" /\ d \notin Blocks
      BY <2>2 DEF GhostInv, ClosedAfter, Owes
    <2>3. CASE /\ answer[d] \in {"ok", "error"} /\ ~Owes(d)
      <3>1. \A k \in DOMAIN queue : queue[k].who # d
        BY <2>3 DEF Typed, QueueInv, Asking
      <3>2. \A i \in Nat : ClosedAfter(i) => ClosedAfter(i)'
        BY <2>1, <2>3, <3>1, <1>1, <1>q DEF ClosedAfter
      <3> QED BY <2>1, <3>2, <1>f, <1>q, <1>d DEF GhostInv
    <2> QED BY <1>3, <2>2, <2>3 DEF Owes, Ends, Asks, Typed, TypeOK, Ended, Waiting
  <1> QED BY <1>2, <1>3

LEMMA GhostStep == Typed /\ GhostInv /\ [Next]_vars => GhostInv'
  <1> SUFFICES ASSUME Typed, GhostInv, [Next]_vars PROVE GhostInv' OBVIOUS
  <1>1. CASE Thread BY <1>1, GhostThread
  <1>2. CASE \E c \in Writers : Begin(c) \/ Resume(c) \/ Cancel(c)
    BY <1>2, WriterStep, GhostWriter
  <1>3. CASE UNCHANGED vars
    <2>1. UNCHANGED <<tx, queue, st, answer>> BY <1>3 DEF vars, conn, writers
    <2> QED BY <2>1 DEF GhostInv, ClosedAfter, Owes, Closes
  <1> QED BY <1>1, <1>2, <1>3 DEF Next

\* When everybody is through, no transaction is open but what a writer without
\* transactional_write has left.
THEOREM GhostTheorem == Spec => []NoGhostTransaction
  <1>1. Init => GhostInv
    <2> SUFFICES ASSUME Init PROVE GhostInv OBVIOUS
    <2>1. DOMAIN queue = {} BY DEF Init
    <2> QED BY <2>1 DEF Init, GhostInv
  <1>2. Typed /\ GhostInv => NoGhostTransaction
    <2> SUFFICES ASSUME Typed, GhostInv, Quiet, tx,
                        \A c \in Writers \ Blocks : st[c] # "raised"
                 PROVE  FALSE
      BY DEF NoGhostTransaction
    <2>1. DOMAIN queue = {} BY DEF Quiet
    <2>2. PICK c \in Writers : Owes(c) BY <2>1 DEF GhostInv, ClosedAfter
    <2> QED BY <2>2 DEF Owes, Quiet, Ended
  <1> QED BY <1>1, <1>2, GhostStep, Typing, PTL DEF Spec, Typed

-----------------------------------------------------------------------------
(* Acknowledged writes, while nothing fails *)

NoFault == errors = 0 /\ cancels = 0

\* Nobody rolls back, so what c has seen succeed is on disk or in the open
\* transaction, and its commit has written the lot.
Safe(c) ==
    /\ st[c] \notin {"saferollback", "rollback", "raised"} /\ answer[c] # "error"
    /\ \A n \in 1 .. Statements :
          n <= done[c] \/ (n = done[c] + 1 /\ st[c] = "write" /\ answer[c] = "ok")
            => <<c, n>> \in disk \cup work
    /\ st[c] = "acked" \/ (st[c] = "commit" /\ answer[c] = "ok") =>
          WritesOf(c) \subseteq disk

AckInv ==
    NoFault => /\ \A i \in DOMAIN queue : queue[i].who # Nobody
               /\ \A c \in Writers : Safe(c)

LEMMA AckThread == Typed /\ AckInv /\ Thread => AckInv'
  <1> SUFFICES ASSUME Typed, AckInv, Thread, NoFault' PROVE AckInv' BY DEF AckInv
  <1>n. NoFault /\ ~RunError
    BY DEF NoFault, Typed, TypeOK, Thread, RunWrite, RunCommit, RunRollback, RunError
  <1>t. /\ queue # <<>> /\ queue' = Tail(queue) /\ UNCHANGED <<st, done>>
        /\ Head(queue) = queue[1] /\ 1 \in DOMAIN queue
        /\ \A i \in DOMAIN queue' : queue'[i] = queue[i + 1] /\ i + 1 \in DOMAIN queue
    BY ThreadStep, Queued
  <1> DEFINE h == Head(queue)
  <1>h. h.who \in Writers /\ Asking(h.who) /\ Fits(h.who, h) /\ Safe(h.who)
    BY <1>n, <1>t, ThreadStep DEF AckInv
  <1>a. answer' = [answer EXCEPT ![h.who] = "ok"]
    BY <1>n, <1>h DEF Thread, RunWrite, RunCommit, RunRollback, Answer
  <1>r. ~RunRollback BY <1>h DEF RunRollback, Fits, Safe
  <1>1. \A i \in DOMAIN queue' : queue'[i].who # Nobody BY <1>n, <1>t DEF AckInv
  <1>2. ASSUME NEW c \in Writers PROVE Safe(c)'
    <2>1. Safe(c) BY <1>n DEF AckInv
    <2>2. answer'[c] = IF c = h.who THEN "ok" ELSE answer[c] BY <1>a DEF Typed, TypeOK
    <2>3. CASE RunWrite
      <3>1. /\ st[h.who] = "write" /\ h.row = <<h.who, done[h.who] + 1>>
            /\ disk' = disk /\ work' = work \cup {h.row}
        BY <1>h, <2>3 DEF Fits, RunWrite
      <3> QED BY <1>t, <2>1, <2>2, <3>1 DEF Safe
    <2>4. CASE RunCommit
      <3>1. st[h.who] = "commit" /\ disk' = disk \cup work
        BY <1>h, <2>4 DEF Fits, RunCommit, Asking, Waiting
      <3>2. st[c] = "commit" => WritesOf(c) \subseteq disk'
        BY <2>1, <3>1 DEF Safe, WritesOf, Typed, DoneInv
      <3>3. \A n \in 1 .. Statements :
              n <= done[c] \/ (n = done[c] + 1 /\ st[c] = "write" /\ answer'[c] = "ok")
                => <<c, n>> \in disk'
        BY <2>1, <2>2, <3>1 DEF Safe
      <3>4. st[c] = "acked" => WritesOf(c) \subseteq disk' BY <2>1, <3>1 DEF Safe
      <3>5. WritesOf(c)' = WritesOf(c) BY DEF WritesOf
      <3> QED BY <1>t, <2>1, <2>2, <3>2, <3>3, <3>4, <3>5 DEF Safe
    <2> QED BY <1>n, <1>r, <2>3, <2>4 DEF Thread
  <1> QED BY <1>1, <1>2 DEF AckInv

\* A writer's step leaves the other writers as safe as they were.
LEMMA AckOthers ==
    ASSUME Typed, AckInv, NoFault, NEW c \in Writers, UNCHANGED conn,
           Asks(c, queue) \/ Ends(c, queue),
           answer' = [answer EXCEPT ![c] = "none"],
           done' = done \/ done' = [done EXCEPT ![c] = @ + 1], Safe(c)'
    PROVE  AckInv'
  <1> USE DEF Typed, TypeOK
  <1>1. ASSUME NEW d \in Writers \ {c} PROVE Safe(d)'
    <2>1. st'[d] = st[d] /\ answer'[d] = answer[d] /\ done'[d] = done[d]
      BY DEF Asks, Ends
    <2> QED BY <2>1 DEF AckInv, Safe, conn, WritesOf
  <1>2. \A i \in DOMAIN queue' : queue'[i].who # Nobody
    <2>1. CASE Ends(c, queue) BY <2>1 DEF Ends, AckInv
    <2>2. CASE Asks(c, queue)
      <3>1. PICK job \in Operation : job.who = c /\ queue' = Append(queue, job)
        BY <2>2 DEF Asks
      <3> QED BY <3>1 DEF AckInv
    <2> QED BY <2>1, <2>2
  <1> QED BY <1>1, <1>2 DEF AckInv

LEMMA AckWriter ==
    ASSUME Typed, AckInv, NEW c \in Writers, Begin(c) \/ Resume(c), NoFault
    PROVE  AckInv'
  <1> USE DEF Typed, TypeOK, DoneInv
  <1>s. Safe(c) /\ ~Asking(c)
    BY DEF AckInv, Begin, Resume, Asking, Waiting
  <1>1. CASE Begin(c)
    <2>1. UNCHANGED <<conn, done>> /\ NextStatement(c, 0) /\ st[c] = "idle"
          /\ done'[c] = 0 /\ 0 \in 0 .. Statements
      BY <1>1 DEF Begin
    <2>2. Asks(c, queue) /\ answer' = [answer EXCEPT ![c] = "none"] /\ st'[c] = "write"
      BY <2>1, NextStatementAsks
    <2>3. Safe(c)' BY <1>s, <2>1, <2>2 DEF Safe, conn
    <2> QED BY <2>1, <2>2, <2>3, AckOthers
  <1>2. CASE /\ st[c] = "write" /\ answer[c] = "ok" /\ UNCHANGED conn
             /\ done' = [done EXCEPT ![c] = @ + 1] /\ NextStatement(c, done[c] + 1)
    <2>1. done'[c] = done[c] + 1 /\ done[c] + 1 \in 0 .. Statements BY <1>2
    <2>2. Asks(c, queue) /\ answer' = [answer EXCEPT ![c] = "none"]
          /\ st'[c] \in {"write", "commit"}
      BY <1>2, <2>1, NextStatementAsks
    <2>3. Safe(c)' BY <1>s, <1>2, <2>1, <2>2 DEF Safe, conn
    <2> QED BY <1>2, <2>2, <2>3, AckOthers
  <1>3. CASE /\ st[c] = "commit" /\ answer[c] = "ok" /\ UNCHANGED <<conn, done>>
             /\ End(c, queue, "acked")
    <2>1. Ends(c, queue) /\ answer' = [answer EXCEPT ![c] = "none"] /\ st'[c] = "acked"
      BY <1>3 DEF End, Ends, Ended
    <2>2. Safe(c)' BY <1>s, <1>3, <2>1 DEF Safe, conn, WritesOf
    <2> QED BY <1>3, <2>1, <2>2, AckOthers
  <1> QED BY <1>s, <1>1, <1>2, <1>3 DEF Resume, Safe

LEMMA AckStep == Typed /\ AckInv /\ [Next]_vars => AckInv'
  <1> SUFFICES ASSUME Typed, AckInv, [Next]_vars, NoFault' PROVE AckInv'
    BY DEF AckInv
  <1>1. CASE Thread BY <1>1, AckThread
  <1>2. ASSUME NEW c \in Writers, Begin(c) \/ Resume(c) PROVE AckInv'
    <2>1. NoFault BY <1>2 DEF NoFault, Begin, Resume
    <2> QED BY <1>2, <2>1, AckWriter
  <1>3. ASSUME NEW c \in Writers, Cancel(c) PROVE FALSE
    BY <1>3 DEF Cancel, NoFault, Typed, TypeOK
  <1>4. CASE UNCHANGED vars
    <2>1. UNCHANGED <<disk, work, queue, st, answer, done, errors, cancels>>
      BY <1>4 DEF vars, conn, writers
    <2> QED BY <2>1 DEF AckInv, Safe, WritesOf, NoFault
  <1> QED BY <1>1, <1>2, <1>3, <1>4 DEF Next

LEMMA AckInit == Init => AckInv
  <1> SUFFICES ASSUME Init PROVE AckInv OBVIOUS
  <1>1. DOMAIN queue = {} BY DEF Init
  <1>2. ASSUME NEW c \in Writers PROVE Safe(c)
    <2>1. st[c] = "idle" /\ answer[c] = "none" /\ done[c] = 0 BY DEF Init
    <2> QED BY <2>1 DEF Safe
  <1> QED BY <1>1, <1>2 DEF AckInv

\* While nothing fails a group that has returned is durable, although its writes
\* share a transaction with everybody else's.
THEOREM AckTheorem == Spec => []AckedUnlessFailure
  <1>1. Init => AckInv BY AckInit
  <1>2. AckInv => AckedUnlessFailure
    BY DEF AckInv, AckedUnlessFailure, Safe, NoFault
  <1> QED BY <1>1, <1>2, AckStep, Typing, PTL DEF Spec, Typed
=============================================================================
