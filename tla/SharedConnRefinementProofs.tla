--------------------- MODULE SharedConnRefinementProofs ----------------------
(***************************************************************************)
(* The shared connection implements DurableWrites, for any number of writers, *)
(* any length of their groups and any number of errors and cancellations.    *)
(***************************************************************************)
EXTENDS SharedConnProofs

USE SharedConnAssumption

-----------------------------------------------------------------------------
(* An ended group has left nothing behind *)

\* What is queued for a writer whose statements still succeed is its own to hear
\* of: there is at most the one it waits for.  A writer that has not begun, or
\* whose commit has run, has nothing in the queue or in the transaction.
SettledInv ==
    \A c \in Writers :
        /\ st[c] \in {"idle", "write", "commit"} =>
             \A i \in DOMAIN queue : WrittenBy(c, queue[i]) => queue[i].who = c
        /\ st[c] \in {"idle", "acked"} \/ (st[c] = "commit" /\ answer[c] = "ok")
             => Spotless(c)

LEMMA SettledThread == Typed /\ SettledInv /\ Thread => SettledInv'
  <1> SUFFICES ASSUME Typed, SettledInv, Thread, NEW c \in Writers
               PROVE  (/\ st[c] \in {"idle", "write", "commit"} =>
                            \A i \in DOMAIN queue : WrittenBy(c, queue[i]) => queue[i].who = c
                       /\ st[c] \in {"idle", "acked"} \/ (st[c] = "commit" /\ answer[c] = "ok")
                            => Spotless(c))'
    BY DEF SettledInv
  <1>t. /\ queue # <<>> /\ queue' = Tail(queue) /\ UNCHANGED <<st, done>>
        /\ Head(queue) = queue[1] /\ 1 \in DOMAIN queue
        /\ \A i \in DOMAIN queue' : /\ i \in Nat \ {0} /\ i + 1 \in DOMAIN queue
                                    /\ queue'[i] = queue[i + 1] /\ i + 1 # 1
    BY ThreadStep, Queued
  <1>1. st[c] \in {"idle", "write", "commit"} =>
          \A i \in DOMAIN queue' : WrittenBy(c, queue'[i]) => queue'[i].who = c
    BY <1>t DEF SettledInv
  <1>2. Spotless(c) => Spotless(c)' BY SpotlessThread
  <1>3. ASSUME st[c] = "commit", answer[c] # "ok", answer'[c] = "ok"
        PROVE  Spotless(c)'
    <2>1. Head(queue).who = c /\ Fits(c, Head(queue))
      BY <1>3, ThreadStep DEF Typed, TypeOK
    <2>2. Head(queue).op = "commit" BY <1>3, <2>1 DEF Fits
    <2>3. work' = {}
      BY <1>3, <2>1, <2>2
      DEF Thread, RunWrite, RunCommit, RunRollback, RunError, Answer, Typed, TypeOK
    <2>4. \A i \in DOMAIN queue' : ~WrittenBy(c, queue'[i])
      BY <1>3, <1>t, <2>1, SharedConnAssumption DEF SettledInv, Typed, QueueInv
    <2> QED BY <2>3, <2>4 DEF Spotless, WrittenBy, WritesOf
  <1> QED BY <1>t, <1>1, <1>2, <1>3 DEF SettledInv, WrittenBy, WritesOf

LEMMA SettledWriter ==
    ASSUME Typed, SettledInv, NEW d \in Writers, NEW q, WriterEffect(d, q)
    PROVE  SettledInv'
  <1> SUFFICES ASSUME NEW c \in Writers
               PROVE  (/\ st[c] \in {"idle", "write", "commit"} =>
                            \A i \in DOMAIN queue : WrittenBy(c, queue[i]) => queue[i].who = c
                       /\ st[c] \in {"idle", "acked"} \/ (st[c] = "commit" /\ answer[c] = "ok")
                            => Spotless(c))'
    BY DEF SettledInv
  <1> USE DEF WriterEffect
  <1>f. /\ d # c => st'[c] = st[c] /\ answer'[c] = answer[c]
        /\ answer'[d] = "none"
    BY DEF Asks, Ends, Typed, TypeOK
  <1>q. /\ DOMAIN q = DOMAIN queue
        /\ \A i \in DOMAIN queue : /\ WrittenBy(c, q[i]) => WrittenBy(c, queue[i])
                                   /\ queue[i].who # d => q[i] = queue[i]
    BY DEF Freed, WrittenBy
  \* What d has not asked for, or does not wait for, stays as it was.
  <1>1. ASSUME st'[c] \in {"idle", "write", "commit"},
               NEW i \in DOMAIN queue, WrittenBy(c, q[i])
        PROVE  q[i].who = c
    <2>1. CASE d # c BY <1>1, <1>f, <1>q, <2>1 DEF SettledInv
    <2>2. CASE d = c
      <3>1. st[c] \in {"idle", "write"} /\ ~Asking(c)
        BY <1>1, <2>2 DEF Ends, Asks, Ended, Waiting, Typed, TypeOK
      <3>2. queue[i].who = c BY <1>1, <1>q, <3>1 DEF SettledInv
      <3> QED BY <3>1, <3>2, SharedConnAssumption DEF Typed, QueueInv
    <2> QED BY <2>1, <2>2
  <1>2. CASE Ends(d, q)
    <2>1. queue' = q BY <1>2 DEF Ends
    <2>2. st'[d] = "acked" => st[d] = "commit" /\ answer[d] = "ok"
      BY <1>2 DEF Ends, Asks, Ended, Waiting, Typed, TypeOK
    <2>3. st'[d] \in Ended BY <1>2 DEF Ends, Typed, TypeOK
    <2>4. Spotless(c) => Spotless(c)' BY <1>2, SpotlessWriter
    <2> QED BY <1>f, <1>1, <1>q, <2>1, <2>2, <2>3, <2>4 DEF SettledInv, WrittenBy, WritesOf, Ended
  <1>3. CASE Asks(d, q)
    <2>1. PICK s \in Waiting, job \in Operation :
            /\ job.who = d /\ queue' = Append(q, job)
            /\ st' = [st EXCEPT ![d] = s] /\ Fits(d, job)'
      BY <1>3 DEF Asks
    <2>2. d # c => ~WrittenBy(c, job) BY <2>1 DEF Fits, WrittenBy, WritesOf
    <2>3. /\ DOMAIN queue' = 1 .. (Len(queue) + 1) /\ DOMAIN queue = 1 .. Len(queue)
          /\ Len(queue) \in Nat /\ queue'[Len(queue) + 1] = job
          /\ \A i \in DOMAIN queue : queue'[i] = q[i]
      <3>1. Freed(d, q) OBVIOUS
      <3> QED BY <2>1, <3>1, AskedQueue
    <2>4. \A i \in DOMAIN queue' :
            (i \in DOMAIN queue /\ queue'[i] = q[i]) \/ queue'[i] = job
      BY <2>3
    <2>5. st'[c] \in {"idle", "write", "commit"} =>
            \A i \in DOMAIN queue' : WrittenBy(c, queue'[i]) => queue'[i].who = c
      BY <1>1, <2>1, <2>2, <2>4
    <2>6. d # c /\ Spotless(c) => Spotless(c)' BY SpotlessWriter
    <2>7. d = c => st'[c] \in Waiting /\ answer'[c] = "none"
      BY <1>f, <2>1 DEF Typed, TypeOK
    <2> QED BY <1>f, <2>5, <2>6, <2>7 DEF SettledInv, WrittenBy, WritesOf, Waiting
  <1> QED BY <1>2, <1>3

LEMMA SettledStep == Typed /\ SettledInv /\ [Next]_vars => SettledInv'
  <1> SUFFICES ASSUME Typed, SettledInv, [Next]_vars PROVE SettledInv' OBVIOUS
  <1>1. CASE Thread BY <1>1, SettledThread
  <1>2. CASE \E c \in Writers : Begin(c) \/ Resume(c) \/ Cancel(c)
    BY <1>2, WriterStep, SettledWriter
  <1>3. CASE UNCHANGED vars
    <2>1. UNCHANGED <<work, queue, st, answer>> BY <1>3 DEF vars, conn, writers
    <2> QED BY <2>1 DEF SettledInv, Spotless, WrittenBy, WritesOf
  <1> QED BY <1>1, <1>2, <1>3 DEF Next

-----------------------------------------------------------------------------
(* The refinement *)

\* The outcome of c's group, as the refinement maps it.
Outcome(c) == IF st[c] \in Waiting THEN "running" ELSE st[c]

Faulty == errors > 0 \/ cancels > 0

\* The counts of faults only grow.
LEMMA CountsStep ==
    ASSUME Typed, [Next]_vars
    PROVE  /\ errors \in Nat /\ errors' \in {errors, errors + 1}
           /\ cancels \in Nat /\ cancels' \in {cancels, cancels + 1}
  BY DEF Typed, TypeOK, Next, Thread, RunWrite, RunCommit, RunRollback, RunError,
         Begin, Resume, Cancel, vars

LEMMA FaultyStays == Typed /\ [Next]_vars => Faulty' \in {Faulty, TRUE}
  <1> SUFFICES ASSUME Typed, [Next]_vars PROVE Faulty' \in {Faulty, TRUE} OBVIOUS
  <1>1. /\ errors \in Nat /\ errors' \in {errors, errors + 1}
        /\ cancels \in Nat /\ cancels' \in {cancels, cancels + 1}
    BY CountsStep
  <1>3. Faulty => Faulty' BY <1>1 DEF Faulty
  <1>4. Faulty \in BOOLEAN /\ Faulty' \in BOOLEAN BY DEF Faulty
  <1> QED BY <1>3, <1>4

\* A statement on the thread persists only what may still be written.
LEMMA ThreadPersists ==
    ASSUME Typed, LateInv, SettledInv, Thread PROVE Durable!Persist
  <1>1. UNCHANGED st BY ThreadStep
  <1>2. disk' = disk \/ disk' = disk \cup work
    BY DEF Thread, RunWrite, RunCommit, RunRollback, RunError
  <1>3. ASSUME NEW w \in work
        PROVE  \E c \in Writers : Durable!MayWrite(c) /\ w \in Durable!WritesOf(c)
    <2>1. PICK c \in Writers : w \in WritesOf(c)
      BY DEF Typed, TypeOK, Write, WritesOf
    <2>2. ~Spotless(c) BY <2>1 DEF Spotless
    <2>3. st[c] \in Waiting \/ (st[c] = "raised" /\ c \notin Blocks)
      BY <2>2 DEF LateInv, SettledInv, Typed, TypeOK, Ended
    <2>4. Durable!MayWrite(c) BY <2>3 DEF Durable!MayWrite, Waiting
    <2>5. w \in Durable!WritesOf(c) BY <2>1 DEF WritesOf, Durable!WritesOf
    <2> QED BY <2>4, <2>5
  <1> QED BY <1>1, <1>2, <1>3 DEF Durable!Persist

\* A writer's step begins its group, ends it or leaves it running.
LEMMA WriterTurns ==
    ASSUME Typed, AckInv', NEW c \in Writers, Begin(c) \/ Resume(c) \/ Cancel(c)
    PROVE  \/ Durable!Persist \/ Durable!Begin(c)
           \/ Durable!Ack(c) \/ Durable!Raise(c)
  <1>1. PICK q : WriterEffect(c, q) BY WriterStep
  <1>2. /\ UNCHANGED disk /\ \A d \in Writers \ {c} : st'[d] = st[d]
        /\ \/ st'[c] \in Waiting /\ st[c] \in {"idle"} \cup Waiting
           \/ st'[c] \in Ended /\ st[c] \in Waiting
    BY <1>1 DEF WriterEffect, conn, Asks, Ends, Typed, TypeOK
  <1>3. ASSUME NEW x, Outcome(c)' = x
        PROVE  [d \in Writers |-> Outcome(d)]'
                 = [[d \in Writers |-> Outcome(d)] EXCEPT ![c] = x]
    <2>1. \A d \in Writers \ {c} : Outcome(d)' = Outcome(d) BY <1>2 DEF Outcome
    <2> HIDE DEF Outcome
    <2> QED BY <1>3, <2>1
  <1>4. CASE st'[c] \in Waiting /\ st[c] \in Waiting
    <2>1. [d \in Writers |-> Outcome(d)]' = [d \in Writers |-> Outcome(d)]
      BY <1>2, <1>4 DEF Outcome
    <2> QED BY <1>2, <2>1 DEF Durable!Persist, Outcome
  <1>5. CASE st'[c] \in Waiting /\ st[c] = "idle"
    <2>1. Outcome(c)' = "running" /\ Outcome(c) = "idle"
      BY <1>5 DEF Outcome, Waiting
    <2> QED BY <1>2, <1>3, <2>1 DEF Durable!Begin, Durable!Turns, Outcome
  <1>6. CASE st'[c] \in Ended /\ st[c] \in Waiting
    <2>1. Outcome(c)' = st'[c] /\ Outcome(c) = "running"
      BY <1>6 DEF Outcome, Waiting, Ended
    <2>2. ~Faulty' => Safe(c)'
      <3>1. errors' \in Nat /\ cancels' \in Nat BY CountsStep DEF Next
      <3> QED BY <3>1 DEF AckInv, NoFault, Faulty
    <2>3. CASE st'[c] = "acked"
      <3>1. ~Faulty' => Durable!WritesOf(c) \subseteq disk
        BY <1>2, <2>2, <2>3 DEF Safe, WritesOf, Durable!WritesOf
      <3> QED BY <1>2, <1>3, <2>1, <2>3, <3>1
              DEF Durable!Ack, Durable!Turns, Outcome, Faulty
    <2>4. CASE st'[c] = "raised"
      <3>1. Faulty' BY <2>2, <2>4 DEF Safe
      <3> QED BY <1>2, <1>3, <2>1, <2>4, <3>1
              DEF Durable!Raise, Durable!Turns, Outcome, Faulty
    <2> QED BY <1>6, <2>3, <2>4 DEF Ended
  <1> QED BY <1>2, <1>4, <1>5, <1>6

LEMMA DurableStep ==
    Typed /\ LateInv /\ SettledInv /\ AckInv' /\ [Next]_vars => [Durable!Next]_Durable!vars
  <1> SUFFICES ASSUME Typed, LateInv, SettledInv, AckInv', [Next]_vars
               PROVE  [Durable!Next]_Durable!vars
    OBVIOUS
  <1>1. Faulty' \in {Faulty, TRUE} BY FaultyStays
  <1>2. CASE Thread BY <1>1, <1>2, ThreadPersists DEF Durable!Next, Faulty
  <1>3. CASE \E c \in Writers : Begin(c) \/ Resume(c) \/ Cancel(c)
    BY <1>1, <1>3, WriterTurns DEF Durable!Next, Faulty
  <1>4. CASE UNCHANGED vars
    BY <1>4 DEF Durable!vars, vars, conn, writers
  <1> QED BY <1>2, <1>3, <1>4 DEF Next

\* Whatever the writers, the errors and the cancellations do, only a running
\* group changes what is durable, or a bare one that has raised.
THEOREM DurableTheorem == Spec => ImplementsDurableWrites
  <1>1. Init => Durable!Init /\ LateInv /\ SettledInv
    <2> SUFFICES ASSUME Init PROVE Durable!Init /\ LateInv /\ SettledInv OBVIOUS
    <2>1. DOMAIN queue = {} BY DEF Init
    <2>2. Durable!Init BY SharedConnAssumption DEF Init, Durable!Init, Waiting
    <2>3. LateInv BY DEF Init, LateInv
    <2>4. SettledInv BY <2>1 DEF Init, SettledInv, Spotless
    <2> QED BY <2>2, <2>3, <2>4
  <1>2. Init => AckInv BY AckInit
  <1> QED
    BY <1>1, <1>2, LateStep, SettledStep, AckStep, DurableStep, Typing, PTL
    DEF Spec, Typed, ImplementsDurableWrites, Durable!Spec

=============================================================================
