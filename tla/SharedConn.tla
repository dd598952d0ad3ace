---------------------------- MODULE SharedConn -----------------------------
(***************************************************************************)
(* The aiosqlite connection that every store shares (state/backends/        *)
(* sqlite.py).  Its statements run one by one, in the order they were asked  *)
(* for, on the connection's thread, and all of them belong to the one        *)
(* transaction that is open at the time, whoever asked.  A writer is a       *)
(* coroutine that executes its statements and commits, bare or inside        *)
(* transactional_write; execute is wrapped by install_safe_rollback.         *)
(*                                                                          *)
(* An action is one statement on the thread, or what a coroutine does from   *)
(* one await to the next.                                                   *)
(***************************************************************************)
EXTENDS Naturals, Sequences

CONSTANTS
    Writers,      \* coroutines, one group of statements each
    Nobody,       \* stands for a coroutine that no longer waits
    Statements,   \* the number of DML statements of a group
    Blocks,       \* the writers that use transactional_write
    MaxErrors,    \* bound: statements that raise
    MaxCancels    \* bound: coroutines that are cancelled

ASSUME SharedConnAssumption ==
    /\ Nobody \notin Writers
    /\ Statements \in Nat \ {0}
    /\ Blocks \subseteq Writers
    /\ MaxErrors \in Nat /\ MaxCancels \in Nat

VARIABLES
    disk,     \* the writes that are durable
    work,     \* the writes of the open transaction
    tx,       \* in_transaction
    queue,    \* what the thread has still to do
    st,       \* what each writer waits for, or how its group ended
    answer,   \* the outcome of the operation it waits for
    done,     \* the statements it has seen succeed
    errors, cancels   \* counts the bounds apply to

conn    == <<disk, work, tx>>
writers == <<st, answer, done>>
vars    == <<conn, queue, writers, errors, cancels>>

\* A write is its writer and the number of the statement.
WritesOf(c) == {c} \X (1 .. Statements)
Write   == Writers \X (1 .. Statements)
Waiting == {"write", "commit", "saferollback", "rollback"}
Ended   == {"acked", "raised"}

Operation == [who: Writers \cup {Nobody}, op: {"commit", "rollback"}]
             \cup [who: Writers \cup {Nobody}, op: {"write"}, row: Write]

TypeOK ==
    /\ disk \in SUBSET Write /\ work \in SUBSET Write /\ tx \in BOOLEAN
    /\ queue \in Seq(Operation)
    /\ st \in [Writers -> {"idle"} \cup Waiting \cup Ended]
    /\ answer \in [Writers -> {"none", "ok", "error"}]
    /\ done \in [Writers -> 0 .. Statements]
    /\ errors \in 0 .. MaxErrors /\ cancels \in 0 .. MaxCancels

Init ==
    /\ disk = {} /\ work = {} /\ tx = FALSE
    /\ queue = <<>>
    /\ st = [c \in Writers |-> "idle"]
    /\ answer = [c \in Writers |-> "none"]
    /\ done = [c \in Writers |-> 0]
    /\ errors = 0 /\ cancels = 0

-----------------------------------------------------------------------------
(* The connection's thread *)

Answer(c, outcome) ==
    answer' = IF c = Nobody THEN answer ELSE [answer EXCEPT ![c] = outcome]

\* The first DML statement opens the transaction.
RunWrite ==
    /\ queue # <<>> /\ Head(queue).op = "write"
    /\ work' = work \cup {Head(queue).row} /\ tx' = TRUE /\ UNCHANGED disk
    /\ Answer(Head(queue).who, "ok")
    /\ queue' = Tail(queue)
    /\ UNCHANGED <<st, done, errors, cancels>>

RunCommit ==
    /\ queue # <<>> /\ Head(queue).op = "commit"
    /\ disk' = disk \cup work /\ work' = {} /\ tx' = FALSE
    /\ Answer(Head(queue).who, "ok")
    /\ queue' = Tail(queue)
    /\ UNCHANGED <<st, done, errors, cancels>>

RunRollback ==
    /\ queue # <<>> /\ Head(queue).op = "rollback"
    /\ work' = {} /\ tx' = FALSE /\ UNCHANGED disk
    /\ Answer(Head(queue).who, "ok")
    /\ queue' = Tail(queue)
    /\ UNCHANGED <<st, done, errors, cancels>>

\* "database is locked": a statement fails with the transaction open, a commit
\* leaves it open.  Without a transaction a commit does nothing.
RunError ==
    /\ queue # <<>> /\ errors < MaxErrors
    /\ \/ Head(queue).op = "write" /\ tx' = TRUE
       \/ Head(queue).op = "commit" /\ tx /\ tx' = tx
    /\ Answer(Head(queue).who, "error")
    /\ queue' = Tail(queue) /\ errors' = errors + 1
    /\ UNCHANGED <<disk, work, st, done, cancels>>

Thread == RunWrite \/ RunCommit \/ RunRollback \/ RunError

-----------------------------------------------------------------------------
(* The writers *)

\* c asks for op and waits for it; q is what the thread has to do before.
Ask(c, q, state, job) ==
    /\ queue' = Append(q, job)
    /\ st' = [st EXCEPT ![c] = state]
    /\ answer' = [answer EXCEPT ![c] = "none"]

End(c, q, state) ==
    /\ queue' = q
    /\ st' = [st EXCEPT ![c] = state]
    /\ answer' = [answer EXCEPT ![c] = "none"]

\* mutant: one statement too many
NextStatementOffByOne(c, n) ==
    IF n <= Statements
    THEN Ask(c, queue, "write", [who |-> c, op |-> "write", row |-> <<c, n + 1>>])
    ELSE Ask(c, queue, "commit", [who |-> c, op |-> "commit"])

\* mutant: the block ends without its commit
NextStatementNoCommit(c, n) ==
    IF n < Statements
    THEN Ask(c, queue, "write", [who |-> c, op |-> "write", row |-> <<c, n + 1>>])
    ELSE End(c, queue, "acked")

\* After n statements: the next one, or the commit.
NextStatement(c, n) ==
    IF n < Statements
    THEN Ask(c, queue, "write", [who |-> c, op |-> "write", row |-> <<c, n + 1>>])
    ELSE Ask(c, queue, "commit", [who |-> c, op |-> "commit"])

\* mutant: transactional_write lets cancellation through ("except Exception")
RaiseOutNoRollback(c, q) == End(c, q, "raised")

\* An exception leaves the group: transactional_write rolls back first.
RaiseOut(c, q) ==
    IF c \in Blocks
    THEN Ask(c, q, "rollback", [who |-> c, op |-> "rollback"])
    ELSE End(c, q, "raised")

\* An exception leaves execute: the wrapper rolls back when the connection is
\* in a transaction as the coroutine looks, whatever is still in the queue.
RaiseFromExecute(c, q) ==
    IF tx THEN Ask(c, q, "saferollback", [who |-> c, op |-> "rollback"])
          ELSE RaiseOut(c, q)

Begin(c) ==
    /\ st[c] = "idle"
    /\ NextStatement(c, 0)
    /\ UNCHANGED <<conn, done, errors, cancels>>

Resume(c) ==
    /\ answer[c] # "none"
    /\ \/ /\ st[c] = "write" /\ answer[c] = "ok"
          /\ done' = [done EXCEPT ![c] = @ + 1]
          /\ NextStatement(c, done[c] + 1)
       \/ /\ st[c] = "write" /\ answer[c] = "error"
          /\ RaiseFromExecute(c, queue) /\ UNCHANGED done
       \/ st[c] = "commit" /\ answer[c] = "ok" /\ End(c, queue, "acked") /\ UNCHANGED done
       \/ /\ \/ st[c] = "commit" /\ answer[c] = "error"
             \/ st[c] = "saferollback"
          /\ RaiseOut(c, queue) /\ UNCHANGED done
       \/ st[c] = "rollback" /\ End(c, queue, "raised") /\ UNCHANGED done
    /\ UNCHANGED <<conn, errors, cancels>>

\* What c has asked for is done all the same, and nobody hears of it.
Orphaned(c) ==
    [i \in DOMAIN queue |->
        IF queue[i].who = c THEN [queue[i] EXCEPT !.who = Nobody] ELSE queue[i]]

\* The task is cancelled: CancelledError at the await.
Cancel(c) ==
    /\ cancels < MaxCancels /\ cancels' = cancels + 1
    /\ \/ st[c] = "write" /\ RaiseFromExecute(c, Orphaned(c))
       \/ st[c] = "commit" /\ RaiseOut(c, Orphaned(c))
    /\ UNCHANGED <<conn, done, errors>>

Next == Thread \/ \E c \in Writers : Begin(c) \/ Resume(c) \/ Cancel(c)

Spec == Init /\ [][Next]_vars

-----------------------------------------------------------------------------
(* Properties *)

Quiet == queue = <<>> /\ \A c \in Writers : st[c] \in Ended \cup {"idle"}

\* When no writer is at work no transaction is open: a ghost transaction would
\* hold its snapshot, and the WAL with it, until some later commit.  The writers
\* without transactional_write that have raised are the ones that may leave one.
NoGhostTransaction ==
    Quiet /\ (\A c \in Writers \ Blocks : st[c] # "raised") => ~tx

\* After transactional_write has raised, nothing of its block becomes durable:
\* not by a statement still in the queue, nor by another writer's commit.
NoLateWrite ==
    [][\A c \in Blocks :
          st[c] = "raised" => disk' \cap WritesOf(c) = disk \cap WritesOf(c)]_vars

\* While nothing fails, sharing is harmless: a group that has returned is
\* durable, whoever's commit has written it.
AckedUnlessFailure ==
    errors = 0 /\ cancels = 0 =>
        \A c \in Writers : st[c] = "acked" => WritesOf(c) \subseteq disk

\* Only a running group, or a bare one that has raised, can change what is
\* durable: SharedConn keeps the promises of DurableWrites.
Durable == INSTANCE DurableWrites WITH
    outcome <- [c \in Writers |->
                  IF st[c] \in Waiting THEN "running" ELSE st[c]],
    faulty  <- errors > 0 \/ cancels > 0

ImplementsDurableWrites == Durable!Spec

\* What the docs say and the code does not do.

\* transactional_write: "commit on clean exit, rollback on any exception".
CommittedOnCleanExit ==
    \A c \in Blocks : st[c] = "acked" => WritesOf(c) \subseteq disk

\* install_safe_rollback: "On exception ... fires an awaitable rollback if the
\* SQL was a DML - clearing Python's stuck in_transaction state before
\* re-raising".  Once the writers are through, no DML's transaction is open.
ClearedBeforeReraise == Quiet /\ errors = 0 => ~tx

=============================================================================
