--------------------------- MODULE DurableWrites ---------------------------
(***************************************************************************)
(* What the shared connection promises of what is durable, whatever the      *)
(* thread, the other writers, the errors and the cancellations that          *)
(* SharedConn models do to a group of statements: a writer's group touches   *)
(* the disk only while it is running, and an ended one never again, unless   *)
(* it is a bare group that has raised and left its statements in an open     *)
(* transaction.                                                              *)
(***************************************************************************)
EXTENDS Naturals

CONSTANTS Writers, Statements, Blocks

VARIABLES
    disk,       \* the writes that are durable
    outcome,    \* of each writer's group
    faulty      \* a statement has raised or a coroutine was cancelled

vars == <<disk, outcome, faulty>>

WritesOf(c) == {c} \X (1 .. Statements)

Init ==
    /\ disk = {}
    /\ outcome = [c \in Writers |-> "idle"]
    /\ faulty = FALSE

\* c's statements may still become durable.
MayWrite(c) ==
    \/ outcome[c] = "running"
    \/ outcome[c] = "raised" /\ c \notin Blocks

Turns(c, from, to) ==
    outcome[c] = from /\ outcome' = [outcome EXCEPT ![c] = to] /\ UNCHANGED disk

Begin(c) == Turns(c, "idle", "running")

\* A group returns when all of it is durable; after a fault that is not promised.
Ack(c) == Turns(c, "running", "acked") /\ (WritesOf(c) \subseteq disk \/ faulty')

\* A group raises only because of a fault, its own or another's.
Raise(c) == Turns(c, "running", "raised") /\ faulty'

\* A commit, anyone's: it adds writes, and takes none away.
Persist ==
    /\ disk \subseteq disk'
    /\ disk' \ disk \subseteq UNION {WritesOf(c) : c \in {d \in Writers : MayWrite(d)}}
    /\ UNCHANGED outcome

Next ==
    /\ Persist \/ \E c \in Writers : Begin(c) \/ Ack(c) \/ Raise(c)
    /\ faulty' \in {faulty, TRUE}

Spec == Init /\ [][Next]_vars

=============================================================================
