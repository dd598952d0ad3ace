------------------------------- MODULE Engine -------------------------------
(***************************************************************************)
(* The life of the one llama-server that LlamaServerManager keeps           *)
(* (models/llama_server_manager.py): start with its coalescing, stop, swap,  *)
(* the idle monitor and the reclaim of strands, under the chat requests that *)
(* ensure a model (models/llama_cpp.py) and the HTTP requests that load and  *)
(* unload one (proxy/model_routes.py, proxy/fabric_routes.py).              *)
(*                                                                          *)
(* Nothing of it holds a lock but the one the chats take around their check  *)
(* and start: an action is what runs between two awaits.                    *)
(***************************************************************************)
EXTENDS Naturals

CONSTANTS
    Chats,        \* chat requests
    Loads,        \* HTTP requests that load a model
    Unloads,      \* HTTP requests that unload
    MaxMonitors,  \* bound: monitor tasks
    Models,       \* the models' paths
    None,         \* no model, nobody
    MaxFaults,    \* bound: crashes, exec failures, processes that do not die
    MaxCancels    \* bound: chats whose client goes away

Monitors == 1 .. MaxMonitors
Starters == Chats \cup Loads
Actors   == Starters \cup Unloads \cup Monitors

ASSUME EngineAssumption ==
    /\ None \notin Models \cup Actors
    /\ Chats \cap Loads = {} /\ Starters \cap Unloads = {}
    /\ Monitors \cap (Starters \cup Unloads) = {}
    /\ MaxMonitors \in Nat /\ MaxFaults \in Nat /\ MaxCancels \in Nat

VARIABLES
    state,      \* self.state
    proc,       \* self.process: none, alive, dead
    model,      \* self.model_id
    starting,   \* _starting_future while not done(), as its start(), and its path
    idle,       \* _idle_task: a monitor, or None
    doomed,     \* monitors that have been cancelled and have not run since
    recent,     \* the idle clock has been touched since it was last looked at
    at,         \* where each actor is
    server,     \* the process that holds the port: none, loading, healthy
    faults, cancels   \* counts the bounds apply to

tasks  == <<idle, doomed>>
world  == <<server, proc>>
counts == <<faults, cancels>>
vars   == <<state, model, starting, tasks, recent, at, world, counts>>

StopPlace  == {"sample", "dying", "released"}
StartPlace == {"probe", "reclaim", "prepare", "spawn", "health"}
Place      == {"new", "over", "gone", "queued", "resolve", "wait", "serve", "asleep"}
                  \cup StopPlace \cup StartPlace

\* Not begun, ended, and ended by a start() that raised without its future set.
Away == {"new", "over", "gone"}

\* An actor's place, the model it wants, what follows the stop() it is in, the
\* start() whose future it awaits, and whether it tries again after a failure.
Where == [pc : Place, wants : Models \cup {None},
          after : {"none", "unload", "swap", "claim", "exited", "late", "monitor"},
          on : Starters \cup {None}, lazy : BOOLEAN]

\* Each request is made once, each monitor task runs once.
Being(pc, wants, after, on, lazy) ==
    [pc |-> pc, wants |-> wants, after |-> after, on |-> on, lazy |-> lazy]
Plainly(pc, wants) == Being(pc, wants, "none", None, FALSE)
New  == Plainly("new", None)
Over == Plainly("over", None)

NotStarting == [by |-> None, path |-> None]

TypeOK ==
    /\ state \in {"idle", "starting", "ready", "stopping"}
    /\ proc \in {"none", "alive", "dead"}
    /\ model \in Models \cup {None}
    /\ starting \in [by : Starters, path : Models] \cup {NotStarting}
    /\ idle \in Monitors \cup {None} /\ doomed \in SUBSET Monitors
    /\ recent \in BOOLEAN
    /\ at \in [Actors -> Where]
    /\ server \in {"none", "loading", "healthy"}
    /\ faults \in 0 .. MaxFaults /\ cancels \in 0 .. MaxCancels

Init ==
    /\ state = "idle" /\ proc = "none" /\ model = None /\ starting = NotStarting
    /\ idle = None /\ doomed = {} /\ recent = FALSE
    /\ at = [a \in Actors |-> New]
    /\ server = "none" /\ faults = 0 /\ cancels = 0

-----------------------------------------------------------------------------
(* Helpers *)

In(a, place) == at[a].pc = place /\ a \notin doomed

\* Between the claim in start() and its return, and inside its try block.
InStart(a) ==
    /\ a \in Starters
    /\ \/ at[a].pc \in StartPlace
       \/ at[a].pc \in StopPlace /\ at[a].after \in {"claim", "exited", "late"}

InTry(a) ==
    \/ at[a].pc \in {"prepare", "spawn", "health"}
    \/ at[a].pc \in StopPlace /\ at[a].after \in {"exited", "late"}

Becomes(a, w) == at' = [at EXCEPT ![a] = w]
Goes(a, place) ==
    Becomes(a, Being(place, at[a].wants, at[a].after, at[a].on, at[a].lazy))
Enters(a, place, m) == Becomes(a, Plainly(place, m))
Leaves(a) == Becomes(a, Over)

\* request_in_flight: entered and left by a chat, it touches the idle clock.
InFlight == {c \in Chats : at[c].pc \notin Away}
Touched == recent' = (recent \/ InFlight' # InFlight)

\* _ensure_lock
LockFree == \A c \in Chats : at[c].pc \in Away \cup {"queued", "serve"}

Fault == faults < MaxFaults /\ faults' = faults + 1 /\ UNCHANGED cancels

Awaiting(a) == {b \in Starters : at[b].pc = "wait" /\ at[b].on = a}

\* Those who go on when a's start() sets its future and returns or raises.
Callers(a) == {a} \cup Awaiting(a)

\* mutant: the future is cleared and the path is left
ClearedHalf(a) ==
    starting' = IF starting.by = a THEN [by |-> None, path |-> starting.path] ELSE starting

Cleared(a) == starting' = IF starting.by = a THEN NotStarting ELSE starting

Served(b) == IF b \in Chats THEN Plainly("serve", at[b].wants) ELSE Over
Retries(b) == Being("resolve", at[b].wants, "none", None, TRUE)

Raises(a) ==
    /\ at' = [b \in Actors |-> IF b \in Callers(a) THEN Over ELSE at[b]]
    /\ Cleared(a)

\* The server has exited: a lazy load may try again with fewer layers.
RaisesExited(a) ==
    /\ \E again \in SUBSET {c \in Callers(a) : at[c].lazy} :
         at' = [b \in Actors |-> IF b \in again THEN Retries(b)
                                 ELSE IF b \in Callers(a) THEN Over ELSE at[b]]
    /\ Cleared(a)

\* start() raises before its try block: its future stays as it is.
Abandons(a) == Goes(a, "gone") /\ UNCHANGED starting

\* A task cancelled at a future it awaits cancels the future, and so everybody
\* else who awaits it; the start() that was to set it finds it done.
CancelsFuture(c) ==
    LET a == at[c].on IN
    /\ at' = [b \in Actors |-> IF b \in Awaiting(a) THEN Over ELSE at[b]]
    /\ Cleared(a)

-----------------------------------------------------------------------------
(* stop() *)

\* mutant: a monitor that stops the server cancels itself
DetachedSelfToo(a) == idle' = None /\ doomed' = doomed \cup ({idle} \ {None})

\* mutant: the cancelled task stays registered
DetachedKept(a) == idle' = idle /\ doomed' = doomed \cup ({idle} \ {None, a})

\* stop_idle_monitor: never cancels the task it is called from.
Detached(a) == idle' = None /\ doomed' = doomed \cup ({idle} \ {None, a})

\* The first stretch of stop(), with a process to stop and with none.
StopBegins(a) ==
    /\ proc # "none"
    /\ Detached(a)
    /\ state' = "stopping"

NothingToStop(a) == proc = "none" /\ Detached(a) /\ state' = "idle"

Samples(a, after) ==
    Becomes(a, Being("sample", at[a].wants, after, at[a].on, at[a].lazy))

\* Meanwhile another stop() may have cleared self.process: AttributeError.
StopRaises(a) ==
    /\ In(a, "sample") /\ proc = "none"
    /\ \/ at[a].after \in {"unload", "swap"} /\ Leaves(a) /\ UNCHANGED starting
       \/ at[a].after = "claim" /\ Abandons(a)
       \/ at[a].after = "monitor" /\ Enters(a, "asleep", None) /\ UNCHANGED starting
       \/ at[a].after \in {"exited", "late"} /\ Raises(a)
    /\ Touched
    /\ UNCHANGED <<state, model, tasks, world, counts>>

Terminates(a) ==
    /\ In(a, "sample") /\ proc # "none"
    /\ Goes(a, "dying")
    /\ \/ /\ proc' = "dead"
          /\ server' = IF proc = "alive" THEN "none" ELSE server
          /\ UNCHANGED counts
       \/ proc = "alive" /\ Fault /\ UNCHANGED world   \* survives SIGKILL
    /\ UNCHANGED <<state, model, starting, tasks, recent>>

\* The process has been waited for: whatever self.process is now is dropped.
Clears(a) ==
    /\ In(a, "dying")
    /\ proc' = "none" /\ model' = None /\ state' = "idle"
    /\ Goes(a, "released")
    /\ UNCHANGED <<starting, tasks, recent, server, counts>>

\* The telemetry is through.  A start that goes on claims again; a failed one
\* raises, or begins again from the profile with fewer layers (a fit retry).
StopReturns(a) ==
    /\ In(a, "released")
    /\ \/ at[a].after = "unload" /\ Leaves(a) /\ UNCHANGED <<state, starting>>
       \/ at[a].after = "swap" /\ Goes(a, "resolve") /\ UNCHANGED <<state, starting>>
       \/ at[a].after = "monitor" /\ Goes(a, "probe") /\ UNCHANGED <<state, starting>>
       \/ at[a].after = "claim" /\ Goes(a, "prepare") /\ state' = "starting" /\ UNCHANGED starting
       \/ at[a].after = "exited" /\ RaisesExited(a) /\ UNCHANGED state
       \/ at[a].after = "exited" /\ Goes(a, "prepare") /\ UNCHANGED <<state, starting>>
       \/ at[a].after = "late" /\ Raises(a) /\ UNCHANGED state
    /\ Touched
    /\ UNCHANGED <<model, tasks, world, counts>>

Stop(a) == StopRaises(a) \/ Terminates(a) \/ Clears(a) \/ StopReturns(a)

-----------------------------------------------------------------------------
(* start() *)

\* mutant: a load of another model waits too
CoalescesAny(a) ==
    /\ In(a, "resolve") /\ state = "starting" /\ starting.by # None
    /\ Becomes(a, Being("wait", at[a].wants, at[a].after, starting.by, at[a].lazy))
    /\ UNCHANGED <<state, model, starting, tasks, recent, world, counts>>

\* The path has been resolved: the gate, and the claim, in one stretch.
Coalesces(a) ==
    /\ In(a, "resolve")
    /\ state = "starting" /\ starting.by # None /\ starting.path = at[a].wants
    /\ Becomes(a, Being("wait", at[a].wants, at[a].after, starting.by, at[a].lazy))
    /\ UNCHANGED <<state, model, starting, tasks, recent, world, counts>>

StartGoesOn(a) ==
    IF proc = "none"
    THEN Goes(a, "prepare") /\ UNCHANGED <<state, tasks>>
    ELSE StopBegins(a) /\ Samples(a, "claim")

Claims(a) ==
    /\ In(a, "resolve")
    /\ ~(state = "starting" /\ starting.by # None /\ starting.path = at[a].wants)
    /\ starting' = [by |-> a, path |-> at[a].wants]
    /\ IF proc = "none"
       THEN state' = "starting" /\ Goes(a, "probe") /\ UNCHANGED tasks
       ELSE StopBegins(a) /\ Samples(a, "claim")
    /\ UNCHANGED <<model, recent, world, counts>>

\* reconcile_stranded_subprocess: whatever answers on the port is killed, then
\* waited for; in start(), and in the monitor after its stop().
Probed(a) ==
    IF a \in Monitors THEN Leaves(a) /\ UNCHANGED <<state, tasks>> ELSE StartGoesOn(a)

ProbeFindsNone(a) ==
    /\ In(a, "probe") /\ server # "healthy"
    /\ Probed(a)
    /\ UNCHANGED <<model, starting, recent, world, counts>>

ProbeKills(a) ==
    /\ In(a, "probe") /\ server = "healthy"
    /\ server' = "none" /\ proc' = IF proc = "alive" THEN "dead" ELSE proc
    /\ Goes(a, "reclaim")
    /\ UNCHANGED <<state, model, starting, tasks, recent, counts>>

Reclaims(a) ==
    /\ In(a, "reclaim")
    /\ Probed(a)
    /\ UNCHANGED <<model, starting, recent, world, counts>>

Prepares(a) ==
    /\ In(a, "prepare")
    /\ model' = at[a].wants /\ Goes(a, "spawn")
    /\ UNCHANGED <<state, starting, tasks, recent, world, counts>>

\* A process that finds the port taken exits.
Spawns(a) ==
    /\ In(a, "spawn")
    /\ proc' = IF server = "none" THEN "alive" ELSE "dead"
    /\ server' = IF server = "none" THEN "loading" ELSE server
    /\ Goes(a, "health")
    /\ UNCHANGED <<state, model, starting, tasks, recent, counts>>

ExecFails(a) ==
    /\ In(a, "spawn") /\ Fault
    /\ Raises(a) /\ Touched
    /\ UNCHANGED <<state, model, tasks, world>>

\* start_idle_monitor: a new task unless one is registered.
MonitorNow ==
    IF idle # None THEN {idle}
    ELSE {m \in Monitors : In(m, "new") /\ \A k \in Monitors : k < m => ~In(k, "new")}

\* Whoever answers on the port is healthy.  Logging the pid of a process that
\* another stop() has cleared meanwhile raises.
Ready(a) ==
    /\ In(a, "health") /\ server = "healthy"
    /\ state' = "ready" /\ recent' = TRUE
    /\ \E m \in MonitorNow :
         /\ idle' = m
         /\ at' = [b \in Actors |->
                     IF b \in Callers(a) THEN IF proc = "none" THEN Over ELSE Served(b)
                     ELSE IF b = m THEN Plainly("asleep", None) ELSE at[b]]
    /\ Cleared(a)
    /\ UNCHANGED <<model, doomed, world, counts>>

\* The process has exited, or the time is up: stop(), then raise.
NotReady(a) ==
    /\ In(a, "health")
    /\ \/ proc = "dead" /\ StopBegins(a) /\ Samples(a, "exited") /\ UNCHANGED starting
       \/ proc = "alive" /\ server # "healthy"
            /\ StopBegins(a) /\ Samples(a, "late") /\ UNCHANGED starting
       \/ server # "healthy" /\ NothingToStop(a) /\ Raises(a)
    /\ Touched
    /\ UNCHANGED <<model, world, counts>>

Start(a) ==
    \/ Coalesces(a) \/ Claims(a) \/ Prepares(a) \/ Spawns(a) \/ Ready(a) \/ NotReady(a)

Probe(a) == ProbeFindsNone(a) \/ ProbeKills(a) \/ Reclaims(a)

-----------------------------------------------------------------------------
(* The requests *)

ChatBegins(c, m) ==
    /\ In(c, "new") /\ Enters(c, "queued", m) /\ Touched
    /\ UNCHANGED <<state, model, starting, tasks, world, counts>>

Alive == state = "ready" /\ proc = "alive"

\* _ensure_server_locked with the lock taken: the model is there ...
ChatFinds(c) ==
    /\ In(c, "queued") /\ LockFree
    /\ Alive /\ at[c].wants = model
    /\ Goes(c, "serve")
    /\ UNCHANGED <<state, model, starting, tasks, recent, world, counts>>

\* ... or another is, and is swapped out ...
ChatSwaps(c) ==
    /\ In(c, "queued") /\ LockFree
    /\ Alive /\ at[c].wants # model
    /\ StopBegins(c) /\ Samples(c, "swap")
    /\ UNCHANGED <<model, starting, recent, world, counts>>

\* ... or the engine is not ready, check_alive having found it dead.
ChatStarts(c) ==
    /\ In(c, "queued") /\ LockFree /\ ~Alive
    /\ Becomes(c, Retries(c))
    /\ IF state = "ready"
       THEN state' = "idle" /\ proc' = "none"
            /\ model' = IF proc = "dead" THEN None ELSE model
       ELSE UNCHANGED <<state, proc, model>>
    /\ UNCHANGED <<starting, tasks, recent, server, counts>>

ChatServed(c) ==
    /\ In(c, "serve") /\ Leaves(c) /\ Touched
    /\ UNCHANGED <<state, model, starting, tasks, world, counts>>

\* The client goes away: CancelledError at the await the chat is in.
ChatCancelled(c) ==
    /\ c \in InFlight /\ cancels < MaxCancels /\ cancels' = cancels + 1
    /\ \/ InTry(c) /\ Raises(c)
       \/ InStart(c) /\ ~InTry(c) /\ Abandons(c)
       \/ at[c].pc = "wait" /\ CancelsFuture(c)
       \/ ~InStart(c) /\ at[c].pc # "wait" /\ Leaves(c) /\ UNCHANGED starting
    /\ Touched
    /\ UNCHANGED <<state, model, tasks, world, faults>>

\* The load route swaps a ready engine; it, and a peer's load, start otherwise.
LoadSwaps(l, m) ==
    /\ In(l, "new") /\ state = "ready"
    /\ \/ StopBegins(l) /\ Becomes(l, Being("sample", m, "swap", None, FALSE))
       \/ NothingToStop(l) /\ Enters(l, "resolve", m)
    /\ UNCHANGED <<model, starting, recent, world, counts>>

LoadStarts(l, m) ==
    /\ In(l, "new") /\ ~(Alive /\ model = m)
    /\ Enters(l, "resolve", m)
    /\ UNCHANGED <<state, model, starting, tasks, recent, world, counts>>

Unload(u) ==
    /\ In(u, "new")
    /\ \/ StopBegins(u) /\ Samples(u, "unload")
       \/ NothingToStop(u) /\ Leaves(u)
    /\ UNCHANGED <<model, starting, recent, world, counts>>

-----------------------------------------------------------------------------
(* The monitor, and the server *)

\* A tick of the loop: a request in flight keeps the clock fresh.
Tick(m) ==
    /\ In(m, "asleep") /\ state = "ready"
    /\ \/ /\ InFlight # {} /\ recent' = TRUE
          /\ UNCHANGED <<state, tasks, at>>
       \/ /\ InFlight = {} /\ recent /\ recent' = FALSE
          /\ UNCHANGED <<state, tasks, at>>
       \/ /\ InFlight = {} /\ ~recent
          /\ \/ StopBegins(m) /\ Samples(m, "monitor")
             \/ NothingToStop(m) /\ Goes(m, "probe")
          /\ UNCHANGED recent
    /\ UNCHANGED <<model, starting, world, counts>>

MonitorEnds(m) ==
    /\ m \in doomed /\ doomed' = doomed \ {m} /\ Leaves(m)
    /\ UNCHANGED <<state, model, starting, idle, recent, world, counts>>

ServerLoads ==
    /\ server = "loading" /\ server' = "healthy"
    /\ UNCHANGED <<state, model, starting, tasks, recent, at, proc, counts>>

ServerDies ==
    /\ server # "none" /\ server' = "none" /\ Fault
    /\ proc' = IF proc = "alive" THEN "dead" ELSE proc
    /\ UNCHANGED <<state, model, starting, tasks, recent, at>>

-----------------------------------------------------------------------------
Ensures(c) == ChatFinds(c) \/ ChatSwaps(c) \/ ChatStarts(c) \/ ChatServed(c)

Next ==
    \/ \E a \in Actors : Stop(a)
    \/ \E a \in Starters : Start(a) \/ ExecFails(a)
    \/ \E a \in Starters \cup Monitors : Probe(a)
    \/ \E c \in Chats : Ensures(c) \/ ChatCancelled(c) \/ \E m \in Models : ChatBegins(c, m)
    \/ \E l \in Loads, m \in Models : LoadSwaps(l, m) \/ LoadStarts(l, m)
    \/ \E u \in Unloads : Unload(u)
    \/ \E m \in Monitors : Tick(m) \/ MonitorEnds(m)
    \/ ServerLoads \/ ServerDies

Spec == Init /\ [][Next]_vars

\* The event loop goes on with what has begun, a process loads or its time is
\* up, chats end.  Nothing makes a user ask, a client leave or a fault happen.
Fairness ==
    /\ \A a \in Actors : WF_vars(Stop(a))
    /\ \A a \in Starters : WF_vars(Start(a))
    /\ \A a \in Starters \cup Monitors : WF_vars(Probe(a))
    /\ \A c \in Chats : SF_vars(Ensures(c))
    /\ \A m \in Monitors : WF_vars(Tick(m)) /\ WF_vars(MonitorEnds(m))
    /\ WF_vars(ServerLoads)

FairSpec == Spec /\ Fairness

-----------------------------------------------------------------------------
(* Properties *)

\* A ready engine has a monitor that is registered, not cancelled and between
\* two ticks: no order of loads, unloads, swaps, failures and unloads by the
\* monitor itself leaves a model in memory with nobody to unload it.
MonitorCovers == state = "ready" => idle # None /\ In(idle, "asleep")

\* The engine says it is stopping only while somebody is in stop(), as long as
\* no client has gone away.
StoppingIsOwned ==
    state = "stopping" /\ cancels = 0 =>
        \E a \in Actors : In(a, "sample") \/ In(a, "dying")

\* A request that waits for another's start() waits for one that is still under
\* way and loads the model the request has asked for, or for one that has raised
\* before its try block: later claims, retries, failures and cancellations of
\* others never leave it behind with a future that is done or of another model.
Owes(a, m) == a \in Starters /\ (InStart(a) \/ at[a].pc = "gone") /\ at[a].wants = m

AwaitsOwnModel ==
    \A b \in Starters : at[b].pc = "wait" => Owes(at[b].on, at[b].wants)

\* Left alone, the engine comes to rest.
Busy == \E a \in Starters \cup Unloads : at[a].pc \notin Away

Rests == []<>(state = "idle" \/ Busy \/ faults > 0 \/ cancels > 0)

\* _starting_future "must always be cleared after start() returns or raises"
\* (tests/test_start_idempotency.py): a registered future belongs to a start()
\* that will set and clear it.  The reconcile and the stop() between the claim
\* and the try block can raise, and then nobody does.
FutureCleared == starting.by # None => InStart(starting.by)

=============================================================================
