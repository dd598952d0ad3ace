---------------------------- MODULE EngineProofs ----------------------------
(***************************************************************************)
(* Proofs about Engine, for any number of chats, loads, unloads, monitors,  *)
(* models, faults and clients that go away.                                 *)
(***************************************************************************)
EXTENDS Engine, TLAPS

-----------------------------------------------------------------------------
(* Inductive invariants *)

\* A registered monitor is between two ticks, and a ready engine has one.
MonitorInv ==
    /\ idle # None => In(idle, "asleep")
    /\ state = "ready" => idle # None

\* A stop() that has not taken the process yet will find it.
StoppingInv ==
    state = "stopping" /\ cancels = 0 =>
        \E a \in Actors : In(a, "dying") \/ (In(a, "sample") /\ proc # "none")

-----------------------------------------------------------------------------
(* Types *)

Futures == [by : Starters, path : Models] \cup {NotStarting}

\* A chat or a load on its way knows the model it wants, and never follows the
\* monitor's course; a claim takes its path from there.
KnownAt(w) == (w.pc \notin {"new", "over"} => w.wants \in Models) /\ w.after # "monitor"
PlacesOK == at \in [Actors -> Where] /\ \A b \in Starters : KnownAt(at[b])

\* The variables other than at and starting.
RestOK ==
    /\ state \in {"idle", "starting", "ready", "stopping"}
    /\ proc \in {"none", "alive", "dead"}
    /\ model \in Models \cup {None}
    /\ idle \in Monitors \cup {None} /\ doomed \in SUBSET Monitors
    /\ recent \in BOOLEAN
    /\ server \in {"none", "loading", "healthy"}
    /\ faults \in 0 .. MaxFaults /\ cancels \in 0 .. MaxCancels

TypeInv == PlacesOK /\ starting \in Futures /\ RestOK

LEMMA TypeParts == TypeInv => TypeOK
  BY DEF TypeInv, PlacesOK, TypeOK, RestOK, Futures

LEMMA Types ==
    /\ Chats \subseteq Actors /\ Loads \subseteq Actors /\ Unloads \subseteq Actors
    /\ Starters \subseteq Actors /\ Monitors \subseteq Actors
    /\ Chats \subseteq Starters /\ Loads \subseteq Starters
    /\ Starters \cap Monitors = {} /\ Unloads \cap Monitors = {}
    /\ Starters \cap Unloads = {}
    /\ None \notin Models /\ None \notin Actors
  BY EngineAssumption DEF Actors, Starters

LEMMA PlaceNames ==
    /\ StopPlace \subseteq Place /\ StartPlace \subseteq Place
    /\ {"new", "over", "gone", "queued", "resolve", "wait", "serve", "asleep"}
         \subseteq Place
    /\ {"sample", "dying", "released", "probe", "reclaim", "prepare", "spawn", "health"}
         \subseteq Place
  BY DEF Place, StopPlace, StartPlace

LEMMA BeingTypes ==
    ASSUME NEW s \in Place, NEW m \in Models \cup {None},
           NEW k \in {"none", "unload", "swap", "claim", "exited", "late", "monitor"},
           NEW o \in Starters \cup {None}, NEW l \in BOOLEAN
    PROVE  /\ Being(s, m, k, o, l) \in Where
           /\ Being(s, m, k, o, l).pc = s
           /\ (s \in {"new", "over"} \/ m \in Models) /\ k # "monitor"
                => KnownAt(Being(s, m, k, o, l))
  BY DEF Being, Where, KnownAt

LEMMA Fresh ==
    /\ Over \in Where /\ KnownAt(Over) /\ Over.pc = "over"
    /\ New \in Where /\ KnownAt(New) /\ New.pc = "new"
    /\ \A s \in Place, m \in Models \cup {None} :
         /\ Plainly(s, m) \in Where /\ Plainly(s, m).pc = s
         /\ m \in Models => KnownAt(Plainly(s, m))
  <1>1. \A s \in Place, m \in Models \cup {None} :
         /\ Plainly(s, m) \in Where /\ Plainly(s, m).pc = s
         /\ (m \in Models \/ s \in {"new", "over"}) => KnownAt(Plainly(s, m))
    <2> SUFFICES ASSUME NEW s \in Place, NEW m \in Models \cup {None}
                 PROVE  /\ Plainly(s, m) \in Where /\ Plainly(s, m).pc = s
                        /\ (m \in Models \/ s \in {"new", "over"})
                             => KnownAt(Plainly(s, m))
      OBVIOUS
    <2>1. None \in Starters \cup {None} /\ FALSE \in BOOLEAN OBVIOUS
    <2> QED BY <2>1 DEF Plainly, Being, Where, KnownAt
  <1>2. "new" \in Place /\ "over" \in Place BY PlaceNames
  <1> QED BY <1>1, <1>2 DEF Over, New

LEMMA WhereParts ==
    ASSUME PlacesOK, NEW a \in Actors
    PROVE  /\ at[a].pc \in Place /\ at[a].wants \in Models \cup {None}
           /\ at[a].after \in {"none", "unload", "swap", "claim", "exited", "late", "monitor"}
           /\ at[a].on \in Starters \cup {None} /\ at[a].lazy \in BOOLEAN
           /\ a \in Starters =>
                /\ at[a].pc \notin {"new", "over"} => at[a].wants \in Models
                /\ at[a].after # "monitor"
  BY DEF PlacesOK, Where, KnownAt

\* One actor moves.
LEMMA MovesTypes ==
    ASSUME PlacesOK, NEW a \in Actors, NEW w \in Where, a \in Starters => KnownAt(w),
           Becomes(a, w)
    PROVE  PlacesOK'
  BY DEF PlacesOK, Becomes

LEMMA GoesTypes ==
    ASSUME PlacesOK, NEW a \in Actors, NEW s \in Place, Goes(a, s),
           at[a].pc \notin {"new", "over"} \/ a \notin Starters
    PROVE  PlacesOK'
  <1> DEFINE w == Being(s, at[a].wants, at[a].after, at[a].on, at[a].lazy)
  <1>1. w \in Where BY WhereParts DEF Where, Being
  <1>2. ASSUME a \in Starters PROVE KnownAt(w)
    <2>1. at[a].wants \in Models /\ at[a].after # "monitor" BY <1>2, WhereParts
    <2> QED BY <2>1 DEF KnownAt, Being
  <1>3. Becomes(a, w) BY DEF Goes
  <1> QED BY <1>1, <1>2, <1>3, MovesTypes

LEMMA LeavesTypes ==
    ASSUME PlacesOK, NEW a \in Actors, Leaves(a) PROVE PlacesOK'
  BY Fresh, MovesTypes DEF Leaves

LEMMA EntersTypes ==
    ASSUME PlacesOK, NEW a \in Actors, NEW s \in Place, NEW m \in Models \cup {None},
           m \in Models \/ a \notin Starters, Enters(a, s, m)
    PROVE  PlacesOK'
  BY Fresh, MovesTypes DEF Enters

LEMMA SamplesTypes ==
    ASSUME PlacesOK, NEW a \in Actors,
           NEW k \in {"unload", "swap", "claim", "exited", "late", "monitor"},
           a \in Starters => k # "monitor" /\ at[a].pc \notin {"new", "over"},
           Samples(a, k)
    PROVE  PlacesOK'
  <1>1. "sample" \in Place BY PlaceNames
  <1> DEFINE w == Being("sample", at[a].wants, k, at[a].on, at[a].lazy)
  <1>2. w \in Where BY <1>1, WhereParts DEF Where, Being
  <1>3. ASSUME a \in Starters PROVE KnownAt(w)
    <2>1. at[a].wants \in Models /\ k # "monitor" BY <1>3, WhereParts
    <2> QED BY <2>1 DEF KnownAt, Being
  <1>4. Becomes(a, w) BY DEF Samples
  <1> QED BY <1>2, <1>3, <1>4, MovesTypes

LEMMA ClearedTypes ==
    ASSUME starting \in Futures, NEW a, Cleared(a) PROVE starting' \in Futures
  BY DEF Cleared, Futures

LEMMA RaisesTypes ==
    ASSUME PlacesOK, starting \in Futures, NEW a \in Actors, Raises(a)
    PROVE  PlacesOK' /\ starting' \in Futures
  <1>1. PlacesOK' BY Fresh, Types DEF PlacesOK, Raises
  <1> QED BY <1>1, ClearedTypes DEF Raises

\* Those who go on after a start() know what they want.
LEMMA GoingOn ==
    ASSUME PlacesOK, NEW b \in Actors, at[b].pc \notin {"new", "over"}
    PROVE  /\ Retries(b) \in Where /\ (b \in Starters => KnownAt(Retries(b)))
           /\ Served(b) \in Where /\ (b \in Starters => KnownAt(Served(b)))
  <1>1. /\ at[b].wants \in Models \cup {None}
        /\ b \in Starters => at[b].wants \in Models
    BY WhereParts
  <1>2. Retries(b) \in Where /\ (b \in Starters => KnownAt(Retries(b)))
    BY <1>1, BeingTypes, PlaceNames DEF Retries
  <1>3. Served(b) \in Where /\ (b \in Starters => KnownAt(Served(b)))
    BY <1>1, Fresh, PlaceNames DEF Served
  <1> QED BY <1>2, <1>3

LEMMA CallersAre ==
    ASSUME NEW a \in Actors, at[a].pc \notin {"new", "over"}
    PROVE  \A b \in Callers(a) : b \in Actors /\ at[b].pc \notin {"new", "over"}
  BY Types DEF Callers, Awaiting

LEMMA RaisesExitedTypes ==
    ASSUME PlacesOK, starting \in Futures, NEW a \in Actors,
           at[a].pc \notin {"new", "over"}, RaisesExited(a)
    PROVE  PlacesOK' /\ starting' \in Futures
  <1>1. PlacesOK'
    <2> PICK again \in SUBSET {c \in Callers(a) : at[c].lazy} :
         at' = [b \in Actors |-> IF b \in again THEN Retries(b)
                                 ELSE IF b \in Callers(a) THEN Over ELSE at[b]]
      BY DEF RaisesExited
    <2>1. \A b \in again : Retries(b) \in Where /\ (b \in Starters => KnownAt(Retries(b)))
      BY CallersAre, GoingOn
    <2> QED BY <2>1, Fresh, Types DEF PlacesOK
  <1> QED BY <1>1, ClearedTypes DEF RaisesExited

LEMMA AbandonsTypes ==
    ASSUME PlacesOK, starting \in Futures, NEW a \in Actors,
           at[a].pc \notin {"new", "over"}, Abandons(a)
    PROVE  PlacesOK' /\ starting' \in Futures
  <1>1. "gone" \in Place BY PlaceNames
  <1> QED BY <1>1, GoesTypes DEF Abandons

LEMMA CancelsTypes ==
    ASSUME PlacesOK, starting \in Futures, NEW c \in Actors, CancelsFuture(c)
    PROVE  PlacesOK' /\ starting' \in Futures
  <1>1. PlacesOK' BY Fresh, Types DEF PlacesOK, CancelsFuture
  <1> QED BY <1>1, ClearedTypes DEF CancelsFuture

LEMMA DetachedTypes ==
    ASSUME RestOK, NEW a, Detached(a)
    PROVE  idle' \in Monitors \cup {None} /\ doomed' \in SUBSET Monitors
  BY DEF RestOK, Detached

LEMMA CountTypes ==
    ASSUME RestOK
    PROVE  /\ Fault => faults' \in 0 .. MaxFaults /\ cancels' \in 0 .. MaxCancels
           /\ Touched => recent' \in BOOLEAN
           /\ cancels < MaxCancels /\ cancels' = cancels + 1 => cancels' \in 0 .. MaxCancels
           /\ UNCHANGED counts => faults' \in 0 .. MaxFaults /\ cancels' \in 0 .. MaxCancels
  <1>1. Fault => faults' \in 0 .. MaxFaults /\ cancels' \in 0 .. MaxCancels
    BY EngineAssumption DEF RestOK, Fault
  <1>2. cancels < MaxCancels /\ cancels' = cancels + 1 => cancels' \in 0 .. MaxCancels
    BY EngineAssumption DEF RestOK
  <1>3. Touched => recent' \in BOOLEAN BY DEF RestOK, Touched
  <1>4. UNCHANGED counts => faults' \in 0 .. MaxFaults /\ cancels' \in 0 .. MaxCancels
    BY DEF RestOK, counts
  <1> QED BY <1>1, <1>2, <1>3, <1>4

LEMMA StopBeginsTypes ==
    ASSUME RestOK, NEW a, StopBegins(a) \/ NothingToStop(a)
    PROVE  /\ idle' \in Monitors \cup {None} /\ doomed' \in SUBSET Monitors
           /\ state' \in {"idle", "stopping"}
  BY DetachedTypes DEF StopBegins, NothingToStop

LEMMA StopTypes == ASSUME TypeInv, NEW a \in Actors, Stop(a) PROVE TypeInv'
  <1>t. PlacesOK /\ starting \in Futures /\ RestOK BY DEF TypeInv
  <1>p. {"dying", "released", "asleep", "resolve", "probe", "prepare"} \subseteq Place
    BY PlaceNames
  <1>1. CASE StopRaises(a)
    <2>1. PlacesOK' /\ starting' \in Futures
      <3>1. CASE Leaves(a) /\ UNCHANGED starting BY <1>t, <3>1, LeavesTypes
      <3>2. CASE Abandons(a) BY <1>t, <1>1, <3>2, AbandonsTypes DEF StopRaises, In
      <3>3. CASE at[a].after = "monitor" /\ Enters(a, "asleep", None) /\ UNCHANGED starting
        BY <1>t, <1>p, <3>3, EntersTypes, WhereParts
      <3>4. CASE Raises(a) BY <1>t, <3>4, RaisesTypes
      <3> QED BY <1>1, <3>1, <3>2, <3>3, <3>4 DEF StopRaises
    <2>2. RestOK' BY <1>t, <1>1, CountTypes DEF StopRaises, RestOK, tasks, world, counts
    <2> QED BY <2>1, <2>2 DEF TypeInv
  <1>2. CASE Terminates(a)
    <2>1. PlacesOK' BY <1>t, <1>p, <1>2, GoesTypes DEF Terminates, In
    <2>2. faults' \in 0 .. MaxFaults /\ cancels' \in 0 .. MaxCancels
      BY <1>t, <1>2, CountTypes DEF Terminates
    <2>3. RestOK' BY <1>t, <1>2, <2>2 DEF Terminates, RestOK, tasks, world
    <2> QED BY <1>t, <1>2, <2>1, <2>3 DEF TypeInv, Terminates
  <1>3. CASE Clears(a)
    <2>1. PlacesOK' BY <1>t, <1>p, <1>3, GoesTypes DEF Clears, In
    <2>2. RestOK' BY <1>t, <1>3 DEF Clears, RestOK, tasks, counts
    <2> QED BY <1>t, <1>3, <2>1, <2>2 DEF TypeInv, Clears
  <1>4. CASE StopReturns(a)
    <2>1. PlacesOK' /\ starting' \in Futures
      <3>1. at[a].pc = "released" BY <1>4 DEF StopReturns, In
      <3>2. CASE Leaves(a) /\ UNCHANGED starting BY <1>t, <3>2, LeavesTypes
      <3>3. CASE (\E s \in {"resolve", "probe", "prepare"} : Goes(a, s)) /\ UNCHANGED starting
        BY <1>t, <1>p, <3>1, <3>3, GoesTypes
      <3>4. CASE at[a].after = "exited" /\ RaisesExited(a)
        BY <1>t, <3>1, <3>4, RaisesExitedTypes
      <3>5. CASE Raises(a) BY <1>t, <3>5, RaisesTypes
      <3> QED BY <1>4, <3>2, <3>3, <3>4, <3>5 DEF StopReturns
    <2>2. recent' \in BOOLEAN BY <1>t, <1>4, CountTypes DEF StopReturns
    <2>3. RestOK' BY <1>t, <1>4, <2>2 DEF StopReturns, RestOK, tasks, world, counts
    <2> QED BY <2>1, <2>3 DEF TypeInv
  <1> QED BY <1>1, <1>2, <1>3, <1>4 DEF Stop

LEMMA StartTypes ==
    ASSUME TypeInv, NEW a \in Starters, Start(a) \/ ExecFails(a) PROVE TypeInv'
  <1>t. PlacesOK /\ starting \in Futures /\ RestOK /\ a \in Actors
    BY Types DEF TypeInv
  <1>p. {"wait", "probe", "spawn", "health", "asleep"} \subseteq Place
    BY PlaceNames
  <1>1. CASE Coalesces(a)
    <2>1. at[a].pc = "resolve" BY <1>1 DEF Coalesces, In
    <2> DEFINE w == Being("wait", at[a].wants, at[a].after, starting.by, at[a].lazy)
    <2>2. starting.by \in Starters \cup {None}
      BY <1>t DEF Futures, NotStarting
    <2>3. w \in Where /\ KnownAt(w)
      BY <1>t, <1>p, <2>1, <2>2, WhereParts, BeingTypes
    <2>4. PlacesOK' BY <1>t, <1>1, <2>3, MovesTypes DEF Coalesces
    <2>5. RestOK' BY <1>t, <1>1 DEF Coalesces, RestOK, tasks, world, counts
    <2> QED BY <1>t, <1>1, <2>4, <2>5 DEF TypeInv, Coalesces
  <1>2. CASE Claims(a)
    <2>1. at[a].pc = "resolve" BY <1>2 DEF Claims, In
    <2>2. at[a].wants \in Models BY <1>t, <2>1, WhereParts
    <2>3. starting' \in Futures BY <1>2, <2>2 DEF Claims, Futures
    <2>4. PlacesOK'
      <3>1. CASE Goes(a, "probe") BY <1>t, <1>p, <2>1, <3>1, GoesTypes
      <3>2. CASE Samples(a, "claim") BY <1>t, <2>1, <3>2, SamplesTypes
      <3> QED BY <1>2, <3>1, <3>2 DEF Claims
    <2>5. /\ idle' \in Monitors \cup {None} /\ doomed' \in SUBSET Monitors
          /\ state' \in {"idle", "starting", "ready", "stopping"}
      BY <1>t, <1>2, StopBeginsTypes DEF Claims, RestOK, tasks
    <2>6. RestOK' BY <1>t, <1>2, <2>5 DEF Claims, RestOK, world, counts
    <2> QED BY <2>3, <2>4, <2>6 DEF TypeInv
  <1>3. CASE Prepares(a)
    <2>1. PlacesOK' BY <1>t, <1>p, <1>3, GoesTypes DEF Prepares, In
    <2>2. at[a].wants \in Models \cup {None} BY <1>t, WhereParts
    <2>3. RestOK' BY <1>t, <1>3, <2>2 DEF Prepares, RestOK, tasks, world, counts
    <2> QED BY <1>t, <1>3, <2>1, <2>3 DEF TypeInv, Prepares
  <1>4. CASE Spawns(a)
    <2>1. PlacesOK' BY <1>t, <1>p, <1>4, GoesTypes DEF Spawns, In
    <2>2. RestOK' BY <1>t, <1>4 DEF Spawns, RestOK, tasks, counts
    <2> QED BY <1>t, <1>4, <2>1, <2>2 DEF TypeInv, Spawns
  <1>5. CASE ExecFails(a)
    <2>1. PlacesOK' /\ starting' \in Futures BY <1>t, <1>5, RaisesTypes DEF ExecFails
    <2>2. /\ faults' \in 0 .. MaxFaults /\ cancels' \in 0 .. MaxCancels
          /\ recent' \in BOOLEAN
      BY <1>t, <1>5, CountTypes DEF ExecFails
    <2>3. RestOK' BY <1>t, <1>5, <2>2 DEF ExecFails, RestOK, tasks, world
    <2> QED BY <2>1, <2>3 DEF TypeInv
  <1>6. CASE Ready(a)
    <2> PICK m \in MonitorNow :
          /\ idle' = m
          /\ at' = [b \in Actors |->
                      IF b \in Callers(a) THEN IF proc = "none" THEN Over ELSE Served(b)
                      ELSE IF b = m THEN Plainly("asleep", None) ELSE at[b]]
      BY <1>6 DEF Ready
    <2>1. m \in Monitors BY <1>t DEF MonitorNow, RestOK
    <2>2. at[a].pc = "health" BY <1>6 DEF Ready, In
    <2>3. \A b \in Callers(a) : Served(b) \in Where /\ (b \in Starters => KnownAt(Served(b)))
      BY <1>t, <2>2, CallersAre, GoingOn
    <2>4. Plainly("asleep", None) \in Where BY <1>p, Fresh
    <2>5. m \notin Starters BY <2>1, Types
    <2>6. PlacesOK' BY <1>t, <2>3, <2>4, <2>5, Fresh, Types DEF PlacesOK
    <2>7. starting' \in Futures BY <1>t, <1>6, ClearedTypes DEF Ready
    <2>8. RestOK' BY <1>t, <1>6, <2>1 DEF Ready, RestOK, world, counts
    <2> QED BY <2>6, <2>7, <2>8 DEF TypeInv
  <1>7. CASE NotReady(a)
    <2>1. at[a].pc = "health" BY <1>7 DEF NotReady, In
    <2>2. PlacesOK' /\ starting' \in Futures
      <3>1. CASE Samples(a, "exited") /\ UNCHANGED starting
        BY <1>t, <2>1, <3>1, SamplesTypes
      <3>2. CASE Samples(a, "late") /\ UNCHANGED starting
        BY <1>t, <2>1, <3>2, SamplesTypes
      <3>3. CASE Raises(a) BY <1>t, <3>3, RaisesTypes
      <3> QED BY <1>7, <3>1, <3>2, <3>3 DEF NotReady
    <2>3. StopBegins(a) \/ NothingToStop(a) BY <1>7 DEF NotReady
    <2>4. /\ idle' \in Monitors \cup {None} /\ doomed' \in SUBSET Monitors
          /\ state' \in {"idle", "stopping"}
      BY <1>t, <2>3, StopBeginsTypes
    <2>5. recent' \in BOOLEAN BY <1>t, <1>7, CountTypes DEF NotReady
    <2>6. RestOK' BY <1>t, <1>7, <2>4, <2>5 DEF NotReady, RestOK, world, counts
    <2> QED BY <2>2, <2>6 DEF TypeInv
  <1> QED BY <1>1, <1>2, <1>3, <1>4, <1>5, <1>6, <1>7 DEF Start

LEMMA ProbeTypes ==
    ASSUME TypeInv, NEW a \in Starters \cup Monitors, Probe(a) PROVE TypeInv'
  <1>t. PlacesOK /\ starting \in Futures /\ RestOK /\ a \in Actors
    BY Types DEF TypeInv
  <1>1. at[a].pc \notin {"new", "over"}
    BY DEF Probe, ProbeFindsNone, ProbeKills, Reclaims, In
  <1>2. ASSUME Probed(a)
        PROVE  /\ PlacesOK'
               /\ idle' \in Monitors \cup {None} /\ doomed' \in SUBSET Monitors
               /\ state' \in {"idle", "starting", "ready", "stopping"}
    <2>1. PlacesOK'
      <3>1. CASE Leaves(a) BY <1>t, <3>1, LeavesTypes
      <3>2. CASE Goes(a, "prepare") BY <1>t, <1>1, <3>2, GoesTypes, PlaceNames
      <3>3. CASE Samples(a, "claim") BY <1>t, <1>1, <3>3, SamplesTypes
      <3> QED BY <1>2, <3>1, <3>2, <3>3 DEF Probed, StartGoesOn
    <2>2. StopBegins(a) \/ UNCHANGED <<state, tasks>>
      BY <1>2 DEF Probed, StartGoesOn
    <2> QED BY <1>t, <2>1, <2>2, StopBeginsTypes DEF RestOK, tasks
  <1>3. CASE ProbeFindsNone(a) \/ Reclaims(a)
    <2>1. Probed(a) BY <1>3 DEF ProbeFindsNone, Reclaims
    <2>2. UNCHANGED <<model, starting, recent, world, counts>>
      BY <1>3 DEF ProbeFindsNone, Reclaims
    <2>3. RestOK' BY <1>t, <1>2, <2>1, <2>2 DEF RestOK, world, counts
    <2> QED BY <1>t, <1>2, <2>1, <2>2, <2>3 DEF TypeInv
  <1>4. CASE ProbeKills(a)
    <2>1. PlacesOK' BY <1>t, <1>1, <1>4, GoesTypes, PlaceNames DEF ProbeKills
    <2>2. RestOK' BY <1>t, <1>4 DEF ProbeKills, RestOK, tasks, counts
    <2> QED BY <1>t, <1>4, <2>1, <2>2 DEF TypeInv, ProbeKills
  <1> QED BY <1>3, <1>4 DEF Probe

LEMMA ChatTypes ==
    ASSUME TypeInv, NEW c \in Chats,
           Ensures(c) \/ ChatCancelled(c) \/ \E m \in Models : ChatBegins(c, m)
    PROVE  TypeInv'
  <1>t. PlacesOK /\ starting \in Futures /\ RestOK /\ c \in Actors
    BY Types DEF TypeInv
  <1>p. {"queued", "serve"} \subseteq Place BY PlaceNames
  <1>1. CASE \E m \in Models : ChatBegins(c, m)
    <2>1. PlacesOK' BY <1>t, <1>p, <1>1, EntersTypes DEF ChatBegins
    <2>2. recent' \in BOOLEAN BY <1>t, <1>1, CountTypes DEF ChatBegins
    <2>3. RestOK' BY <1>t, <1>1, <2>2 DEF ChatBegins, RestOK, tasks, world, counts
    <2> QED BY <1>t, <1>1, <2>1, <2>3 DEF TypeInv, ChatBegins
  <1>2. CASE ChatFinds(c)
    <2>1. PlacesOK' BY <1>t, <1>p, <1>2, GoesTypes DEF ChatFinds, In
    <2>2. RestOK' BY <1>t, <1>2 DEF ChatFinds, RestOK, tasks, world, counts
    <2> QED BY <1>t, <1>2, <2>1, <2>2 DEF TypeInv, ChatFinds
  <1>3. CASE ChatSwaps(c)
    <2>1. PlacesOK' BY <1>t, <1>3, SamplesTypes DEF ChatSwaps, In
    <2>2. RestOK' BY <1>t, <1>3, StopBeginsTypes DEF ChatSwaps, RestOK, world, counts
    <2> QED BY <1>t, <1>3, <2>1, <2>2 DEF TypeInv, ChatSwaps
  <1>4. CASE ChatStarts(c)
    <2>1. at[c].pc = "queued" BY <1>4 DEF ChatStarts, In
    <2>2. PlacesOK' BY <1>t, <1>4, <2>1, GoingOn, MovesTypes DEF ChatStarts
    <2>3. RestOK' BY <1>t, <1>4 DEF ChatStarts, RestOK, tasks, counts
    <2> QED BY <1>t, <1>4, <2>2, <2>3 DEF TypeInv, ChatStarts
  <1>5. CASE ChatServed(c)
    <2>1. PlacesOK' BY <1>t, <1>5, LeavesTypes DEF ChatServed
    <2>2. recent' \in BOOLEAN BY <1>t, <1>5, CountTypes DEF ChatServed
    <2>3. RestOK' BY <1>t, <1>5, <2>2 DEF ChatServed, RestOK, tasks, world, counts
    <2> QED BY <1>t, <1>5, <2>1, <2>3 DEF TypeInv, ChatServed
  <1>6. CASE ChatCancelled(c)
    <2>1. PlacesOK' /\ starting' \in Futures
      <3>1. CASE Raises(c) BY <1>t, <3>1, RaisesTypes
      <3>2. CASE InStart(c) /\ Abandons(c)
        <4>1. at[c].pc \notin {"new", "over"}
          BY <3>2 DEF InStart, StartPlace, StopPlace
        <4> QED BY <1>t, <3>2, <4>1, AbandonsTypes
      <3>3. CASE Leaves(c) /\ UNCHANGED starting BY <1>t, <3>3, LeavesTypes
      <3>4. CASE CancelsFuture(c) BY <1>t, <3>4, CancelsTypes
      <3> QED BY <1>6, <3>1, <3>2, <3>3, <3>4 DEF ChatCancelled
    <2>2. recent' \in BOOLEAN /\ cancels' \in 0 .. MaxCancels
      BY <1>t, <1>6, CountTypes DEF ChatCancelled
    <2>3. RestOK' BY <1>t, <1>6, <2>2 DEF ChatCancelled, RestOK, tasks, world
    <2> QED BY <2>1, <2>3 DEF TypeInv
  <1> QED BY <1>1, <1>2, <1>3, <1>4, <1>5, <1>6 DEF Ensures

LEMMA RequestTypes ==
    ASSUME TypeInv,
           \/ \E l \in Loads, m \in Models : LoadSwaps(l, m) \/ LoadStarts(l, m)
           \/ \E u \in Unloads : Unload(u)
    PROVE  TypeInv'
  <1>t. PlacesOK /\ starting \in Futures /\ RestOK BY DEF TypeInv
  <1>p. {"resolve", "sample"} \subseteq Place BY PlaceNames
  <1>1. ASSUME NEW l \in Loads, NEW m \in Models, LoadSwaps(l, m) PROVE TypeInv'
    <2>1. PlacesOK'
      <3>1. CASE Becomes(l, Being("sample", m, "swap", None, FALSE))
        BY <1>t, <1>p, <3>1, BeingTypes, MovesTypes, Types
      <3>2. CASE Enters(l, "resolve", m) BY <1>t, <1>p, <3>2, EntersTypes, Types
      <3> QED BY <1>1, <3>1, <3>2 DEF LoadSwaps
    <2>2. StopBegins(l) \/ NothingToStop(l) BY <1>1 DEF LoadSwaps
    <2>3. RestOK'
      BY <1>t, <1>1, <2>2, StopBeginsTypes DEF LoadSwaps, RestOK, world, counts
    <2> QED BY <1>t, <1>1, <2>1, <2>3 DEF TypeInv, LoadSwaps
  <1>2. ASSUME NEW l \in Loads, NEW m \in Models, LoadStarts(l, m) PROVE TypeInv'
    <2>1. PlacesOK' BY <1>t, <1>p, <1>2, EntersTypes, Types DEF LoadStarts
    <2>2. RestOK' BY <1>t, <1>2 DEF LoadStarts, RestOK, tasks, world, counts
    <2> QED BY <1>t, <1>2, <2>1, <2>2 DEF TypeInv, LoadStarts
  <1>3. ASSUME NEW u \in Unloads, Unload(u) PROVE TypeInv'
    <2>1. PlacesOK'
      <3>1. CASE Samples(u, "unload") BY <1>t, <3>1, SamplesTypes, Types
      <3>2. CASE Leaves(u) BY <1>t, <3>2, LeavesTypes, Types
      <3> QED BY <1>3, <3>1, <3>2 DEF Unload
    <2>2. StopBegins(u) \/ NothingToStop(u) BY <1>3 DEF Unload
    <2>3. RestOK'
      BY <1>t, <1>3, <2>2, StopBeginsTypes DEF Unload, RestOK, world, counts
    <2> QED BY <1>t, <1>3, <2>1, <2>3 DEF TypeInv, Unload
  <1> QED BY <1>1, <1>2, <1>3

LEMMA MonitorTypes ==
    ASSUME TypeInv, NEW m \in Monitors, Tick(m) \/ MonitorEnds(m) PROVE TypeInv'
  <1>t. PlacesOK /\ starting \in Futures /\ RestOK /\ m \in Actors /\ m \notin Starters
    BY Types DEF TypeInv
  <1>1. CASE Tick(m)
    <2>1. PlacesOK'
      <3>1. CASE UNCHANGED at BY <1>t, <3>1 DEF PlacesOK
      <3>2. CASE Samples(m, "monitor") BY <1>t, <3>2, SamplesTypes
      <3>3. CASE Goes(m, "probe") BY <1>t, <3>3, GoesTypes, PlaceNames
      <3> QED BY <1>1, <3>1, <3>2, <3>3 DEF Tick
    <2>2. \/ UNCHANGED <<state, tasks>> \/ StopBegins(m) \/ NothingToStop(m)
      BY <1>1 DEF Tick
    <2>3. /\ idle' \in Monitors \cup {None} /\ doomed' \in SUBSET Monitors
          /\ state' \in {"idle", "starting", "ready", "stopping"}
      BY <1>t, <2>2, StopBeginsTypes DEF RestOK, tasks
    <2>4. recent' \in BOOLEAN BY <1>t, <1>1 DEF Tick, RestOK
    <2>5. RestOK' BY <1>t, <1>1, <2>3, <2>4 DEF Tick, RestOK, world, counts
    <2> QED BY <1>t, <1>1, <2>1, <2>5 DEF TypeInv, Tick
  <1>2. CASE MonitorEnds(m)
    <2>1. PlacesOK' BY <1>t, <1>2, LeavesTypes DEF MonitorEnds
    <2>2. RestOK' BY <1>t, <1>2 DEF MonitorEnds, RestOK, world, counts
    <2> QED BY <1>t, <1>2, <2>1, <2>2 DEF TypeInv, MonitorEnds
  <1> QED BY <1>1, <1>2

LEMMA ServerTypes == ASSUME TypeInv, ServerLoads \/ ServerDies PROVE TypeInv'
  <1>t. PlacesOK /\ starting \in Futures /\ RestOK BY DEF TypeInv
  <1>1. CASE ServerLoads
    BY <1>t, <1>1 DEF ServerLoads, TypeInv, PlacesOK, RestOK, tasks, counts
  <1>2. CASE ServerDies
    <2>1. faults' \in 0 .. MaxFaults /\ cancels' \in 0 .. MaxCancels
      BY <1>t, <1>2, CountTypes DEF ServerDies
    <2> QED BY <1>t, <1>2, <2>1 DEF ServerDies, TypeInv, PlacesOK, RestOK, tasks
  <1> QED BY <1>1, <1>2

LEMMA TypeInvStep == TypeInv /\ [Next]_vars => TypeInv'
  <1>1. TypeInv /\ UNCHANGED vars => TypeInv'
    BY DEF vars, tasks, world, counts, TypeInv, PlacesOK, RestOK
  <1> QED
    BY <1>1, StopTypes, StartTypes, ProbeTypes, ChatTypes, RequestTypes, MonitorTypes,
       ServerTypes
    DEF Next

LEMMA TypeInvInit == Init => TypeInv
  <1> SUFFICES ASSUME Init PROVE TypeInv OBVIOUS
  <1>1. PlacesOK BY Fresh, Types DEF Init, PlacesOK
  <1>2. starting \in Futures BY DEF Init, Futures
  <1>3. faults \in 0 .. MaxFaults /\ cancels \in 0 .. MaxCancels
    BY EngineAssumption DEF Init
  <1>4. RestOK BY <1>3 DEF Init, RestOK
  <1> QED BY <1>1, <1>2, <1>4 DEF TypeInv

LEMMA TypeInvAlways == Spec => []TypeInv
  BY TypeInvInit, TypeInvStep, PTL DEF Spec

\* Every variable has its type, and a start always knows its model, whatever the
\* number of requests and monitors.
THEOREM Typing == Spec => []TypeOK
  BY TypeInvAlways, TypeParts, PTL

-----------------------------------------------------------------------------
(* Who is disturbed *)

\* The places that the two invariants speak of.
Watched == {"asleep", "sample", "dying"}

\* Nobody in one of them moves.
Undisturbed ==
    /\ \A b \in Actors : at[b].pc \in Watched => at'[b] = at[b]
    /\ UNCHANGED tasks

LEMMA MovedIsOne ==
    ASSUME TypeInv, NEW a \in Actors,
           \/ \E s : Goes(a, s)
           \/ Leaves(a)
           \/ \E k : Samples(a, k)
           \/ \E s, m : Enters(a, s, m)
           \/ \E w : Becomes(a, w)
    PROVE  \A b \in Actors \ {a} : at'[b] = at[b]
  BY DEF TypeInv, PlacesOK, Goes, Leaves, Samples, Enters, Becomes

\* A start() that ends, or a future that is cancelled, takes nobody with it who
\* is at one of those places.
LEMMA MovedAreCallers ==
    ASSUME TypeInv, NEW a \in Actors,
           Raises(a) \/ RaisesExited(a) \/ Abandons(a) \/ CancelsFuture(a)
    PROVE  \A b \in Actors \ {a} : at[b].pc \in Watched => at'[b] = at[b]
  <1>1. \A x : \A b \in Awaiting(x) : at[b].pc = "wait" BY DEF Awaiting
  <1>2. \A x : \A b \in Actors \ {x} :
          at[b].pc \in Watched => b \notin Callers(x) /\ b \notin Awaiting(x)
    BY <1>1 DEF Watched, Callers
  <1>3. CASE Raises(a) BY <1>2, <1>3 DEF Raises
  <1>4. CASE RaisesExited(a) BY <1>2, <1>4 DEF RaisesExited
  <1>5. CASE Abandons(a) BY <1>5, MovedIsOne DEF Abandons
  <1>6. CASE CancelsFuture(a)
    <2>1. \A b \in Actors : at[b].pc \in Watched => b \notin Awaiting(at[a].on)
      BY <1>1 DEF Watched
    <2> QED BY <1>6, <2>1 DEF CancelsFuture
  <1> QED BY <1>3, <1>4, <1>5, <1>6

\* What the parts of a step that is not a stop()'s do to state and proc.
Calm == Undisturbed /\ (state' = state \/ state' \in {"idle", "starting"})
             /\ (proc' = "none" => proc = "none" \/ state' # "stopping")

\* The step at which a enters stop().
Stops(a) ==
    /\ StopBegins(a) /\ at'[a].pc = "sample" /\ proc' = proc
    /\ \A b \in Actors \ {a} : at'[b] = at[b]

LEMMA CalmKeeps == ASSUME TypeInv, MonitorInv, Calm PROVE MonitorInv'
  <1>1. idle' = idle /\ doomed' = doomed BY DEF Calm, Undisturbed, tasks
  <1>2. idle # None => idle \in Actors BY Types DEF TypeInv, RestOK
  <1>3. idle # None => at'[idle] = at[idle]
    BY <1>2 DEF MonitorInv, In, Calm, Undisturbed, Watched
  <1> QED BY <1>1, <1>3 DEF MonitorInv, In, Calm

LEMMA CalmOwned ==
    ASSUME TypeInv, StoppingInv, Calm, UNCHANGED cancels PROVE StoppingInv'
  <1> SUFFICES ASSUME state' = "stopping", cancels' = 0
               PROVE  \E a \in Actors : In(a, "dying")' \/ (In(a, "sample") /\ proc # "none")'
    BY DEF StoppingInv
  <1>1. state = "stopping" /\ cancels = 0 BY DEF Calm
  <1>2. PICK a \in Actors : In(a, "dying") \/ (In(a, "sample") /\ proc # "none")
    BY <1>1 DEF StoppingInv
  <1>3. at'[a] = at[a] /\ doomed' = doomed
    BY <1>2 DEF Calm, Undisturbed, In, Watched, tasks
  <1> QED BY <1>2, <1>3 DEF In, Calm

\* A stop() takes the monitor off, unless it is the monitor's own.
LEMMA StopsKeep ==
    ASSUME TypeInv, MonitorInv, NEW a \in Actors, at[a].pc # "dying",
           a \notin doomed, Stops(a)
    PROVE  MonitorInv' /\ StoppingInv'
  <1>1. idle' = None /\ state' = "stopping" /\ proc # "none"
        /\ doomed' = doomed \cup ({idle} \ {None, a})
    BY DEF Stops, StopBegins, Detached
  <1>2. In(a, "sample")' BY <1>1 DEF Stops, In
  <1> QED BY <1>1, <1>2 DEF MonitorInv, StoppingInv, Stops

LEMMA NothingKeeps ==
    ASSUME NEW a, NothingToStop(a) PROVE MonitorInv' /\ StoppingInv'
  BY DEF NothingToStop, Detached, MonitorInv, StoppingInv

\* A calm step of one actor that is not at one of those places.
LEMMA CalmStep ==
    ASSUME TypeInv, MonitorInv, StoppingInv, NEW a \in Actors, at[a].pc \notin Watched,
           \A b \in Actors \ {a} : at[b].pc \in Watched => at'[b] = at[b],
           UNCHANGED tasks, UNCHANGED cancels,
           state' = state \/ state' \in {"idle", "starting"},
           proc' = "none" => proc = "none" \/ state' # "stopping"
    PROVE  MonitorInv' /\ StoppingInv'
  <1>1. Calm BY DEF Calm, Undisturbed
  <1> QED BY <1>1, CalmKeeps, CalmOwned

\* A monitor stays with the engine if those asleep are left alone.
LEMMA AsleepKept ==
    ASSUME TypeInv, MonitorInv, UNCHANGED tasks, state' = "ready" => state = "ready",
           \A b \in Monitors : at[b].pc = "asleep" => at'[b] = at[b]
    PROVE  MonitorInv'
  <1>1. idle # None => idle \in Monitors BY DEF TypeInv, RestOK
  <1> QED BY <1>1 DEF MonitorInv, In, tasks

-----------------------------------------------------------------------------
(* The monitor and the stops *)

LEMMA StopKeeps ==
    ASSUME TypeInv, MonitorInv, StoppingInv, NEW a \in Actors, Stop(a)
    PROVE  MonitorInv' /\ StoppingInv'
  <1>1. CASE StopRaises(a)
    <2>1. In(a, "sample") /\ proc = "none" BY <1>1 DEF StopRaises
    <2>2. \A b \in Actors \ {a} : at[b].pc \in Watched => at'[b] = at[b]
      BY <1>1, MovedIsOne, MovedAreCallers DEF StopRaises
    <2>3. UNCHANGED <<state, tasks, proc, cancels>> BY <1>1 DEF StopRaises, world, counts
    <2>4. MonitorInv'
      BY <2>1, <2>2, <2>3, AsleepKept, Types DEF In, Watched
    <2>5. StoppingInv'
      <3> SUFFICES ASSUME state = "stopping", cancels = 0
                   PROVE  \E b \in Actors : In(b, "dying")'
        BY <2>3 DEF StoppingInv
      <3>1. PICK b \in Actors : In(b, "dying") BY <2>1 DEF StoppingInv
      <3>2. at'[b] = at[b] BY <2>1, <2>2, <3>1 DEF In, Watched
      <3> QED BY <2>3, <3>1, <3>2 DEF In, tasks
    <2> QED BY <2>4, <2>5
  <1>2. CASE Terminates(a)
    <2>1. In(a, "sample") /\ UNCHANGED <<state, tasks>> BY <1>2 DEF Terminates
    <2>2. \A b \in Actors \ {a} : at'[b] = at[b]
      BY <1>2, MovedIsOne DEF Terminates
    <2>3. MonitorInv' BY <2>1, <2>2, AsleepKept, Types DEF In
    <2>4. at'[a].pc = "dying"
      BY <1>2 DEF Terminates, Goes, Becomes, Being, TypeInv, PlacesOK
    <2>5. In(a, "dying")' BY <2>1, <2>4 DEF In, tasks
    <2> QED BY <2>3, <2>5 DEF StoppingInv
  <1>3. CASE Clears(a)
    <2>1. In(a, "dying") /\ UNCHANGED tasks /\ state' = "idle" BY <1>3 DEF Clears
    <2>2. \A b \in Actors \ {a} : at'[b] = at[b] BY <1>3, MovedIsOne DEF Clears
    <2>3. MonitorInv' BY <2>1, <2>2, AsleepKept, Types DEF In
    <2> QED BY <2>1, <2>3 DEF StoppingInv
  <1>4. CASE StopReturns(a)
    <2>1. at[a].pc \notin Watched BY <1>4 DEF StopReturns, In, Watched
    <2>2. \A b \in Actors \ {a} : at[b].pc \in Watched => at'[b] = at[b]
      BY <1>4, MovedIsOne, MovedAreCallers DEF StopReturns
    <2>3. UNCHANGED <<tasks, cancels, proc>> BY <1>4 DEF StopReturns, world, counts
    <2>4. state' = state \/ state' \in {"idle", "starting"} BY <1>4 DEF StopReturns
    <2> QED BY <2>1, <2>2, <2>3, <2>4, CalmStep
  <1> QED BY <1>1, <1>2, <1>3, <1>4 DEF Stop

\* The step from elsewhere into stop().
LEMMA SamplesStops ==
    ASSUME TypeInv, NEW a \in Actors, NEW k, StopBegins(a), Samples(a, k), UNCHANGED proc
    PROVE  Stops(a)
  <1>1. at'[a].pc = "sample" BY DEF Samples, Becomes, Being, TypeInv, PlacesOK
  <1> QED BY <1>1, MovedIsOne DEF Stops

LEMMA ReadyKeeps ==
    ASSUME TypeInv, MonitorInv, NEW a \in Starters, Ready(a)
    PROVE  MonitorInv' /\ StoppingInv'
  <1> PICK m \in MonitorNow :
        /\ idle' = m
        /\ at' = [b \in Actors |->
                    IF b \in Callers(a) THEN IF proc = "none" THEN Over ELSE Served(b)
                    ELSE IF b = m THEN Plainly("asleep", None) ELSE at[b]]
    BY DEF Ready
  <1>1. m \in Monitors /\ m \notin doomed
    BY DEF MonitorNow, MonitorInv, In, TypeInv, RestOK
  <1>2. m \notin Callers(a) BY <1>1, Types DEF Callers, Awaiting
  <1>3. at'[m].pc = "asleep" BY <1>1, <1>2, Types DEF Plainly, Being
  <1>4. state' = "ready" /\ doomed' = doomed BY DEF Ready
  <1>5. m # None BY <1>1, Types
  <1> QED BY <1>1, <1>3, <1>4, <1>5 DEF MonitorInv, StoppingInv, In

LEMMA StartKeeps ==
    ASSUME TypeInv, MonitorInv, StoppingInv, NEW a \in Starters, Start(a) \/ ExecFails(a)
    PROVE  MonitorInv' /\ StoppingInv'
  <1>a. a \in Actors BY Types
  <1>1. CASE Coalesces(a) \/ Prepares(a) \/ Spawns(a)
    <2>1. at[a].pc \notin Watched
      BY <1>1 DEF Coalesces, Prepares, Spawns, In, Watched
    <2>2. \A b \in Actors \ {a} : at'[b] = at[b]
      BY <1>1, <1>a, MovedIsOne DEF Coalesces, Prepares, Spawns
    <2>3. UNCHANGED <<state, tasks, cancels>> /\ (proc' = proc \/ proc' # "none")
      BY <1>1 DEF Coalesces, Prepares, Spawns, world, counts
    <2> QED BY <1>a, <2>1, <2>2, <2>3, CalmStep
  <1>2. CASE ExecFails(a)
    <2>1. at[a].pc \notin Watched BY <1>2 DEF ExecFails, In, Watched
    <2>2. \A b \in Actors \ {a} : at[b].pc \in Watched => at'[b] = at[b]
      BY <1>2, <1>a, MovedAreCallers DEF ExecFails
    <2>3. UNCHANGED <<state, tasks, cancels, proc>>
      BY <1>2 DEF ExecFails, world, Fault
    <2> QED BY <1>a, <2>1, <2>2, <2>3, CalmStep
  <1>3. CASE Claims(a)
    <2>1. at[a].pc = "resolve" /\ a \notin doomed /\ UNCHANGED <<proc, cancels>>
      BY <1>3 DEF Claims, In, world, counts
    <2>2. CASE state' = "starting" /\ Goes(a, "probe") /\ UNCHANGED tasks
      <3>1. \A b \in Actors \ {a} : at'[b] = at[b] BY <1>a, <2>2, MovedIsOne
      <3> QED BY <1>a, <2>1, <2>2, <3>1, CalmStep DEF Watched
    <2>3. CASE StopBegins(a) /\ Samples(a, "claim")
      BY <1>a, <2>1, <2>3, SamplesStops, StopsKeep
    <2> QED BY <1>3, <2>2, <2>3 DEF Claims
  <1>4. CASE Ready(a) BY <1>4, ReadyKeeps
  <1>5. CASE NotReady(a)
    <2>1. at[a].pc = "health" /\ a \notin doomed /\ UNCHANGED proc
      BY <1>5 DEF NotReady, In, world
    <2>2. CASE NothingToStop(a) BY <2>2, NothingKeeps
    <2>3. CASE \E k : StopBegins(a) /\ Samples(a, k)
      BY <1>a, <2>1, <2>3, SamplesStops, StopsKeep
    <2> QED BY <1>5, <2>2, <2>3 DEF NotReady
  <1> QED BY <1>1, <1>2, <1>3, <1>4, <1>5 DEF Start

LEMMA ProbeKeeps ==
    ASSUME TypeInv, MonitorInv, StoppingInv, NEW a \in Starters \cup Monitors, Probe(a)
    PROVE  MonitorInv' /\ StoppingInv'
  <1>a. a \in Actors BY Types
  <1>1. at[a].pc \notin Watched /\ at[a].pc # "dying" /\ a \notin doomed
    BY DEF Probe, ProbeFindsNone, ProbeKills, Reclaims, In, Watched
  <1>2. UNCHANGED cancels BY DEF Probe, ProbeFindsNone, ProbeKills, Reclaims, counts
  <1>3. CASE ProbeKills(a)
    <2>1. \A b \in Actors \ {a} : at'[b] = at[b]
      BY <1>3, <1>a, MovedIsOne DEF ProbeKills
    <2>2. UNCHANGED <<state, tasks>> /\ (proc' = proc \/ proc' # "none")
      BY <1>3 DEF ProbeKills
    <2> QED BY <1>a, <1>1, <1>2, <2>1, <2>2, CalmStep
  <1>4. CASE ProbeFindsNone(a) \/ Reclaims(a)
    <2>1. UNCHANGED proc /\ Probed(a) BY <1>4 DEF ProbeFindsNone, Reclaims, world
    <2>2. CASE StopBegins(a) /\ Samples(a, "claim")
      BY <1>a, <1>1, <2>1, <2>2, SamplesStops, StopsKeep
    <2>3. CASE (Leaves(a) \/ Goes(a, "prepare")) /\ UNCHANGED <<state, tasks>>
      <3>1. \A b \in Actors \ {a} : at'[b] = at[b] BY <2>3, <1>a, MovedIsOne
      <3> QED BY <1>a, <1>1, <1>2, <2>1, <2>3, <3>1, CalmStep
    <2> QED BY <2>1, <2>2, <2>3 DEF Probed, StartGoesOn
  <1> QED BY <1>3, <1>4 DEF Probe

LEMMA ChatKeeps ==
    ASSUME TypeInv, MonitorInv, StoppingInv, NEW c \in Chats,
           Ensures(c) \/ ChatCancelled(c) \/ \E m \in Models : ChatBegins(c, m)
    PROVE  MonitorInv' /\ StoppingInv'
  <1>a. c \in Actors /\ c \notin Monitors BY Types
  <1>1. CASE ChatFinds(c) \/ ChatServed(c) \/ \E m \in Models : ChatBegins(c, m)
    <2>1. at[c].pc \notin Watched
      BY <1>1 DEF ChatFinds, ChatServed, ChatBegins, In, Watched
    <2>2. \A b \in Actors \ {c} : at'[b] = at[b]
      BY <1>1, <1>a, MovedIsOne DEF ChatFinds, ChatServed, ChatBegins
    <2>3. UNCHANGED <<state, tasks, proc, cancels>>
      BY <1>1 DEF ChatFinds, ChatServed, ChatBegins, world, counts
    <2> QED BY <1>a, <2>1, <2>2, <2>3, CalmStep
  <1>2. CASE ChatStarts(c)
    <2>1. at[c].pc \notin Watched BY <1>2 DEF ChatStarts, In, Watched
    <2>2. \A b \in Actors \ {c} : at'[b] = at[b]
      BY <1>2, <1>a, MovedIsOne DEF ChatStarts
    <2>3. UNCHANGED <<tasks, cancels>> BY <1>2 DEF ChatStarts, counts
    <2>4. \/ state' = "idle"
          \/ state' = state /\ proc' = proc
      BY <1>2 DEF ChatStarts
    <2> QED BY <1>a, <2>1, <2>2, <2>3, <2>4, CalmStep
  <1>3. CASE ChatSwaps(c)
    <2>1. at[c].pc # "dying" /\ c \notin doomed /\ UNCHANGED proc
      BY <1>3 DEF ChatSwaps, In, world
    <2> QED BY <1>a, <1>3, <2>1, SamplesStops, StopsKeep DEF ChatSwaps
  <1>4. CASE ChatCancelled(c)
    <2>1. \A b \in Actors \ {c} : at[b].pc \in Watched => at'[b] = at[b]
      BY <1>4, <1>a, MovedIsOne, MovedAreCallers DEF ChatCancelled
    <2>2. UNCHANGED <<state, tasks>> /\ cancels' = cancels + 1
      BY <1>4 DEF ChatCancelled
    <2>3. MonitorInv' BY <1>a, <2>1, <2>2, AsleepKept, Types DEF Watched
    <2>4. cancels' # 0 BY <2>2, EngineAssumption DEF TypeInv, RestOK
    <2> QED BY <2>3, <2>4 DEF StoppingInv
  <1> QED BY <1>1, <1>2, <1>3, <1>4 DEF Ensures

LEMMA RequestKeeps ==
    ASSUME TypeInv, MonitorInv, StoppingInv,
           \/ \E l \in Loads, m \in Models : LoadSwaps(l, m) \/ LoadStarts(l, m)
           \/ \E u \in Unloads : Unload(u)
    PROVE  MonitorInv' /\ StoppingInv'
  <1>1. ASSUME NEW l \in Loads, NEW m \in Models, LoadSwaps(l, m)
        PROVE  MonitorInv' /\ StoppingInv'
    <2>a. l \in Actors BY Types
    <2>1. at[l].pc # "dying" /\ l \notin doomed /\ UNCHANGED proc
      BY <1>1 DEF LoadSwaps, In, world
    <2>2. CASE StopBegins(l) /\ Becomes(l, Being("sample", m, "swap", None, FALSE))
      <3>1. at'[l].pc = "sample" BY <2>a, <2>2 DEF Becomes, Being, TypeInv, PlacesOK
      <3>2. \A b \in Actors \ {l} : at'[b] = at[b] BY <2>a, <2>2, MovedIsOne
      <3>3. Stops(l) BY <2>1, <2>2, <3>1, <3>2 DEF Stops
      <3> QED BY <2>a, <2>1, <3>3, StopsKeep
    <2> QED BY <1>1, <2>2, NothingKeeps DEF LoadSwaps
  <1>2. ASSUME NEW l \in Loads, NEW m \in Models, LoadStarts(l, m)
        PROVE  MonitorInv' /\ StoppingInv'
    <2>a. l \in Actors BY Types
    <2>1. at[l].pc \notin Watched /\ UNCHANGED <<state, tasks, proc, cancels>>
      BY <1>2 DEF LoadStarts, In, Watched, world, counts
    <2>2. \A b \in Actors \ {l} : at'[b] = at[b] BY <1>2, <2>a, MovedIsOne DEF LoadStarts
    <2> QED BY <2>a, <2>1, <2>2, CalmStep
  <1>3. ASSUME NEW u \in Unloads, Unload(u) PROVE MonitorInv' /\ StoppingInv'
    <2>a. u \in Actors BY Types
    <2>1. at[u].pc # "dying" /\ u \notin doomed /\ UNCHANGED proc
      BY <1>3 DEF Unload, In, world
    <2> QED BY <1>3, <2>a, <2>1, SamplesStops, StopsKeep, NothingKeeps DEF Unload
  <1> QED BY <1>1, <1>2, <1>3

LEMMA TickKeeps ==
    ASSUME TypeInv, MonitorInv, StoppingInv, NEW m \in Monitors, Tick(m)
    PROVE  MonitorInv' /\ StoppingInv'
  <1>a. m \in Actors BY Types
  <1>1. at[m].pc # "dying" /\ m \notin doomed /\ UNCHANGED <<proc, cancels>>
    BY DEF Tick, In, world, counts
  <1>2. CASE UNCHANGED <<state, tasks, at>>
    <2>1. Calm BY <1>1, <1>2 DEF Calm, Undisturbed
    <2> QED BY <1>1, <2>1, CalmKeeps, CalmOwned
  <1>3. CASE NothingToStop(m) BY <1>3, NothingKeeps
  <1>4. CASE StopBegins(m) /\ Samples(m, "monitor")
    BY <1>a, <1>1, <1>4, SamplesStops, StopsKeep
  <1> QED BY <1>2, <1>3, <1>4 DEF Tick

LEMMA EndsKeep ==
    ASSUME TypeInv, MonitorInv, StoppingInv, NEW m \in Monitors, MonitorEnds(m)
    PROVE  MonitorInv' /\ StoppingInv'
  <1>a. m \in Actors BY Types
  <1>1. /\ m \in doomed /\ doomed' = doomed \ {m}
        /\ UNCHANGED <<state, idle, proc, cancels>>
    BY DEF MonitorEnds, world, counts
  <1>2. \A b \in Actors \ {m} : at'[b] = at[b] BY <1>a, MovedIsOne DEF MonitorEnds
  <1>3. \A b \in Actors : \A s : In(b, s) => In(b, s)' BY <1>1, <1>2 DEF In
  <1>4. idle # None => idle \in Actors BY Types DEF TypeInv, RestOK
  <1>5. MonitorInv' BY <1>1, <1>3, <1>4 DEF MonitorInv
  <1>6. StoppingInv' BY <1>1, <1>3 DEF StoppingInv
  <1> QED BY <1>5, <1>6

LEMMA ServerKeeps ==
    ASSUME TypeInv, MonitorInv, StoppingInv, ServerLoads \/ ServerDies \/ UNCHANGED vars
    PROVE  MonitorInv' /\ StoppingInv'
  <1>1. UNCHANGED <<state, tasks, at, cancels>> /\ (proc' = proc \/ proc' # "none")
    BY DEF ServerLoads, ServerDies, vars, world, counts, Fault
  <1>2. Calm BY <1>1 DEF Calm, Undisturbed
  <1> QED BY <1>1, <1>2, CalmKeeps, CalmOwned

LEMMA InvStep ==
    TypeInv /\ MonitorInv /\ StoppingInv /\ [Next]_vars => MonitorInv' /\ StoppingInv'
  BY StopKeeps, StartKeeps, ProbeKeeps, ChatKeeps, RequestKeeps, TickKeeps, EndsKeep,
     ServerKeeps
  DEF Next

LEMMA InvInit == Init => MonitorInv /\ StoppingInv
  BY DEF Init, MonitorInv, StoppingInv

\* A ready engine always has a live monitor, for any number of requests: every
\* path that takes a monitor off leaves the engine not ready, and the only way
\* back to ready registers one.
THEOREM MonitorTheorem == Spec => []MonitorCovers
  <1>1. MonitorInv => MonitorCovers BY DEF MonitorInv, MonitorCovers
  <1> QED BY <1>1, InvInit, InvStep, TypeInvAlways, PTL DEF Spec

\* The engine never stays in stopping with nobody in stop(), as long as no
\* client has gone away, however many stops overlap.
THEOREM StoppingTheorem == Spec => []StoppingIsOwned
  <1>1. StoppingInv => StoppingIsOwned BY DEF StoppingInv, StoppingIsOwned
  <1> QED BY <1>1, InvInit, InvStep, TypeInvAlways, PTL DEF Spec

-----------------------------------------------------------------------------
(* Who waits for whom *)

\* A future that can be awaited belongs to a start() that loads its path and has
\* not set it; so does every future that is awaited.
HeldInv ==
    /\ AwaitsOwnModel
    /\ starting.by # None => Owes(starting.by, starting.path)

LEMMA ThoseWhoOwe ==
    /\ \A a : InStart(a) => at[a].pc \notin {"new", "over", "gone", "resolve", "wait", "queued"}
    /\ \A a, m : Owes(a, m) => a \in Starters /\ at[a].pc # "wait"
  BY DEF InStart, Owes, StartPlace, StopPlace

\* One actor moves, registers and forgets nothing, and what it owes it still owes.
LEMMA HeldMove ==
    ASSUME HeldInv, UNCHANGED starting, NEW a,
           \A b \in Starters \ {a} : at'[b] = at[b],
           a \in Starters => /\ at'[a].pc # "wait"
                             /\ \A m : Owes(a, m) => Owes(a, m)'
    PROVE  HeldInv'
  <1>1. \A x, m : Owes(x, m) => Owes(x, m)' BY DEF Owes, InStart
  <1>2. AwaitsOwnModel'
    <2> SUFFICES ASSUME NEW b \in Starters, at'[b].pc = "wait"
                 PROVE  Owes(at[b].on, at[b].wants)'
      BY DEF AwaitsOwnModel
    <2>1. at'[b] = at[b] OBVIOUS
    <2>2. Owes(at[b].on, at[b].wants) BY <2>1 DEF HeldInv, AwaitsOwnModel
    <2> QED BY <1>1, <2>1, <2>2
  <1> QED BY <1>1, <1>2 DEF HeldInv

\* Further on in a start() or a stop().
LEMMA HeldGoes ==
    ASSUME TypeInv, HeldInv, UNCHANGED starting, NEW a \in Actors, NEW s, Goes(a, s),
           s # "wait",
           InStart(a) => \/ s \in StartPlace \cup {"gone"}
                         \/ s \in StopPlace /\ at[a].pc \in StopPlace,
           at[a].pc # "gone"
    PROVE  HeldInv'
  <1>1. /\ at'[a].pc = s /\ at'[a].wants = at[a].wants /\ at'[a].after = at[a].after
        /\ \A b \in Actors \ {a} : at'[b] = at[b]
    BY DEF Goes, Becomes, Being, TypeInv, PlacesOK
  <1>2. \A m : Owes(a, m) => Owes(a, m)'
    BY <1>1 DEF Owes, InStart, StartPlace, StopPlace
  <1> QED BY <1>1, <1>2, HeldMove, Types

\* Into a stop(): from a start(), in the name of that start().
LEMMA HeldSamples ==
    ASSUME TypeInv, HeldInv, UNCHANGED starting, NEW a \in Actors, NEW k, Samples(a, k),
           InStart(a) => k \in {"claim", "exited", "late"},
           at[a].pc # "gone"
    PROVE  HeldInv'
  <1>1. /\ at'[a].pc = "sample" /\ at'[a].wants = at[a].wants /\ at'[a].after = k
        /\ \A b \in Actors \ {a} : at'[b] = at[b]
    BY DEF Samples, Becomes, Being, TypeInv, PlacesOK
  <1>2. \A m : Owes(a, m) => Owes(a, m)'
    BY <1>1 DEF Owes, InStart, StopPlace
  <1> QED BY <1>1, <1>2, HeldMove, Types

\* Anybody who owes nothing goes anywhere but to wait.
LEMMA HeldBecomes ==
    ASSUME TypeInv, HeldInv, UNCHANGED starting, NEW a \in Actors, NEW w, Becomes(a, w),
           w.pc # "wait", ~InStart(a), at[a].pc # "gone"
    PROVE  HeldInv'
  <1>1. at'[a] = w /\ \A b \in Actors \ {a} : at'[b] = at[b]
    BY DEF Becomes, TypeInv, PlacesOK
  <1> QED BY <1>1, HeldMove, Types DEF Owes

\* A future is set or cancelled: all who await it go on, with its start() or
\* without, and nobody else moves.
LEMMA HeldReleases ==
    ASSUME TypeInv, HeldInv, NEW a, Cleared(a),
           NEW W, Awaiting(a) \subseteq W, W \subseteq Callers(a),
           \A b \in Starters : at'[b] # at[b] => b \in W,
           \A b \in W : at'[b].pc # "wait"
    PROVE  HeldInv'
  <1>1. \A x, m : Owes(x, m) /\ x # a => Owes(x, m)'
    <2> SUFFICES ASSUME NEW x, NEW m, Owes(x, m), x # a PROVE Owes(x, m)' OBVIOUS
    <2>1. x \in Starters /\ at[x].pc # "wait" BY ThoseWhoOwe
    <2>2. at'[x] = at[x] BY <2>1 DEF Callers, Awaiting
    <2> QED BY <2>2 DEF Owes, InStart
  <1>2. AwaitsOwnModel'
    <2> SUFFICES ASSUME NEW b \in Starters, at'[b].pc = "wait"
                 PROVE  Owes(at[b].on, at[b].wants)'
      BY DEF AwaitsOwnModel
    <2>1. at'[b] = at[b] OBVIOUS
    <2>2. at[b].on # a BY <2>1 DEF Awaiting
    <2>3. Owes(at[b].on, at[b].wants) BY <2>1 DEF HeldInv, AwaitsOwnModel
    <2> QED BY <1>1, <2>1, <2>2, <2>3
  <1>3. starting'.by # None => Owes(starting.by, starting.path)'
    <2>1. starting'.by # None => starting' = starting /\ starting.by # a
      BY DEF Cleared, NotStarting
    <2> QED BY <1>1, <2>1 DEF HeldInv
  <1> QED BY <1>2, <1>3 DEF HeldInv

LEMMA HeldRaises ==
    ASSUME TypeInv, HeldInv, NEW a \in Actors, Raises(a) \/ RaisesExited(a) PROVE HeldInv'
  <1>1. Cleared(a) BY DEF Raises, RaisesExited
  <1>2. Over.pc # "wait" /\ \A b : Retries(b).pc # "wait"
    BY DEF Over, Plainly, Retries, Being
  <1>3. Callers(a) \subseteq Actors BY Types DEF Callers, Awaiting
  <1>4. /\ \A b \in Starters : at'[b] # at[b] => b \in Callers(a)
        /\ \A b \in Callers(a) : at'[b].pc # "wait"
    BY <1>2, <1>3, Types DEF Raises, RaisesExited
  <1>5. Awaiting(a) \subseteq Callers(a) BY DEF Callers
  <1> QED BY <1>1, <1>4, <1>5, HeldReleases

LEMMA HeldStop ==
    ASSUME TypeInv, HeldInv, NEW a \in Actors, Stop(a) PROVE HeldInv'
  <1>1. CASE StopRaises(a)
    <2>1. at[a].pc = "sample" BY <1>1 DEF StopRaises, In
    <2>2. CASE at[a].after \in {"unload", "swap"} /\ Leaves(a) /\ UNCHANGED starting
      <3>1. ~InStart(a) BY <2>1, <2>2 DEF InStart, StartPlace
      <3> QED BY <2>1, <2>2, <3>1, Fresh, HeldBecomes DEF Leaves
    <2>3. CASE Abandons(a) BY <2>1, <2>3, HeldGoes DEF Abandons
    <2>4. CASE at[a].after = "monitor" /\ Enters(a, "asleep", None) /\ UNCHANGED starting
      <3>1. ~InStart(a) BY <2>1, <2>4 DEF InStart, StartPlace
      <3> QED BY <2>1, <2>4, <3>1, HeldBecomes DEF Enters, Plainly, Being
    <2>5. CASE Raises(a) BY <2>5, HeldRaises
    <2> QED BY <1>1, <2>2, <2>3, <2>4, <2>5 DEF StopRaises
  <1>2. CASE Terminates(a) \/ Clears(a)
    <2>1. at[a].pc \in {"sample", "dying"} /\ UNCHANGED starting
      BY <1>2 DEF Terminates, Clears, In
    <2>2. PICK s \in {"dying", "released"} : Goes(a, s) BY <1>2 DEF Terminates, Clears
    <2> QED BY <2>1, <2>2, HeldGoes DEF StopPlace
  <1>3. CASE StopReturns(a)
    <2>1. at[a].pc = "released" BY <1>3 DEF StopReturns, In
    <2>2. CASE at[a].after = "unload" /\ Leaves(a) /\ UNCHANGED starting
      <3>1. ~InStart(a) BY <2>1, <2>2 DEF InStart, StartPlace
      <3> QED BY <2>1, <2>2, <3>1, Fresh, HeldBecomes DEF Leaves
    <2>3. CASE at[a].after = "swap" /\ Goes(a, "resolve") /\ UNCHANGED starting
      <3>1. ~InStart(a) BY <2>1, <2>3 DEF InStart, StartPlace
      <3> QED BY <2>1, <2>3, <3>1, HeldGoes
    <2>4. CASE (\E s \in {"probe", "prepare"} : Goes(a, s)) /\ UNCHANGED starting
      BY <2>1, <2>4, HeldGoes DEF StartPlace
    <2>5. CASE Raises(a) \/ RaisesExited(a) BY <2>5, HeldRaises
    <2> QED BY <1>3, <2>2, <2>3, <2>4, <2>5 DEF StopReturns
  <1> QED BY <1>1, <1>2, <1>3 DEF Stop

LEMMA HeldReady ==
    ASSUME TypeInv, HeldInv, NEW a \in Starters, Ready(a) PROVE HeldInv'
  <1>1. Cleared(a) /\ Awaiting(a) \subseteq Callers(a) /\ Callers(a) \subseteq Actors
    BY Types DEF Ready, Callers, Awaiting
  <1>2. Over.pc # "wait" /\ \A b : Served(b).pc # "wait"
    BY DEF Over, Plainly, Served, Being
  <1>3. MonitorNow \cap Starters = {}
    BY Types DEF MonitorNow, TypeInv, RestOK
  <1>4. /\ \A b \in Starters : at'[b] # at[b] => b \in Callers(a)
        /\ \A b \in Callers(a) : at'[b].pc # "wait"
    BY <1>1, <1>2, <1>3, Types DEF Ready
  <1> QED BY <1>1, <1>4, HeldReleases

LEMMA HeldStart ==
    ASSUME TypeInv, HeldInv, NEW a \in Starters, Start(a) \/ ExecFails(a) PROVE HeldInv'
  <1>a. a \in Actors BY Types
  <1>1. CASE Coalesces(a)
    <2>1. /\ UNCHANGED starting /\ at[a].pc = "resolve"
          /\ starting.by # None /\ starting.path = at[a].wants
      BY <1>1 DEF Coalesces, In
    <2>2. /\ at'[a].pc = "wait" /\ at'[a].on = starting.by /\ at'[a].wants = at[a].wants
          /\ \A b \in Actors \ {a} : at'[b] = at[b]
      BY <1>1, <1>a DEF Coalesces, Becomes, Being, TypeInv, PlacesOK
    <2>3. \A x, m : Owes(x, m) => Owes(x, m)'
      <3> SUFFICES ASSUME NEW x, NEW m, Owes(x, m) PROVE Owes(x, m)' OBVIOUS
      <3>1. x # a BY <2>1, ThoseWhoOwe DEF Owes
      <3>2. at'[x] = at[x] BY <2>2, <3>1, Types DEF Owes
      <3> QED BY <3>2 DEF Owes, InStart
    <2>4. AwaitsOwnModel'
      <3> SUFFICES ASSUME NEW b \in Starters, at'[b].pc = "wait"
                   PROVE  Owes(at[b].on, at[b].wants)'
        BY DEF AwaitsOwnModel
      <3>1. CASE b = a BY <2>1, <2>2, <2>3, <3>1 DEF HeldInv
      <3>2. CASE b # a
        <4>1. at'[b] = at[b] BY <2>2, <3>2, Types
        <4>2. Owes(at[b].on, at[b].wants) BY <4>1 DEF HeldInv, AwaitsOwnModel
        <4> QED BY <2>3, <4>1, <4>2
      <3> QED BY <3>1, <3>2
    <2> QED BY <2>1, <2>3, <2>4 DEF HeldInv
  <1>2. CASE Claims(a)
    <2>1. starting' = [by |-> a, path |-> at[a].wants] /\ at[a].pc = "resolve"
      BY <1>2 DEF Claims, In
    <2>2. /\ at'[a].wants = at[a].wants
          /\ \/ at'[a].pc = "probe"
             \/ at'[a].pc = "sample" /\ at'[a].after = "claim"
          /\ \A b \in Actors \ {a} : at'[b] = at[b]
      BY <1>2, <1>a DEF Claims, Goes, Samples, Becomes, Being, TypeInv, PlacesOK
    <2>3. Owes(a, at[a].wants)'
      BY <2>2 DEF Owes, InStart, StartPlace, StopPlace
    <2>4. AwaitsOwnModel'
      <3> SUFFICES ASSUME NEW b \in Starters, at'[b].pc = "wait"
                   PROVE  Owes(at[b].on, at[b].wants)'
        BY DEF AwaitsOwnModel
      <3>1. at'[b] = at[b] BY <2>2, Types
      <3>2. Owes(at[b].on, at[b].wants) BY <3>1 DEF HeldInv, AwaitsOwnModel
      <3>3. at[b].on # a BY <2>1, <3>2, ThoseWhoOwe DEF Owes
      <3>4. at'[at[b].on] = at[at[b].on] BY <2>2, <3>2, <3>3, Types DEF Owes
      <3> QED BY <3>1, <3>2, <3>4 DEF Owes, InStart
    <2> QED BY <2>1, <2>2, <2>3, <2>4 DEF HeldInv
  <1>3. CASE Prepares(a) \/ Spawns(a)
    <2>1. at[a].pc \in {"prepare", "spawn"} /\ UNCHANGED starting
      BY <1>3 DEF Prepares, Spawns, In
    <2>2. PICK s \in {"spawn", "health"} : Goes(a, s) BY <1>3 DEF Prepares, Spawns
    <2> QED BY <1>a, <2>1, <2>2, HeldGoes DEF StartPlace
  <1>4. CASE Ready(a) BY <1>4, HeldReady
  <1>5. CASE NotReady(a)
    <2>1. at[a].pc = "health" BY <1>5 DEF NotReady, In
    <2>2. CASE (\E k \in {"exited", "late"} : Samples(a, k)) /\ UNCHANGED starting
      BY <1>a, <2>1, <2>2, HeldSamples
    <2>3. CASE Raises(a) BY <1>a, <2>3, HeldRaises
    <2> QED BY <1>5, <2>2, <2>3 DEF NotReady
  <1>6. CASE ExecFails(a) BY <1>a, <1>6, HeldRaises DEF ExecFails
  <1> QED BY <1>1, <1>2, <1>3, <1>4, <1>5, <1>6 DEF Start

LEMMA HeldProbe ==
    ASSUME TypeInv, HeldInv, NEW a \in Starters \cup Monitors, Probe(a) PROVE HeldInv'
  <1>a. a \in Actors BY Types
  <1>1. at[a].pc \in {"probe", "reclaim"} /\ UNCHANGED starting
    BY DEF Probe, ProbeFindsNone, ProbeKills, Reclaims, In
  <1>2. CASE Goes(a, "reclaim") \/ Goes(a, "prepare")
    BY <1>a, <1>1, <1>2, HeldGoes DEF StartPlace
  <1>3. CASE a \in Monitors /\ Leaves(a)
    <2>1. ~InStart(a) BY <1>3, Types DEF InStart
    <2> QED BY <1>a, <1>1, <1>3, <2>1, Fresh, HeldBecomes DEF Leaves
  <1>4. CASE Samples(a, "claim") BY <1>a, <1>1, <1>4, HeldSamples
  <1> QED BY <1>2, <1>3, <1>4
          DEF Probe, ProbeFindsNone, ProbeKills, Reclaims, Probed, StartGoesOn

LEMMA HeldChat ==
    ASSUME TypeInv, HeldInv, NEW c \in Chats,
           Ensures(c) \/ ChatCancelled(c) \/ \E m \in Models : ChatBegins(c, m)
    PROVE  HeldInv'
  <1>a. c \in Actors BY Types
  <1>1. CASE Ensures(c) \/ \E m \in Models : ChatBegins(c, m)
    <2>1. at[c].pc \in {"new", "queued", "serve"} /\ UNCHANGED starting
      BY <1>1 DEF Ensures, ChatBegins, ChatFinds, ChatSwaps, ChatStarts, ChatServed, In
    <2>2. ~InStart(c) BY <2>1 DEF InStart, StartPlace, StopPlace
    <2>3. CASE Samples(c, "swap") BY <1>a, <2>1, <2>2, <2>3, HeldSamples
    <2>4. CASE Goes(c, "serve") BY <1>a, <2>1, <2>2, <2>4, HeldGoes
    <2>5. CASE Leaves(c) \/ Becomes(c, Retries(c)) \/ \E m \in Models : Enters(c, "queued", m)
      <3>1. /\ Over.pc # "wait" /\ Retries(c).pc # "wait"
            /\ \A m : Plainly("queued", m).pc # "wait"
        BY DEF Over, Retries, Plainly, Being
      <3>2. \E w : Becomes(c, w) /\ w.pc # "wait" BY <2>5, <3>1 DEF Leaves, Enters
      <3> QED BY <1>a, <2>1, <2>2, <3>2, HeldBecomes
    <2> QED BY <1>1, <2>3, <2>4, <2>5
            DEF Ensures, ChatBegins, ChatFinds, ChatSwaps, ChatStarts, ChatServed
  <1>2. CASE ChatCancelled(c)
    <2>1. CASE Raises(c) BY <1>a, <2>1, HeldRaises
    <2>2. CASE InStart(c) /\ Abandons(c)
      BY <1>a, <2>2, HeldGoes, ThoseWhoOwe DEF Abandons
    <2>3. CASE CancelsFuture(c)
      <3> DEFINE a == at[c].on
      <3>1. Awaiting(a) \subseteq Actors BY Types DEF Awaiting
      <3>2. Over.pc # "wait" BY Fresh
      <3>3. Awaiting(a) \subseteq Callers(a) BY DEF Callers
      <3>4. Cleared(a) BY <2>3 DEF CancelsFuture
      <3>5. /\ \A b \in Starters : at'[b] # at[b] => b \in Awaiting(a)
            /\ \A b \in Awaiting(a) : at'[b].pc # "wait"
        BY <2>3, <3>1, <3>2, Types DEF CancelsFuture
      <3> QED BY <3>3, <3>4, <3>5, HeldReleases
    <2>4. CASE c \in InFlight /\ ~InStart(c) /\ Leaves(c) /\ UNCHANGED starting
      <3>1. at[c].pc # "gone" BY <2>4 DEF InFlight, Away
      <3> QED BY <1>a, <2>4, <3>1, Fresh, HeldBecomes DEF Leaves
    <2> QED BY <1>2, <2>1, <2>2, <2>3, <2>4 DEF ChatCancelled
  <1> QED BY <1>1, <1>2

LEMMA HeldRequest ==
    ASSUME TypeInv, HeldInv,
           \/ \E l \in Loads, m \in Models : LoadSwaps(l, m) \/ LoadStarts(l, m)
           \/ \E u \in Unloads : Unload(u)
    PROVE  HeldInv'
  <1>1. ASSUME NEW l \in Loads, NEW m \in Models, LoadSwaps(l, m) \/ LoadStarts(l, m)
        PROVE  HeldInv'
    <2>1. l \in Actors /\ at[l].pc = "new" /\ UNCHANGED starting
      BY <1>1, Types DEF LoadSwaps, LoadStarts, In
    <2>2. ~InStart(l) BY <2>1 DEF InStart, StartPlace, StopPlace
    <2>3. PICK w : Becomes(l, w) /\ w.pc # "wait"
      BY <1>1 DEF LoadSwaps, LoadStarts, Enters, Plainly, Being
    <2> QED BY <2>1, <2>2, <2>3, HeldBecomes
  <1>2. ASSUME NEW u \in Unloads, Unload(u) PROVE HeldInv'
    <2>1. u \in Actors /\ at[u].pc = "new" /\ UNCHANGED starting
      BY <1>2, Types DEF Unload, In
    <2>2. ~InStart(u) BY <2>1 DEF InStart, StartPlace, StopPlace
    <2>3. CASE Samples(u, "unload") BY <2>1, <2>2, <2>3, HeldSamples
    <2>4. CASE Leaves(u) BY <2>1, <2>2, <2>4, Fresh, HeldBecomes DEF Leaves
    <2> QED BY <1>2, <2>3, <2>4 DEF Unload
  <1> QED BY <1>1, <1>2

\* Monitors and the server owe nobody anything.
LEMMA HeldOthers ==
    ASSUME TypeInv, HeldInv,
           \/ \E m \in Monitors : Tick(m) \/ MonitorEnds(m)
           \/ ServerLoads \/ ServerDies \/ UNCHANGED vars
    PROVE  HeldInv'
  <1>1. ASSUME NEW m \in Monitors, Tick(m) \/ MonitorEnds(m) PROVE HeldInv'
    <2>1. m \in Actors /\ m \notin Starters /\ UNCHANGED starting
      BY <1>1, Types DEF Tick, MonitorEnds
    <2>2. \A b \in Starters \ {m} : at'[b] = at[b]
      BY <1>1, <2>1, MovedIsOne, Types DEF Tick, MonitorEnds
    <2> QED BY <2>1, <2>2, HeldMove
  <1>2. ASSUME UNCHANGED <<starting, at>> PROVE HeldInv'
    BY <1>2 DEF HeldInv, AwaitsOwnModel, Owes, InStart
  <1> QED BY <1>1, <1>2 DEF ServerLoads, ServerDies, vars

LEMMA HeldStep == TypeInv /\ HeldInv /\ [Next]_vars => HeldInv'
  BY HeldStop, HeldStart, HeldProbe, HeldChat, HeldRequest, HeldOthers DEF Next

LEMMA HeldInit == Init => HeldInv
  <1> SUFFICES ASSUME Init PROVE HeldInv OBVIOUS
  <1>1. \A b \in Starters : at[b].pc = "new" BY Fresh, Types DEF Init
  <1> QED BY <1>1 DEF Init, HeldInv, AwaitsOwnModel, NotStarting

\* Whoever coalesces with a start() waits for its own model, and for a future
\* that is still to be set unless its start() has raised before the try block, for
\* any number of chats, loads, retries and clients that go away.
THEOREM AwaitsTheorem == Spec => []AwaitsOwnModel
  <1>1. HeldInv => AwaitsOwnModel BY DEF HeldInv
  <1> QED BY <1>1, HeldInit, HeldStep, TypeInvAlways, PTL DEF Spec

=============================================================================
