------------------------ MODULE StandingTasksProofs -------------------------
(***************************************************************************)
(* Proofs about StandingTasks, for any number of users, tasks, edits and      *)
(* faults, and any limits.                                                  *)
(***************************************************************************)
EXTENDS StandingTasks, TLAPS

-----------------------------------------------------------------------------
(* Types and counters *)

\* The table is well typed, and no enabled task has reached the error limit.
TableOK ==
    /\ row \in [Tasks -> Row] /\ \A t \in Tasks : row[t].errs <= MaxErrors
    /\ due \subseteq Tasks /\ ahead \in [Tasks -> SUBSET due]
    /\ told \in [Tasks -> Nat] /\ strays \in [Tasks -> Nat] /\ jitters \in 0 .. MaxJitters
    /\ \A t \in Tasks : row[t].on => row[t].errs < MaxErrors

\* A run has picked an enabled task, so the errors it has read are below the
\* limit: what it writes back is at most the limit.
RunsOK ==
    /\ at \in [Dispatchers -> Run] /\ todo \subseteq Users
    /\ \A d \in Dispatchers : at[d].pc # "asleep" => at[d].task \in Tasks
    /\ \A d \in Dispatchers : at[d].errs < MaxErrors
    /\ \A d \in Dispatchers : at[d].pc = "asleep" => at[d] = Asleep

CountsOK == edits \in 0 .. MaxEdits /\ faults \in 0 .. MaxFaults

Inv == TableOK /\ RunsOK /\ CountsOK

LEMMA InvInit == Init => Inv
  <1> SUFFICES ASSUME Init PROVE Inv OBVIOUS
  <1> USE StandingAssumption
  <1>1. TableOK
    <2>1. Fresh \in Row /\ Gone \in Row BY DEF Fresh, Gone, Row
    <2>2. Fresh.errs = 0 /\ Gone.errs = 0 BY DEF Fresh, Gone
    <2>3. \A t \in Tasks : row[t] = Fresh \/ row[t] = Gone BY DEF Init
    <2>4. row \in [Tasks -> Row] BY <2>1 DEF Init
    <2>5. 0 < MaxErrors /\ 0 <= MaxErrors OBVIOUS
    <2>6. \A t \in Tasks : row[t].errs = 0 BY <2>2, <2>3
    <2> QED BY <2>4, <2>5, <2>6 DEF Init, TableOK
  <1>2. RunsOK BY DEF Init, RunsOK, Run, Asleep
  <1>3. CountsOK BY DEF Init, CountsOK
  <1> QED BY <1>1, <1>2, <1>3 DEF Inv

LEMMA ReschedulesKeeps ==
    ASSUME TableOK, NEW t \in Tasks, Reschedules(t)
    PROVE  /\ due' \subseteq Tasks /\ ahead' \in [Tasks -> SUBSET due']
           /\ told' \in [Tasks -> Nat] /\ strays' \in [Tasks -> Nat]
           /\ jitters' \in 0 .. MaxJitters
  <1>1. CASE MovesOn(t) BY <1>1 DEF TableOK, MovesOn, StartsOver
  <1>2. CASE Strays(t)
    <2>1. PICK S \in SUBSET due :
            ahead' = [x \in Tasks |->
              IF x = t THEN S
              ELSE IF x \in due \ S /\ UserOf[x] = UserOf[t] THEN ahead[x] \cup {t}
              ELSE ahead[x] \ {t}]
      BY <1>2 DEF Strays
    <2>2. due' = due \cup {t} /\ told' = told
          /\ strays' \in [Tasks -> Nat] /\ jitters' \in 0 .. MaxJitters
      BY <1>2, StandingAssumption DEF TableOK, Strays
    <2>3. due' \subseteq Tasks /\ told' \in [Tasks -> Nat] BY <2>2 DEF TableOK
    <2>4. ahead' \in [Tasks -> SUBSET due'] BY <2>1, <2>2 DEF TableOK
    <2> QED BY <2>2, <2>3, <2>4
  <1> QED BY <1>1, <1>2 DEF Reschedules

LEMMA JoinsLineKeeps ==
    ASSUME TableOK, NEW t \in Tasks, JoinsLine(t)
    PROVE  /\ due' \subseteq Tasks /\ ahead' \in [Tasks -> SUBSET due']
           /\ UNCHANGED jitters
  BY DEF TableOK, JoinsLine

\* A row is replaced by one that is below the limit or paused.
LEMMA RowKeeps ==
    ASSUME TableOK, NEW t \in Tasks, NEW r \in Row, r.errs <= MaxErrors,
           r.on => r.errs < MaxErrors, row' = [row EXCEPT ![t] = r]
    PROVE  /\ row' \in [Tasks -> Row] /\ \A x \in Tasks : row'[x].errs <= MaxErrors
           /\ \A x \in Tasks : row'[x].on => row'[x].errs < MaxErrors
  BY DEF TableOK

LEMMA PersistsKeeps ==
    ASSUME TableOK, NEW t \in Tasks, NEW errs \in Nat, NEW slow \in Nat,
           NEW pause \in BOOLEAN, errs <= MaxErrors, pause \/ errs < MaxErrors,
           Persists(t, errs, slow, pause)
    PROVE  TableOK'
  <1>1. CASE row[t].there
    <2> DEFINE r == [there |-> TRUE, on |-> row[t].on /\ ~pause, errs |-> errs, slow |-> slow]
    <2>1. row' = [row EXCEPT ![t] = r] /\ Reschedules(t) BY <1>1 DEF Persists, TableOK
    <2>2. r \in Row /\ r.errs <= MaxErrors /\ (r.on => r.errs < MaxErrors) BY DEF Row
    <2> HIDE DEF r
    <2> QED BY <2>1, <2>2, RowKeeps, ReschedulesKeeps DEF TableOK
  <1>2. CASE ~row[t].there BY <1>2 DEF Persists, TableOK, table, queue
  <1> QED BY <1>1, <1>2

LEMMA SuccessKeeps ==
    ASSUME TableOK, NEW t \in Tasks, Persists(t, 0, 0, FALSE)
    PROVE  TableOK'
  <1>1. 0 \in Nat /\ FALSE \in BOOLEAN /\ 0 <= MaxErrors /\ 0 < MaxErrors
    BY StandingAssumption
  <1> QED BY <1>1, PersistsKeeps

LEMMA RetiredKeeps ==
    ASSUME TableOK, NEW t \in Tasks, row' = Retired(t), UNCHANGED queue
    PROVE  TableOK'
  BY DEF TableOK, Retired, queue, Row

LEMMA CutOffKeeps ==
    ASSUME Inv, NEW d \in Dispatchers, at[d].pc # "asleep", CutOff(d)
    PROVE  TableOK'
  <1>1. at[d].errs \in Nat /\ at[d].errs < MaxErrors /\ at[d].slow \in Nat
        /\ at[d].task \in Tasks
    BY DEF Inv, RunsOK, Run
  <1>2. SlowAfter(d) \in Nat /\ Exhausted(SlowAfter(d), MaxTimeouts) \in BOOLEAN
    BY <1>1, StandingAssumption DEF SlowAfter, Exhausted
  <1> QED BY <1>1, <1>2, PersistsKeeps, StandingAssumption DEF CutOff, Inv

LEMMA OutcomeKeeps ==
    ASSUME Inv, NEW d \in Dispatchers, at[d].pc # "asleep", Outcome(d)
    PROVE  TableOK'
  <1> DEFINE t == at[d].task
  <1>1. at[d].errs \in Nat /\ at[d].errs < MaxErrors /\ t \in Tasks
    BY DEF Inv, RunsOK, Run
  <1>2. CASE Persists(t, 0, 0, FALSE)
    BY <1>1, <1>2, SuccessKeeps DEF Inv
  <1>3. CASE Persists(t, at[d].errs + 1, row[t].slow, Exhausted(at[d].errs + 1, MaxErrors))
    <2>1. row[t].slow \in Nat /\ at[d].errs + 1 \in Nat /\ at[d].errs + 1 <= MaxErrors
      BY <1>1, StandingAssumption DEF Inv, TableOK, Row
    <2>2. /\ Exhausted(at[d].errs + 1, MaxErrors) \in BOOLEAN
          /\ Exhausted(at[d].errs + 1, MaxErrors) \/ at[d].errs + 1 < MaxErrors
      BY <1>1, StandingAssumption DEF Exhausted
    <2> QED BY <1>1, <1>3, <2>1, <2>2, PersistsKeeps DEF Inv
  <1>4. CASE row' = Retired(t) /\ UNCHANGED queue
    BY <1>1, <1>4, RetiredKeeps DEF Inv
  <1> QED BY <1>2, <1>3, <1>4 DEF Outcome

LEMMA StatementKeeps ==
    ASSUME Inv, NEW d \in Dispatchers, Statement(d) \/ UNCHANGED table
    PROVE  TableOK'
  <1>1. CASE UNCHANGED table BY <1>1 DEF Inv, TableOK, table, queue
  <1>2. CASE Statement(d)
    BY <1>2, OutcomeKeeps, CutOffKeeps DEF Statement, In
  <1> QED BY <1>1, <1>2

LEMMA TableSame == ASSUME Inv, UNCHANGED table PROVE TableOK'
  BY DEF Inv, TableOK, table, queue

LEMMA RunsSame == ASSUME Inv, UNCHANGED runs PROVE RunsOK'
  BY DEF Inv, RunsOK, runs

LEMMA GoesKeeps ==
    ASSUME Inv, NEW d \in Dispatchers, at[d].pc # "asleep",
           NEW pc \in {"running", "telling", "writing"},
           NEW write \in {"none", "success", "failure", "timeout", "delivered"},
           Goes(d, pc, write), UNCHANGED todo
    PROVE  RunsOK'
  <1>1. at[d] \in Run /\ at \in [Dispatchers -> Run] /\ todo \subseteq Users
    BY DEF Inv, RunsOK
  <1>2. at' \in [Dispatchers -> Run] /\ \A e \in Dispatchers \ {d} : at'[e] = at[e]
    BY <1>1 DEF Run, Goes
  <1>3. at'[d] = [at[d] EXCEPT !.pc = pc, !.write = write] BY <1>1 DEF Goes
  <1>4. at'[d].pc # "asleep" /\ at'[d].task = at[d].task /\ at'[d].errs = at[d].errs
    BY <1>1, <1>3 DEF Run
  <1>5. todo' \subseteq Users BY <1>1
  <1>6. at[d].task \in Tasks /\ at[d].errs < MaxErrors BY DEF Inv, RunsOK
  <1>7. ASSUME NEW e \in Dispatchers
        PROVE  /\ at'[e].pc # "asleep" => at'[e].task \in Tasks
               /\ at'[e].errs < MaxErrors
               /\ at'[e].pc = "asleep" => at'[e] = Asleep
    <2>1. CASE e = d BY <2>1, <1>4, <1>6
    <2>2. CASE e # d
      <3>1. at'[e] = at[e] BY <1>2, <2>2
      <3> QED BY <3>1 DEF Inv, RunsOK
    <2> QED BY <2>1, <2>2
  <1> QED BY <1>2, <1>5, <1>7 DEF RunsOK

LEMMA RestsKeeps ==
    ASSUME Inv, NEW d \in Dispatchers, Rests(d), UNCHANGED todo
    PROVE  RunsOK'
  BY StandingAssumption DEF Inv, RunsOK, Run, Rests, Asleep

LEMMA CountsKeep ==
    ASSUME Inv, UNCHANGED counts \/ Fault \/ Edits
    PROVE  CountsOK'
  BY StandingAssumption DEF Inv, CountsOK, counts, Fault, Edits

LEMMA PickingKeeps ==
    ASSUME Inv,
           \/ Scans \/ \E u \in Users : PicksNothing(u) \/ PickFails(u)
           \/ \E d \in Dispatchers, u \in Users, t \in Tasks : Picks(d, u, t)
    PROVE  Inv'
  <1>1. UNCHANGED table /\ (UNCHANGED counts \/ Fault)
    BY DEF Scans, PicksNothing, PickFails, Picks
  <1>2. CountsOK' BY <1>1, CountsKeep DEF Inv, CountsOK
  <1>3. RunsOK'
    <2>1. CASE Scans BY <2>1 DEF Scans, Lane, Inv, RunsOK
    <2>2. CASE \E u \in Users : PicksNothing(u) \/ PickFails(u)
      BY <2>2 DEF PicksNothing, PickFails, Inv, RunsOK
    <2>3. ASSUME NEW d \in Dispatchers, NEW u \in Users, NEW t \in Tasks, Picks(d, u, t)
          PROVE  RunsOK'
      <3>1. row[t].on /\ row[t].errs \in Nat /\ row[t].slow \in Nat /\ row[t].errs < MaxErrors
        BY <2>3 DEF Picks, First, Ready, Inv, TableOK, Row
      <3> DEFINE r == [pc |-> "running", task |-> t, errs |-> row[t].errs,
                       slow |-> row[t].slow, write |-> "none"]
      <3>2. r \in Run /\ r.pc # "asleep" /\ r.task \in Tasks /\ r.errs < MaxErrors
        BY <3>1 DEF Run
      <3>3. at' = [at EXCEPT ![d] = r] /\ todo' \subseteq todo BY <2>3 DEF Picks
      <3> HIDE DEF r
      <3> QED BY <3>2, <3>3 DEF Inv, RunsOK
    <2> QED BY <2>1, <2>2, <2>3
  <1> QED BY <1>1, <1>2, <1>3, TableSame DEF Inv

LEMMA RunningKeeps ==
    ASSUME Inv, NEW d \in Dispatchers,
           Runs(d) \/ WriteFails(d) \/ TimesOutBare(d) \/ Stops(d)
    PROVE  Inv'
  <1>1. CountsOK'
    BY CountsKeep DEF Runs, RunnerReturns, RunnerFails, RunnerTimesOut, Tells, Writes,
       WriteFails, TimesOutBare, Stops, Inv, CountsOK
  <1>2. CASE RunnerReturns(d) \/ RunnerFails(d) \/ RunnerTimesOut(d)
    <2>1. UNCHANGED <<table, todo>> /\ at[d].pc = "running"
      BY <1>2 DEF RunnerReturns, RunnerFails, RunnerTimesOut, May, In
    <2>2. \A t : Ends(t) \subseteq {"success", "delivered"} BY DEF Ends
    <2>3. CASE RunnerReturns(d)
      <3>1. PICK pc \in {"telling", "writing"}, write \in Ends(at[d].task) :
              Goes(d, pc, write)
        BY <2>3 DEF RunnerReturns
      <3>2. RunsOK' BY <2>1, <2>2, <3>1, GoesKeeps
      <3> QED BY <1>1, <2>1, <3>2, TableSame DEF Inv
    <2>4. CASE RunnerFails(d) \/ RunnerTimesOut(d)
      BY <1>1, <2>1, <2>4, GoesKeeps, TableSame DEF RunnerFails, RunnerTimesOut, Inv
    <2> QED BY <1>2, <2>3, <2>4
  <1>3. CASE Tells(d)
    <2>1. RunsOK' BY <1>3, GoesKeeps DEF Tells, In, Inv, RunsOK, Run
    <2>2. TableOK' BY <1>3 DEF Tells, In, Inv, TableOK, RunsOK
    <2> QED BY <1>1, <2>1, <2>2 DEF Inv
  <1>4. CASE Writes(d) \/ WriteFails(d)
    BY <1>1, <1>4, StatementKeeps, RestsKeeps DEF Writes, WriteFails, Inv
  <1>5. CASE TimesOutBare(d)
    BY <1>1, <1>5, OutcomeKeeps, TableSame, RestsKeeps DEF TimesOutBare, In, Inv
  <1>6. CASE Stops(d)
    BY <1>1, <1>6, CutOffKeeps, RestsKeeps DEF Stops, In, Inv
  <1> QED BY <1>2, <1>3, <1>4, <1>5, <1>6 DEF Runs

LEMMA RunsNowKeeps ==
    ASSUME Inv, NEW t \in Tasks, RunsNow(t)
    PROVE  Inv'
  BY CountsKeep, RunsSame, SuccessKeeps DEF RunsNow, Inv

LEMMA EditKeeps ==
    ASSUME Inv, NEW t \in Tasks,
           \/ Adds(t) \/ Removes(t) \/ Edit(t) \/ Elapses(t)
           \/ \E on \in BOOLEAN : Toggles(t, on)
    PROVE  Inv'
  <1>1. CountsOK'
    BY CountsKeep DEF Adds, Removes, Edit, Elapses, Toggles, Inv, CountsOK
  <1>2. RunsOK' BY RunsSame DEF Adds, Removes, Edit, Elapses, Toggles
  <1>3. Fresh \in Row /\ Gone \in Row /\ Fresh.errs = 0 /\ Gone.errs = 0
    BY DEF Fresh, Gone, Row
  <1>4. 0 < MaxErrors /\ 0 <= MaxErrors BY StandingAssumption
  <1>5. CASE Adds(t)
    <2>1. /\ due' \subseteq Tasks /\ ahead' \in [Tasks -> SUBSET due']
          /\ told' \in [Tasks -> Nat] /\ strays' \in [Tasks -> Nat]
          /\ jitters' \in 0 .. MaxJitters
      BY <1>5, JoinsLineKeeps, ReschedulesKeeps DEF Adds, StartsOver, Inv, TableOK
    <2> QED BY <1>1, <1>2, <1>3, <1>4, <1>5, <2>1, RowKeeps DEF Adds, Inv, TableOK
  <1>6. CASE Removes(t)
    BY <1>1, <1>2, <1>3, <1>4, <1>6, RowKeeps, ReschedulesKeeps
    DEF Removes, Reschedules, Inv, TableOK
  <1>7. CASE Edit(t)
    BY <1>1, <1>2, <1>7, ReschedulesKeeps DEF Edit, Inv, TableOK
  <1>8. CASE Elapses(t)
    BY <1>1, <1>2, <1>8, JoinsLineKeeps DEF Elapses, Inv, TableOK
  <1>9. ASSUME NEW on \in BOOLEAN, Toggles(t, on) PROVE Inv'
    <2> DEFINE r == [row[t] EXCEPT !.on = on, !.errs = 0]
    <2>1. row' = [row EXCEPT ![t] = r] BY <1>9 DEF Toggles, Toggled, Inv, TableOK
    <2>2. r \in Row /\ r.errs = 0 BY DEF Inv, TableOK, Row
    <2>3. /\ told' \in [Tasks -> Nat] /\ strays' \in [Tasks -> Nat]
          /\ UNCHANGED <<due, ahead, jitters>>
      BY <1>9 DEF Toggles, StartsOver, Inv, TableOK
    <2> HIDE DEF r
    <2> QED BY <1>1, <1>2, <1>4, <2>1, <2>2, <2>3, RowKeeps DEF Inv, TableOK
  <1> QED BY <1>5, <1>6, <1>7, <1>8, <1>9

LEMMA RestartKeeps == ASSUME Inv, Restart PROVE Inv'
  <1>1. CountsOK' BY CountsKeep DEF Restart, Inv, CountsOK
  <1>2. RunsOK' BY StandingAssumption DEF Restart, RunsOK, Run, Asleep, Dispatchers
  <1> QED BY <1>1, <1>2, TableSame DEF Restart, Inv

LEMMA InvStep == Inv /\ [Next]_vars => Inv'
  <1> SUFFICES ASSUME Inv, [Next]_vars PROVE Inv' OBVIOUS
  <1>1. CASE UNCHANGED vars
    BY <1>1, TableSame, RunsSame, CountsKeep DEF vars, Inv, CountsOK
  <1>2. CASE Next
    BY <1>2, PickingKeeps, RunningKeeps, RunsNowKeeps, EditKeeps, RestartKeeps
    DEF Next, Service, Dispatchers
  <1> QED BY <1>1, <1>2

LEMMA InvAlways == Spec => []Inv
  BY InvInit, InvStep, PTL DEF Spec

\* The types hold for any number of tasks and users, and a count of errors never
\* passes the limit.
THEOREM Typing == Spec => []TypeOK
  <1>1. Inv => TypeOK
    <2> SUFFICES ASSUME Inv PROVE TypeOK OBVIOUS
    <2>1. \A d \in Dispatchers : at[d] # Asleep => at[d].task \in Tasks
      BY DEF Inv, RunsOK
    <2> QED BY <2>1 DEF Inv, TableOK, RunsOK, CountsOK, TypeOK
  <1> QED BY <1>1, InvAlways, PTL

\* An enabled task is below the error limit, for every limit: the count a run
\* writes back may be an old one, but it was read from an enabled row, and the
\* write that makes it the limit pauses the row.
THEOREM BrokenTheorem == Spec => []BrokenIsPaused
  <1>1. Inv => BrokenIsPaused BY DEF Inv, TableOK, BrokenIsPaused
  <1> QED BY <1>1, InvAlways, PTL

-----------------------------------------------------------------------------
(* Lanes *)

\* Whatever a dispatcher is running is a task of its own lane.
LaneInv ==
    \A d \in Dispatchers : at[d].task # NoTask => UserOf[at[d].task] \in Lane(d)

LEMMA LanesApart ==
    ASSUME LaneInv, NEW d \in Dispatchers, NEW e \in Dispatchers,
           at[d].task # NoTask, at[e].task = at[d].task
    PROVE  d = e
  BY DEF LaneInv, Lane, Dispatchers

\* Every step leaves a run on its task, ends it or picks one of the lane.
LEMMA LaneStep == Inv /\ LaneInv /\ [Next]_vars => LaneInv'
  <1> SUFFICES ASSUME Inv, LaneInv, [Next]_vars PROVE LaneInv' OBVIOUS
  <1>1. ASSUME NEW d \in Dispatchers, NEW u \in Users, NEW t \in Tasks, Picks(d, u, t)
        PROVE  LaneInv'
    BY <1>1 DEF Picks, First, Ready, Inv, RunsOK, LaneInv, Lane
  <1>2. CASE \A d \in Dispatchers : at'[d].task \in {at[d].task, NoTask}
    BY <1>2 DEF LaneInv, Lane
  <1>3. CASE UNCHANGED at BY <1>2, <1>3
  <1>4. ASSUME NEW d \in Dispatchers,
               Runs(d) \/ WriteFails(d) \/ TimesOutBare(d) \/ Stops(d)
        PROVE  LaneInv'
    <2>1. (\E pc, write : Goes(d, pc, write)) \/ Rests(d)
      BY <1>4 DEF Runs, RunnerReturns, RunnerFails, RunnerTimesOut, Tells, Writes,
         WriteFails, TimesOutBare, Stops
    <2>2. ASSUME NEW pc, NEW write, Goes(d, pc, write)
          PROVE  \A e \in Dispatchers : at'[e].task = at[e].task
      BY <2>2 DEF Goes, Inv, RunsOK, Run
    <2>3. ASSUME Rests(d)
          PROVE  \A e \in Dispatchers : at'[e].task \in {at[e].task, NoTask}
      BY <2>3 DEF Rests, Asleep, Inv, RunsOK
    <2> QED BY <2>1, <2>2, <2>3, <1>2
  <1>5. CASE Restart BY <1>5, <1>2 DEF Restart, Asleep, Dispatchers
  <1> QED
    BY <1>1, <1>3, <1>4, <1>5
    DEF Next, Service, Scans, PicksNothing, PickFails, RunsNow, Adds,
        Removes, Edit, Elapses, Toggles, runs, vars, Dispatchers

LEMMA LaneInit == Init => LaneInv
  BY DEF Init, LaneInv, Asleep

\* The scan and the tick verb never run the same task at once, for any users
\* and tasks, although nothing but their lanes keeps them apart.
THEOREM NotTwiceTheorem == Spec => []NotTwice
  <1>1. LaneInv => NotTwice BY LanesApart DEF NotTwice
  <1> QED BY <1>1, LaneInit, LaneStep, InvAlways, PTL DEF Spec

-----------------------------------------------------------------------------
(* Each occurrence is told once *)

Telling(d) == at[d].pc = "writing" /\ at[d].write \in {"success", "delivered"}

Live(t) == row[t].there /\ row[t].on

\* Nothing more is to be told: each time the task was put back has been used up.
Spent(t) == told[t] > strays[t]

\* An occurrence that is spent is not to be run again: its row is off or gone, or
\* the run that has told it is about to write.
ToldOnce ==
    \A t \in Tasks :
      /\ told[t] <= 1 + strays[t]
      /\ Spent(t) /\ Live(t) => \E d \in Dispatchers : Telling(d) /\ at[d].task = t
      /\ \A d \in Dispatchers :
           at[d].pc \in {"running", "telling"} /\ at[d].task = t => ~Spent(t)

ToldInv ==
    /\ \A d \in Dispatchers : at[d].pc = "telling" => at[d].write \in {"success", "delivered"}
    /\ faults = 0 => ToldOnce

\* The task starts over, or is put back once more.
Renewed(t) == told'[t] = 0 \/ (told'[t] = told[t] /\ strays'[t] = strays[t] + 1)

\* Nothing is told by this step, and no row that is spent is enabled.
NoneTold ==
    \A t \in Tasks :
      /\ strays'[t] \in Nat
      /\ \/ Renewed(t)
         \/ told'[t] = told[t] /\ strays'[t] = strays[t] /\ (Live(t)' => Live(t))

\* What is renewed is not spent.
LEMMA RenewedIsFree ==
    ASSUME Inv, NEW t \in Tasks, told[t] <= 1 + strays[t], strays'[t] \in Nat, Renewed(t)
    PROVE  told'[t] <= 1 + strays'[t] /\ ~Spent(t)'
  BY DEF Inv, TableOK, Renewed, Spent

LEMMA ReschedulesRenews ==
    ASSUME Inv, NEW t \in Tasks, Reschedules(t)
    PROVE  /\ Renewed(t) /\ strays'[t] \in Nat
           /\ \A x \in Tasks \ {t} : told'[x] = told[x] /\ strays'[x] = strays[x]
  <1>1. told \in [Tasks -> Nat] /\ strays \in [Tasks -> Nat] BY DEF Inv, TableOK
  <1>2. CASE MovesOn(t) BY <1>1, <1>2 DEF MovesOn, StartsOver, Renewed
  <1>3. CASE Strays(t) BY <1>1, <1>3 DEF Strays, Renewed
  <1> QED BY <1>2, <1>3 DEF Reschedules

LEMMA PersistsTellsNone ==
    ASSUME Inv, NEW t \in Tasks, NEW errs, NEW slow, NEW pause, Persists(t, errs, slow, pause)
    PROVE  NoneTold /\ (Renewed(t) \/ ~Live(t)')
  <1>1. CASE row[t].there
    <2>1. /\ row' = [row EXCEPT ![t] = [there |-> TRUE, on |-> @.on /\ ~pause,
                                        errs |-> errs, slow |-> slow]]
          /\ Reschedules(t)
      BY <1>1 DEF Persists
    <2>2. \A x \in Tasks \ {t} : row'[x] = row[x] BY <2>1 DEF Inv, TableOK
    <2> QED BY <2>1, <2>2, ReschedulesRenews DEF Inv, TableOK, NoneTold, Live
  <1>2. CASE ~row[t].there
    BY <1>2 DEF Persists, table, queue, Inv, TableOK, NoneTold, Live
  <1> QED BY <1>1, <1>2

LEMMA QuietTold ==
    ASSUME Inv, ToldInv, UNCHANGED <<at, faults>>, NoneTold
    PROVE  ToldInv'
  <1>1. ASSUME faults = 0, NEW t \in Tasks
        PROVE  /\ told'[t] <= 1 + strays'[t]
               /\ Spent(t)' => Spent(t) /\ (Live(t)' => Live(t))
    <2>1. told[t] <= 1 + strays[t] BY <1>1 DEF ToldInv, ToldOnce
    <2> QED BY <2>1, RenewedIsFree DEF NoneTold, Spent
  <1> QED BY <1>1 DEF ToldInv, ToldOnce, Telling

LEMMA FaultTold ==
    ASSUME Inv, ToldInv, Fault,
           \A d \in Dispatchers : at'[d] = at[d] \/ at'[d] = Asleep
    PROVE  ToldInv'
  <1>1. faults' # 0 BY StandingAssumption DEF Fault, Inv, CountsOK
  <1> QED BY <1>1 DEF ToldInv, Asleep

\* A task that is picked is enabled, and no other run of it is about to write.
LEMMA PickTold ==
    ASSUME Inv, LaneInv, ToldInv, NEW d \in Dispatchers, NEW u \in Users, NEW t \in Tasks,
           Picks(d, u, t)
    PROVE  ToldInv'
  <1>1. /\ t \in due /\ Live(t) /\ UserOf[t] = u /\ u \in Lane(d) /\ at[d] = Asleep
        /\ UNCHANGED <<row, told, strays, faults>>
    BY DEF Picks, First, Ready, table, queue, counts, Live
  <1>2. /\ at'[d].pc = "running" /\ at'[d].task = t
        /\ \A e \in Dispatchers : e # d => at'[e] = at[e]
    BY DEF Picks, Inv, RunsOK
  <1>3. \A e \in Dispatchers : at[e].task # t
    BY <1>1, StandingAssumption DEF LaneInv, Lane, Dispatchers, Asleep
  <1>4. faults = 0 => ~Spent(t) BY <1>1, <1>3 DEF ToldInv, ToldOnce
  <1>5. \A e \in Dispatchers : Telling(e) => Telling(e)' /\ at'[e] = at[e]
    BY <1>1, <1>2 DEF Telling, Asleep
  <1>6. ASSUME faults = 0 PROVE ToldOnce'
    BY <1>1, <1>2, <1>4, <1>5, <1>6 DEF ToldInv, ToldOnce, Live, Spent
  <1> QED BY <1>1, <1>2, <1>6 DEF ToldInv

LEMMA RunnerTold ==
    ASSUME Inv, ToldInv, NEW d \in Dispatchers,
           RunnerReturns(d) \/ RunnerFails(d) \/ RunnerTimesOut(d)
    PROVE  ToldInv'
  <1>1. at[d].pc = "running" /\ UNCHANGED <<row, told, strays, faults>>
    BY DEF RunnerReturns, RunnerFails, RunnerTimesOut, May, In, table, queue, counts
  <1>2. /\ at'[d].task = at[d].task
        /\ at'[d].pc = "telling" => at'[d].write \in {"success", "delivered"}
        /\ \A e \in Dispatchers : e # d => at'[e] = at[e]
    BY DEF RunnerReturns, RunnerFails, RunnerTimesOut, Ends, Goes, Inv, RunsOK, Run
  <1>3. \A e \in Dispatchers : Telling(e) => at'[e] = at[e] BY <1>1, <1>2 DEF Telling
  <1>4. \A e \in Dispatchers : at'[e].pc \in {"running", "telling"} =>
          at[e].pc \in {"running", "telling"} /\ at'[e].task = at[e].task
    BY <1>1, <1>2
  <1> QED BY <1>1, <1>2, <1>3, <1>4 DEF ToldInv, ToldOnce, Live, Telling, Spent

LEMMA TellsTold ==
    ASSUME Inv, LaneInv, ToldInv, NEW d \in Dispatchers, Tells(d)
    PROVE  ToldInv'
  <1> DEFINE t == at[d].task
  <1>1. /\ at[d].pc = "telling" /\ t \in Tasks /\ t # NoTask
        /\ told' = [told EXCEPT ![t] = @ + 1] /\ UNCHANGED <<row, strays, faults>>
    BY StandingAssumption DEF Tells, In, Inv, RunsOK, counts
  <1>2. /\ at'[d].task = t /\ at'[d].pc = "writing" /\ at'[d].write = at[d].write
        /\ \A e \in Dispatchers : e # d => at'[e] = at[e]
    BY DEF Tells, Goes, Inv, RunsOK, Run
  <1>3. Telling(d)' BY <1>1, <1>2 DEF ToldInv, Telling
  <1>4. \A e \in Dispatchers : e # d => at[e].task # t BY <1>1, LanesApart
  <1>5. \A e \in Dispatchers : Telling(e) => at'[e] = at[e] BY <1>1, <1>2 DEF Telling
  <1>6. ASSUME faults = 0, NEW x \in Tasks
        PROVE  /\ told'[x] <= 1 + strays'[x]
               /\ Spent(x)' /\ Live(x)' =>
                    \E e \in Dispatchers : Telling(e)' /\ at'[e].task = x
               /\ \A e \in Dispatchers :
                    at'[e].pc \in {"running", "telling"} /\ at'[e].task = x => ~Spent(x)'
    <2>1. CASE x = t
      <3>1. ~Spent(t) BY <1>1, <1>6 DEF ToldInv, ToldOnce
      <3>2. told'[t] <= 1 + strays'[t] BY <1>1, <3>1 DEF Inv, TableOK, Spent
      <3> QED BY <1>2, <1>3, <1>4, <2>1, <3>2
    <2>2. CASE x # t
      <3>1. told'[x] = told[x] /\ strays'[x] = strays[x] /\ (Live(x)' <=> Live(x))
        BY <1>1, <2>2 DEF Inv, TableOK, Live
      <3> QED BY <1>2, <1>5, <1>6, <2>2, <3>1 DEF ToldInv, ToldOnce, Telling, Spent
    <2> QED BY <2>1, <2>2
  <1> QED BY <1>1, <1>2, <1>6 DEF ToldInv, ToldOnce

LEMMA WritesTold ==
    ASSUME Inv, ToldInv, NEW d \in Dispatchers, Writes(d)
    PROVE  ToldInv'
  <1>1. PICK t \in Tasks : at[d].pc = "writing" /\ at[d].task = t /\ UNCHANGED faults
    BY DEF Writes, Statement, In, Inv, RunsOK, counts
  <1>2. at'[d] = Asleep /\ \A e \in Dispatchers : e # d => at'[e] = at[e]
    BY DEF Writes, Rests, Inv, RunsOK
  <1>3. NoneTold /\ (Telling(d) => Renewed(t) \/ ~Live(t)')
    <2>1. CASE Outcome(d)
      <3>1. CASE row' = Retired(t) /\ UNCHANGED queue
        <4>1. CASE row[t].there
          <5>1. row' = [row EXCEPT ![t].on = FALSE] /\ told' = told /\ strays' = strays
            BY <3>1, <4>1 DEF Retired, queue
          <5>2. /\ \A x \in Tasks : x # t => row'[x] = row[x]
                /\ ~row'[t].on
            BY <1>1, <5>1 DEF Inv, TableOK, Row
          <5> QED BY <1>1, <5>1, <5>2 DEF NoneTold, Live, Inv, TableOK
        <4>2. CASE ~row[t].there
          BY <1>1, <3>1, <4>2 DEF Retired, queue, NoneTold, Live, Inv, TableOK
        <4> QED BY <4>1, <4>2
      <3>2. ASSUME NEW errs, NEW slow, NEW pause, Persists(t, errs, slow, pause)
            PROVE  NoneTold /\ (Renewed(t) \/ ~Live(t)')
        BY <1>1, <3>2, PersistsTellsNone
      <3> QED BY <1>1, <2>1, <3>1, <3>2 DEF Outcome
    <2>2. CASE at[d].write = "timeout" /\ CutOff(d)
      BY <1>1, <2>2, PersistsTellsNone DEF CutOff, Telling
    <2> QED BY <2>1, <2>2 DEF Writes, Statement
  <1>4. ASSUME faults = 0, NEW x \in Tasks
        PROVE  /\ told'[x] <= 1 + strays'[x]
               /\ Spent(x)' /\ Live(x)' =>
                    \E e \in Dispatchers : Telling(e)' /\ at'[e].task = x
               /\ \A e \in Dispatchers :
                    at'[e].pc \in {"running", "telling"} /\ at'[e].task = x => ~Spent(x)'
    <2>1. \A e \in Dispatchers : at'[e].pc \in {"running", "telling"} => at'[e] = at[e]
      BY <1>2 DEF Asleep
    <2>2. told[x] <= 1 + strays[x] BY <1>4 DEF ToldInv, ToldOnce
    <2>3. told'[x] <= 1 + strays'[x] /\ (Spent(x)' => Spent(x) /\ (Live(x)' => Live(x)))
      BY <1>3, <2>2, RenewedIsFree DEF NoneTold, Spent
    <2>4. ASSUME Spent(x)', Live(x)'
          PROVE  \E e \in Dispatchers : Telling(e)' /\ at'[e].task = x
      <3>1. PICK e \in Dispatchers : Telling(e) /\ at[e].task = x
        BY <1>4, <2>3, <2>4 DEF ToldInv, ToldOnce
      <3>2. ASSUME e = d PROVE FALSE
        <4>1. x = t /\ Telling(d) BY <1>1, <3>1, <3>2
        <4>2. Renewed(t) \/ ~Live(t)' BY <1>3, <4>1
        <4>3. strays'[t] \in Nat BY <1>3 DEF NoneTold
        <4> QED BY <2>2, <2>4, <4>1, <4>2, <4>3, RenewedIsFree
      <3> QED BY <1>2, <3>1, <3>2 DEF Telling
    <2>5. \A e \in Dispatchers :
            at'[e].pc \in {"running", "telling"} /\ at'[e].task = x => ~Spent(x)'
      BY <1>4, <2>1, <2>3 DEF ToldInv, ToldOnce
    <2> QED BY <2>3, <2>4, <2>5
  <1>5. \A e \in Dispatchers :
          at'[e].pc = "telling" => at'[e].write \in {"success", "delivered"}
    BY <1>2 DEF ToldInv, Asleep
  <1> QED BY <1>1, <1>4, <1>5 DEF ToldInv, ToldOnce

LEMMA RequestTold ==
    ASSUME Inv, ToldInv, NEW t \in Tasks,
           \/ RunsNow(t) \/ Adds(t) \/ Removes(t) \/ Edit(t) \/ Elapses(t)
           \/ \E on \in BOOLEAN : Toggles(t, on)
    PROVE  ToldInv'
  <1>1. UNCHANGED <<at, faults>>
    BY DEF RunsNow, Adds, Removes, Edit, Elapses, Toggles, runs, counts, Edits
  <1>2. /\ told \in [Tasks -> Nat] /\ strays \in [Tasks -> Nat] /\ row \in [Tasks -> Row]
    BY DEF Inv, TableOK
  <1>3. ASSUME Renewed(t), strays'[t] \in Nat,
               \A x \in Tasks \ {t} : /\ told'[x] = told[x] /\ strays'[x] = strays[x]
                                      /\ row'[x] = row[x]
        PROVE  NoneTold
    BY <1>2, <1>3 DEF NoneTold, Live
  <1>4. NoneTold
    <2>1. CASE RunsNow(t) BY <2>1, PersistsTellsNone DEF RunsNow
    <2>2. CASE Adds(t)
      <3>1. \A x \in Tasks \ {t} : row'[x] = row[x] BY <1>2, <2>2 DEF Adds
      <3>2. CASE JoinsLine(t) /\ StartsOver(t)
        BY <1>2, <1>3, <3>1, <3>2 DEF StartsOver, Renewed
      <3>3. CASE Reschedules(t) BY <1>3, <3>1, <3>3, ReschedulesRenews
      <3> QED BY <2>2, <3>2, <3>3 DEF Adds
    <2>3. CASE Removes(t)
      <3>1. \A x \in Tasks \ {t} : row'[x] = row[x] BY <1>2, <2>3 DEF Removes
      <3>2. Reschedules(t) BY <2>3 DEF Removes, Reschedules
      <3> QED BY <1>3, <3>1, <3>2, ReschedulesRenews
    <2>4. CASE Edit(t) BY <1>3, <2>4, ReschedulesRenews DEF Edit
    <2>5. CASE Elapses(t) BY <1>2, <2>5 DEF Elapses, NoneTold, Live
    <2>6. ASSUME NEW on \in BOOLEAN, Toggles(t, on) PROVE NoneTold
      <3>1. /\ \A x \in Tasks \ {t} : row'[x] = row[x]
            /\ row'[t].on = on
        BY <1>2, <2>6 DEF Toggles, Toggled, Row
      <3>2. CASE on
        <4>1. StartsOver(t) BY <2>6, <3>2 DEF Toggles
        <4> QED BY <1>2, <1>3, <3>1, <4>1 DEF StartsOver, Renewed
      <3>3. CASE ~on BY <1>2, <2>6, <3>1, <3>3 DEF Toggles, NoneTold, Live
      <3> QED BY <3>2, <3>3
    <2> QED BY <2>1, <2>2, <2>3, <2>4, <2>5, <2>6
  <1> QED BY <1>1, <1>4, QuietTold

LEMMA ToldStep == Inv /\ LaneInv /\ ToldInv /\ [Next]_vars => ToldInv'
  <1> SUFFICES ASSUME Inv, LaneInv, ToldInv, [Next]_vars PROVE ToldInv' OBVIOUS
  <1>1. CASE Scans \/ (\E u \in Users : PicksNothing(u)) \/ UNCHANGED vars
    <2>1. UNCHANGED <<at, faults, table>>
      BY <1>1 DEF Scans, PicksNothing, vars, runs, counts
    <2> QED BY <2>1, QuietTold DEF table, queue, NoneTold, Live, Inv, TableOK
  <1>2. ASSUME NEW u \in Users, PickFails(u) PROVE ToldInv'
    BY <1>2, FaultTold DEF PickFails
  <1>3. ASSUME NEW d \in Dispatchers, WriteFails(d) \/ TimesOutBare(d) \/ Stops(d)
        PROVE  ToldInv'
    <2>1. Fault /\ Rests(d) BY <1>3 DEF WriteFails, TimesOutBare, Stops
    <2> QED BY <2>1, FaultTold DEF Rests, Inv, RunsOK
  <1>4. CASE Restart BY <1>4, FaultTold DEF Restart
  <1> QED
    BY <1>1, <1>2, <1>3, <1>4, PickTold, RunnerTold, TellsTold, WritesTold, RequestTold
    DEF Next, Service, Runs, Dispatchers

LEMMA ToldInit == Init => ToldInv
  BY DEF Init, ToldInv, ToldOnce, Spent, Asleep

\* While nothing fails, an occurrence is surfaced at most once, and a deadline or
\* a dated task once more for each time its schedule put it back before now, for
\* any number of jitters, run-now requests, edits, pauses and users.
THEOREM FiredTheorem == Spec => []FiredOnce
  <1>1. ToldInv => FiredOnce BY DEF ToldInv, ToldOnce, FiredOnce
  <1> QED BY <1>1, ToldInit, ToldStep, LaneInit, LaneStep, InvAlways, PTL DEF Spec

-----------------------------------------------------------------------------
(* The table keeps the promises of TaskRows *)

\* What a run is about to write is something its runner may have done.
WriteInv ==
    \A d \in Dispatchers :
        /\ at[d].write \in {"success", "delivered"} => "returns" \in Outcomes[at[d].task]
        /\ at[d].write = "delivered" => at[d].task \in OneShot \cup Loose
        /\ at[d].write = "failure" => "fails" \in Outcomes[at[d].task]

LEMMA WriteStep == Inv /\ WriteInv /\ [Next]_vars => WriteInv'
  <1> SUFFICES ASSUME Inv, WriteInv, [Next]_vars PROVE WriteInv' OBVIOUS
  <1> DEFINE Fits(r) ==
        /\ r.write \in {"success", "delivered"} => "returns" \in Outcomes[r.task]
        /\ r.write = "delivered" => r.task \in OneShot \cup Loose
        /\ r.write = "failure" => "fails" \in Outcomes[r.task]
  <1>0. \A d \in Dispatchers : Fits(at[d]) BY DEF WriteInv
  <1>a. Fits(Asleep) BY DEF Asleep
  <1>b. \A t \in Tasks : \A w \in Ends(t) :
          w = "success" \/ (w = "delivered" /\ t \in OneShot \cup Loose)
    BY DEF Ends
  <1>1. CASE UNCHANGED at BY <1>1 DEF WriteInv
  <1>2. ASSUME NEW d \in Dispatchers, \A e \in Dispatchers : e # d => at'[e] = at[e],
               Fits(at'[d])
        PROVE  WriteInv'
    BY <1>0, <1>2 DEF WriteInv
  <1>3. ASSUME NEW d \in Dispatchers, NEW u \in Users, NEW t \in Tasks, Picks(d, u, t)
        PROVE  WriteInv'
    <2>1. at'[d].write = "none" /\ \A e \in Dispatchers : e # d => at'[e] = at[e]
      BY <1>3 DEF Picks, Inv, RunsOK
    <2> QED BY <2>1, <1>2
  <1>4. ASSUME NEW d \in Dispatchers, RunnerReturns(d) \/ RunnerFails(d) \/ RunnerTimesOut(d)
        PROVE  WriteInv'
    <2>1. /\ \A e \in Dispatchers : e # d => at'[e] = at[e]
          /\ at'[d].task = at[d].task
          /\ \/ /\ "returns" \in Outcomes[at[d].task]
                /\ at'[d].write \in Ends(at[d].task)
             \/ at'[d].write = "failure" /\ "fails" \in Outcomes[at[d].task]
             \/ at'[d].write = "timeout"
      BY <1>4 DEF RunnerReturns, RunnerFails, RunnerTimesOut, May, Goes, Inv, RunsOK, Run
    <2>2. at[d].task \in Tasks
      BY <1>4 DEF RunnerReturns, RunnerFails, RunnerTimesOut, May, In, Inv, RunsOK
    <2> QED BY <2>1, <2>2, <1>2, <1>b
  <1>5. ASSUME NEW d \in Dispatchers, Tells(d) PROVE WriteInv'
    <2>1. /\ \A e \in Dispatchers : e # d => at'[e] = at[e]
          /\ at'[d].task = at[d].task /\ at'[d].write = at[d].write
      BY <1>5 DEF Tells, Goes, Inv, RunsOK, Run
    <2> QED BY <2>1, <1>0, <1>2
  <1>6. ASSUME NEW d \in Dispatchers,
               Writes(d) \/ WriteFails(d) \/ TimesOutBare(d) \/ Stops(d)
        PROVE  WriteInv'
    <2>1. at'[d] = Asleep /\ \A e \in Dispatchers : e # d => at'[e] = at[e]
      BY <1>6 DEF Writes, WriteFails, TimesOutBare, Stops, Rests, Inv, RunsOK
    <2> QED BY <2>1, <1>a, <1>2
  <1>7. CASE Restart BY <1>7, <1>a DEF Restart, WriteInv
  <1> HIDE DEF Fits
  <1> QED
    BY <1>1, <1>3, <1>4, <1>5, <1>6, <1>7
    DEF Next, Service, Runs, Scans, PicksNothing, PickFails, RunsNow,
        Adds, Removes, Edit, Elapses, Toggles, runs, vars, Dispatchers

\* A row is the record of its columns.
LEMMA RowOf ==
    ASSUME NEW r \in Row
    PROVE  r = [there |-> r.there, on |-> r.on, errs |-> r.errs, slow |-> r.slow]
  BY DEF Row

\* The statements that set columns of a row that is there.
LEMMA ColumnsSet ==
    ASSUME Inv, NEW t \in Tasks, row[t].there
    PROVE  /\ Retired(t) = [row EXCEPT ![t] = [there |-> TRUE, on |-> FALSE,
                                               errs |-> row[t].errs, slow |-> row[t].slow]]
           /\ \A on \in BOOLEAN :
                Toggled(t, on) = [row EXCEPT ![t] = [there |-> TRUE, on |-> on,
                                                     errs |-> 0, slow |-> row[t].slow]]
  <1>1. row[t] \in Row /\ row \in [Tasks -> Row] BY DEF Inv, TableOK
  <1>2. Retired(t) = [row EXCEPT ![t] = [there |-> TRUE, on |-> FALSE,
                                         errs |-> row[t].errs, slow |-> row[t].slow]]
    <2> DEFINE r == [row[t] EXCEPT !.on = FALSE]
    <2>1. /\ r \in Row /\ r.there = TRUE /\ r.on = FALSE
          /\ r.errs = row[t].errs /\ r.slow = row[t].slow
      BY <1>1 DEF Row
    <2>2. Retired(t) = [row EXCEPT ![t] = r] BY <1>1 DEF Retired
    <2> HIDE DEF r
    <2>3. r = [there |-> r.there, on |-> r.on, errs |-> r.errs, slow |-> r.slow]
      BY <2>1, RowOf
    <2> QED BY <2>1, <2>2, <2>3
  <1>3. ASSUME NEW on \in BOOLEAN
        PROVE  Toggled(t, on) = [row EXCEPT ![t] = [there |-> TRUE, on |-> on,
                                                    errs |-> 0, slow |-> row[t].slow]]
    <2> DEFINE r == [row[t] EXCEPT !.on = on, !.errs = 0]
    <2>1. /\ r \in Row /\ r.there = TRUE /\ r.on = on
          /\ r.errs = 0 /\ r.slow = row[t].slow
      BY <1>1 DEF Row
    <2>2. Toggled(t, on) = [row EXCEPT ![t] = r] BY <1>1 DEF Toggled
    <2> HIDE DEF r
    <2>3. r = [there |-> r.there, on |-> r.on, errs |-> r.errs, slow |-> r.slow]
      BY <2>1, RowOf
    <2> QED BY <2>1, <2>2, <2>3
  <1> QED BY <1>2, <1>3

LEMMA SuccessRows ==
    ASSUME Inv, NEW t \in Tasks, "returns" \in Outcomes[t], Persists(t, 0, 0, FALSE)
    PROVE  Rows!Succeed(t) \/ UNCHANGED row
  <1>1. CASE row[t].there
    <2>1. row' = [row EXCEPT ![t] = [there |-> TRUE, on |-> row[t].on,
                                     errs |-> 0, slow |-> 0]]
      <3>1. row[t].on \in BOOLEAN BY DEF Inv, TableOK, Row
      <3>2. (row[t].on /\ ~FALSE) = row[t].on BY <3>1
      <3> QED BY <1>1, <3>2 DEF Persists, Inv, TableOK
    <2> QED BY <1>1, <2>1 DEF Rows!Succeed, Rows!Counts, Rows!Becomes
  <1>2. CASE ~row[t].there BY <1>2 DEF Persists, table
  <1> QED BY <1>1, <1>2

LEMMA CutOffRows ==
    ASSUME Inv, NEW d \in Dispatchers, at[d].pc # "asleep", CutOff(d)
    PROVE  Rows!CutShort(at[d].task) \/ UNCHANGED row
  <1> DEFINE t == at[d].task
             n == SlowAfter(d)
  <1>1. /\ t \in Tasks /\ at[d].errs \in 0 .. MaxErrors - 1
        /\ n \in Nat \ {0}
    BY StandingAssumption DEF Inv, RunsOK, Run, SlowAfter
  <1>2. Exhausted(n, MaxTimeouts) <=> ~(n < MaxTimeouts)
    BY <1>1, StandingAssumption DEF Exhausted
  <1> HIDE DEF n
  <1>3. CASE row[t].there
    <2>1. row' = [row EXCEPT ![t] = [there |-> TRUE,
                                     on |-> row[t].on /\ ~Exhausted(n, MaxTimeouts),
                                     errs |-> at[d].errs, slow |-> n]]
      BY <1>1, <1>3 DEF CutOff, Persists, Inv, TableOK, n
    <2>2. (row[t].on /\ ~Exhausted(n, MaxTimeouts)) = (row[t].on /\ n < MaxTimeouts)
      BY <1>2
    <2>3. row' = [row EXCEPT ![t] = [there |-> TRUE, on |-> row[t].on /\ n < MaxTimeouts,
                                     errs |-> at[d].errs, slow |-> n]]
      BY <2>1, <2>2
    <2>4. row'[t].errs = at[d].errs /\ row'[t].slow = n
      BY <1>1, <2>3 DEF Inv, TableOK
    <2> QED BY <1>1, <1>3, <2>3, <2>4 DEF Rows!CutShort, Rows!Counts, Rows!Becomes
  <1>4. CASE ~row[t].there BY <1>4 DEF CutOff, Persists, table
  <1> QED BY <1>3, <1>4

LEMMA OutcomeRows ==
    ASSUME Inv, WriteInv, NEW d \in Dispatchers, at[d].pc # "asleep", Outcome(d)
    PROVE  \/ Rows!Succeed(at[d].task) \/ Rows!Fail(at[d].task)
           \/ Rows!Retire(at[d].task) \/ UNCHANGED row
  <1> DEFINE t == at[d].task
             n == at[d].errs + 1
  <1>1. t \in Tasks /\ n \in 1 .. MaxErrors
    BY StandingAssumption DEF Inv, RunsOK, Run
  <1>2. Exhausted(n, MaxErrors) <=> ~(n < MaxErrors)
    BY <1>1, StandingAssumption DEF Exhausted
  <1>3. CASE at[d].write = "success" /\ Persists(t, 0, 0, FALSE)
    BY <1>1, <1>3, SuccessRows DEF WriteInv
  <1> HIDE DEF n
  <1>4. CASE at[d].write = "failure" /\ Persists(t, n, row[t].slow, Exhausted(n, MaxErrors))
    <2>1. CASE row[t].there
      <3>1. row' = [row EXCEPT ![t] = [there |-> TRUE,
                                       on |-> row[t].on /\ ~Exhausted(n, MaxErrors),
                                       errs |-> n, slow |-> row[t].slow]]
        BY <1>1, <1>4, <2>1 DEF Persists, Inv, TableOK
      <3>2. (row[t].on /\ ~Exhausted(n, MaxErrors)) = (row[t].on /\ n < MaxErrors)
        BY <1>2
      <3>3. Rows!Counts(t, row[t].on /\ n < MaxErrors, n, row[t].slow)
        BY <2>1, <3>1, <3>2 DEF Rows!Counts, Rows!Becomes
      <3>4. "fails" \in Outcomes[t] BY <1>4 DEF WriteInv
      <3> QED BY <1>1, <3>3, <3>4 DEF Rows!Fail
    <2>2. CASE ~row[t].there BY <1>4, <2>2 DEF Persists, table
    <2> QED BY <2>1, <2>2
  <1>5. CASE at[d].write = "delivered" /\ row' = Retired(t)
    <2>1. CASE row[t].there
      <3>1. row' = [row EXCEPT ![t] = [there |-> TRUE, on |-> FALSE,
                                       errs |-> row[t].errs, slow |-> row[t].slow]]
        BY <1>1, <1>5, <2>1, ColumnsSet
      <3>2. t \in OneShot \cup Loose /\ "returns" \in Outcomes[t] BY <1>5 DEF WriteInv
      <3> QED BY <2>1, <3>1, <3>2 DEF Rows!Retire, Rows!Counts, Rows!Becomes
    <2>2. CASE ~row[t].there BY <1>5, <2>2 DEF Retired
    <2> QED BY <2>1, <2>2
  <1> QED BY <1>3, <1>4, <1>5 DEF Outcome, n

LEMMA RowsStep ==
    Inv /\ WriteInv /\ [Next]_vars => [Rows!Next]_row
  <1> SUFFICES ASSUME Inv, WriteInv, [Next]_vars PROVE [Rows!Next]_row OBVIOUS
  <1>1. ASSUME NEW d \in Dispatchers, Writes(d) \/ WriteFails(d) \/ TimesOutBare(d) \/ Stops(d)
        PROVE  [Rows!Next]_row
    <2>1. at[d].pc # "asleep" /\ at[d].task \in Tasks
      BY <1>1 DEF Writes, WriteFails, TimesOutBare, Stops, Statement, In, Inv, RunsOK
    <2>2. Outcome(d) \/ CutOff(d) \/ UNCHANGED row
      BY <1>1 DEF Writes, WriteFails, TimesOutBare, Stops, Statement, table
    <2> QED BY <2>1, <2>2, OutcomeRows, CutOffRows DEF Rows!Next
  <1>2. ASSUME NEW t \in Tasks, RunsNow(t) PROVE [Rows!Next]_row
    BY <1>2, SuccessRows DEF RunsNow, Rows!Next
  <1>3. ASSUME NEW t \in Tasks, Adds(t) PROVE [Rows!Next]_row
    BY <1>3 DEF Adds, Rows!Next, Rows!Add, Rows!Becomes, Fresh, Rows!Fresh
  <1>4. ASSUME NEW t \in Tasks, Removes(t) PROVE [Rows!Next]_row
    BY <1>4 DEF Removes, Rows!Next, Rows!Remove, Rows!Becomes, Gone, Rows!Gone
  <1>5. ASSUME NEW t \in Tasks, NEW on \in BOOLEAN, Toggles(t, on) PROVE [Rows!Next]_row
    <2>1. row[t].there /\ row' = [row EXCEPT ![t] = [there |-> TRUE, on |-> on, errs |-> 0,
                                                     slow |-> row[t].slow]]
      BY <1>5, ColumnsSet DEF Toggles
    <2> QED BY <2>1 DEF Rows!Next, Rows!Toggle, Rows!Counts, Rows!Becomes
  <1>6. CASE UNCHANGED row BY <1>6
  <1> QED
    BY <1>1, <1>2, <1>3, <1>4, <1>5, <1>6
    DEF Next, Service, Runs, Scans, Picks, PicksNothing, PickFails, RunnerReturns,
        RunnerFails, RunnerTimesOut, Tells, Edit, Elapses, Restart,
        table, vars, Dispatchers

\* Only a user enables a task, and only a result or the user clears what counts
\* against it, although every run writes back columns it has read long before.
THEOREM RowsTheorem == Spec => ImplementsTaskRows
  <1>1. Init => Rows!Init /\ WriteInv
    BY DEF Init, Rows!Init, WriteInv, Asleep, Fresh, Gone, Rows!Fresh, Rows!Gone
  <1> QED
    BY <1>1, WriteStep, RowsStep, InvAlways, PTL
    DEF Spec, ImplementsTaskRows, Rows!Spec

=============================================================================
