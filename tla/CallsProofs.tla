---------------------------- MODULE CallsProofs -----------------------------
(***************************************************************************)
(* Proofs about Calls, for any number of connections, clicks, retried       *)
(* invites, verbs, failing or undone statements and restarts.               *)
(***************************************************************************)
EXTENDS Calls, TLAPS

-----------------------------------------------------------------------------
(* Inductive invariants *)

\* An invite of a blocked caller rings nobody.
DialerOpen ==
    \A d \in Dialers : at[d].verb = "invite" =>
        /\ at[d].step = "missed" => blocked
        /\ at[d].step \in {"insertCallee", "ring"} => ~blocked

\* Nobody is about to undo a call that has been answered, and a blocked caller
\* is never answered.
UndoneByNone ==
    /\ rung \/ noted => ~blocked
    /\ \A a \in Actors : at[a].verb = "accept" => ~blocked
    /\ DialerOpen
    /\ answered => ~blocked /\ Rivals = {} /\ ~MarkingMissed

AnsweredInv == AnsweredStays /\ UndoneByNone

\* The row of p will not ring any more.
Closed(p) == row[p] \notin Ringing \cup {"none"} \/ (p = "callee" /\ blocked)

\* Nothing has failed, and no hangup has overtaken the inserts of its call.
Clean == faults = 0 /\ ~overtaken

\* While that is so, rows are made in the order of the invite's steps.
RowsMade ==
    /\ blocked => row["callee"] = "none"
    /\ row["callee"] # "none" => row["caller"] # "none"
    /\ \A d \in Dialers : at[d].verb = "invite" =>
         /\ at[d].step = "missed" => blocked /\ row["caller"] # "none"
         /\ at[d].step \in {"insertCallee", "ring", "arm"}
              => ~blocked /\ row["caller"] # "none"
         /\ at[d].step \in {"ring", "arm"} => row["callee"] # "none"
    /\ rung \/ noted => row["callee"] # "none"
    /\ \A t \in Timers : timer[t] # "none" => row["callee"] # "none"
    /\ \A a \in Actors : Answering(a) => RowsIn
    /\ row["callee"] = "none" /\ ~blocked => row["caller"] \in Ringing \cup {"none"}

\* What has been written does not ring.
WrittenIsClosed ==
    /\ \A a \in Actors : Answering(a) =>
         /\ at[a].step = "second" => Closed(FirstRow(a))
         /\ at[a].step = "cancel" /\ a \notin Clicks => Closed("caller") /\ Closed("callee")
    /\ \A t \in Timers : timer[t] = "second" => Closed("caller")

OwnedInv == Clean => RowsMade /\ WrittenIsClosed /\ RingingIsOwned

-----------------------------------------------------------------------------
(* What the helpers do *)

LEMMA UpdatedRow ==
    ASSUME row \in [Party -> State], NEW p \in Party, NEW s \in State \ {"none"}
    PROVE  /\ Updated(p, s) \in [Party -> State]
           /\ \A q \in Party : Updated(p, s)[q] # row[q]
                => q = p /\ row[p] # "none" /\ Updated(p, s)[q] = s
           /\ row[p] # "none" => Updated(p, s)[p] = s
  BY DEF Updated

LEMMA InsertedRow ==
    ASSUME row \in [Party -> State], NEW p \in Party, NEW s \in State
    PROVE  /\ Inserted(p, s) \in [Party -> State]
           /\ \A q \in Party : Inserted(p, s)[q] # row[q]
                => q = p /\ row[p] = "none" /\ Inserted(p, s)[q] = s
           /\ row[p] = "none" => Inserted(p, s)[p] = s
  BY DEF Inserted

LEMMA FinalStates ==
    ASSUME NEW a, Answering(a)
    PROVE  /\ Final[at[a].verb] \in {"connected", "declined", "ended"}
           /\ Final[at[a].verb] \in State \ ({"none"} \cup Ringing)
           /\ at[a].verb = "accept" <=> Final[at[a].verb] = "connected"
           /\ FirstRow(a) \in Party /\ SecondRow(a) \in Party
           /\ \A p \in Party : p = FirstRow(a) \/ p = SecondRow(a)
  BY DEF Answering, Final, State, Terminal, Ringing, FirstRow, SecondRow, Party

LEMMA UnregisteredTimers ==
    ASSUME TypeOK
    PROVE  /\ Unregistered \in [Timers -> TimerState]
           /\ \A t \in Timers :
                /\ Unregistered[t] # timer[t]
                     => /\ t = reg /\ timer[t] \in {"new", "asleep"}
                        /\ Unregistered[t] \in {"done", "cancelled"}
                /\ t = reg => Unregistered[t] \notin {"new", "asleep"}
  <1>1. timer \in [Timers -> TimerState] /\ reg \in {0} \cup Timers BY DEF TypeOK
  <1>2. 0 \notin Timers BY DEF Timers
  <1> QED BY <1>1, <1>2 DEF Unregistered, TimerState

LEMMA Failing ==
    ASSUME TypeOK, NEW after, Fails(after)
    PROVE  row' \in {row, after} /\ faults' = faults + 1 /\ faults' \in 0 .. MaxFaults
  BY CallsAssumption DEF Fails, Fault, TypeOK

LEMMA Setting ==
    ASSUME TypeOK, NEW after, Sets(after)
    PROVE  /\ row' \in {row, after} /\ faults' \in 0 .. MaxFaults
           /\ faults' = 0 => row' = after /\ faults = 0
  BY CallsAssumption DEF Sets, Fault, TypeOK

LEMMA Types ==
    ASSUME TypeOK
    PROVE  /\ row \in [Party -> State] /\ timer \in [Timers -> TimerState]
           /\ at \in [Actors -> Answer \cup Invite \cup {Idle}]
           /\ Dialers \subseteq Actors /\ Tabs \subseteq Actors /\ Clicks \subseteq Actors
           /\ Dialers \cap (Tabs \cup Clicks) = {} /\ Tabs \cap Clicks = {}
           /\ "caller" \in Party /\ "callee" \in Party
           /\ invites \in Nat /\ faults \in Nat
           /\ {"missed", "connected", "ended", "declined"} \subseteq State \ {"none"}
           /\ {"ringing", "invited"} \subseteq State
  <1>1. /\ row \in [Party -> State] /\ timer \in [Timers -> TimerState]
        /\ at \in [Actors -> Answer \cup Invite \cup {Idle}]
    BY DEF TypeOK
  <1>2. /\ Dialers \subseteq Actors /\ Tabs \subseteq Actors /\ Clicks \subseteq Actors
        /\ Dialers \cap (Tabs \cup Clicks) = {} /\ Tabs \cap Clicks = {}
    BY CallsAssumption DEF Actors
  <1>3. invites \in Nat /\ faults \in Nat BY CallsAssumption DEF TypeOK
  <1>4. /\ "caller" \in Party /\ "callee" \in Party
        /\ {"missed", "connected", "ended", "declined"} \subseteq State \ {"none"}
        /\ {"ringing", "invited"} \subseteq State
    BY DEF Party, State, Terminal, Ringing
  <1> QED BY <1>1, <1>2, <1>3, <1>4

-----------------------------------------------------------------------------
(* Types *)

LEMMA TypeInit == Init => TypeOK
  <1> SUFFICES ASSUME Init PROVE TypeOK OBVIOUS
  <1>1. row \in [Party -> State] BY DEF Init, State
  <1>2. at \in [Actors -> Answer \cup Invite \cup {Idle}] BY DEF Init
  <1>3. timer \in [Timers -> TimerState] BY DEF Init, TimerState
  <1>4. invites \in 0 .. MaxInvites /\ verbs \in 0 .. MaxVerbs /\ faults \in 0 .. MaxFaults
    BY CallsAssumption DEF Init
  <1> QED BY <1>1, <1>2, <1>3, <1>4 DEF Init, TypeOK

\* at has its type when one actor takes a place of its kind.
LEMMA PlaceTypes ==
    ASSUME TypeOK, NEW a \in Actors, NEW w \in Answer \cup Invite \cup {Idle},
           at' = [at EXCEPT ![a] = w]
    PROVE  at' \in [Actors -> Answer \cup Invite \cup {Idle}]
  BY DEF TypeOK

LEMMA InviteTypes ==
    ASSUME TypeOK, NEW d \in Dialers, BeginInvite(d) \/ Inviting(d) \/ InviteFails(d)
    PROVE  TypeOK'
  <1>0. \A s \in {"insertCaller", "missed", "insertCallee", "ring", "arm"} :
          [verb |-> "invite", step |-> s] \in Invite
    BY DEF Invite
  <1>1. CASE BeginInvite(d)
    <2>1. at' \in [Actors -> Answer \cup Invite \cup {Idle}]
      BY <1>0, <1>1, Types, PlaceTypes DEF BeginInvite, Goes
    <2>2. invites' \in 0 .. MaxInvites
      BY <1>1, CallsAssumption DEF BeginInvite, TypeOK
    <2> QED BY <1>1, <2>1, <2>2 DEF BeginInvite, TypeOK, history
  <1>2. CASE InsertCaller(d)
    <2>1. at' \in [Actors -> Answer \cup Invite \cup {Idle}]
      BY <1>0, <1>2, Types, PlaceTypes DEF InsertCaller, At, Goes, Then
    <2>2. row' \in [Party -> State] /\ faults' \in 0 .. MaxFaults
      <3>1. Inserted("caller", "ringing") \in [Party -> State] BY Types, InsertedRow
      <3> QED BY <1>2, <3>1, Types, Setting DEF InsertCaller
    <2> QED BY <1>2, <2>1, <2>2 DEF InsertCaller, TypeOK, begun, history
  <1>3. CASE InviteBlocked(d)
    <2>1. at' \in [Actors -> Answer \cup Invite \cup {Idle}]
      BY <1>3, Types, PlaceTypes DEF InviteBlocked, Returns
    <2>2. row' \in [Party -> State] /\ faults' \in 0 .. MaxFaults
      <3>1. Updated("caller", "missed") \in [Party -> State] BY Types, UpdatedRow
      <3> QED BY <1>3, <3>1, Types, Setting DEF InviteBlocked
    <2> QED BY <1>3, <2>1, <2>2 DEF InviteBlocked, TypeOK, begun, history
  <1>4. CASE InsertCallee(d)
    <2>1. at' \in [Actors -> Answer \cup Invite \cup {Idle}]
      BY <1>0, <1>4, Types, PlaceTypes DEF InsertCallee, At, Goes, Then
    <2>2. row' \in [Party -> State] /\ faults' \in 0 .. MaxFaults
      <3>1. Inserted("callee", "invited") \in [Party -> State] BY Types, InsertedRow
      <3> QED BY <1>4, <3>1, Types, Setting DEF InsertCallee
    <2> QED BY <1>4, <2>1, <2>2 DEF InsertCallee, TypeOK, begun, history
  <1>5. CASE Ring(d)
    <2>1. at' \in [Actors -> Answer \cup Invite \cup {Idle}]
      BY <1>0, <1>5, Types, PlaceTypes DEF Ring, At, Goes, Then
    <2> QED BY <1>5, <2>1 DEF Ring, TypeOK, begun, history
  <1>6. CASE ArmTimer(d)
    <2>1. at' \in [Actors -> Answer \cup Invite \cup {Idle}]
      BY <1>6, Types, PlaceTypes DEF ArmTimer, Returns
    <2>2. reg' \in {0} \cup Timers /\ timer' \in [Timers -> TimerState]
      BY <1>6, UnregisteredTimers DEF ArmTimer, Arm, TimerState
    <2> QED BY <1>6, <2>1, <2>2 DEF ArmTimer, TypeOK, begun
  <1>7. CASE ArmFails(d)
    <2>1. at' \in [Actors -> Answer \cup Invite \cup {Idle}]
      BY <1>7, Types, PlaceTypes DEF ArmFails, Returns
    <2> QED BY <1>7, <2>1 DEF ArmFails, TypeOK, begun
  <1>8. CASE InviteFails(d)
    <2>1. at' \in [Actors -> Answer \cup Invite \cup {Idle}]
      BY <1>8, Types, PlaceTypes DEF InviteFails, Returns
    <2>2. row' \in [Party -> State] /\ faults' \in 0 .. MaxFaults
      <3>1. /\ Inserted("caller", "ringing") \in [Party -> State]
            /\ Inserted("callee", "invited") \in [Party -> State]
            /\ Updated("caller", "missed") \in [Party -> State]
            /\ row \in [Party -> State]
        BY Types, UpdatedRow, InsertedRow
      <3>2. \A after : Fails(after) => row' \in {row, after} /\ faults' \in 0 .. MaxFaults
        BY Failing
      <3> QED BY <1>8, <3>1, <3>2 DEF InviteFails
    <2> QED BY <1>8, <2>1, <2>2 DEF InviteFails, TypeOK, begun, history
  <1> QED BY <1>1, <1>2, <1>3, <1>4, <1>5, <1>6, <1>7, <1>8 DEF Inviting

LEMMA AnswerTypes ==
    ASSUME TypeOK, NEW a \in Actors,
           \/ \E verb \in {"accept", "decline", "hangup"} : Begin(a, verb)
           \/ Answers(a) \/ AnswerFails(a)
    PROVE  TypeOK'
  <1>0. \A v \in {"accept", "decline", "hangup"}, s \in {"guard", "cancel", "first", "second"} :
          [verb |-> v, step |-> s] \in Answer
    BY DEF Answer
  <1>1. CASE \E verb \in {"accept", "decline", "hangup"} : Begin(a, verb)
    <2> PICK verb \in {"accept", "decline", "hangup"} : Begin(a, verb) BY <1>1
    <2>1. at' \in [Actors -> Answer \cup Invite \cup {Idle}]
      BY <1>0, Types, PlaceTypes DEF Begin, Goes
    <2>2. verbs' \in 0 .. MaxVerbs BY CallsAssumption DEF Begin, TypeOK
    <2>3. answered' \in BOOLEAN /\ overtaken' \in BOOLEAN BY Zenon DEF Begin, TypeOK
    <2> QED BY <2>1, <2>2, <2>3 DEF Begin, TypeOK
  <1>2. CASE Guard(a)
    <2>1. at' \in [Actors -> Answer \cup Invite \cup {Idle}]
      BY <1>0, <1>2, Types, PlaceTypes DEF Guard, At, Goes, Then, Returns
    <2> QED BY <1>2, <2>1 DEF Guard, TypeOK, begun, history
  <1>3. CASE WriteFirst(a)
    <2>1. at' \in [Actors -> Answer \cup Invite \cup {Idle}]
      BY <1>0, <1>3, Types, PlaceTypes DEF WriteFirst, Answering, Goes, Then
    <2>2. row' \in [Party -> State] /\ faults' \in 0 .. MaxFaults
      BY <1>3, Types, UpdatedRow, FinalStates, Setting DEF WriteFirst
    <2> QED BY <1>3, <2>1, <2>2 DEF WriteFirst, TypeOK, begun, history
  <1>4. CASE WriteSecond(a)
    <2>1. at' \in [Actors -> Answer \cup Invite \cup {Idle}]
      BY <1>0, <1>4, Types, PlaceTypes DEF WriteSecond, Answering, Goes, Then, Returns
    <2>2. row' \in [Party -> State] /\ faults' \in 0 .. MaxFaults
      BY <1>4, Types, UpdatedRow, FinalStates, Setting DEF WriteSecond
    <2>3. answered' \in BOOLEAN BY <1>4 DEF WriteSecond, TypeOK
    <2> QED BY <1>4, <2>1, <2>2, <2>3 DEF WriteSecond, TypeOK, begun
  <1>5. CASE Cancel(a)
    <2>1. at' \in [Actors -> Answer \cup Invite \cup {Idle}]
      BY <1>0, <1>5, Types, PlaceTypes DEF Cancel, Answering, Goes, Then, Returns
    <2> QED BY <1>5, <2>1, UnregisteredTimers DEF Cancel, CancelTimer, TypeOK, begun, history
  <1>6. CASE AnswerFails(a)
    <2>1. at' \in [Actors -> Answer \cup Invite \cup {Idle}]
      BY <1>6, Types, PlaceTypes DEF AnswerFails, Returns
    <2>2. row' \in [Party -> State] /\ faults' \in 0 .. MaxFaults
      <3>1. /\ Updated(FirstRow(a), Final[at[a].verb]) \in [Party -> State]
            /\ Updated(SecondRow(a), Final[at[a].verb]) \in [Party -> State]
        BY <1>6, Types, FinalStates, UpdatedRow DEF AnswerFails
      <3>2. \A after : Fails(after) => row' \in {row, after} /\ faults' \in 0 .. MaxFaults
        BY Failing
      <3> QED BY <1>6, <3>1, <3>2, Types DEF AnswerFails
    <2> QED BY <1>6, <2>1, <2>2 DEF AnswerFails, TypeOK, begun, history
  <1> QED BY <1>1, <1>2, <1>3, <1>4, <1>5, <1>6 DEF Answers

LEMMA TimerTypes ==
    ASSUME TypeOK, NEW t \in Timers, TimerRuns(t) \/ SleepRaises(t) \/ TimerFails(t)
    PROVE  TypeOK'
  <1>1. timer' \in [Timers -> TimerState]
    BY Types
    DEF TimerRuns, SleepRaises, TimerFails, TimerStarts, TimerExpires, TimerCancelled,
        TimerReads, TimerMarksCaller, TimerMarksCallee, TimerGoes, TimerState
  <1>2. reg' \in {0, reg}
    BY DEF TimerRuns, SleepRaises, TimerFails, TimerStarts, TimerExpires, TimerCancelled,
           TimerReads, TimerMarksCaller, TimerMarksCallee, Released
  <1>3. CASE TimerRuns(t)
    <2>1. row' \in [Party -> State] /\ faults' \in 0 .. MaxFaults
      <3>1. CASE TimerMarksCaller(t) \/ TimerMarksCallee(t)
        <4>1. /\ Updated("caller", "missed") \in [Party -> State]
              /\ Updated("callee", "missed") \in [Party -> State]
          BY Types, UpdatedRow
        <4> QED BY <3>1, <4>1, Types, Setting DEF TimerMarksCaller, TimerMarksCallee
      <3>2. CASE UNCHANGED <<row, faults>> BY <3>2 DEF TypeOK
      <3> QED
        BY <1>3, <3>1, <3>2
        DEF TimerRuns, TimerStarts, TimerExpires, TimerCancelled, TimerReads
    <2>2. UNCHANGED <<blocked, at, begun, rung, noted, history>>
      BY <1>3
      DEF TimerRuns, TimerStarts, TimerExpires, TimerCancelled, TimerReads,
          TimerMarksCaller, TimerMarksCallee
    <2> QED BY <1>1, <1>2, <2>1, <2>2 DEF TypeOK, begun, history
  <1>4. CASE SleepRaises(t)
    BY <1>1, <1>2, <1>4 DEF SleepRaises, TypeOK, begun
  <1>5. CASE TimerFails(t)
    <2>1. row' \in [Party -> State] /\ faults' \in 0 .. MaxFaults
      BY <1>5, Types, Failing, UpdatedRow DEF TimerFails
    <2> QED BY <1>1, <1>2, <1>5, <2>1 DEF TimerFails, TypeOK, begun, history
  <1> QED BY <1>3, <1>4, <1>5

LEMMA RestartTypes == ASSUME TypeOK, Restart PROVE TypeOK'
  <1>1. at' \in [Actors -> Answer \cup Invite \cup {Idle}] BY DEF Restart
  <1>2. timer' \in [Timers -> TimerState] BY DEF Restart, TimerState
  <1>3. row' \in [Party -> State] BY Types DEF Restart
  <1>4. faults' \in 0 .. MaxFaults BY CallsAssumption DEF Restart, Fault, TypeOK
  <1> QED BY <1>1, <1>2, <1>3, <1>4 DEF Restart, TypeOK, begun, history

LEMMA TypeStep == TypeOK /\ [Next]_vars => TypeOK'
  BY InviteTypes, AnswerTypes, TimerTypes, RestartTypes DEF Next, vars, begun, history, TypeOK

\* Every variable has its type, whatever the number of connections, clicks and
\* timers.
THEOREM Typing == Spec => []TypeOK
  BY TypeInit, TypeStep, PTL DEF Spec

-----------------------------------------------------------------------------
(* The registry *)

\* No task that is through stays in _TIMERS: every path by which a timer ends,
\* and every cancel, takes the call's entry out.
THEOREM RegisteredTheorem == Spec => []RegisteredIsLive
  <1>1. Init => RegisteredIsLive BY DEF Init, RegisteredIsLive
  <1>2. ASSUME TypeOK, RegisteredIsLive, [Next]_vars PROVE RegisteredIsLive'
    <2>1. CASE \E d \in Dialers : ArmTimer(d)
      <3>1. PICK t \in Timers : reg' = t /\ timer' = [Unregistered EXCEPT ![t] = "new"]
        BY <2>1 DEF ArmTimer, Arm
      <3>2. Unregistered \in [Timers -> TimerState] BY <1>2, UnregisteredTimers
      <3> QED BY <3>1, <3>2 DEF RegisteredIsLive
    <2>2. CASE \E a \in Actors : Cancel(a)
      BY <2>2 DEF Cancel, CancelTimer, RegisteredIsLive
    <2>3. CASE \E t \in Timers : TimerRuns(t) \/ SleepRaises(t) \/ TimerFails(t)
      BY <1>2, <2>3
      DEF TimerRuns, SleepRaises, TimerFails, TimerStarts, TimerExpires, TimerCancelled,
          TimerReads, TimerMarksCaller, TimerMarksCallee, TimerGoes, Released,
          RegisteredIsLive, TypeOK
    <2>4. CASE Restart BY <2>4 DEF Restart, RegisteredIsLive
    <2>5. CASE UNCHANGED <<timer, reg>> BY <1>2, <2>5 DEF RegisteredIsLive
    <2> QED
      BY <1>2, <2>1, <2>2, <2>3, <2>4, <2>5
      DEF Next, vars, BeginInvite, Inviting, InsertCaller, InviteBlocked, InsertCallee,
          Ring, ArmFails, InviteFails, Begin, Answers, Guard, WriteFirst, WriteSecond,
          AnswerFails
  <1> QED BY <1>1, <1>2, Typing, PTL DEF Spec

-----------------------------------------------------------------------------
(* What a step writes *)

\* A row that has left the ringing states stays out of them.
LEMMA RowStep ==
    ASSUME TypeOK, [Next]_vars, NEW p \in Party, row[p] \notin Ringing \cup {"none"}
    PROVE  row'[p] \notin Ringing \cup {"none"}
  <1>1. \A q \in Party, s \in State :
          Inserted(q, s)[p] = row[p]
    BY Types, InsertedRow
  <1>2. \A q \in Party, s \in State \ ({"none"} \cup Ringing) :
          Updated(q, s)[p] \notin Ringing \cup {"none"}
    BY Types DEF Updated
  <1>3. "missed" \in State \ ({"none"} \cup Ringing) BY DEF State, Terminal, Ringing
  <1>4. CASE \E d \in Dialers : Inviting(d) \/ InviteFails(d)
    <2>1. \A after : Fails(after) \/ Sets(after) => row' \in {row, after}
      BY Failing, Setting
    <2>2. /\ Inserted("caller", "ringing")[p] = row[p]
          /\ Inserted("callee", "invited")[p] = row[p]
          /\ Updated("caller", "missed")[p] \notin Ringing \cup {"none"}
      BY <1>1, <1>2, <1>3, Types
    <2> QED
      BY <1>4, <2>1, <2>2
      DEF Inviting, InsertCaller, InviteBlocked, InsertCallee, Ring, ArmTimer,
          ArmFails, InviteFails
  <1>5. CASE \E a \in Actors : Answers(a) \/ AnswerFails(a)
    BY <1>2, <1>5, FinalStates, Failing, Setting
    DEF Answers, Guard, WriteFirst, WriteSecond, Cancel, AnswerFails
  <1>6. CASE \E t \in Timers : TimerRuns(t) \/ SleepRaises(t) \/ TimerFails(t)
    BY <1>2, <1>3, <1>6, Types, Failing, Setting
    DEF TimerRuns, SleepRaises, TimerFails, TimerStarts, TimerExpires, TimerCancelled,
        TimerReads, TimerMarksCaller, TimerMarksCallee
  <1>7. CASE Restart BY <1>7 DEF Restart, Swept
  <1>8. CASE UNCHANGED row BY <1>8
  <1> QED
    BY <1>4, <1>5, <1>6, <1>7, <1>8 DEF Next, vars, BeginInvite, Begin

\* INSERT OR IGNORE and the states the verbs write keep a finished or answered
\* row from ringing again, however often the invite is retried.
THEOREM NeverRingsTheorem == Spec => NeverRingsAgain
  <1>1. TypeOK /\ [Next]_vars
          => [\A p \in Party : row[p] \notin Ringing \cup {"none"}
                                  => row'[p] \notin Ringing \cup {"none"}]_vars
    BY RowStep
  <1> QED BY <1>1, Typing, PTL DEF Spec, NeverRingsAgain

-----------------------------------------------------------------------------
(* Answered calls *)

\* What is needed of a step that leaves both rows connected and adds no rival.
LEMMA KeepsAnswered ==
    ASSUME AnsweredInv, UNCHANGED blocked,
           answered' => answered,
           answered => \A p \in Party : row'[p] = "connected",
           \A a \in Actors :
             at'[a].verb \in {"decline", "hangup"} /\ at'[a].step # "guard"
               => a \in Rivals \/ ~answered,
           MarkingMissed' => MarkingMissed \/ ~answered,
           rung' \/ noted' => ~blocked,
           \A a \in Actors : at'[a].verb = "accept" => ~blocked,
           DialerOpen'
    PROVE  AnsweredInv'
  <1>1. AnsweredStays' BY DEF AnsweredInv, AnsweredStays, BothIn
  <1>2. answered' => ~blocked' /\ ~MarkingMissed'
    BY DEF AnsweredInv, UndoneByNone
  <1>3. answered' => Rivals' = {}
    BY DEF AnsweredInv, UndoneByNone, Rivals
  <1> QED BY <1>1, <1>2, <1>3 DEF AnsweredInv, UndoneByNone

\* The same, in terms of the invariant.
LEMMA AnsweredFacts ==
    ASSUME AnsweredInv
    PROVE  /\ answered => /\ row["caller"] = "connected" /\ row["callee"] = "connected"
                          /\ ~blocked /\ Rivals = {} /\ ~MarkingMissed
           /\ rung \/ noted => ~blocked
           /\ \A a \in Actors : at[a].verb = "accept" => ~blocked
           /\ DialerOpen
           /\ answered => \A p \in Party : row[p] = "connected"
  BY DEF AnsweredInv, AnsweredStays, UndoneByNone, BothIn, Party

LEMMA AnsweredInvite ==
    ASSUME TypeOK, AnsweredInv, NEW d \in Dialers,
           BeginInvite(d) \/ Inviting(d) \/ InviteFails(d)
    PROVE  AnsweredInv'
  <1>1. MarkingMissed' => MarkingMissed
    BY UnregisteredTimers
    DEF MarkingMissed, BeginInvite, Inviting, InsertCaller, InviteBlocked, InsertCallee,
        Ring, ArmTimer, Arm, ArmFails, InviteFails
  <1>2. \A s \in State, p \in Party :
          row[p] # "none" => Inserted(p, s) = row
    BY DEF Inserted
  <1>3. answered => \A p \in Party : row'[p] = "connected"
    <2>1. \A after : Fails(after) \/ Sets(after) => row' \in {row, after}
      BY Failing, Setting
    <2>2. answered => /\ Inserted("caller", "ringing") = row
                      /\ Inserted("callee", "invited") = row
      BY <1>2, Types, AnsweredFacts
    <2>3. answered => ~At(d, "invite", "missed")
      BY AnsweredFacts DEF At, DialerOpen
    <2> QED
      BY <2>1, <2>2, <2>3, AnsweredFacts
      DEF BeginInvite, Inviting, InsertCaller, InviteBlocked, InsertCallee,
          Ring, ArmTimer, ArmFails, InviteFails
  <1>4. UNCHANGED <<blocked, answered>>
    BY DEF BeginInvite, Inviting, InsertCaller, InviteBlocked, InsertCallee,
           Ring, ArmTimer, ArmFails, InviteFails, history
  <1>5. /\ \A a \in Actors \ {d} : at'[a] = at[a]
        /\ \/ at'[d] = Idle
           \/ /\ at'[d].verb = "invite"
              /\ at'[d].step = "missed" => blocked
              /\ at'[d].step \in {"insertCallee", "ring"} => ~blocked
    <2>1. CASE BeginInvite(d) BY <2>1, Types DEF BeginInvite, Goes
    <2>2. CASE InsertCaller(d) BY <2>2, Types DEF InsertCaller, Goes, Then, At
    <2>3. CASE InsertCallee(d)
      BY <2>3, Types, AnsweredFacts DEF InsertCallee, Goes, Then, At, DialerOpen
    <2>4. CASE Ring(d) BY <2>4, Types DEF Ring, Goes, Then, At
    <2>5. CASE InviteBlocked(d) \/ ArmTimer(d) \/ ArmFails(d) \/ InviteFails(d)
      BY <2>5, Types DEF InviteBlocked, ArmTimer, ArmFails, InviteFails, Returns
    <2> QED BY <2>1, <2>2, <2>3, <2>4, <2>5 DEF Inviting
  <1>6. rung' \/ noted' => ~blocked
    <2>1. CASE Ring(d)
      BY <2>1, AnsweredFacts DEF Ring, At, DialerOpen
    <2>2. CASE ~Ring(d)
      BY <2>2, AnsweredFacts
      DEF BeginInvite, Inviting, InsertCaller, InviteBlocked, InsertCallee,
          ArmTimer, ArmFails, InviteFails
    <2> QED BY <2>1, <2>2
  <1>7. Idle.verb = "idle" BY DEF Idle
  <1>8. \A a \in Actors :
          /\ at'[a].verb \in {"decline", "hangup"} /\ at'[a].step # "guard" => a \in Rivals
          /\ at'[a].verb = "accept" => ~blocked
    BY <1>5, <1>7, AnsweredFacts DEF Rivals
  <1>9. DialerOpen' BY <1>4, <1>5, <1>7, AnsweredFacts, Types DEF DialerOpen
  <1> QED BY <1>1, <1>3, <1>4, <1>6, <1>8, <1>9, KeepsAnswered

LEMMA AnsweredAnswer ==
    ASSUME TypeOK, AnsweredInv, NEW a \in Actors,
           \/ \E verb \in {"accept", "decline", "hangup"} : Begin(a, verb)
           \/ Answers(a) \/ AnswerFails(a)
    PROVE  AnsweredInv'
  <1>0. Idle.verb = "idle" BY DEF Idle
  <1>1. CASE \E verb \in {"accept", "decline", "hangup"} : Begin(a, verb)
    <2> PICK verb \in {"accept", "decline", "hangup"} : Begin(a, verb) BY <1>1
    <2>1. /\ at'[a].verb = verb
          /\ at'[a].step = IF a \in Clicks THEN "cancel"
                           ELSE IF verb = "decline" THEN "guard" ELSE "first"
          /\ \A b \in Actors \ {a} : at'[b] = at[b]
      BY Types DEF Begin, Goes
    <2>2. answered' <=> answered /\ (verb = "accept" \/ (verb = "decline" /\ a \in Tabs))
      BY DEF Begin
    <2>3. a \in Tabs => a \notin Clicks BY Types
    <2>4. verb = "accept" => ~blocked BY AnsweredFacts, Types DEF Begin, MayBegin
    <2>5. AnsweredStays' /\ UNCHANGED <<blocked, rung, noted, timer>>
      BY <2>2 DEF AnsweredInv, AnsweredStays, BothIn, Begin
    <2>6. answered' => Rivals' = {}
      <3> SUFFICES ASSUME answered', NEW b \in Actors,
                          at'[b].verb \in {"decline", "hangup"}, at'[b].step # "guard"
                   PROVE  FALSE
        BY DEF Rivals
      <3>1. b # a BY <2>1, <2>2, <2>3
      <3>2. b \in Rivals BY <2>1, <3>1 DEF Rivals
      <3> QED BY <2>2, <3>2, AnsweredFacts
    <2>7. answered' => ~blocked' /\ ~MarkingMissed'
      BY <2>2, <2>5, AnsweredFacts DEF MarkingMissed
    <2>8. \A b \in Actors : at'[b].verb = "accept" => ~blocked'
      BY <2>1, <2>4, <2>5, AnsweredFacts
    <2>9. DialerOpen' BY <2>1, <2>5, AnsweredFacts, Types DEF DialerOpen
    <2> QED
      BY <2>5, <2>6, <2>7, <2>8, <2>9, AnsweredFacts DEF AnsweredInv, UndoneByNone
  <1>2. CASE Guard(a)
    <2>1. answered => Accepted BY AnsweredFacts DEF Accepted
    <2>2. /\ answered => at'[a] = Idle
          /\ at'[a] = Idle \/ at'[a].verb = "decline"
          /\ \A b \in Actors \ {a} : at'[b] = at[b]
      BY <1>2, <2>1, Types DEF Guard, At, Goes, Then, Returns
    <2>3. UNCHANGED <<blocked, row, rung, noted, timer, answered>>
      BY <1>2 DEF Guard, history
    <2>4. \A b \in Actors :
            /\ at'[b].verb \in {"decline", "hangup"} /\ at'[b].step # "guard"
                 => b \in Rivals \/ ~answered
            /\ at'[b].verb = "accept" => ~blocked
      BY <1>0, <2>2, AnsweredFacts DEF Rivals
    <2>5. DialerOpen' BY <1>0, <2>2, <2>3, AnsweredFacts, Types DEF DialerOpen
    <2> QED
      BY <2>3, <2>4, <2>5, AnsweredFacts, KeepsAnswered DEF MarkingMissed
  <1>3. CASE WriteFirst(a) \/ WriteSecond(a) \/ Cancel(a) \/ AnswerFails(a)
    <2>1. /\ Answering(a)
          /\ \/ at'[a] = Idle
             \/ at'[a].verb = at[a].verb /\ at[a].step # "guard"
          /\ \A b \in Actors \ {a} : at'[b] = at[b]
      <3>1. Answering(a) BY <1>3 DEF WriteFirst, WriteSecond, Cancel, AnswerFails
      <3>2. at[a].step # "guard" \/ at' = [at EXCEPT ![a] = Idle]
        BY <1>3 DEF WriteFirst, WriteSecond, Cancel, AnswerFails, Returns
      <3>3. \/ at' = [at EXCEPT ![a] = Idle]
            \/ \E s : at' = [at EXCEPT ![a] = [verb |-> at[a].verb, step |-> s]]
        BY <1>3 DEF WriteFirst, WriteSecond, Cancel, AnswerFails, Goes, Then, Returns
      <3> QED BY <3>1, <3>2, <3>3, Types
    <2>2. UNCHANGED <<blocked, rung, noted>>
      BY <1>3 DEF WriteFirst, WriteSecond, Cancel, AnswerFails
    <2>3. MarkingMissed' => MarkingMissed
      BY <1>3, UnregisteredTimers
      DEF MarkingMissed, WriteFirst, WriteSecond, Cancel, CancelTimer, AnswerFails
    <2>4. \A b \in Actors :
            /\ at'[b].verb \in {"decline", "hangup"} /\ at'[b].step # "guard"
                 => b \in Rivals
            /\ at'[b].verb = "accept" => ~blocked
      BY <1>0, <2>1, AnsweredFacts DEF Rivals
    <2>5. DialerOpen'
      BY <1>0, <2>1, <2>2, AnsweredFacts, Types DEF DialerOpen, Answering
    <2>6. answered => \A p \in Party : row'[p] = "connected"
      <3>1. at[a].step \in {"first", "second"} /\ answered => at[a].verb = "accept"
        BY <2>1, AnsweredFacts DEF Rivals, Answering
      <3>2. \A p \in Party : at[a].step \in {"first", "second"} /\ answered
              => Updated(p, Final[at[a].verb]) = row
        BY <3>1, AnsweredFacts, Types DEF Updated, Final
      <3>3. FirstRow(a) \in Party /\ SecondRow(a) \in Party BY <2>1, FinalStates
      <3>4. \A after : Fails(after) \/ Sets(after) => row' \in {row, after}
        BY Failing, Setting
      <3> QED
        BY <1>3, <3>2, <3>3, <3>4, AnsweredFacts
        DEF WriteFirst, WriteSecond, Cancel, AnswerFails
    <2>7. CASE answered' => answered
      BY <2>2, <2>3, <2>4, <2>5, <2>6, <2>7, AnsweredFacts, KeepsAnswered
    <2>8. CASE answered' /\ ~answered
      <3>1. /\ \A p \in Party : row'[p] = "connected"
            /\ Rivals = {} /\ ~MarkingMissed /\ WriteSecond(a)
        BY <1>3, <2>8 DEF WriteFirst, WriteSecond, Cancel, AnswerFails, history
      <3>2. AnsweredStays' BY <3>1 DEF AnsweredStays, BothIn
      <3>3. at[a].verb = "accept"
        BY <2>1, <3>1 DEF Rivals, Answering, WriteSecond
      <3>4. ~blocked' BY <2>2, <3>3, AnsweredFacts
      <3>5. Rivals' = {} BY <2>4, <3>1 DEF Rivals
      <3> QED
        BY <2>2, <2>3, <2>4, <2>5, <3>1, <3>2, <3>4, <3>5, AnsweredFacts
        DEF AnsweredInv, UndoneByNone
    <2> QED BY <2>7, <2>8
  <1> QED BY <1>1, <1>2, <1>3 DEF Answers

LEMMA AnsweredTimer ==
    ASSUME TypeOK, AnsweredInv, NEW t \in Timers,
           TimerRuns(t) \/ SleepRaises(t) \/ TimerFails(t)
    PROVE  AnsweredInv'
  <1>1. UNCHANGED <<blocked, at, rung, noted, answered>>
    BY DEF TimerRuns, SleepRaises, TimerFails, TimerStarts, TimerExpires, TimerCancelled,
           TimerReads, TimerMarksCaller, TimerMarksCallee, history
  <1>2. answered => timer[t] \notin {"first", "second"}
    BY AnsweredFacts DEF MarkingMissed
  <1>3. answered => row' = row
    BY <1>2, Failing
    DEF TimerRuns, SleepRaises, TimerFails, TimerStarts, TimerExpires, TimerCancelled,
        TimerReads, TimerMarksCaller, TimerMarksCallee
  <1>4. answered => ~StillRinging
    BY AnsweredFacts DEF StillRinging, BothIn, Ringing, Party
  <1>5. MarkingMissed' => MarkingMissed \/ ~answered
    BY <1>2, <1>4, Types
    DEF MarkingMissed, TimerRuns, SleepRaises, TimerFails, TimerStarts, TimerExpires,
        TimerCancelled, TimerReads, TimerMarksCaller, TimerMarksCallee, TimerGoes
  <1>6. \A a \in Actors :
          /\ at'[a].verb \in {"decline", "hangup"} /\ at'[a].step # "guard" => a \in Rivals
          /\ at'[a].verb = "accept" => ~blocked
    BY <1>1, AnsweredFacts DEF Rivals
  <1>7. DialerOpen' BY <1>1, AnsweredFacts DEF DialerOpen
  <1> QED BY <1>1, <1>3, <1>5, <1>6, <1>7, AnsweredFacts, KeepsAnswered

LEMMA AnsweredRestart == ASSUME TypeOK, AnsweredInv, Restart PROVE AnsweredInv'
  <1>1. answered => \A p \in Party : row'[p] = "connected"
    BY AnsweredFacts DEF Restart, Swept, Ringing
  <1>2. \A a \in Actors : at'[a] = Idle BY DEF Restart
  <1>3. ~MarkingMissed' BY DEF Restart, MarkingMissed
  <1>4. Idle.verb = "idle" BY DEF Idle
  <1>5. \A a \in Actors : at'[a].verb \notin {"decline", "hangup", "accept"}
    BY <1>2, <1>4
  <1>6. UNCHANGED <<blocked, rung, noted, answered>> BY DEF Restart, history
  <1>7. DialerOpen' BY <1>2, <1>4, Types DEF DialerOpen
  <1> QED BY <1>1, <1>3, <1>5, <1>6, <1>7, AnsweredFacts, KeepsAnswered

\* A call answered in full stays connected in both rows, for any number of
\* connections, clicks, retried invites, verbs and faults: whoever could undo it re-reads the
\* callee's row first or finds no row to insert.
THEOREM AnsweredTheorem == Spec => []AnsweredStays
  <1>1. Init => AnsweredInv
    BY DEF Init, AnsweredInv, AnsweredStays, UndoneByNone, DialerOpen, Idle, Actors
  <1>2. TypeOK /\ AnsweredInv /\ [Next]_vars => AnsweredInv'
    <2> SUFFICES ASSUME TypeOK, AnsweredInv, [Next]_vars PROVE AnsweredInv'
      OBVIOUS
    <2>1. CASE UNCHANGED vars
      BY <2>1
      DEF vars, history, AnsweredInv, AnsweredStays, UndoneByNone, DialerOpen, BothIn,
          Rivals, MarkingMissed
    <2> QED
      BY <2>1, AnsweredInvite, AnsweredAnswer, AnsweredTimer, AnsweredRestart DEF Next
  <1>3. AnsweredInv => AnsweredStays BY DEF AnsweredInv
  <1> QED BY <1>1, <1>2, <1>3, Typing, PTL DEF Spec

-----------------------------------------------------------------------------
(* Ringing calls *)

\* Where an actor that answers can go.
LEMMA AnswerPlaces ==
    ASSUME TypeOK, NEW a \in Actors,
           \/ \E verb \in {"accept", "decline", "hangup"} : Begin(a, verb)
           \/ Answers(a) \/ AnswerFails(a)
    PROVE  /\ \A b \in Actors \ {a} : at'[b] = at[b]
           /\ at[a].verb \in {"idle", "accept", "decline", "hangup"}
           /\ at'[a].verb \in {"idle", "accept", "decline", "hangup"}
  <1>0. Idle.verb = "idle" BY DEF Idle
  <1>1. \E w : at' = [at EXCEPT ![a] = w]
    BY DEF Begin, Answers, Guard, WriteFirst, WriteSecond, Cancel, AnswerFails, Goes,
           Then, Returns
  <1>2. \A b \in Actors \ {a} : at'[b] = at[b] BY <1>1, Types
  <1>3. at[a].verb \in {"idle", "accept", "decline", "hangup"}
    BY <1>0
    DEF Begin, Answers, Guard, WriteFirst, WriteSecond, Cancel, AnswerFails, Answering, At
  <1>4. \/ at' = [at EXCEPT ![a] = Idle]
        \/ \E v \in {"accept", "decline", "hangup"} : \E s :
             at' = [at EXCEPT ![a] = [verb |-> v, step |-> s]]
    BY DEF Begin, Answers, Guard, WriteFirst, WriteSecond, Cancel, AnswerFails, Goes,
           Then, Returns, Answering, At
  <1>5. at'[a].verb \in {"idle", "accept", "decline", "hangup"}
    BY <1>0, <1>4, Types
  <1> QED BY <1>2, <1>3, <1>5

\* Who will change the row of p; the conclusion of RingingIsOwned.
Owned(p) ==
    \/ \E a \in Actors : Writes(a, p)
    \/ \E t \in Timers : WillMark(t, p)
    \/ /\ BothIn(Ringing \cup {"none"})
       /\ \/ unarmed \/ \E d \in Dialers : at[d].verb = "invite"
          \/ \E t \in Timers : timer[t] \in {"new", "asleep", "read"}

LEMMA OwnedDef ==
    RingingIsOwned <=> (Clean => \A p \in Party : row[p] \in Ringing => Owned(p))
  BY DEF RingingIsOwned, Owned, Clean

\* The rows that are there, and what closes them, after a step that makes none.
LEMMA RowsKept ==
    ASSUME TypeOK, RowsMade, UNCHANGED blocked,
           \A p \in Party : row'[p] = "none" <=> row[p] = "none",
           row["callee"] = "none" /\ ~blocked => row'["caller"] = row["caller"],
           rung' \/ noted' => rung \/ noted,
           \A t \in Timers : timer'[t] # "none" => timer[t] # "none",
           \A d \in Dialers : at'[d].verb = "invite" => at'[d] = at[d],
           \A a \in Actors : Answering(a)' => Answering(a) \/ RowsIn
    PROVE  RowsMade'
  <1>1. \A a \in Actors : Answering(a)' => RowsIn'
    BY Types DEF RowsMade, RowsIn
  <1>2. row'["callee"] = "none" /\ ~blocked' => row'["caller"] \in Ringing \cup {"none"}
    BY Types DEF RowsMade
  <1>3. /\ blocked' => row'["callee"] = "none"
        /\ row'["callee"] # "none" => row'["caller"] # "none"
        /\ rung' \/ noted' => row'["callee"] # "none"
        /\ \A t \in Timers : timer'[t] # "none" => row'["callee"] # "none"
    BY Types DEF RowsMade
  <1>4. \A d \in Dialers : at'[d].verb = "invite" =>
          /\ at'[d].step = "missed" => blocked' /\ row'["caller"] # "none"
          /\ at'[d].step \in {"insertCallee", "ring", "arm"}
               => ~blocked' /\ row'["caller"] # "none"
          /\ at'[d].step \in {"ring", "arm"} => row'["callee"] # "none"
    BY Types DEF RowsMade
  <1> QED BY <1>1, <1>2, <1>3, <1>4 DEF RowsMade

\* A row that is closed stays closed, and one that rings has been ringing, if
\* no row is made.
LEMMA ClosedStays ==
    ASSUME TypeOK, RowsMade, [Next]_vars, UNCHANGED blocked, NEW p \in Party
    PROVE  /\ Closed(p) => Closed(p)'
           /\ row'[p] \in Ringing => row[p] \in Ringing \cup {"none"}
           /\ Closed(p) /\ (row[p] = "none" => row'[p] = "none") => row'[p] \notin Ringing
  <1>1. "none" \notin Ringing BY DEF Ringing
  <1>2. row[p] \notin Ringing \cup {"none"} => row'[p] \notin Ringing \cup {"none"}
    BY RowStep
  <1>3. Closed(p) => Closed(p)' BY <1>2 DEF Closed
  <1>4. row'[p] \in Ringing => row[p] \in Ringing \cup {"none"} BY <1>2
  <1>5. ASSUME Closed(p), row[p] = "none" => row'[p] = "none"
        PROVE  row'[p] \notin Ringing
    <2>1. CASE row[p] = "none" BY <1>1, <1>5, <2>1
    <2>2. CASE row[p] # "none" BY <1>2, <1>5, <2>2 DEF Closed, RowsMade
    <2> QED BY <2>1, <2>2
  <1> QED BY <1>3, <1>4, <1>5

LEMMA Noneness ==
    ASSUME TypeOK, NEW p \in Party, NEW s \in State \ {"none"}, NEW q \in Party
    PROVE  Updated(p, s)[q] = "none" <=> row[q] = "none"
  BY Types, UpdatedRow

\* What an actor that answers does to the rows and to itself.
LEMMA AnswerShape ==
    ASSUME TypeOK, NEW a \in Actors, Clean',
           \/ \E verb \in {"accept", "decline", "hangup"} : Begin(a, verb)
           \/ Answers(a) \/ AnswerFails(a)
    PROVE  /\ UNCHANGED <<blocked, invites, rung, noted, unarmed>>
           /\ Clean
           /\ ~AnswerFails(a)
           /\ WriteFirst(a) => row' = Updated(FirstRow(a), Final[at[a].verb])
           /\ WriteSecond(a) => row' = Updated(SecondRow(a), Final[at[a].verb])
           /\ \A p \in Party : row'[p] = "none" <=> row[p] = "none"
           /\ row' # row => Answering(a)
           /\ \A t \in Timers : timer'[t] # timer[t] => timer[t] \in {"new", "asleep"}
           /\ \A t \in Timers : timer'[t] # timer[t] => timer'[t] \in {"done", "cancelled"}
  <1>1. ~AnswerFails(a)
    BY Failing, Types DEF AnswerFails, Clean
  <1>2. /\ WriteFirst(a) => row' = Updated(FirstRow(a), Final[at[a].verb])
        /\ WriteSecond(a) => row' = Updated(SecondRow(a), Final[at[a].verb])
        /\ faults = 0
    <2>1. \A after : Sets(after) => row' = after /\ faults = 0 BY Setting DEF Clean
    <2> QED
      BY <1>1, <2>1 DEF Begin, Answers, Guard, WriteFirst, WriteSecond, Cancel, Clean
  <1>3. \A p \in Party : row'[p] = "none" <=> row[p] = "none"
    <2>1. Answering(a) => Final[at[a].verb] \in State \ {"none"}
                          /\ FirstRow(a) \in Party /\ SecondRow(a) \in Party
      BY FinalStates
    <2>2. CASE WriteFirst(a) \/ WriteSecond(a)
      BY <1>2, <2>1, <2>2, Noneness DEF WriteFirst, WriteSecond
    <2>3. CASE UNCHANGED row BY <2>3
    <2> QED BY <1>1, <2>2, <2>3 DEF Begin, Answers, Guard, Cancel
  <1>4. /\ UNCHANGED <<blocked, invites, rung, noted, unarmed>>
        /\ overtaken => overtaken'
        /\ row' # row => Answering(a)
    <2>1. CASE \E verb \in {"accept", "decline", "hangup"} : Begin(a, verb)
      BY Zenon, <2>1 DEF Begin
    <2>2. CASE Answers(a)
      BY <2>2 DEF Answers, Guard, WriteFirst, WriteSecond, Cancel, begun, history
    <2> QED BY <1>1, <2>1, <2>2
  <1>5. \A t \in Timers : timer'[t] # timer[t] =>
          timer[t] \in {"new", "asleep"} /\ timer'[t] \in {"done", "cancelled"}
    BY <1>1, UnregisteredTimers
    DEF Begin, Answers, Guard, WriteFirst, WriteSecond, Cancel, CancelTimer
  <1> QED BY <1>1, <1>2, <1>3, <1>4, <1>5 DEF Clean

LEMMA AnswerRows ==
    ASSUME TypeOK, NEW a \in Actors, Clean', RowsMade,
           \/ \E verb \in {"accept", "decline", "hangup"} : Begin(a, verb)
           \/ Answers(a) \/ AnswerFails(a)
    PROVE  RowsMade'
  <1>1. row["callee"] = "none" /\ ~blocked => row'["caller"] = row["caller"]
    <2>1. CASE Answering(a) BY <2>1 DEF RowsMade, RowsIn
    <2>2. CASE ~Answering(a) BY <2>2, AnswerShape
    <2> QED BY <2>1, <2>2
  <1>2. \A t \in Timers : timer'[t] # "none" => timer[t] # "none"
    BY AnswerShape
  <1>3. \A d \in Dialers : at'[d].verb = "invite" => at'[d] = at[d]
    BY AnswerPlaces, Types
  <1>4. \A b \in Actors : Answering(b)' => Answering(b) \/ RowsIn
    <2>1. \A b \in Actors \ {a} : Answering(b)' <=> Answering(b)
      BY AnswerPlaces DEF Answering
    <2>2. ASSUME NEW verb \in {"accept", "decline", "hangup"}, Begin(a, verb)
          PROVE  RowsIn
      <3>1. MayBegin(a, verb) /\ (a \in Dialers => RowsIn)
        BY <2>2 DEF Begin, Clean
      <3>2. CASE rung \/ noted BY <3>2 DEF RowsMade, RowsIn
      <3> QED BY <3>1, <3>2 DEF MayBegin
    <2>3. Answers(a) => Answering(a)
      BY DEF Answers, Guard, WriteFirst, WriteSecond, Cancel, Answering, At
    <2> QED BY <2>1, <2>2, <2>3, AnswerShape
  <1> QED BY <1>1, <1>2, <1>3, <1>4, AnswerShape, RowsKept

\* The rows an actor has written.
LEMMA AnswerWritten ==
    ASSUME TypeOK, NEW a \in Actors, Clean', RowsMade, WrittenIsClosed, [Next]_vars,
           \/ \E verb \in {"accept", "decline", "hangup"} : Begin(a, verb)
           \/ Answers(a) \/ AnswerFails(a)
    PROVE  WrittenIsClosed'
  <1>0. UNCHANGED blocked /\ ~AnswerFails(a) BY AnswerShape
  <1>1. ASSUME NEW p \in Party, Closed(p) PROVE Closed(p)' BY <1>0, <1>1, ClosedStays
  <1>2. \A t \in Timers : timer'[t] = "second" => timer[t] = "second" BY AnswerShape
  <1>3. \A b \in Actors \ {a} : at'[b] = at[b] BY AnswerPlaces
  <1>4. \A b \in Actors : FirstRow(b) \in Party BY DEF FirstRow, Party
  <1>5. ASSUME NEW p \in Party, Answering(a), row' = Updated(p, Final[at[a].verb])
        PROVE  Closed(p)'
    <2>1. row[p] # "none" \/ (p = "callee" /\ blocked)
      BY <1>5 DEF RowsMade, RowsIn, Party
    <2>2. row[p] # "none" => row'[p] = Final[at[a].verb]
      BY <1>5, FinalStates, UpdatedRow, Types
    <2>3. Final[at[a].verb] \notin {"none"} \cup Ringing BY <1>5, FinalStates
    <2> QED BY <1>0, <2>1, <2>2, <2>3 DEF Closed
  <1>6. Answering(a)' =>
          /\ at'[a].step = "second" => Closed(FirstRow(a))'
          /\ at'[a].step = "cancel" /\ a \notin Clicks => Closed("caller")' /\ Closed("callee")'
    <2>1. CASE \E verb \in {"accept", "decline", "hangup"} : Begin(a, verb)
      BY <2>1, Types DEF Begin, Goes
    <2>2. CASE Guard(a)
      <3>1. at'[a] = Idle \/ at'[a].step = "first"
        BY <2>2, Types DEF Guard, Goes, Then, Returns
      <3> QED BY <3>1 DEF Answering, Idle
    <2>3. CASE WriteFirst(a)
      <3>1. Closed(FirstRow(a))' BY <1>4, <1>5, <2>3, AnswerShape DEF WriteFirst
      <3>2. at'[a].step = "second" BY <2>3, Types DEF WriteFirst, Goes, Then
      <3> QED BY <3>1, <3>2
    <2>4. CASE WriteSecond(a)
      <3>1. Closed(SecondRow(a))'
        BY <1>5, <2>4, FinalStates, AnswerShape DEF WriteSecond
      <3>2. Closed(FirstRow(a))'
        BY <1>1, <1>4, <2>4 DEF WriteSecond, WrittenIsClosed
      <3>3. Closed("caller")' /\ Closed("callee")'
        BY <3>1, <3>2 DEF FirstRow, SecondRow
      <3>4. at'[a] = Idle \/ at'[a].step = "cancel"
        BY <2>4, Types DEF WriteSecond, Goes, Then, Returns
      <3> QED BY <3>3, <3>4 DEF Answering, Idle
    <2>5. CASE Cancel(a)
      <3>1. at'[a] = Idle \/ at'[a].step = "first"
        BY <2>5, Types DEF Cancel, Goes, Then, Returns
      <3> QED BY <3>1 DEF Answering, Idle
    <2> QED BY <1>0, <2>1, <2>2, <2>3, <2>4, <2>5 DEF Answers
  <1>7. ASSUME NEW b \in Actors, Answering(b)'
        PROVE  /\ at'[b].step = "second" => Closed(FirstRow(b))'
               /\ at'[b].step = "cancel" /\ b \notin Clicks
                    => Closed("caller")' /\ Closed("callee")'
    <2>1. CASE b = a BY <1>6, <1>7, <2>1
    <2>2. CASE b # a
      <3>1. Answering(b) /\ at'[b] = at[b] BY <1>3, <1>7, <2>2 DEF Answering
      <3> QED BY <1>1, <1>4, <3>1, Types DEF WrittenIsClosed
    <2> QED BY <2>1, <2>2
  <1>8. \A t \in Timers : timer'[t] = "second" => Closed("caller")'
    BY <1>1, <1>2, Types DEF WrittenIsClosed
  <1> QED BY <1>7, <1>8 DEF WrittenIsClosed

LEMMA AnswerOwned ==
    ASSUME TypeOK, NEW a \in Actors, Clean', RowsMade, WrittenIsClosed, RingingIsOwned,
           [Next]_vars,
           \/ \E verb \in {"accept", "decline", "hangup"} : Begin(a, verb)
           \/ Answers(a) \/ AnswerFails(a)
    PROVE  RingingIsOwned'
  <1> SUFFICES ASSUME NEW p \in Party, row'[p] \in Ringing PROVE Owned(p)'
    BY DEF RingingIsOwned, Owned
  <1>0. /\ UNCHANGED <<blocked, unarmed>> /\ ~AnswerFails(a) /\ Clean
        /\ \A q \in Party : row'[q] = "none" <=> row[q] = "none"
    BY AnswerShape
  <1>1. row[p] \in Ringing /\ Owned(p)
    BY <1>0, ClosedStays, OwnedDef DEF Ringing
  <1>2. ~Closed(p) BY <1>0, ClosedStays
  <1>3. \A b \in Actors \ {a} : Writes(b, p) => Writes(b, p)'
    BY AnswerPlaces DEF Writes, Answering
  <1>4. \A t \in Timers : WillMark(t, p) => WillMark(t, p)'
    BY AnswerShape DEF WillMark
  <1>5. CASE (\E verb \in {"accept", "decline", "hangup"} : Begin(a, verb)) \/ Guard(a)
    <2>1. ~Writes(a, p)
      BY <1>5 DEF Begin, Guard, Writes, Answering, At, Idle
    <2>2. UNCHANGED <<row, timer>> BY <1>5 DEF Begin, Guard
    <2>3. \A d \in Dialers : at[d].verb = "invite" => at'[d].verb = "invite"
      BY AnswerPlaces, Types
    <2>4. BothIn(Ringing \cup {"none"}) => BothIn(Ringing \cup {"none"})'
      BY <2>2 DEF BothIn
    <2> QED BY <1>0, <1>1, <1>3, <1>4, <2>1, <2>2, <2>3, <2>4 DEF Owned
  <1>6. CASE WriteFirst(a)
    <2>1. row'[FirstRow(a)] \notin Ringing
      BY <1>6, FinalStates, AnswerShape, Types DEF WriteFirst, Updated, Ringing
    <2>2. p = SecondRow(a) BY <1>6, <2>1, FinalStates DEF WriteFirst
    <2>3. at'[a] = [verb |-> at[a].verb, step |-> "second"]
      BY <1>6, Types DEF WriteFirst, Goes, Then
    <2>4. Writes(a, p)' BY <1>6, <2>2, <2>3 DEF Writes, Answering, WriteFirst
    <2> QED BY <2>4 DEF Owned
  <1>7. CASE WriteSecond(a)
    <2>1. Closed(FirstRow(a)) BY <1>7 DEF WriteSecond, WrittenIsClosed
    <2>2. row'[SecondRow(a)] \notin Ringing
      BY <1>7, FinalStates, AnswerShape, Types DEF WriteSecond, Updated, Ringing
    <2> QED BY <1>2, <1>7, <2>1, <2>2, FinalStates DEF WriteSecond
  <1>8. CASE Cancel(a)
    <2>1. a \in Clicks
      BY <1>2, <1>8 DEF Cancel, WrittenIsClosed, Party
    <2>2. at'[a] = [verb |-> at[a].verb, step |-> "first"]
      BY <1>8, <2>1, Types DEF Cancel, Goes, Then
    <2>3. Writes(a, p)' BY <1>8, <2>2 DEF Writes, Answering, Cancel
    <2> QED BY <2>3 DEF Owned
  <1> QED BY <1>0, <1>5, <1>6, <1>7, <1>8 DEF Answers

\* What a timer does to the rows and to the tasks.
LEMMA TimerShape ==
    ASSUME TypeOK, NEW t \in Timers, Clean', TimerRuns(t) \/ SleepRaises(t) \/ TimerFails(t)
    PROVE  /\ UNCHANGED <<blocked, at, invites, rung, noted>>
           /\ Clean /\ ~TimerFails(t) /\ (unarmed => unarmed')
           /\ TimerMarksCaller(t) => row' = Updated("caller", "missed")
           /\ TimerMarksCallee(t) => row' = Updated("callee", "missed")
           /\ \A p \in Party : row'[p] = "none" <=> row[p] = "none"
           /\ timer[t] # "none"
           /\ \A u \in Timers \ {t} : timer'[u] = timer[u]
  <1>1. ~TimerFails(t) BY Failing, Types DEF TimerFails, Clean
  <1>2. /\ TimerMarksCaller(t) => row' = Updated("caller", "missed") /\ faults = 0
        /\ TimerMarksCallee(t) => row' = Updated("callee", "missed") /\ faults = 0
    BY Setting DEF TimerMarksCaller, TimerMarksCallee, Clean
  <1>3. \A p \in Party : row'[p] = "none" <=> row[p] = "none"
    <2>1. CASE TimerMarksCaller(t) \/ TimerMarksCallee(t) BY <1>2, <2>1, Types, Noneness
    <2>2. CASE UNCHANGED row BY <2>2
    <2> QED
      BY <1>1, <2>1, <2>2
      DEF TimerRuns, SleepRaises, TimerStarts, TimerExpires, TimerCancelled, TimerReads
  <1>4. \E s : timer' = [timer EXCEPT ![t] = s]
    BY <1>1
    DEF TimerRuns, SleepRaises, TimerStarts, TimerExpires, TimerCancelled, TimerReads,
        TimerMarksCaller, TimerMarksCallee, TimerGoes
  <1>5. \A u \in Timers \ {t} : timer'[u] = timer[u] BY <1>4, Types
  <1>6. /\ UNCHANGED <<blocked, at, invites, rung, noted, overtaken>>
        /\ timer[t] # "none" /\ (unarmed => unarmed')
    BY <1>1
    DEF TimerRuns, SleepRaises, TimerStarts, TimerExpires, TimerCancelled, TimerReads,
        TimerMarksCaller, TimerMarksCallee, begun, history
  <1>7. faults = 0
    BY <1>1, <1>2
    DEF TimerRuns, SleepRaises, TimerStarts, TimerExpires, TimerCancelled, TimerReads, Clean
  <1> QED BY <1>1, <1>2, <1>3, <1>5, <1>6, <1>7 DEF Clean

LEMMA TimerStep ==
    ASSUME TypeOK, NEW t \in Timers, Clean', RowsMade, WrittenIsClosed, RingingIsOwned,
           [Next]_vars, TimerRuns(t) \/ SleepRaises(t) \/ TimerFails(t)
    PROVE  RowsMade' /\ WrittenIsClosed' /\ RingingIsOwned'
  <1>0. /\ UNCHANGED <<blocked, at, invites, rung, noted>> /\ Clean
        /\ \A p \in Party : row'[p] = "none" <=> row[p] = "none"
        /\ \A u \in Timers \ {t} : timer'[u] = timer[u]
        /\ ~TimerFails(t) /\ (unarmed => unarmed')
    BY TimerShape
  <1>1. row["callee"] # "none" /\ row["caller"] # "none" /\ ~blocked
    BY TimerShape DEF RowsMade
  <1>2. RowsMade'
    <2>1. \A u \in Timers : timer'[u] # "none" => timer[u] # "none" BY TimerShape
    <2>2. \A a \in Actors : Answering(a)' => Answering(a) BY <1>0 DEF Answering
    <2> QED BY <1>0, <1>1, <2>1, <2>2, RowsKept
  <1>3. ASSUME NEW p \in Party, Closed(p) PROVE Closed(p)' BY <1>0, <1>3, ClosedStays
  <1>4. timer'[t] = "second" => Closed("caller")'
    <2>1. timer'[t] = "second" => TimerMarksCaller(t)
      BY <1>0, Types
      DEF TimerRuns, SleepRaises, TimerStarts, TimerExpires, TimerCancelled, TimerReads,
          TimerMarksCallee, TimerGoes
    <2>2. TimerMarksCaller(t) => row'["caller"] = "missed"
      BY <1>1, Types, UpdatedRow, TimerShape
    <2> QED BY <2>1, <2>2 DEF Closed, Ringing
  <1>5. WrittenIsClosed'
    <2>1. \A u \in Timers : timer'[u] = "second" => Closed("caller")'
      BY <1>0, <1>3, <1>4, Types DEF WrittenIsClosed
    <2>2. \A a \in Actors : FirstRow(a) \in Party BY DEF FirstRow, Party
    <2>3. ASSUME NEW a \in Actors, Answering(a)'
          PROVE  /\ at'[a].step = "second" => Closed(FirstRow(a))'
                 /\ at'[a].step = "cancel" /\ a \notin Clicks
                      => Closed("caller")' /\ Closed("callee")'
      <3>1. Answering(a) /\ at'[a] = at[a] BY <1>0, <2>3 DEF Answering
      <3> QED BY <1>3, <2>2, <3>1, Types DEF WrittenIsClosed
    <2> QED BY <2>1, <2>3 DEF WrittenIsClosed
  <1>6. ASSUME NEW p \in Party, row'[p] \in Ringing PROVE Owned(p)'
    <2>1. row[p] \in Ringing /\ Owned(p) /\ ~Closed(p)
      BY <1>0, <1>6, ClosedStays, OwnedDef DEF Ringing
    <2>2. \A b \in Actors : Writes(b, p) => Writes(b, p)'
      BY <1>0 DEF Writes, Answering
    <2>3. \A u \in Timers \ {t} : WillMark(u, p) => WillMark(u, p)'
      BY <1>0 DEF WillMark
    <2>4. CASE TimerMarksCaller(t)
      <3>1. row'["caller"] = "missed" /\ timer'[t] = "second"
        <4>1. row'["caller"] = "missed" BY <1>1, <2>4, Types, UpdatedRow, TimerShape
        <4> QED BY <2>4, <4>1, Types DEF TimerMarksCaller, TimerGoes
      <3>2. p = "callee" BY <1>6, <3>1 DEF Party, Ringing
      <3>3. WillMark(t, p)' BY <3>1, <3>2 DEF WillMark
      <3> QED BY <3>3 DEF Owned
    <2>5. CASE TimerMarksCallee(t)
      <3>1. row'["callee"] = "missed"
        BY <1>1, <2>5, Types, UpdatedRow, TimerShape
      <3>2. Closed("caller") BY <2>5 DEF TimerMarksCallee, WrittenIsClosed
      <3> QED BY <1>6, <2>1, <3>1, <3>2 DEF Party, Ringing
    <2>6. CASE TimerReads(t) /\ StillRinging
      <3>1. timer'[t] = "first" BY <2>6, Types DEF TimerReads, TimerGoes
      <3> QED BY <3>1 DEF Owned, WillMark
    <2>7. CASE TimerReads(t) /\ ~StillRinging
      <3>1. ~BothIn(Ringing \cup {"none"})
        BY <1>1, <2>7 DEF StillRinging, BothIn, Party
      <3>2. ~WillMark(t, p) BY <2>7 DEF TimerReads, WillMark
      <3> QED BY <2>1, <2>2, <2>3, <3>1, <3>2 DEF Owned
    <2>8. CASE TimerStarts(t) \/ TimerExpires(t) \/ TimerCancelled(t)
      <3>1. ~WillMark(t, p)
        BY <2>8 DEF TimerStarts, TimerExpires, TimerCancelled, WillMark
      <3>2. UNCHANGED row BY <2>8 DEF TimerStarts, TimerExpires, TimerCancelled
      <3>3. timer[t] \in {"new", "asleep", "read"} => timer'[t] \in {"new", "asleep", "read"}
        BY <2>8, Types DEF TimerStarts, TimerExpires, TimerCancelled, TimerGoes
      <3>4. BothIn(Ringing \cup {"none"}) => BothIn(Ringing \cup {"none"})'
        BY <3>2 DEF BothIn
      <3> QED BY <1>0, <2>1, <2>2, <2>3, <3>1, <3>3, <3>4 DEF Owned
    <2>9. CASE SleepRaises(t)
      <3>1. ~WillMark(t, p) /\ unarmed' /\ UNCHANGED row BY <2>9 DEF SleepRaises, WillMark
      <3>2. BothIn(Ringing \cup {"none"}) => BothIn(Ringing \cup {"none"})'
        BY <3>1 DEF BothIn
      <3> QED BY <2>1, <2>2, <2>3, <3>1, <3>2 DEF Owned
    <2> QED BY <1>0, <2>4, <2>5, <2>6, <2>7, <2>8, <2>9 DEF TimerRuns
  <1> QED BY <1>2, <1>5, <1>6 DEF RingingIsOwned, Owned

-----------------------------------------------------------------------------
(* Ringing calls: the invite *)

\* What the steps of an invite have in common.

LEMMA InviteShape ==
    ASSUME TypeOK, NEW d \in Dialers, Clean',
           BeginInvite(d) \/ Inviting(d) \/ InviteFails(d)
    PROVE  /\ UNCHANGED blocked /\ Clean /\ ~InviteFails(d)
           /\ d \in Actors
           /\ \A a \in Actors \ {d} : at'[a] = at[a]
           /\ ~Answering(d) /\ ~Answering(d)'
           /\ \/ at'[d] = Idle /\ (InviteBlocked(d) \/ ArmTimer(d) \/ ArmFails(d))
              \/ at'[d].verb = "invite"
           /\ ~ArmTimer(d) => timer' = timer
           /\ unarmed => unarmed' \/ ArmTimer(d)
           /\ ArmFails(d) => unarmed'
  <1>1. ~InviteFails(d) BY Failing, Types DEF InviteFails, Clean
  <1>2. UNCHANGED <<blocked, overtaken>> /\ faults = 0
    <2>1. \A after : Sets(after) => faults = 0 BY Setting DEF Clean
    <2> QED
      BY <1>1, <2>1
      DEF BeginInvite, Inviting, InsertCaller, InviteBlocked, InsertCallee, Ring,
          ArmTimer, ArmFails, history, Clean
  <1>3. \/ at' = [at EXCEPT ![d] = Idle]
           /\ (InviteBlocked(d) \/ ArmTimer(d) \/ ArmFails(d))
        \/ \E s : at' = [at EXCEPT ![d] = [verb |-> "invite", step |-> s]]
    <2>1. CASE BeginInvite(d) BY <2>1 DEF BeginInvite, Goes
    <2>2. CASE InviteBlocked(d) \/ ArmTimer(d) \/ ArmFails(d)
      BY <2>2 DEF InviteBlocked, ArmTimer, ArmFails, Returns
    <2>3. CASE InsertCaller(d) \/ InsertCallee(d) \/ Ring(d)
      <3>1. at[d].verb = "invite"
        <4>1. \E s : At(d, "invite", s)
          BY <2>3 DEF InsertCaller, InsertCallee, Ring
        <4> QED BY <4>1 DEF At
      <3>2. \E s : Then(d, s)
        BY <2>3 DEF InsertCaller, InsertCallee, Ring
      <3> QED BY <3>1, <3>2 DEF Then, Goes
    <2> QED BY <1>1, <2>1, <2>2, <2>3 DEF Inviting
  <1>4. at[d].verb \in {"idle", "invite"}
    <2>1. CASE BeginInvite(d) BY <2>1 DEF BeginInvite, Idle
    <2>2. CASE Inviting(d)
      <3>1. \E s : At(d, "invite", s)
        BY <2>2
        DEF Inviting, InsertCaller, InviteBlocked, InsertCallee, Ring, ArmTimer, ArmFails
      <3> QED BY <3>1 DEF At
    <2> QED BY <1>1, <2>1, <2>2
  <1>5. \/ at'[d] = Idle /\ (InviteBlocked(d) \/ ArmTimer(d) \/ ArmFails(d))
        \/ at'[d].verb = "invite"
    BY <1>3, Types
  <1>6. d \in Actors /\ \A a \in Actors \ {d} : at'[a] = at[a] BY <1>3, Types
  <1>7. ~Answering(d) /\ ~Answering(d)'
    BY <1>4, <1>5 DEF Answering, Idle
  <1>8. /\ ~ArmTimer(d) => timer' = timer
        /\ unarmed => unarmed' \/ ArmTimer(d)
        /\ ArmFails(d) => unarmed'
    <2>1. CASE ArmTimer(d) \/ ArmFails(d)
      BY <2>1 DEF ArmTimer, ArmFails, At
    <2>2. CASE UNCHANGED <<timer, unarmed>> BY <2>2 DEF ArmFails
    <2> QED
      BY <1>1, <2>1, <2>2
      DEF BeginInvite, Inviting, InsertCaller, InviteBlocked, InsertCallee, Ring, history
  <1> QED BY <1>1, <1>2, <1>5, <1>6, <1>7, <1>8 DEF Clean

\* The rows after a step of an invite.
LEMMA InviteRows ==
    ASSUME TypeOK, NEW d \in Dialers, Clean', RowsMade,
           BeginInvite(d) \/ Inviting(d) \/ InviteFails(d)
    PROVE  /\ InsertCaller(d) => row'["caller"] # "none" /\ row'["callee"] = row["callee"]
                              /\ (row["caller"] = "none" => row'["caller"] = "ringing")
           /\ InsertCallee(d) => row'["callee"] # "none" /\ row'["caller"] = row["caller"]
                              /\ (row["callee"] = "none" => row'["callee"] = "invited")
           /\ InviteBlocked(d) => row'["callee"] = row["callee"]
                              /\ row'["caller"] = IF row["caller"] = "none" THEN "none" ELSE "missed"
           /\ ~(InsertCaller(d) \/ InsertCallee(d) \/ InviteBlocked(d)) => row' = row
           /\ \A p \in Party : row[p] # "none" /\ ~InviteBlocked(d) => row'[p] = row[p]
  <1>1. ~InviteFails(d) BY InviteShape
  <1>2. \A s \in {"ringing", "invited"}, p \in Party, q \in Party :
          /\ Inserted(p, s)[p] = IF row[p] = "none" THEN s ELSE row[p]
          /\ q # p => Inserted(p, s)[q] = row[q]
    BY Types DEF Inserted
  <1>3. /\ Updated("caller", "missed")["caller"]
             = IF row["caller"] = "none" THEN "none" ELSE "missed"
        /\ Updated("caller", "missed")["callee"] = row["callee"]
    BY Types DEF Updated
  <1>4. /\ InsertCaller(d) => row' = Inserted("caller", "ringing")
        /\ InsertCallee(d) => row' = Inserted("callee", "invited")
        /\ InviteBlocked(d) => row' = Updated("caller", "missed")
        /\ ~(InsertCaller(d) \/ InsertCallee(d) \/ InviteBlocked(d)) => row' = row
    <2>1. \A after : Sets(after) => row' = after BY Setting DEF Clean
    <2> QED
      BY <1>1, <2>1
      DEF BeginInvite, Inviting, InsertCaller, InviteBlocked, InsertCallee, Ring,
          ArmTimer, ArmFails
  <1>5. ~(InsertCaller(d) /\ InsertCallee(d)) /\ ~(InsertCaller(d) /\ InviteBlocked(d))
        /\ ~(InsertCallee(d) /\ InviteBlocked(d))
    BY DEF InsertCaller, InviteBlocked, InsertCallee, At
  <1>6. InsertCaller(d) => row'["caller"] # "none" /\ row'["callee"] = row["callee"]
                        /\ (row["caller"] = "none" => row'["caller"] = "ringing")
    BY <1>2, <1>4, Types
  <1>7. InsertCallee(d) => row'["callee"] # "none" /\ row'["caller"] = row["caller"]
                        /\ (row["callee"] = "none" => row'["callee"] = "invited")
    BY <1>2, <1>4, Types
  <1>8. \A p \in Party : row[p] # "none" /\ ~InviteBlocked(d) => row'[p] = row[p]
    BY <1>1, <1>2, <1>4, Types
  <1> QED BY <1>3, <1>4, <1>6, <1>7, <1>8

LEMMA InviteRowsMade ==
    ASSUME TypeOK, NEW d \in Dialers, Clean', RowsMade,
           BeginInvite(d) \/ Inviting(d) \/ InviteFails(d)
    PROVE  RowsMade'
  <1>0. /\ UNCHANGED blocked /\ ~InviteFails(d)
        /\ \A a \in Actors \ {d} : at'[a] = at[a]
        /\ d \in Actors /\ ~Answering(d)'
    BY InviteShape
  <1>1. InsertCallee(d) => ~blocked /\ row["caller"] # "none" /\ at[d].verb = "invite"
    BY DEF InsertCallee, At, RowsMade
  <1>2. InviteBlocked(d) => blocked /\ row["callee"] = "none"
    BY DEF InviteBlocked, At, RowsMade
  <1>3. Ring(d) \/ ArmTimer(d) \/ ArmFails(d) =>
          ~blocked /\ row["caller"] # "none" /\ row["callee"] # "none"
    <2>1. Ring(d) \/ ArmTimer(d) \/ ArmFails(d)
            => At(d, "invite", "ring") \/ At(d, "invite", "arm")
      BY DEF Ring, ArmTimer, ArmFails
    <2>2. At(d, "invite", "ring") \/ At(d, "invite", "arm")
            => at[d].verb = "invite" /\ at[d].step \in {"ring", "arm"}
      BY DEF At
    <2> QED BY <2>1, <2>2 DEF RowsMade
  <1>4. \A p \in Party : row[p] # "none" => row'[p] # "none"
    BY <1>2, InviteRows DEF Party
  <1>5. blocked' => row'["callee"] = "none"
    BY <1>0, <1>1, InviteRows DEF RowsMade
  <1>6. row'["callee"] # "none" => row'["caller"] # "none"
    <2>1. CASE row["callee"] # "none" BY <1>4, <2>1, Types DEF RowsMade
    <2>2. CASE row["callee"] = "none"
      <3>1. ~InsertCallee(d) => row'["callee"] = "none" BY <2>2, InviteRows
      <3>2. InsertCallee(d) => row'["caller"] # "none" BY <1>1, InviteRows
      <3> QED BY <3>1, <3>2
    <2> QED BY <2>1, <2>2
  <1>7. at'[d].verb = "invite" =>
          /\ at'[d].step = "missed" => blocked' /\ row'["caller"] # "none"
          /\ at'[d].step \in {"insertCallee", "ring", "arm"}
               => ~blocked' /\ row'["caller"] # "none"
          /\ at'[d].step \in {"ring", "arm"} => row'["callee"] # "none"
    <2>1. CASE BeginInvite(d)
      <3>1. at'[d].step = "insertCaller" BY <2>1, Types DEF BeginInvite, Goes
      <3> QED BY <3>1
    <2>2. CASE InsertCaller(d)
      <3>1. at'[d].step = IF blocked THEN "missed" ELSE "insertCallee"
        BY <2>2, Types DEF InsertCaller, Goes, Then
      <3> QED BY <1>0, <2>2, <3>1, InviteRows
    <2>3. CASE InsertCallee(d)
      <3>1. at'[d].step = "ring" BY <2>3, Types DEF InsertCallee, Goes, Then
      <3> QED BY <1>0, <1>1, <2>3, <3>1, InviteRows
    <2>4. CASE Ring(d)
      <3>1. at'[d].step = "arm" BY <2>4, Types DEF Ring, Goes, Then
      <3> QED BY <1>0, <1>3, <1>4, <2>4, <3>1, Types
    <2>5. CASE InviteBlocked(d) \/ ArmTimer(d) \/ ArmFails(d)
      <3>1. at'[d] = Idle
        BY <2>5, Types DEF InviteBlocked, ArmTimer, ArmFails, Returns
      <3> QED BY <3>1 DEF Idle
    <2> QED BY <1>0, <2>1, <2>2, <2>3, <2>4, <2>5 DEF Inviting
  <1>8. \A e \in Dialers : at'[e].verb = "invite" =>
          /\ at'[e].step = "missed" => blocked' /\ row'["caller"] # "none"
          /\ at'[e].step \in {"insertCallee", "ring", "arm"}
               => ~blocked' /\ row'["caller"] # "none"
          /\ at'[e].step \in {"ring", "arm"} => row'["callee"] # "none"
    <2> SUFFICES ASSUME NEW e \in Dialers, e # d, at'[e].verb = "invite"
                 PROVE  /\ at'[e].step = "missed" => blocked' /\ row'["caller"] # "none"
                        /\ at'[e].step \in {"insertCallee", "ring", "arm"}
                             => ~blocked' /\ row'["caller"] # "none"
                        /\ at'[e].step \in {"ring", "arm"} => row'["callee"] # "none"
      BY <1>7
    <2>1. at'[e] = at[e] BY <1>0, Types
    <2> QED BY <1>0, <1>4, <2>1, Types DEF RowsMade
  <1>9. rung' \/ noted' => row'["callee"] # "none"
    <2>1. CASE Ring(d) BY <1>3, <1>4, <2>1, Types
    <2>2. CASE ~Ring(d)
      <3>1. UNCHANGED <<rung, noted>>
        BY <1>0, <2>2
        DEF BeginInvite, Inviting, InsertCaller, InviteBlocked, InsertCallee, ArmTimer,
            ArmFails
      <3> QED BY <1>4, <3>1, Types DEF RowsMade
    <2> QED BY <2>1, <2>2
  <1>10. \A t \in Timers : timer'[t] # "none" => row'["callee"] # "none"
    <2>1. CASE ArmTimer(d) BY <1>3, <1>4, <2>1, Types
    <2>2. CASE ~ArmTimer(d) BY <1>4, <2>2, InviteShape, Types DEF RowsMade
    <2> QED BY <2>1, <2>2
  <1>11. \A a \in Actors : Answering(a)' => RowsIn'
    <2> SUFFICES ASSUME NEW a \in Actors, Answering(a)' PROVE RowsIn' OBVIOUS
    <2>1. Answering(a) BY <1>0 DEF Answering
    <2> QED BY <1>0, <1>4, <2>1, Types DEF RowsMade, RowsIn
  <1>12. row'["callee"] = "none" /\ ~blocked' => row'["caller"] \in Ringing \cup {"none"}
    <2> SUFFICES ASSUME row'["callee"] = "none", ~blocked'
                 PROVE  row'["caller"] \in Ringing \cup {"none"}
      OBVIOUS
    <2>1. row["callee"] = "none" /\ ~blocked BY <1>0, <1>4, Types
    <2>2. row["caller"] \in Ringing \cup {"none"} BY <2>1 DEF RowsMade
    <2>3. ~InviteBlocked(d) BY <1>2, <2>1
    <2>4. row'["caller"] = row["caller"] \/ row'["caller"] = "ringing"
      BY <2>3, InviteRows, Types
    <2> QED BY <2>2, <2>4 DEF Ringing
  <1> QED
    BY <1>5, <1>6, <1>8, <1>9, <1>10, <1>11, <1>12 DEF RowsMade

LEMMA InviteStep ==
    ASSUME TypeOK, NEW d \in Dialers, Clean', RowsMade, WrittenIsClosed, RingingIsOwned,
           [Next]_vars, BeginInvite(d) \/ Inviting(d) \/ InviteFails(d)
    PROVE  RowsMade' /\ WrittenIsClosed' /\ RingingIsOwned'
  <1>0. /\ UNCHANGED blocked /\ ~InviteFails(d) /\ Clean /\ d \in Actors
        /\ \A a \in Actors \ {d} : at'[a] = at[a]
        /\ ~Answering(d) /\ ~Answering(d)'
    BY InviteShape
  <1>1. RowsMade' BY InviteRowsMade
  <1>2. ASSUME NEW p \in Party, Closed(p) PROVE Closed(p)' BY <1>0, <1>2, ClosedStays
  <1>3. \A a \in Actors : Answering(a) \/ Answering(a)'
          => a # d /\ at'[a] = at[a] /\ Answering(a)
    BY <1>0 DEF Answering
  <1>4. \A t \in Timers : timer'[t] \in {"first", "second"} \/ timer[t] \in {"first", "second"}
          => timer'[t] = timer[t]
    <2>1. CASE ArmTimer(d)
      <3>1. PICK u \in Timers : timer[u] = "none" /\ timer' = [Unregistered EXCEPT ![u] = "new"]
        BY <2>1 DEF ArmTimer, NewTask, Arm
      <3> QED BY <3>1, UnregisteredTimers
    <2>2. CASE ~ArmTimer(d) BY <2>2, InviteShape
    <2> QED BY <2>1, <2>2
  <1>5. WrittenIsClosed'
    <2>1. \A t \in Timers : timer'[t] = "second" => Closed("caller")'
      BY <1>2, <1>4, Types DEF WrittenIsClosed
    <2>2. \A a \in Actors : FirstRow(a) \in Party BY DEF FirstRow, Party
    <2>3. ASSUME NEW a \in Actors, Answering(a)'
          PROVE  /\ at'[a].step = "second" => Closed(FirstRow(a))'
                 /\ at'[a].step = "cancel" /\ a \notin Clicks
                      => Closed("caller")' /\ Closed("callee")'
      <3>1. Answering(a) /\ at'[a] = at[a] BY <1>3, <2>3
      <3> QED BY <1>2, <2>2, <3>1, Types DEF WrittenIsClosed
    <2> QED BY <2>1, <2>3 DEF WrittenIsClosed
  <1>6. ASSUME NEW p \in Party, row'[p] \in Ringing PROVE Owned(p)'
    <2>1. \A b \in Actors : Writes(b, p) => Writes(b, p)'
      BY <1>0, <1>3 DEF Writes, Answering
    <2>2. \A u \in Timers : WillMark(u, p) => WillMark(u, p)'
      BY <1>4 DEF WillMark
    <2>3. ~InviteBlocked(d)
      <3>1. InviteBlocked(d) => row["callee"] = "none" BY DEF InviteBlocked, At, RowsMade
      <3> QED BY <1>6, <3>1, InviteRows DEF Party, Ringing
    <2>4. CASE row' = row
      <3>1. Owned(p) BY <1>0, <1>6, <2>4, OwnedDef
      <3>2. BothIn(Ringing \cup {"none"}) => BothIn(Ringing \cup {"none"})'
        BY <2>4 DEF BothIn
      <3>3. CASE ArmTimer(d)
        <4>1. \E t \in Timers : timer'[t] \in {"new", "asleep", "read"}
          <5>1. PICK u \in Timers : timer' = [Unregistered EXCEPT ![u] = "new"]
            BY <3>3 DEF ArmTimer, Arm
          <5> QED BY <5>1, UnregisteredTimers
        <4> QED BY <2>1, <2>2, <3>1, <3>2, <4>1 DEF Owned
      <3>4. CASE ~ArmTimer(d)
        <4>1. unarmed' \/ at'[d].verb = "invite" BY <2>3, <3>4, InviteShape
        <4> QED BY <2>1, <2>2, <3>1, <3>2, <4>1 DEF Owned
      <3> QED BY <3>3, <3>4
    <2>5. CASE row' # row
      <3>1. InsertCaller(d) \/ InsertCallee(d) BY <2>3, <2>5, InviteRows
      <3>2. at'[d].verb = "invite"
        <4>1. ~ArmTimer(d) /\ ~ArmFails(d)
          BY <3>1 DEF InsertCaller, InsertCallee, ArmTimer, ArmFails, At
        <4> QED BY <2>3, <4>1, InviteShape
      <3>3. BothIn(Ringing \cup {"none"})'
        <4>1. CASE InsertCaller(d)
          <5>1. row["caller"] = "none"
            <6>1. row["caller"] # "none" => Inserted("caller", "ringing") = row
              BY DEF Inserted
            <6>2. row' = Inserted("caller", "ringing")
              BY <4>1, Setting DEF InsertCaller, Clean
            <6> QED BY <2>5, <6>1, <6>2
          <5>2. row["callee"] = "none" BY <5>1 DEF RowsMade
          <5> QED BY <4>1, <5>1, <5>2, InviteRows DEF BothIn, Ringing, Party
        <4>2. CASE InsertCallee(d)
          <5>1. row["callee"] = "none"
            <6>1. row["callee"] # "none" => Inserted("callee", "invited") = row
              BY DEF Inserted
            <6>2. row' = Inserted("callee", "invited")
              BY <4>2, Setting DEF InsertCallee, Clean
            <6> QED BY <2>5, <6>1, <6>2
          <5>2. row["caller"] \in Ringing \cup {"none"}
            BY <4>2, <5>1 DEF RowsMade, InsertCallee, At
          <5> QED BY <4>2, <5>1, <5>2, InviteRows DEF BothIn, Ringing, Party
        <4> QED BY <3>1, <4>1, <4>2
      <3> QED BY <3>2, <3>3 DEF Owned
    <2> QED BY <2>4, <2>5
  <1> QED BY <1>1, <1>5, <1>6 DEF RingingIsOwned, Owned

\* No row is left ringing to nobody, for any number of connections, clicks and
\* retried invites: as long as no statement raises or is undone, the process
\* does not restart and no hangup overtakes the inserts of its call, every row
\* that rings has a verb, a timer or an invite ahead of it, or both rows ring and
\* the last invite to get that far has armed no timer.
THEOREM OwnedTheorem == Spec => []RingingIsOwned
  <1>1. Init => OwnedInv
    <2> SUFFICES ASSUME Init PROVE OwnedInv OBVIOUS
    <2>1. /\ \A p \in Party : row[p] = "none"
          /\ \A a \in Actors : at[a] = Idle
          /\ \A t \in Timers : timer[t] = "none"
          /\ ~rung /\ ~noted
          /\ "caller" \in Party /\ "callee" \in Party /\ Dialers \subseteq Actors
      BY DEF Init, Party, Actors
    <2>2. Idle.verb = "idle" /\ "none" \notin Ringing BY DEF Idle, Ringing
    <2>3. RowsMade /\ WrittenIsClosed
      BY <2>1, <2>2 DEF RowsMade, WrittenIsClosed, Answering
    <2>4. RingingIsOwned BY <2>1, <2>2 DEF RingingIsOwned
    <2> QED BY <2>3, <2>4 DEF OwnedInv
  <1>2. TypeOK /\ OwnedInv /\ [Next]_vars => OwnedInv'
    <2> SUFFICES ASSUME TypeOK, OwnedInv, [Next]_vars, Clean'
                 PROVE  RowsMade' /\ WrittenIsClosed' /\ RingingIsOwned'
      BY DEF OwnedInv
    <2>1. CASE Restart BY <2>1, Types DEF Restart, Fault, Clean
    <2>2. CASE UNCHANGED vars
      <3>1. RowsMade /\ WrittenIsClosed /\ RingingIsOwned
        BY <2>2 DEF OwnedInv, Clean, vars, history
      <3>2. RowsMade' /\ WrittenIsClosed'
        BY <2>2, <3>1 DEF vars, RowsMade, RowsIn, WrittenIsClosed, Closed, Answering
      <3>3. RingingIsOwned'
        BY <2>2, <3>1 DEF vars, history, RingingIsOwned, Answering, Writes, WillMark, BothIn
      <3> QED BY <3>2, <3>3
    <2>3. ASSUME NEW d \in Dialers, BeginInvite(d) \/ Inviting(d) \/ InviteFails(d)
          PROVE  RowsMade' /\ WrittenIsClosed' /\ RingingIsOwned'
      <3>1. Clean BY <2>3, InviteShape
      <3> QED BY <2>3, <3>1, InviteStep DEF OwnedInv
    <2>4. ASSUME NEW a \in Actors,
                 \/ \E verb \in {"accept", "decline", "hangup"} : Begin(a, verb)
                 \/ Answers(a) \/ AnswerFails(a)
          PROVE  RowsMade' /\ WrittenIsClosed' /\ RingingIsOwned'
      <3>1. Clean BY <2>4, AnswerShape
      <3> QED BY <2>4, <3>1, AnswerRows, AnswerWritten, AnswerOwned DEF OwnedInv
    <2>5. ASSUME NEW t \in Timers, TimerRuns(t) \/ SleepRaises(t) \/ TimerFails(t)
          PROVE  RowsMade' /\ WrittenIsClosed' /\ RingingIsOwned'
      <3>1. Clean BY <2>5, TimerShape
      <3> QED BY <2>5, <3>1, TimerStep DEF OwnedInv
    <2> QED BY <2>1, <2>2, <2>3, <2>4, <2>5 DEF Next
  <1>3. OwnedInv => RingingIsOwned BY DEF OwnedInv, RingingIsOwned, Clean
  <1> QED BY <1>1, <1>2, <1>3, Typing, PTL DEF Spec

=============================================================================
