-------------------------- MODULE MCStandingTasks ---------------------------
(***************************************************************************)
(* A small instance of StandingTasks for TLC: the owner's one-shot, and two  *)
(* tasks of a guest: a deadline, and one that never gets to its end.         *)
(***************************************************************************)
EXTENDS StandingTasks

CONSTANTS briefing, stuck, deadline, owner, guest

MCTasks    == {briefing, stuck, deadline}
MCUserOf   == [t \in Tasks |-> IF t = briefing THEN owner ELSE guest]
MCOutcomes == [t \in Tasks |-> IF t = stuck THEN {"fails", "hangs"} ELSE {"returns"}]

=============================================================================
