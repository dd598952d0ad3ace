------------------------------ MODULE MCJobs -------------------------------
(***************************************************************************)
(* Small instances of Jobs for TLC.                                         *)
(***************************************************************************)
EXTENDS Jobs

\* Two jobs: the later one is the more urgent, the earlier one may be tried
\* twice and the later one once.
MCJobIds      == {1, 2}
MCMaxAttempts == [j \in JobIds |-> IF j = 1 THEN 2 ELSE 1]
MCPriority    == [j \in JobIds |-> j]

=============================================================================
