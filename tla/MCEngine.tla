------------------------------ MODULE MCEngine ------------------------------
(***************************************************************************)
(* Small instances of Engine for TLC.                                       *)
(***************************************************************************)
EXTENDS Engine

=============================================================================
