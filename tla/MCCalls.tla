------------------------------ MODULE MCCalls ------------------------------
(***************************************************************************)
(* A small instance of Calls for TLC: two connections of the caller, one tab *)
(* of the callee and one request for the notification's button; the caller  *)
(* may retry, on either connection.  Two verbs make every race of a verb     *)
(* with another, with the timer and with an invite.                         *)
(***************************************************************************)
EXTENDS Calls

=============================================================================
