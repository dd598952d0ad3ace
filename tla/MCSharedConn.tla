--------------------------- MODULE MCSharedConn ----------------------------
(***************************************************************************)
(* Small instances of SharedConn for TLC: the .cfg files give the constants. *)
(***************************************************************************)
EXTENDS SharedConn
=============================================================================
