-------------------------- MODULE MCSessionManager --------------------------
(***************************************************************************)
(* The constants of the runs of SessionManager.                            *)
(***************************************************************************)
EXTENDS SessionManager

(***************************************************************************)
(* A handler calls continue_work at most once, and it stops at the first   *)
(* of the two calls that fails.                                            *)
(***************************************************************************)
SingleFaults == {{}, {"open"}, {"create"}}


=============================================================================
