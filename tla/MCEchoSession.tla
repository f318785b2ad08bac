--------------------------- MODULE MCEchoSession ---------------------------
(***************************************************************************)
(* The constants of the runs of EchoSession.                               *)
(***************************************************************************)
EXTENDS EchoSession

(***************************************************************************)
(* No failure, each single one, and the two cancellations together, which  *)
(* is the only pair of calls that one handler can both make and survive.   *)
(***************************************************************************)
SingleFaults == {{}} \cup {{c} : c \in SystemCall}
                     \cup {{"cancel", "stop_cancel"}}

=============================================================================
