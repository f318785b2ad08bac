-------------------------- MODULE AbstractSession --------------------------
(***************************************************************************)
(* SessionContract as a specification: every session is at any moment a    *)
(* view that moved by one of the outcomes of an operation of its user, or  *)
(* by one of its own.                                                      *)
(***************************************************************************)
EXTENDS SessionContract

VARIABLE view

MovesTo(outcomes) == \E o \in outcomes : view' = o.view

Init == view = FreshView

Start    == view.extern = "ready" /\ MovesTo(StartOutcomes(view))
Wait     == MovesTo(WaitOutcomes(view))
Stop     == view.extern # "ready" /\ MovesTo(StopOutcomes(view))
Internal == MovesTo(InternalOutcomes(view, EndCause))
Reset    == CanReset(view) /\ view' = FreshView

Next == Start \/ Wait \/ Stop \/ Internal \/ Reset

Spec == Init /\ [][Next]_view

=============================================================================
