--------------------------- MODULE AbstractServer ---------------------------
(***************************************************************************)
(* What the session manager promises to its user, the application, as a    *)
(* specification: the operations of SessionContract for a server.          *)
(***************************************************************************)
EXTENDS SessionContract

VARIABLE view

MovesTo(outcomes) == \E o \in outcomes : view' = o.view

Init == view = FreshView

Start    == view.extern = "ready" /\ MovesTo(ServerStartOutcomes(view))
Wait     == MovesTo(WaitOutcomes(view))
Stop     == MovesTo(StopOutcomes(view))
Internal == MovesTo(ServerInternalOutcomes(view))
Reset    == CanReset(view) /\ view' = FreshView

Next == Start \/ Wait \/ Stop \/ Internal \/ Reset

Spec == Init /\ [][Next]_view

=============================================================================
