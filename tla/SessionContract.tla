-------------------------- MODULE SessionContract --------------------------
(***************************************************************************)
(* What an echo session promises to its user, the session manager: the     *)
(* effect of async_start, async_wait and async_stop as the user can see    *)
(* it, without sockets, buffers or timers.                                 *)
(*                                                                         *)
(* The state of a session is reduced to                                    *)
(*   extern    session::extern_state_                                      *)
(*   life      "running" (intern_state_ is work), "ending" (shutdown or    *)
(*             stop) or "ended" (stopped)                                  *)
(*   cause     extern_wait_error_, why it left its work                    *)
(*   waiting, stopping   whether a handler of async_wait or async_stop is  *)
(*             parked                                                      *)
(* An operation is the set of its outcomes, each one a next state and the  *)
(* replies <<operation, error>> that are posted to the user.  AbstractSession*)
(* makes a specification of them, which EchoSession implements; the model  *)
(* of the manager runs its sessions by them.                               *)
(***************************************************************************)

(***************************************************************************)
(* Why a session ends by itself, and what a wait can be told.              *)
(***************************************************************************)
EndCause == {"eof", "error", "inactivity_timeout"}
Cause    == EndCause \cup {"none", "operation_aborted"}

SessionView ==
  [extern : {"ready", "work", "stop", "stopped"},
   life : {"running", "ending", "ended"},
   cause : Cause, waiting : BOOLEAN, stopping : BOOLEAN]

FreshView == [extern |-> "ready", life |-> "running", cause |-> "none",
              waiting |-> FALSE, stopping |-> FALSE]

Outcome(view, replies) == [view |-> view, replies |-> replies]

(***************************************************************************)
(* The reply to a parked wait when the session ends with `cause'.          *)
(***************************************************************************)
WaitReply(v, cause) == IF v.waiting THEN {<<"wait", cause>>} ELSE {}

StartOutcomes(v) ==
  IF v.extern # "ready"
    THEN {Outcome(v, {<<"start", "invalid_state">>})}
    ELSE \* started
         {Outcome([v EXCEPT !.extern = "work"], {<<"start", "none">>})}
         \cup \* started, and already failing: the timer could not be set
         {Outcome([v EXCEPT !.extern = "work", !.life = "ending",
                            !.cause = "error"], {<<"start", "none">>})}
         \cup \* the options of the socket could not be set
         {Outcome([v EXCEPT !.extern = "stopped", !.life = "ended"],
                  {<<"start", "error">>})}

WaitOutcomes(v) ==
  IF v.extern # "work" \/ v.waiting
    THEN {Outcome(v, {<<"wait", "invalid_state">>})}
  ELSE IF v.life # "running"
    THEN {Outcome(v, {<<"wait", v.cause>>})}
    ELSE {Outcome([v EXCEPT !.waiting = TRUE], {})}

(***************************************************************************)
(* A stop first releases the parked wait.  It is answered at once if the   *)
(* session has ended (it may end right there, when nothing is in flight),  *)
(* and by the end of the session otherwise.                                *)
(***************************************************************************)
StopOutcomes(v) ==
  LET cause   == IF v.cause = "none" THEN "operation_aborted" ELSE v.cause
      left    == [v EXCEPT !.waiting = FALSE, !.cause = cause]
      lives   == IF v.life = "running" THEN {"ending", "ended"} ELSE {v.life}
      replies == WaitReply(v, cause)
  IN  IF v.extern \in {"stop", "stopped"}
        THEN {Outcome(v, {<<"stop", "invalid_state">>})}
        ELSE {IF life = "ended"
                THEN Outcome([left EXCEPT !.extern = "stopped", !.life = life],
                             replies \cup {<<"stop", "none">>})
                ELSE Outcome([left EXCEPT !.extern = "stop", !.life = life,
                                          !.stopping = TRUE], replies)
              : life \in lives}

(***************************************************************************)
(* What a started session may do by itself: leave its work for one of the  *)
(* causes, and end.                                                        *)
(***************************************************************************)
InternalOutcomes(v, causes) ==
  LET leaving == {Outcome([v EXCEPT !.life = life, !.cause = cause,
                                    !.waiting = FALSE], WaitReply(v, cause))
                  : life \in {"ending", "ended"}, cause \in causes}
      ended   == [v EXCEPT !.life = "ended"]
  IN  CASE v.extern = "work" /\ v.life = "running" -> leaving
        [] v.extern = "work" /\ v.life = "ending" -> {Outcome(ended, {})}
        [] v.extern = "stop" /\ v.life = "ending" ->
             {Outcome([ended EXCEPT !.extern = "stopped", !.stopping = FALSE],
                      {<<"stop", "none">>})}
        [] OTHER -> {}

(***************************************************************************)
(* The session manager keeps the same contract towards the application,    *)
(* but for its start, which fails at once or not at all, and for the end   *)
(* of its work: it leaves it only when it cannot accept any more.          *)
(***************************************************************************)
ServerStartOutcomes(v) ==
  IF v.extern # "ready"
    THEN {Outcome(v, {<<"start", "invalid_state">>})}
    ELSE {Outcome([v EXCEPT !.extern = "work"], {<<"start", "none">>}),
          Outcome([v EXCEPT !.extern = "stopped", !.life = "ended",
                            !.cause = "error"], {<<"start", "error">>})}

ServerInternalOutcomes(v) == InternalOutcomes(v, {"error"})

(***************************************************************************)
(* reset() is called for an idle session only.                             *)
(***************************************************************************)
CanReset(v) ==
  v.extern \in {"ready", "stopped"} /\ ~v.waiting /\ ~v.stopping

=============================================================================
