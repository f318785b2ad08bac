----------------------------- MODULE ServerMain -----------------------------
(***************************************************************************)
(* run_server of the echo server (src/echo_server/main.cpp): the main      *)
(* thread, which starts a server, waits until it stops and ends the        *)
(* process; the handlers of the server, which run on the work threads; and *)
(* the handler of Ctrl+C, which runs on the thread of the console guard.   *)
(* They share server_state, a mutex and a condition variable.  A handler   *)
(* holds the mutex from its first to its last line, so it is one action.   *)
(*                                                                         *)
(* The server (the session manager) behaves by its part of SessionContract,*)
(* which SessionManager implements.                                        *)
(***************************************************************************)
EXTENDS SessionContract, Naturals, Sequences

CONSTANTS
  MaxSignals,   \* bound of the model: how often Ctrl+C is pressed
  WorkThreads,  \* session_manager_thread_count and session_thread_count
  Spurious      \* TRUE: the condition variable may wake up by itself

ASSUME ServerMainAssumption ==
  /\ MaxSignals \in Nat
  /\ WorkThreads \in Nat \ {0}
  /\ Spurious \in BOOLEAN

(***************************************************************************)
(* value and userInitiated are server_state.  main is where the main       *)
(* thread is: asleep in one of the two waits, or before the code of that   *)
(* name.  requests are the posts to the strand of the manager, replies the *)
(* handlers posted to its threads; view is the server as SessionContract   *)
(* sees it.  threads counts the work threads that no exception has ended.  *)
(* asked counts the operations that were asked of the server, and woken    *)
(* says what ended the wait for its stop; both are history.                *)
(***************************************************************************)
VARIABLES
  value, userInitiated, main, exitCode, view,
  requests, replies, threads, signals, asked, woken

serverVars == <<view, requests, replies>>
vars == <<value, userInitiated, main, exitCode, view, requests, replies,
          threads, signals, asked, woken>>

Operation == {"start", "wait", "stop"}

-----------------------------------------------------------------------------
(* Building blocks of the handlers. *)

Ask(op) ==
  /\ requests' = Append(requests, op)
  /\ asked' = [asked EXCEPT ![op] = @ + 1]

AskNothing == UNCHANGED <<requests, asked>>

\* Mutant: switch_to_* without notify_all.
NotifyNobody == UNCHANGED <<main, woken>>

(***************************************************************************)
(* notify_all: a sleeping main thread goes on, in the first wait to look   *)
(* at the value again, in the second to return true.                       *)
(***************************************************************************)
NotifyAll ==
  /\ main' = CASE main = "asleep_stopping" -> "wait_stopping"
               [] main = "asleep_stopped"  -> "exit"
               [] OTHER -> main
  /\ woken' = IF main = "asleep_stopped" THEN "stopped" ELSE woken

SwitchTo(v) == value' = v /\ NotifyAll

Ignore == UNCHANGED <<value, main, woken, requests, asked, userInitiated>>

-----------------------------------------------------------------------------
(* The handlers. *)

(***************************************************************************)
(* handle_app_exit: the first Ctrl+C asks the server to stop, the second   *)
(* terminates it.                                                          *)
(***************************************************************************)
HandleAppExit ==
  CASE value = "stopped" -> Ignore
    [] value = "stopping" ->
         SwitchTo("stopped") /\ AskNothing /\ UNCHANGED userInitiated
    [] OTHER ->
         SwitchTo("stopping") /\ Ask("stop") /\ userInitiated' = TRUE

\* Mutant: handle_server_start does not know that it may be late.
NeverLate(error) ==
  /\ UNCHANGED userInitiated
  /\ IF error # "none" THEN SwitchTo("stopped") /\ AskNothing
                       ELSE SwitchTo("working") /\ Ask("wait")

\* Mutant: the end of the server's work is not waited for.
WaitsForNothing(error) ==
  IF value # "starting" THEN Ignore
  ELSE /\ UNCHANGED userInitiated
       /\ IF error # "none" THEN SwitchTo("stopped") /\ AskNothing
                            ELSE SwitchTo("working") /\ AskNothing

(***************************************************************************)
(* handle_server_start: too late if the user was faster.                   *)
(***************************************************************************)
HandleServerStart(error) ==
  IF value # "starting" THEN Ignore
  ELSE /\ UNCHANGED userInitiated
       /\ IF error # "none" THEN SwitchTo("stopped") /\ AskNothing
                            ELSE SwitchTo("working") /\ Ask("wait")

\* Mutant: handle_server_wait asks for a stop in every state.
AlwaysStops == SwitchTo("stopping") /\ Ask("stop") /\ userInitiated' = FALSE

(***************************************************************************)
(* handle_server_wait: the server cannot go on by itself.                  *)
(***************************************************************************)
HandleServerWait ==
  IF value # "working" THEN Ignore
  ELSE SwitchTo("stopping") /\ Ask("stop") /\ userInitiated' = FALSE

HandleServerStop ==
  SwitchTo("stopped") /\ AskNothing /\ UNCHANGED userInitiated

HandleWorkThreadException ==
  IF value = "stopped" THEN Ignore
  ELSE SwitchTo("stopped") /\ AskNothing /\ UNCHANGED userInitiated

-----------------------------------------------------------------------------
(* The steps. *)

(***************************************************************************)
(* The server was constructed and async_start was called.                  *)
(***************************************************************************)
Init ==
  /\ value = "starting" /\ userInitiated = FALSE
  /\ main = "wait_stopping" /\ exitCode = "none"
  /\ view = FreshView /\ requests = <<"start">> /\ replies = {}
  /\ threads = WorkThreads
  /\ signals = 0
  /\ asked = [op \in Operation |-> IF op = "start" THEN 1 ELSE 0]
  /\ woken = "none"

(***************************************************************************)
(* Ctrl+C; the guard watches for it until the process ends.                *)
(***************************************************************************)
Signal ==
  /\ signals < MaxSignals /\ main # "done"
  /\ signals' = signals + 1
  /\ HandleAppExit
  /\ UNCHANGED <<exitCode, view, replies, threads>>

\* Some work thread is in io_service::run.
Running == threads > 0 /\ main # "done"

(***************************************************************************)
(* A work thread runs the next request on the strand of the manager, or    *)
(* the server moves by itself.                                             *)
(***************************************************************************)
ServerRuns ==
  /\ Running /\ requests # <<>>
  /\ \E o \in CASE Head(requests) = "start" -> ServerStartOutcomes(view)
                [] Head(requests) = "wait"  -> WaitOutcomes(view)
                [] Head(requests) = "stop"  -> StopOutcomes(view) :
       view' = o.view /\ replies' = replies \cup o.replies
  /\ requests' = Tail(requests)
  /\ UNCHANGED <<value, userInitiated, main, exitCode, threads, signals, asked,
                 woken>>

ServerInternal ==
  /\ Running
  /\ \E o \in ServerInternalOutcomes(view) :
       view' = o.view /\ replies' = replies \cup o.replies
  /\ UNCHANGED <<value, userInitiated, main, exitCode, requests, threads,
                 signals, asked, woken>>

(***************************************************************************)
(* A work thread runs a handler of the application.                        *)
(***************************************************************************)
Deliver ==
  /\ Running
  /\ \E reply \in replies :
       /\ replies' = replies \ {reply}
       /\ CASE reply[1] = "start" -> HandleServerStart(reply[2])
            [] reply[1] = "wait"  -> HandleServerWait
            [] reply[1] = "stop"  -> HandleServerStop
  /\ UNCHANGED <<exitCode, view, threads, signals>>

\* Mutant: a thread that has ended fails once more.
EndsTwice ==
  /\ main # "done"
  /\ threads' = threads - 1
  /\ HandleWorkThreadException
  /\ UNCHANGED <<exitCode, view, replies, signals>>

(***************************************************************************)
(* An exception leaves some handler of a work thread and ends it; what the *)
(* handler was to do, it may not have done.                                *)
(***************************************************************************)
WorkThreadFails ==
  /\ Running
  /\ threads' = threads - 1
  /\ HandleWorkThreadException
  /\ \E lost \in {{}} \cup {{reply} : reply \in replies} :
       replies' = replies \ lost
  /\ UNCHANGED <<exitCode, view, signals>>

(***************************************************************************)
(* wait_until_server_stopping looks at the value before each sleep.        *)
(***************************************************************************)
WaitStopping ==
  /\ main = "wait_stopping"
  /\ main' = IF value \in {"stopping", "stopped"} THEN "wait_stopped"
                                                  ELSE "asleep_stopping"
  /\ UNCHANGED <<value, userInitiated, exitCode, serverVars, threads, signals,
                 asked, woken>>

(***************************************************************************)
(* wait_until_server_stopped looks at it once, and sleeps once.            *)
(***************************************************************************)
WaitStopped ==
  /\ main = "wait_stopped"
  /\ main' = IF value = "stopped" THEN "exit" ELSE "asleep_stopped"
  /\ UNCHANGED <<value, userInitiated, exitCode, serverVars, threads, signals,
                 asked, woken>>

(***************************************************************************)
(* stop_timeout has expired.                                               *)
(***************************************************************************)
TimedOut ==
  /\ main = "asleep_stopped"
  /\ main' = "exit" /\ woken' = "timed_out" /\ exitCode' = "failure"
  /\ UNCHANGED <<value, userInitiated, serverVars, threads, signals, asked>>

(***************************************************************************)
(* A condition variable may wake up without a notification.                *)
(***************************************************************************)
WakesSpuriously ==
  /\ Spurious
  /\ main \in {"asleep_stopping", "asleep_stopped"}
  /\ main' = IF main = "asleep_stopping" THEN "wait_stopping" ELSE "exit"
  /\ woken' = IF main = "asleep_stopped" THEN "spurious" ELSE woken
  /\ UNCHANGED <<value, userInitiated, exitCode, serverVars, threads, signals,
                 asked>>

\* Mutant: the reason of the stop is not asked for.
IgnoresReason ==
  /\ main = "exit"
  /\ main' = "stop_threads"
  /\ exitCode' = IF exitCode = "failure" THEN "failure" ELSE "success"
  /\ UNCHANGED <<value, userInitiated, serverVars, threads, signals, asked,
                 woken>>

(***************************************************************************)
(* The exit code tells the reason of the stop.                             *)
(***************************************************************************)
ChooseExitCode ==
  /\ main = "exit"
  /\ main' = "stop_threads"
  /\ exitCode' = IF exitCode = "failure" \/ ~userInitiated THEN "failure"
                                                           ELSE "success"
  /\ UNCHANGED <<value, userInitiated, serverVars, threads, signals, asked,
                 woken>>

(***************************************************************************)
(* stop_threads: the io_services are stopped and the threads joined.       *)
(***************************************************************************)
StopThreads ==
  /\ main = "stop_threads"
  /\ main' = "done"
  /\ UNCHANGED <<value, userInitiated, exitCode, serverVars, threads, signals,
                 asked, woken>>

Main == WaitStopping \/ WaitStopped \/ ChooseExitCode \/ StopThreads

Next ==
  \/ Signal \/ ServerRuns \/ ServerInternal \/ Deliver \/ WorkThreadFails
  \/ TimedOut \/ WakesSpuriously \/ Main

Spec == Init /\ [][Next]_vars

-----------------------------------------------------------------------------
(* Safety. *)

TypeOK ==
  /\ value \in {"starting", "working", "stopping", "stopped"}
  /\ userInitiated \in BOOLEAN
  /\ main \in {"wait_stopping", "asleep_stopping", "wait_stopped",
              "asleep_stopped", "exit", "stop_threads", "done"}
  /\ exitCode \in {"none", "success", "failure"}
  /\ view \in SessionView
  /\ requests \in Seq(Operation)
  /\ replies \in SUBSET (Operation \X (Cause \cup {"invalid_state"}))
  /\ threads \in 0 .. WorkThreads /\ signals \in 0 .. MaxSignals
  /\ asked \in [Operation -> Nat]
  /\ woken \in {"none", "stopped", "timed_out", "spurious"}

(***************************************************************************)
(* server_state::value goes one way, whichever of Ctrl+C, the handlers of  *)
(* the server and a failing thread comes first and however late the others *)
(* are: the main thread, which was told that the server is stopping, never *)
(* has the server working again.  And once the server is stopping, whose   *)
(* decision that was is not changed any more.                              *)
(***************************************************************************)
Later ==
  [starting |-> {"working", "stopping", "stopped"},
   working |-> {"stopping", "stopped"},
   stopping |-> {"stopped"}, stopped |-> {}]

StateOnlyAdvances ==
  [][/\ value' # value => value' \in Later[value]
     /\ value \in {"stopping", "stopped"} => userInitiated' = userInitiated
    ]_vars

(***************************************************************************)
(* Ctrl+C and the end of the server's work race for its stop: it is asked  *)
(* for at most once, and neither of the operations the application asks of *)
(* the server is refused.  The one exception is the stop of a server that  *)
(* has failed to start in the meantime.                                    *)
(***************************************************************************)
ServerAskedInTurn ==
  /\ \A op \in Operation : asked[op] <= 1
  /\ asked["stop"] = 0 => value # "stopping"
  /\ <<"wait", "invalid_state">> \notin replies
  /\ <<"stop", "invalid_state">> \in replies =>
       view.cause = "error" /\ asked["wait"] = 0

(***************************************************************************)
(* The main thread sleeps only as long as there is something to wait for:  *)
(* no notification is lost between its look at the value and its sleep.    *)
(***************************************************************************)
SleepsWithReason ==
  /\ main = "asleep_stopping" => value \in {"starting", "working"}
  /\ main = "asleep_stopped"  => value = "stopping"

(***************************************************************************)
(* The exit code of the process: success says that the user has stopped    *)
(* the server and that the main thread did not wait in vain, failure that  *)
(* the server could not start or go on, or did not stop in time.  The one  *)
(* success that says nothing of the server is that of a main thread that   *)
(* woke up by itself, which wait_until_server_stopped takes for the stop.  *)
(***************************************************************************)
ExitTellsWhy ==
  main \in {"stop_threads", "done"} =>
    IF exitCode = "success"
      THEN /\ userInitiated /\ signals > 0 /\ asked["stop"] = 1
           /\ value = "stopped" \/ woken = "spurious"
      ELSE \/ woken = "timed_out"
           \/ ~userInitiated /\ (view.life # "running" \/ threads < WorkThreads)

-----------------------------------------------------------------------------
(* Liveness. *)

(***************************************************************************)
(* The main thread and the work threads are scheduled, and the timeout of  *)
(* the wait for the stop expires.                                          *)
(***************************************************************************)
Fairness ==
  /\ WF_vars(Main) /\ WF_vars(TimedOut)
  /\ WF_vars(ServerRuns) /\ WF_vars(Deliver)

FairSpec == Spec /\ Fairness

(***************************************************************************)
(* The process ends: once the user has pressed Ctrl+C, whatever the server *)
(* does then, and once the server has failed to start or has left its work *)
(* by itself, whoever was told of it first.                                *)
(***************************************************************************)
AppExits == signals > 0 \/ view.life # "running" ~> main = "done"

=============================================================================
