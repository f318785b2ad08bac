------------------------------ MODULE QtService ------------------------------
(***************************************************************************)
(* The echo server with a Qt front end, src/ma/echo/server/qt: Service,    *)
(* which makes a server of its own threads (the servant) for each start,   *)
(* and MainForm, which calls it.  Both live in the main thread, whose      *)
(* event loop runs one slot at a time.  The threads of the servant only    *)
(* emit the signals of ServiceServantSignal, which are connected queued:   *)
(* what they tell is an event that the main thread comes to later, also    *)
(* when the servant was destroyed and another one made meanwhile, since    *)
(* to disconnect a signal takes no posted event back.                      *)
(*                                                                         *)
(* The servant behaves by the server's part of SessionContract, which      *)
(* SessionManager implements.                                              *)
(***************************************************************************)
EXTENDS SessionContract, Naturals, Sequences, FiniteSets

CONSTANTS
  MaxServants,  \* bound: how often the service is started
  WorkThreads   \* threads of a servant

ASSUME QtAssumption == MaxServants \in Nat \ {0} /\ WorkThreads \in Nat \ {0}

Operation == {"start", "wait", "stop"}

(***************************************************************************)
(* A queued event: a signal of servant number from, or of the              *)
(* ServiceForwardSignal, whose number is 0.                                *)
(***************************************************************************)
Event ==
  [from : 0..MaxServants, signal : Operation \cup {"work", "exception"},
   error : Cause \cup {"invalid_state"}]

(***************************************************************************)
(* state is state_, servant the number of the server that server_ points   *)
(* to, 0 for none, and made how many were made.  view, requests, replies   *)
(* and threads are the servant: the manager as its contract shows it, the  *)
(* posts to its strand, the handlers it has posted, and the threads that   *)
(* no exception has ended.  asked counts the starts and stops that were    *)
(* accepted and the times the service came to work; answered the signals   *)
(* that end them, of workCompleted those that the service forwards as      *)
(* aborted, and over the workCompleted signals that tell what a servant    *)
(* told.  These three are history.                                         *)
(***************************************************************************)
Service ==
  [state : {"stopped", "starting", "working", "stopping"},
   servant : 0..MaxServants, made : 0..MaxServants,
   view : SessionView, requests : Seq(Operation),
   replies : SUBSET (Operation \X (Cause \cup {"invalid_state"})),
   threads : 0..WorkThreads, events : Seq(Event),
   asked : [{"start", "stop", "work"} -> Nat],
   answered : [{"start", "stop", "work"} -> Nat], over : Nat]

(***************************************************************************)
(* The form: which of its three buttons are enabled, the state these were  *)
(* set for (prevServiceState_), and whether the statistics timer runs.     *)
(***************************************************************************)
Form ==
  [startButton : BOOLEAN, stopButton : BOOLEAN, terminateButton : BOOLEAN,
   shown : {"stopped", "starting", "working", "stopping"}, timer : BOOLEAN]

VARIABLES service, form

vars == <<service, form>>

Init ==
  /\ service =
       [state |-> "stopped", servant |-> 0, made |-> 0, view |-> FreshView,
        requests |-> << >>, replies |-> {}, threads |-> 0, events |-> << >>,
        asked |-> [start |-> 0, stop |-> 0, work |-> 0],
        answered |-> [start |-> 0, stop |-> 0, work |-> 0], over |-> 0]
  /\ form = [startButton |-> TRUE, stopButton |-> FALSE,
             terminateButton |-> FALSE, shown |-> "stopped", timer |-> FALSE]

-----------------------------------------------------------------------------
(* Service. *)

CreateServant(s) ==
  [s EXCEPT !.made = @ + 1, !.servant = s.made + 1, !.threads = WorkThreads]

\* The threads are stopped and joined, and what was posted to them is gone.
DestroyServant(s) ==
  [s EXCEPT !.servant = 0, !.view = FreshView, !.requests = << >>,
            !.replies = {}, !.threads = 0]

Ask(s, operation) == [s EXCEPT !.requests = Append(@, operation)]

\* A queued signal of forwardSignal_.
Forward(s, signal, error) ==
  [s EXCEPT !.events = Append(@, [from |-> 0, signal |-> signal, error |-> error])]

\* An accepted call, or the service that comes to work.
Accept(s, signal) == [s EXCEPT !.asked[signal] = @ + 1]

\* The signal of the service itself, which answers one of those.
Answer(s, signal) == [s EXCEPT !.answered[signal] = @ + 1]

\* workCompleted, as the servant tells it.
TellOver(s) == [s EXCEPT !.over = @ + 1]

AsyncStart(s) ==
  IF s.state # "stopped" THEN Forward(s, "start", "invalid_state")
  ELSE [Accept(Ask(CreateServant(s), "start"), "start") EXCEPT !.state = "starting"]

\* Mutant: a stop that comes while the service starts does not answer the start.
StopForgetsStart(s) ==
  IF s.state \in {"stopped", "stopping"} THEN Forward(s, "stop", "invalid_state")
  ELSE LET told == IF s.state = "starting" THEN s
                   ELSE Forward(s, "work", "operation_aborted")
       IN  [Accept(Ask(told, "stop"), "stop") EXCEPT !.state = "stopping"]

AsyncStop(s) ==
  IF s.state \in {"stopped", "stopping"} THEN Forward(s, "stop", "invalid_state")
  ELSE LET told == Forward(s, IF s.state = "starting" THEN "start" ELSE "work",
                           "operation_aborted")
       IN  [Accept(Ask(told, "stop"), "stop") EXCEPT !.state = "stopping"]

Terminate(s) ==
  LET d == DestroyServant(s)
      told == CASE s.state = "starting" -> Forward(d, "start", "operation_aborted")
                [] s.state = "working"  -> Forward(d, "work", "operation_aborted")
                [] s.state = "stopping" -> Forward(d, "stop", "operation_aborted")
                [] s.state = "stopped"  -> d
  IN  [told EXCEPT !.state = "stopped"]

\* onServantStartCompleted, in state starting.
ServantStarted(s, error) ==
  IF error # "none"
  THEN Answer([DestroyServant(s) EXCEPT !.state = "stopped"], "start")
  ELSE Answer(Accept([Ask(s, "wait") EXCEPT !.state = "working"], "work"), "start")

\* onServantStopCompleted, in state stopping.
ServantStopped(s) ==
  Answer([DestroyServant(s) EXCEPT !.state = "stopped"], "stop")

-----------------------------------------------------------------------------
(* MainForm. *)

\* Mutant: the form leaves the service as it is when its work is over.
OnlyLogsWork(s) == s

\* on_service_workCompleted: the service is stopped when its work is over.
WorkCompleted(s) == IF s.state = "working" THEN AsyncStop(s) ELSE s

\* conditionalStopStatsTimer.
ConditionalStopStatsTimer(f, s) ==
  [f EXCEPT !.timer = IF s.state = "stopped" THEN FALSE ELSE @]

\* updateWidgetsStates: the buttons change only with the state.
UpdateWidgetsStates(f, s) ==
  IF s.state = f.shown THEN f
  ELSE [f EXCEPT !.shown = s.state,
                 !.startButton = s.state = "stopped",
                 !.stopButton = s.state \in {"starting", "working"},
                 !.terminateButton = s.state # "stopped"]

\* What the slots end with.
Shows(s) ==
  /\ service' = s
  /\ form' = UpdateWidgetsStates(ConditionalStopStatsTimer(form, s), s)

ClickStart ==
  /\ form.startButton /\ service.made < MaxServants
  /\ service' = AsyncStart(service)
  /\ form' = UpdateWidgetsStates([form EXCEPT !.timer = TRUE], service')

ClickStop ==
  /\ form.stopButton
  /\ service' = AsyncStop(service)
  /\ form' = UpdateWidgetsStates(form, service')

ClickTerminate == form.terminateButton /\ Shows(Terminate(service))

-----------------------------------------------------------------------------
(* The event loop of the main thread. *)

\* The next event is a signal of a servant, and the service without it.
Comes(signal) ==
  /\ service.events # << >>
  /\ Head(service.events).signal = signal /\ Head(service.events).from # 0

Received == [service EXCEPT !.events = Tail(@)]

Ignored == service' = Received /\ UNCHANGED form

OnServantStartCompleted ==
  /\ Comes("start")
  /\ IF service.state # "starting" THEN Ignored
     ELSE Shows(ServantStarted(Received, Head(service.events).error))

\* The slot of the form asks for a stop while the service is still at work, so
\* that asyncStop forwards workCompleted another time, as aborted.
OnServantWaitCompleted ==
  /\ Comes("wait")
  /\ IF service.state # "working" THEN Ignored
     ELSE Shows(WorkCompleted(TellOver(Received)))

OnServantStopCompleted ==
  /\ Comes("stop")
  /\ IF service.state # "stopping" THEN Ignored
     ELSE Shows(ServantStopped(Received))

\* The form terminates the service.
OnServantWorkThreadException ==
  /\ Comes("exception")
  /\ IF service.state = "stopped" THEN Ignored
     ELSE Shows(Terminate(Received))

\* A signal of forwardSignal_ is the signal of the service.
OnForwarded ==
  /\ service.events # << >> /\ Head(service.events).from = 0
  /\ LET signal == Head(service.events).signal
         s == IF Head(service.events).error = "invalid_state" THEN Received
              ELSE Answer(Received, signal)
     IN  Shows(IF signal = "work" THEN WorkCompleted(s) ELSE s)

-----------------------------------------------------------------------------
(* The threads of the servant. *)

Running == service.servant # 0 /\ service.threads > 0

Becomes(o) ==
  /\ service' = [service EXCEPT !.view = o.view, !.replies = @ \cup o.replies]
  /\ UNCHANGED form

\* The next request on the strand of the session manager.
ServerRuns ==
  /\ Running /\ service.requests # << >>
  /\ LET v == service.view
         request == Head(service.requests)
     IN  \E o \in CASE request = "start" -> ServerStartOutcomes(v)
                    [] request = "wait"  -> WaitOutcomes(v)
                    [] request = "stop"  -> StopOutcomes(v) :
           service' = [service EXCEPT !.view = o.view, !.requests = Tail(@),
                                      !.replies = @ \cup o.replies]
  /\ UNCHANGED form

\* The server leaves its work by itself, or its stop comes to an end.
ServerLeavesWork ==
  /\ Running /\ service.view.extern = "work"
  /\ \E o \in ServerInternalOutcomes(service.view) : Becomes(o)

ServerEndsStop ==
  /\ Running /\ service.view.extern = "stop"
  /\ \E o \in ServerInternalOutcomes(service.view) : Becomes(o)

Posted(s, signal, error) ==
  [s EXCEPT !.events = Append(@, [from |-> s.servant, signal |-> signal,
                                  error |-> error])]

\* A handler is run: emitStartCompleted, emitWaitCompleted, emitStopCompleted.
EmitCompleted ==
  /\ Running
  /\ \E reply \in service.replies :
       service' = Posted([service EXCEPT !.replies = @ \ {reply}],
                         reply[1], reply[2])
  /\ UNCHANGED form

\* An exception ends a thread; the handler it left may not have been run.
WorkThreadFails ==
  /\ Running
  /\ \E lost \in {{}} \cup {{reply} : reply \in service.replies} :
       service' = Posted([service EXCEPT !.replies = @ \ lost, !.threads = @ - 1],
                         "exception", "none")
  /\ UNCHANGED form

-----------------------------------------------------------------------------
Loop ==
  \/ OnServantStartCompleted \/ OnServantWaitCompleted
  \/ OnServantStopCompleted \/ OnServantWorkThreadException \/ OnForwarded

Next ==
  \/ ClickStart \/ ClickStop \/ ClickTerminate \/ Loop
  \/ ServerRuns \/ ServerLeavesWork \/ ServerEndsStop
  \/ EmitCompleted \/ WorkThreadFails

Spec == Init /\ [][Next]_vars

(***************************************************************************)
(* The event loop runs, the threads of the servant do, and a server that   *)
(* was asked to stop ends.  Nothing is assumed of the user.                *)
(***************************************************************************)
FairSpec ==
  /\ Spec /\ WF_vars(Loop)
  /\ WF_vars(ServerRuns) /\ WF_vars(EmitCompleted) /\ WF_vars(ServerEndsStop)

-----------------------------------------------------------------------------
(***************************************************************************)
(* Properties.                                                             *)
(***************************************************************************)

TypeOK == service \in Service /\ form \in Form

Forwarded(signal) ==
  Cardinality({i \in DOMAIN service.events :
                 /\ service.events[i].from = 0
                 /\ service.events[i].signal = signal})

Pending(signal, state) ==
  Forwarded(signal) + IF service.state = state THEN 1 ELSE 0

\* Each start and each stop is answered once, by the servant or as aborted,
\* whatever a stop, a terminate or a signal of an earlier servant comes between;
\* and none is refused, since the form never calls the service in a state that
\* does not allow it.  A time of work is answered by the service once, as
\* aborted, even when a servant told that it is over and workCompleted with
\* its error went before: that way work is answered twice.  Of these signals
\* of the servants there are never more than times of work that have ended.
\* There is a server in every state but stopped: server_ is not null where
\* asyncStop uses it, and the timer that reads its statistics runs as long.
EveryCallAnswered ==
  /\ TypeOK
  /\ (service.servant # 0) = (service.state # "stopped")
  /\ form.timer = (service.state # "stopped")
  /\ service.asked.start = service.answered.start + Pending("start", "starting")
  /\ service.asked.stop = service.answered.stop + Pending("stop", "stopping")
  /\ service.asked.work = service.answered.work + Pending("work", "working")
  /\ service.over + (IF service.state = "working" THEN 1 ELSE 0) <= service.asked.work
  /\ \A i \in DOMAIN service.events :
       service.events[i].from = 0 => service.events[i].error = "operation_aborted"

(***************************************************************************)
(* A server that could not start, or that left its work by itself, does    *)
(* not stay: the service is stopped without the help of the user, even if  *)
(* it took the answer of an earlier servant for that of this one, and even *)
(* if the handler that was to tell was lost with its thread.               *)
(***************************************************************************)
StopsWhenOver ==
  service.servant # 0 /\ service.view.life # "running" ~> service.state = "stopped"
=============================================================================
