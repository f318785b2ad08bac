-------------------------- MODULE ServerMainProofs --------------------------
(***************************************************************************)
(* The theorems about the application: however often Ctrl+C is pressed and *)
(* however many work threads fail, server_state::value only advances, the  *)
(* main thread is never left asleep with nothing to wake it, each operation*)
(* of the server is asked for once and in turn, and the exit code tells why*)
(* the process has ended.                                                  *)
(***************************************************************************)
EXTENDS ServerMain, Integers, TLAPS

Reply == Operation \X (Cause \cup {"invalid_state"})

(***************************************************************************)
(* SleepsWithReason is not inductive: that the second sleep begins with a  *)
(* server that is stopping rests on the first wait having seen it, and on  *)
(* the value not going back since then.                                    *)
(***************************************************************************)
SeenStopping ==
  main \in {"wait_stopped", "asleep_stopped"} => value \in {"stopping", "stopped"}

IInv == TypeOK /\ SleepsWithReason /\ SeenStopping

-----------------------------------------------------------------------------
(* The contract of the server. *)

(***************************************************************************)
(* Every operation of the server leads to a view, and replies to what it   *)
(* was asked for.                                                          *)
(***************************************************************************)
OutcomeOK(o) == o.view \in SessionView /\ o.replies \subseteq Reply

LEMMA StartTyped ==
  ASSUME NEW v \in SessionView, NEW o \in ServerStartOutcomes(v)
  PROVE  OutcomeOK(o)
  <1>1. {<<"start", "invalid_state">>, <<"start", "none">>,
         <<"start", "error">>} \subseteq Reply
    BY DEF Reply, Operation, Cause, EndCause
  <1>2. /\ [v EXCEPT !.extern = "work"] \in SessionView
        /\ [v EXCEPT !.extern = "stopped", !.life = "ended",
                     !.cause = "error"] \in SessionView
    BY DEF SessionView, Cause, EndCause
  <1> QED
    BY <1>1, <1>2 DEF ServerStartOutcomes, OutcomeOK, Outcome

LEMMA WaitTyped ==
  ASSUME NEW v \in SessionView, NEW o \in WaitOutcomes(v)
  PROVE  OutcomeOK(o)
  <1>1. {<<"wait", "invalid_state">>, <<"wait", v.cause>>} \subseteq Reply
    BY DEF Reply, Operation, SessionView
  <1>2. [v EXCEPT !.waiting = TRUE] \in SessionView
    BY DEF SessionView
  <1>3. \A view1 \in SessionView, replies1 \in SUBSET Reply :
          OutcomeOK(Outcome(view1, replies1))
    BY DEF OutcomeOK, Outcome
  <1>4. CASE v.extern # "work" \/ v.waiting
    BY <1>1, <1>3, <1>4 DEF WaitOutcomes
  <1>5. CASE v.extern = "work" /\ ~v.waiting /\ v.life # "running"
    BY <1>1, <1>3, <1>5 DEF WaitOutcomes
  <1>6. CASE v.extern = "work" /\ ~v.waiting /\ v.life = "running"
    BY <1>2, <1>3, <1>6 DEF WaitOutcomes
  <1> QED BY <1>4, <1>5, <1>6

LEMMA WaitReplyTyped ==
  ASSUME NEW v \in SessionView, NEW cause \in Cause
  PROVE  WaitReply(v, cause) \subseteq Reply
  BY SMTT(30) DEF WaitReply, Reply, Operation

LEMMA StopTyped ==
  ASSUME NEW v \in SessionView, NEW o \in StopOutcomes(v)
  PROVE  OutcomeOK(o)
  <1> DEFINE cause == IF v.cause = "none" THEN "operation_aborted" ELSE v.cause
             lives == IF v.life = "running" THEN {"ending", "ended"}
                                            ELSE {v.life}
  <1>1. cause \in Cause /\ lives \subseteq {"running", "ending", "ended"}
    BY DEF SessionView, Cause
  <1>2. WaitReply(v, cause) \subseteq Reply
    BY <1>1, WaitReplyTyped
  <1>3. {<<"stop", "invalid_state">>, <<"stop", "none">>} \subseteq Reply
    BY DEF Reply, Operation, Cause
  <1>4. CASE v.extern \in {"stop", "stopped"}
    BY <1>3, <1>4 DEF StopOutcomes, OutcomeOK, Outcome
  <1>5. CASE v.extern \notin {"stop", "stopped"}
    <2>1. PICK life \in lives :
            o = IF life = "ended"
                  THEN Outcome([v EXCEPT !.waiting = FALSE, !.cause = cause,
                                         !.extern = "stopped", !.life = life],
                               WaitReply(v, cause) \cup {<<"stop", "none">>})
                  ELSE Outcome([v EXCEPT !.waiting = FALSE, !.cause = cause,
                                         !.extern = "stop", !.life = life,
                                         !.stopping = TRUE],
                               WaitReply(v, cause))
      BY <1>5 DEF StopOutcomes, Outcome, SessionView
    <2> QED
      BY <1>1, <1>2, <1>3, <2>1 DEF OutcomeOK, Outcome, SessionView
  <1> QED BY <1>4, <1>5

LEMMA InternalTyped ==
  ASSUME NEW v \in SessionView, NEW o \in ServerInternalOutcomes(v)
  PROVE  OutcomeOK(o)
  <1>1. WaitReply(v, "error") \subseteq Reply
    BY WaitReplyTyped DEF Cause, EndCause
  <1>2. {<<"stop", "none">>} \subseteq Reply
    BY DEF Reply, Operation, Cause
  <1>3. CASE v.extern = "work" /\ v.life = "running"
    <2>1. PICK life \in {"ending", "ended"} :
            o = Outcome([v EXCEPT !.life = life, !.cause = "error",
                                  !.waiting = FALSE], WaitReply(v, "error"))
      BY <1>3 DEF ServerInternalOutcomes, InternalOutcomes
    <2>2. [v EXCEPT !.life = life, !.cause = "error", !.waiting = FALSE]
            \in SessionView
      BY DEF SessionView, Cause, EndCause
    <2> QED BY <1>1, <2>1, <2>2 DEF OutcomeOK, Outcome
  <1>4. CASE v.extern = "work" /\ v.life = "ending"
    <2>1. o = Outcome([v EXCEPT !.life = "ended"], {})
      BY <1>4 DEF ServerInternalOutcomes, InternalOutcomes
    <2> QED BY <2>1 DEF OutcomeOK, Outcome, SessionView
  <1>5. CASE v.extern = "stop" /\ v.life = "ending"
    <2>1. o = Outcome([[v EXCEPT !.life = "ended"] EXCEPT
                         !.extern = "stopped", !.stopping = FALSE],
                      {<<"stop", "none">>})
      BY <1>5 DEF ServerInternalOutcomes, InternalOutcomes
    <2> QED BY <1>2, <2>1 DEF OutcomeOK, Outcome, SessionView
  <1> QED
    BY <1>3, <1>4, <1>5 DEF ServerInternalOutcomes, InternalOutcomes

-----------------------------------------------------------------------------
(* The handlers. *)

(***************************************************************************)
(* What a handler of the application may do to the shared state, and what  *)
(* that means for the main thread.                                         *)
(***************************************************************************)
HandlerStep ==
  /\ value' \in Later[value] \cup {value}
  /\ (value' = value /\ UNCHANGED <<main, woken>>) \/ NotifyAll
  /\ AskNothing \/ Ask("wait") \/ Ask("stop")
  /\ userInitiated' \in BOOLEAN
  /\ value \in {"stopping", "stopped"} => userInitiated' = userInitiated

LEMMA HandlersStep ==
  ASSUME IInv, NEW error,
         HandleAppExit \/ HandleServerStart(error) \/ HandleServerWait
           \/ HandleServerStop \/ HandleWorkThreadException
  PROVE  HandlerStep
  <1> USE DEF HandlerStep, Later, SwitchTo, Ignore, AskNothing
  <1>0. /\ value \in {"starting", "working", "stopping", "stopped"}
        /\ userInitiated \in BOOLEAN
    BY DEF IInv, TypeOK
  <1>1. CASE HandleAppExit
    <2>1. CASE value = "stopped"
      BY <1>0, <1>1, <2>1 DEF HandleAppExit
    <2>2. CASE value = "stopping"
      BY <1>0, <1>1, <2>2 DEF HandleAppExit
    <2>3. CASE value \in {"starting", "working"}
      <3>1. SwitchTo("stopping") /\ Ask("stop") /\ userInitiated' = TRUE
        BY <1>1, <2>3, Zenon DEF HandleAppExit
      <3>2. value' \in Later[value] \cup {value}
        BY <2>3, <3>1
      <3>3. value \notin {"stopping", "stopped"}
        BY <2>3
      <3> QED BY <3>1, <3>2, <3>3, Zenon
    <2> QED BY <1>0, <2>1, <2>2, <2>3
  <1>2. CASE HandleServerStart(error)
    <2>1. CASE value # "starting"
      BY <1>0, <1>2, <2>1 DEF HandleServerStart
    <2>2. CASE value = "starting" /\ error # "none"
      BY <1>0, <1>2, <2>2 DEF HandleServerStart
    <2>3. CASE value = "starting" /\ error = "none"
      <3>1. SwitchTo("working") /\ Ask("wait") /\ UNCHANGED userInitiated
        BY <1>2, <2>3 DEF HandleServerStart
      <3>2. value' \in Later[value] \cup {value}
        BY <2>3, <3>1
      <3>3. userInitiated' \in BOOLEAN
        BY <1>0, <3>1
      <3> QED BY <3>1, <3>2, <3>3, Zenon
    <2> QED BY <2>1, <2>2, <2>3
  <1>3. CASE HandleServerWait
    <2>1. CASE value # "working"
      BY <1>0, <1>3, <2>1 DEF HandleServerWait
    <2>2. CASE value = "working"
      <3>1. SwitchTo("stopping") /\ Ask("stop") /\ userInitiated' = FALSE
        BY <1>3, <2>2 DEF HandleServerWait
      <3>2. value' \in Later[value] \cup {value}
        BY <2>2, <3>1
      <3>3. value \notin {"stopping", "stopped"}
        BY <2>2
      <3> QED BY <3>1, <3>2, <3>3, Zenon
    <2> QED BY <2>1, <2>2
  <1>4. CASE HandleServerStop
    BY <1>0, <1>4 DEF HandleServerStop
  <1>5. CASE HandleWorkThreadException
    BY <1>0, <1>5 DEF HandleWorkThreadException
  <1> QED BY <1>1, <1>2, <1>3, <1>4, <1>5

(***************************************************************************)
(* The part of the invariant that the handlers can disturb, and its        *)
(* preservation by them.                                                   *)
(***************************************************************************)
SharedOK ==
  /\ value \in {"starting", "working", "stopping", "stopped"}
  /\ userInitiated \in BOOLEAN
  /\ main \in {"wait_stopping", "asleep_stopping", "wait_stopped",
              "asleep_stopped", "exit", "stop_threads", "done"}
  /\ requests \in Seq(Operation)
  /\ asked \in [Operation -> Nat]
  /\ woken \in {"none", "stopped", "timed_out", "spurious"}
  /\ SleepsWithReason /\ SeenStopping

RestOK ==
  /\ exitCode \in {"none", "success", "failure"}
  /\ view \in SessionView
  /\ replies \in SUBSET Reply
  /\ threads \in 0 .. WorkThreads /\ signals \in 0 .. MaxSignals

LEMMA Parts == IInv <=> SharedOK /\ RestOK
  BY DEF IInv, SharedOK, RestOK, TypeOK, Reply

LEMMA PartsNext == IInv' <=> SharedOK' /\ RestOK'
  BY DEF IInv, SharedOK, RestOK, TypeOK, Reply

LEMMA HandlersKeepShared ==
  ASSUME SharedOK, HandlerStep
  PROVE  SharedOK'
  <1>1. value' \in {"starting", "working", "stopping", "stopped"}
    BY DEF SharedOK, HandlerStep, Later
  <1>2. /\ requests' \in Seq(Operation)
        /\ asked' \in [Operation -> Nat]
    <2>1. CASE AskNothing
      BY <2>1 DEF SharedOK, AskNothing
    <2>2. ASSUME NEW op \in Operation, Ask(op)
          PROVE  /\ requests' \in Seq(Operation)
                 /\ asked' \in [Operation -> Nat]
      <3>1. requests' \in Seq(Operation)
        BY <2>2 DEF SharedOK, Ask
      <3>2. asked' \in [Operation -> Nat]
        BY <2>2 DEF SharedOK, Ask
      <3> QED BY <3>1, <3>2
    <2>3. "wait" \in Operation /\ "stop" \in Operation
      BY DEF Operation
    <2> QED BY <2>1, <2>2, <2>3, Zenon DEF HandlerStep
  <1>3. CASE value' = value /\ UNCHANGED <<main, woken>>
    BY <1>1, <1>2, <1>3 DEF SharedOK, HandlerStep, SleepsWithReason, SeenStopping
  <1>4. CASE NotifyAll
    <2>1. /\ main' \in {"wait_stopping", "wait_stopped", "exit",
                        "stop_threads", "done"}
          /\ main' = "wait_stopped" => main = "wait_stopped"
          /\ woken' \in {"none", "stopped", "timed_out", "spurious"}
      BY <1>4 DEF SharedOK, NotifyAll
    <2>2. value \in {"stopping", "stopped"} => value' \in {"stopping", "stopped"}
      BY DEF SharedOK, HandlerStep, Later
    <2> QED
      BY <1>1, <1>2, <2>1, <2>2
      DEF SharedOK, HandlerStep, SleepsWithReason, SeenStopping
  <1> QED BY <1>3, <1>4 DEF HandlerStep

LEMMA QuietKeepsShared ==
  ASSUME SharedOK,
         UNCHANGED <<value, userInitiated, main, requests, asked, woken>>
  PROVE  SharedOK'
  BY DEF SharedOK, SleepsWithReason, SeenStopping

-----------------------------------------------------------------------------
(* The theorems. *)

LEMMA Initially == Init => IInv
  <1>1. FreshView \in SessionView
    BY DEF FreshView, SessionView, Cause
  <1> SUFFICES ASSUME Init PROVE IInv
    OBVIOUS
  <1>2. requests \in Seq(Operation)
    BY DEF Init, Operation
  <1>3. asked \in [Operation -> Nat]
    BY DEF Init
  <1>4. threads \in 0 .. WorkThreads /\ signals \in 0 .. MaxSignals
    BY ServerMainAssumption DEF Init
  <1> QED
    BY <1>1, <1>2, <1>3, <1>4
    DEF Init, IInv, TypeOK, SleepsWithReason, SeenStopping

(***************************************************************************)
(* A delivered reply runs one of the three handlers of the server.         *)
(***************************************************************************)
LEMMA DeliverStep ==
  ASSUME IInv, Deliver
  PROVE  HandlerStep /\ replies' \subseteq replies
  <1>1. PICK reply \in replies :
          /\ replies' = replies \ {reply}
          /\ CASE reply[1] = "start" -> HandleServerStart(reply[2])
               [] reply[1] = "wait"  -> HandleServerWait
               [] reply[1] = "stop"  -> HandleServerStop
    BY Zenon DEF Deliver
  <1>2. reply[1] \in {"start", "wait", "stop"}
    BY DEF IInv, TypeOK, Operation
  <1>3. HandleServerStart(reply[2]) \/ HandleServerWait \/ HandleServerStop
    BY <1>1, <1>2
  <1> QED BY <1>1, <1>3, HandlersStep

(***************************************************************************)
(* Every step of the application preserves the invariant.                  *)
(***************************************************************************)
LEMMA Inductive == IInv /\ [Next]_vars => IInv'
  <1> SUFFICES ASSUME IInv, [Next]_vars PROVE IInv'
    OBVIOUS
  <1>0. SharedOK /\ RestOK
    BY Parts
  <1>1. CASE Signal
    <2>1. SharedOK'
      BY <1>0, <1>1, HandlersStep, HandlersKeepShared DEF Signal
    <2>2. RestOK'
      BY <1>0, <1>1, ServerMainAssumption DEF Signal, RestOK
    <2> QED BY <2>1, <2>2, PartsNext
  <1>2. CASE ServerRuns
    <2>1. PICK o \in CASE Head(requests) = "start" -> ServerStartOutcomes(view)
                       [] Head(requests) = "wait"  -> WaitOutcomes(view)
                       [] Head(requests) = "stop"  -> StopOutcomes(view) :
            view' = o.view /\ replies' = replies \cup o.replies
      BY <1>2, Zenon DEF ServerRuns
    <2>2. Head(requests) \in {"start", "wait", "stop"}
          /\ Tail(requests) \in Seq(Operation)
      BY <1>0, <1>2 DEF SharedOK, ServerRuns, Operation
    <2>3. OutcomeOK(o)
      BY <1>0, <2>1, <2>2, StartTyped, WaitTyped, StopTyped DEF RestOK
    <2>4. RestOK'
      BY <1>0, <1>2, <2>1, <2>3 DEF RestOK, OutcomeOK, ServerRuns
    <2>5. SharedOK'
      BY <1>0, <1>2, <2>2
      DEF SharedOK, SleepsWithReason, SeenStopping, ServerRuns
    <2> QED BY <2>4, <2>5, PartsNext
  <1>3. CASE ServerInternal
    <2>1. PICK o \in ServerInternalOutcomes(view) :
            view' = o.view /\ replies' = replies \cup o.replies
      BY <1>3 DEF ServerInternal
    <2>2. OutcomeOK(o)
      BY <1>0, InternalTyped DEF RestOK
    <2>3. RestOK'
      BY <1>0, <1>3, <2>1, <2>2 DEF RestOK, OutcomeOK, ServerInternal
    <2> QED
      BY <1>0, <1>3, <2>3, QuietKeepsShared, PartsNext DEF ServerInternal
  <1>4. CASE Deliver
    <2>1. SharedOK'
      BY <1>0, <1>4, DeliverStep, HandlersKeepShared
    <2>2. RestOK'
      BY <1>0, <1>4, DeliverStep DEF Deliver, RestOK
    <2> QED BY <2>1, <2>2, PartsNext
  <1>5. CASE WorkThreadFails
    <2>1. SharedOK'
      BY <1>0, <1>5, HandlersStep, HandlersKeepShared DEF WorkThreadFails
    <2>2. RestOK'
      BY <1>0, <1>5, ServerMainAssumption DEF WorkThreadFails, Running, RestOK
    <2> QED BY <2>1, <2>2, PartsNext
  <1>6. CASE TimedOut \/ WakesSpuriously \/ Main
    <2> USE DEF serverVars, SharedOK, RestOK, SleepsWithReason, SeenStopping
    <2>1. SharedOK' /\ RestOK'
      <3>1. CASE TimedOut
        BY <1>0, <3>1 DEF TimedOut
      <3>2. CASE WakesSpuriously
        BY <1>0, <3>2 DEF WakesSpuriously
      <3>3. CASE WaitStopping
        BY <1>0, <3>3 DEF WaitStopping
      <3>4. CASE WaitStopped
        BY <1>0, <3>4 DEF WaitStopped
      <3>5. CASE ChooseExitCode
        BY <1>0, <3>5 DEF ChooseExitCode
      <3>6. CASE StopThreads
        BY <1>0, <3>6 DEF StopThreads
      <3> QED BY <1>6, <3>1, <3>2, <3>3, <3>4, <3>5, <3>6 DEF Main
    <2> QED BY <2>1, PartsNext
  <1>7. CASE UNCHANGED vars
    BY <1>7 DEF vars, IInv, TypeOK, SleepsWithReason, SeenStopping
  <1> QED BY <1>1, <1>2, <1>3, <1>4, <1>5, <1>6, <1>7 DEF Next

(***************************************************************************)
(* The invariant holds for every number of signals and of work threads.    *)
(***************************************************************************)
THEOREM Invariance == Spec => []IInv
  BY Initially, Inductive, PTL DEF Spec

(***************************************************************************)
(* TypeOK of the application, the server that it sees included.            *)
(***************************************************************************)
THEOREM TypeCorrect == Spec => []TypeOK
  <1>1. IInv => TypeOK
    BY DEF IInv
  <1> QED BY <1>1, Invariance, PTL

(***************************************************************************)
(* No wake-up is lost: the main thread sleeps in its first wait only while *)
(* the server starts or works, and in its second only while it stops.      *)
(***************************************************************************)
THEOREM NoLostWakeUp == Spec => []SleepsWithReason
  <1>1. IInv => SleepsWithReason
    BY DEF IInv
  <1> QED BY <1>1, Invariance, PTL

(***************************************************************************)
(* server_state::value goes one way, and who initiated the stop is decided *)
(* once, however late a handler of the server or of Ctrl+C is.             *)
(***************************************************************************)
THEOREM OneWay == Spec => StateOnlyAdvances
  <1> DEFINE Advances ==
        /\ value' # value => value' \in Later[value]
        /\ value \in {"stopping", "stopped"} => userInitiated' = userInitiated
  <1>1. IInv /\ [Next]_vars => [Advances]_vars
    <2> SUFFICES ASSUME IInv, Next PROVE Advances
      OBVIOUS
    <2>1. HandlerStep => Advances
      BY DEF HandlerStep
    <2>2. CASE Signal \/ Deliver \/ WorkThreadFails
      BY <2>1, <2>2, HandlersStep, DeliverStep DEF Signal, WorkThreadFails
    <2>3. CASE ServerRuns \/ ServerInternal
      BY <2>3 DEF ServerRuns, ServerInternal
    <2>4. CASE TimedOut \/ WakesSpuriously \/ Main
      BY <2>4 DEF TimedOut, WakesSpuriously, Main, WaitStopping, WaitStopped,
                  ChooseExitCode, StopThreads
    <2> QED BY <2>2, <2>3, <2>4 DEF Next
  <1> QED BY <1>1, Invariance, PTL DEF Spec, StateOnlyAdvances

-----------------------------------------------------------------------------
(* The strand of the server. *)

StartPosted == requests \in {<<"start">>, <<"start", "stop">>}
WaitPosted  == requests \in {<<"wait">>, <<"wait", "stop">>}
StopPosted  == requests \in {<<"stop">>, <<"start", "stop">>, <<"wait", "stop">>}

RequestShape == requests = <<>> \/ StartPosted \/ WaitPosted \/ StopPosted

\* The stop has not come to the server yet.
Early == asked["stop"] = 0 \/ StopPosted

(***************************************************************************)
(* ServerAskedInTurn is not inductive.  That the wait is not refused rests *)
(* on the server being at work from the delivery of its start to the wait, *)
(* which the stop cannot overtake; and that the stop is refused only by a  *)
(* server that failed to start, on what an Early server can be.            *)
(***************************************************************************)
InTurn ==
  /\ RequestShape
  /\ StartPosted => /\ view = FreshView /\ replies = {}
                    /\ value # "working" /\ asked["wait"] = 0
  /\ view.extern = "ready" => StartPosted
  /\ asked["start"] = 1 /\ asked["wait"] \in {0, 1} /\ asked["stop"] \in {0, 1}
  /\ asked["stop"] = 0 => value # "stopping" /\ ~StopPosted
  /\ asked["stop"] = 1 => value \in {"stopping", "stopped"}
  /\ value = "starting" => asked["wait"] = 0
  /\ asked["wait"] = 0 => ~view.waiting /\ ~WaitPosted
  /\ WaitPosted => view.extern = "work" /\ ~view.waiting
  /\ value = "starting" /\ <<"start", "none">> \in replies => view.extern = "work"
  /\ Early => view.extern \in {"ready", "work", "stopped"}
  /\ Early /\ view.extern = "stopped" => view.cause = "error" /\ asked["wait"] = 0
  /\ <<"wait", "invalid_state">> \notin replies
  /\ <<"stop", "invalid_state">> \in replies =>
       /\ view.extern = "stopped" /\ view.cause = "error"
       /\ asked["wait"] = 0 /\ asked["stop"] = 1

(***************************************************************************)
(* Likewise ExitTellsWhy: what the replies say of the server, and who has  *)
(* initiated a stop, from before the main thread hears of it.              *)
(***************************************************************************)
Leaving == main \in {"exit", "stop_threads", "done"}

Told ==
  /\ \A r \in replies : /\ r[1] = "start" /\ r[2] # "none" => view.life # "running"
                        /\ r[1] = "wait" => view.life # "running"
                        /\ r[1] = "stop" => asked["stop"] = 1
  /\ userInitiated => signals > 0 /\ asked["stop"] = 1
  /\ value \in {"stopping", "stopped"} /\ ~userInitiated =>
       view.life # "running" \/ threads < WorkThreads
  /\ Leaving => /\ value \in {"stopping", "stopped"}
                /\ value = "stopped" \/ woken \in {"spurious", "timed_out"}
  /\ exitCode = "failure" => woken = "timed_out" \/ ~userInitiated
  /\ exitCode = "success" => userInitiated
  /\ woken = "timed_out" => exitCode = "failure"
  /\ main = "exit" => exitCode # "success"
  /\ main \in {"stop_threads", "done"} => exitCode # "none"
  /\ ~Leaving => exitCode = "none"

TurnInv == IInv /\ InTurn /\ Told

\* The shapes are told apart by their lengths and first elements.
LEMMA Shapes ==
  /\ Len(<<>>) = 0
  /\ \A op \in Operation : Len(<<op>>) = 1 /\ Head(<<op>>) = op /\ Tail(<<op>>) = <<>>
  /\ \A op \in Operation :
       /\ Len(<<op, "stop">>) = 2 /\ Head(<<op, "stop">>) = op
       /\ Tail(<<op, "stop">>) = <<"stop">>
  /\ Append(<<>>, "stop") = <<"stop">> /\ Append(<<>>, "wait") = <<"wait">>
  /\ \A op \in Operation : Append(<<op>>, "stop") = <<op, "stop">>
  <1>1. Len(<<>>) = 0
    OBVIOUS
  <1>2. ASSUME NEW op \in Operation
        PROVE  Len(<<op>>) = 1 /\ Head(<<op>>) = op /\ Tail(<<op>>) = <<>>
    OBVIOUS
  <1>3. ASSUME NEW op \in Operation
        PROVE  /\ Len(<<op, "stop">>) = 2 /\ Head(<<op, "stop">>) = op
               /\ Tail(<<op, "stop">>) = <<"stop">>
    OBVIOUS
  <1>4. Append(<<>>, "stop") = <<"stop">> /\ Append(<<>>, "wait") = <<"wait">>
    OBVIOUS
  <1>5. ASSUME NEW op \in Operation
        PROVE  Append(<<op>>, "stop") = <<op, "stop">>
    <2> DEFINE s == Append(<<op>>, "stop")
               t == <<op, "stop">>
    <2>1. s \in Seq(Operation) /\ Len(s) = 2 /\ s[1] = op /\ s[2] = "stop"
      BY DEF Operation
    <2>2. t \in Seq(Operation) /\ Len(t) = 2 /\ t[1] = op /\ t[2] = "stop"
      BY DEF Operation
    <2> HIDE DEF s, t
    <2>3. s = t
      BY <2>1, <2>2
    <2> QED BY <2>3 DEF s, t
  <1> QED BY <1>1, <1>2, <1>3, <1>4, <1>5

\* A request that is posted goes behind those that are there.
LEMMA Posting ==
  ASSUME RequestShape
  PROVE  /\ requests' = Append(requests, "stop") /\ ~StopPosted =>
              /\ RequestShape' /\ StopPosted'
              /\ StartPosted' <=> StartPosted
              /\ WaitPosted' <=> WaitPosted
         /\ requests' = Append(requests, "wait") /\ requests = <<>> =>
              RequestShape' /\ WaitPosted' /\ ~StartPosted' /\ ~StopPosted'
  <1>1. "start" \in Operation /\ "wait" \in Operation /\ "stop" \in Operation
    BY DEF Operation
  <1>2. ASSUME requests' = Append(requests, "stop"), ~StopPosted
        PROVE  /\ RequestShape' /\ StopPosted'
               /\ StartPosted' <=> StartPosted
               /\ WaitPosted' <=> WaitPosted
    <2>1. requests \in {<<>>, <<"start">>, <<"wait">>}
      BY <1>2 DEF RequestShape, StartPosted, WaitPosted, StopPosted
    <2>2. CASE requests = <<>>
      <3>1. requests' = <<"stop">>
        BY <1>1, <1>2, <2>2, Shapes
      <3> QED BY <1>1, <2>2, <3>1, Shapes
              DEF RequestShape, StartPosted, WaitPosted, StopPosted
    <2>3. CASE requests = <<"start">>
      <3>1. requests' = <<"start", "stop">>
        BY <1>1, <1>2, <2>3, Shapes
      <3> QED BY <1>1, <2>3, <3>1, Shapes
              DEF RequestShape, StartPosted, WaitPosted, StopPosted
    <2>4. CASE requests = <<"wait">>
      <3>1. requests' = <<"wait", "stop">>
        BY <1>1, <1>2, <2>4, Shapes
      <3> QED BY <1>1, <2>4, <3>1, Shapes
              DEF RequestShape, StartPosted, WaitPosted, StopPosted
    <2> QED BY <2>1, <2>2, <2>3, <2>4
  <1>3. ASSUME requests' = Append(requests, "wait"), requests = <<>>
        PROVE  RequestShape' /\ WaitPosted' /\ ~StartPosted' /\ ~StopPosted'
    <2>1. requests' = <<"wait">>
      BY <1>1, <1>3, Shapes
    <2> QED BY <1>1, <2>1, Shapes
            DEF RequestShape, StartPosted, WaitPosted, StopPosted
  <1> QED BY <1>2, <1>3

\* The strand takes the first of them.
LEMMA Taking ==
  ASSUME RequestShape, requests # <<>>, requests' = Tail(requests)
  PROVE  /\ RequestShape' /\ ~StartPosted' /\ ~WaitPosted'
         /\ Head(requests) \in {"start", "wait", "stop"}
         /\ Head(requests) = "start" => StartPosted /\ (StopPosted' <=> StopPosted)
         /\ Head(requests) = "wait" => WaitPosted /\ (StopPosted' <=> StopPosted)
         /\ Head(requests) = "stop" =>
              StopPosted /\ ~StopPosted' /\ ~StartPosted /\ ~WaitPosted
  <1>1. "start" \in Operation /\ "wait" \in Operation /\ "stop" \in Operation
    BY DEF Operation
  <1>2. PICK op \in Operation :
          \/ requests = <<op>>
          \/ op # "stop" /\ requests = <<op, "stop">>
    BY <1>1 DEF RequestShape, StartPosted, WaitPosted, StopPosted
  <1>3. op \in {"start", "wait", "stop"}
    BY DEF Operation
  <1>4. CASE requests = <<op>>
    <2>1. requests' = <<>> /\ Head(requests) = op
      BY <1>4, Shapes
    <2> QED BY <1>1, <1>3, <1>4, <2>1, Shapes
            DEF RequestShape, StartPosted, WaitPosted, StopPosted
  <1>5. CASE op # "stop" /\ requests = <<op, "stop">>
    <2>1. requests' = <<"stop">> /\ Head(requests) = op
      BY <1>5, Shapes
    <2>2. CASE op = "start"
      BY <1>1, <1>5, <2>1, <2>2, Shapes
      DEF RequestShape, StartPosted, WaitPosted, StopPosted
    <2>3. CASE op = "wait"
      BY <1>1, <1>5, <2>1, <2>3, Shapes
      DEF RequestShape, StartPosted, WaitPosted, StopPosted
    <2> QED BY <1>3, <1>5, <2>2, <2>3
  <1> QED BY <1>2, <1>4, <1>5

-----------------------------------------------------------------------------
(* What the outcomes of the server's operations are in the states in which *)
(* it is asked for them.                                                   *)

WaitAnswers == {<<"wait", cause>> : cause \in Cause}

\* A new server starts, or fails for good.
LEMMA StartOutcome ==
  ASSUME NEW v \in SessionView, v.extern = "ready", ~v.waiting,
         NEW o \in ServerStartOutcomes(v)
  PROVE  /\ ~o.view.waiting
         /\ \/ o.view.extern = "work" /\ o.replies = {<<"start", "none">>}
            \/ /\ o.view.extern = "stopped" /\ o.view.life = "ended"
               /\ o.view.cause = "error" /\ o.replies = {<<"start", "error">>}
  <1>1. CASE o = Outcome([v EXCEPT !.extern = "work"], {<<"start", "none">>})
    BY <1>1 DEF Outcome, SessionView
  <1>2. CASE o = Outcome([v EXCEPT !.extern = "stopped", !.life = "ended",
                                   !.cause = "error"], {<<"start", "error">>})
    BY <1>2 DEF Outcome, SessionView
  <1> QED BY <1>1, <1>2 DEF ServerStartOutcomes

\* A wait is parked, or answered with the cause of the end.
LEMMA WaitOutcome ==
  ASSUME NEW v \in SessionView, v.extern = "work", ~v.waiting,
         NEW o \in WaitOutcomes(v)
  PROVE  /\ o.view.extern = v.extern /\ o.view.life = v.life
         /\ o.view.cause = v.cause
         /\ o.replies \subseteq WaitAnswers
         /\ o.replies # {} => v.life # "running"
  <1>1. v.cause \in Cause
    BY DEF SessionView
  <1>2. CASE v.life # "running"
    <2>1. o = Outcome(v, {<<"wait", v.cause>>})
      BY <1>2 DEF WaitOutcomes
    <2> QED BY <1>1, <1>2, <2>1 DEF Outcome, WaitAnswers
  <1>3. CASE v.life = "running"
    <2>1. o = Outcome([v EXCEPT !.waiting = TRUE], {})
      BY <1>3 DEF WaitOutcomes
    <2> QED BY <1>3, <2>1 DEF Outcome, SessionView
  <1> QED BY <1>2, <1>3

\* A stop is refused, or ends the work.
LEMMA StopOutcome ==
  ASSUME NEW v \in SessionView, NEW o \in StopOutcomes(v)
  PROVE  \/ /\ v.extern \in {"stop", "stopped"}
            /\ o.view = v /\ o.replies = {<<"stop", "invalid_state">>}
         \/ /\ v.extern \notin {"stop", "stopped"}
            /\ o.view.extern \in {"stop", "stopped"}
            /\ o.view.life # "running" /\ ~o.view.waiting
            /\ o.replies \subseteq WaitAnswers \cup {<<"stop", "none">>}
  <1> DEFINE cause == IF v.cause = "none" THEN "operation_aborted" ELSE v.cause
             lives == IF v.life = "running" THEN {"ending", "ended"}
                                            ELSE {v.life}
  <1>1. cause \in Cause /\ lives \subseteq {"ending", "ended"}
    BY DEF SessionView, Cause
  <1>2. WaitReply(v, cause) \subseteq WaitAnswers
    BY <1>1 DEF WaitReply, WaitAnswers
  <1>3. CASE v.extern \in {"stop", "stopped"}
    BY <1>3 DEF StopOutcomes, Outcome
  <1>4. CASE v.extern \notin {"stop", "stopped"}
    <2>1. PICK life \in lives :
            o = IF life = "ended"
                  THEN Outcome([v EXCEPT !.waiting = FALSE, !.cause = cause,
                                         !.extern = "stopped", !.life = life],
                               WaitReply(v, cause) \cup {<<"stop", "none">>})
                  ELSE Outcome([v EXCEPT !.waiting = FALSE, !.cause = cause,
                                         !.extern = "stop", !.life = life,
                                         !.stopping = TRUE],
                               WaitReply(v, cause))
      BY <1>4 DEF StopOutcomes, Outcome, SessionView
    <2> HIDE DEF cause, lives
    <2>2. CASE life = "ended"
      BY <1>1, <1>2, <1>4, <2>1, <2>2 DEF Outcome, SessionView
    <2>3. CASE life # "ended"
      BY <1>1, <1>2, <1>4, <2>1, <2>3 DEF Outcome, SessionView
    <2> QED BY <2>2, <2>3
  <1> QED BY <1>3, <1>4

\* By itself a server only leaves its work, and ends.
LEMMA InternalOutcome ==
  ASSUME NEW v \in SessionView, NEW o \in ServerInternalOutcomes(v)
  PROVE  /\ v.extern \in {"work", "stop"}
         /\ \/ /\ v.extern = "work" /\ o.view.extern = "work"
               /\ o.replies \subseteq WaitAnswers
            \/ /\ v.extern = "stop" /\ o.view.extern = "stopped"
               /\ o.replies = {<<"stop", "none">>}
         /\ o.view.life # "running" /\ (o.view.waiting => v.waiting)
  <1>1. WaitReply(v, "error") \subseteq WaitAnswers
    BY DEF WaitReply, WaitAnswers, Cause, EndCause
  <1>2. CASE v.extern = "work" /\ v.life = "running"
    <2>1. PICK life \in {"ending", "ended"} :
            o = Outcome([v EXCEPT !.life = life, !.cause = "error",
                                  !.waiting = FALSE], WaitReply(v, "error"))
      BY <1>2 DEF ServerInternalOutcomes, InternalOutcomes
    <2> QED BY <1>1, <1>2, <2>1 DEF Outcome, SessionView
  <1>3. CASE v.extern = "work" /\ v.life = "ending"
    <2>1. o = Outcome([v EXCEPT !.life = "ended"], {})
      BY <1>3 DEF ServerInternalOutcomes, InternalOutcomes
    <2> QED BY <1>3, <2>1 DEF Outcome, SessionView
  <1>4. CASE v.extern = "stop" /\ v.life = "ending"
    <2>1. o = Outcome([[v EXCEPT !.life = "ended"] EXCEPT
                         !.extern = "stopped", !.stopping = FALSE],
                      {<<"stop", "none">>})
      BY <1>4 DEF ServerInternalOutcomes, InternalOutcomes
    <2> QED BY <1>4, <2>1 DEF Outcome, SessionView
  <1> QED
    BY <1>2, <1>3, <1>4 DEF ServerInternalOutcomes, InternalOutcomes

-----------------------------------------------------------------------------
(* The server's steps. *)

\* What a step of the server leaves alone.
ServerQuiet ==
  UNCHANGED <<value, userInitiated, main, exitCode, threads, signals, asked, woken>>

\* The replies of the server, told apart.
LEMMA Answers ==
  /\ \A r \in WaitAnswers : r[1] = "wait" /\ r # <<"wait", "invalid_state">>
  /\ <<"start", "none">> \notin WaitAnswers
  /\ <<"stop", "invalid_state">> \notin WaitAnswers
  BY DEF WaitAnswers, Cause, EndCause

\* The server runs its start.
LEMMA ServerStarts ==
  ASSUME TurnInv, ServerRuns, Head(requests) = "start"
  PROVE  InTurn' /\ Told'
  <1>1. /\ requests # <<>> /\ requests' = Tail(requests) /\ ServerQuiet
        /\ RequestShape /\ InTurn /\ Told /\ view \in SessionView
    BY DEF TurnInv, ServerRuns, ServerQuiet, InTurn, IInv, TypeOK
  <1>2. /\ RequestShape' /\ ~StartPosted' /\ ~WaitPosted' /\ StartPosted
        /\ StopPosted' <=> StopPosted
    BY <1>1, Taking
  <1>3. view = FreshView /\ replies = {} /\ value # "working" /\ asked["wait"] = 0
    BY <1>1, <1>2 DEF InTurn
  <1>4. PICK o \in ServerStartOutcomes(view) :
          view' = o.view /\ replies' = o.replies
    BY <1>3 DEF ServerRuns
  <1>5. /\ ~view'.waiting
        /\ \/ view'.extern = "work" /\ replies' = {<<"start", "none">>}
           \/ /\ view'.extern = "stopped" /\ view'.life = "ended"
              /\ view'.cause = "error" /\ replies' = {<<"start", "error">>}
    BY <1>1, <1>3, <1>4, StartOutcome DEF FreshView
  <1> HIDE DEF StartPosted, WaitPosted, StopPosted, RequestShape
  <1>6. InTurn'
    BY <1>1, <1>2, <1>3, <1>5 DEF InTurn, Early, ServerQuiet
  <1>7. view.life = "running"
    BY <1>3 DEF FreshView
  <1>8. Told'
    BY <1>1, <1>5, <1>7 DEF Told, Leaving, ServerQuiet
  <1> QED BY <1>6, <1>8

\* It runs the wait.
LEMMA ServerWaits ==
  ASSUME TurnInv, ServerRuns, Head(requests) = "wait"
  PROVE  InTurn' /\ Told'
  <1>1. /\ requests # <<>> /\ requests' = Tail(requests) /\ ServerQuiet
        /\ RequestShape /\ InTurn /\ Told /\ view \in SessionView
    BY DEF TurnInv, ServerRuns, ServerQuiet, InTurn, IInv, TypeOK
  <1>2. /\ RequestShape' /\ ~StartPosted' /\ ~WaitPosted' /\ WaitPosted
        /\ StopPosted' <=> StopPosted
    BY <1>1, Taking
  <1>3. view.extern = "work" /\ ~view.waiting /\ asked["wait"] = 1
    BY <1>1, <1>2 DEF InTurn
  <1>4. PICK o \in WaitOutcomes(view) :
          view' = o.view /\ replies' = replies \cup o.replies
    BY DEF ServerRuns
  <1>5. /\ view'.extern = "work" /\ view'.life = view.life
        /\ view'.cause = view.cause
        /\ o.replies \subseteq WaitAnswers
        /\ o.replies # {} => view.life # "running"
    BY <1>1, <1>3, <1>4, WaitOutcome
  <1>6. InTurn'
    BY <1>1, <1>2, <1>3, <1>4, <1>5, Answers DEF InTurn, Early, ServerQuiet
  <1>7. Told'
    BY <1>1, <1>4, <1>5, Answers DEF Told, Leaving, ServerQuiet
  <1> QED BY <1>6, <1>7

\* It runs the stop.
LEMMA ServerStops ==
  ASSUME TurnInv, ServerRuns, Head(requests) = "stop"
  PROVE  InTurn' /\ Told'
  <1>1. /\ requests # <<>> /\ requests' = Tail(requests) /\ ServerQuiet
        /\ RequestShape /\ InTurn /\ Told /\ view \in SessionView
    BY DEF TurnInv, ServerRuns, ServerQuiet, InTurn, IInv, TypeOK
  <1>2. /\ RequestShape' /\ ~StartPosted' /\ ~WaitPosted' /\ ~StopPosted'
        /\ StopPosted /\ ~StartPosted
    BY <1>1, Taking
  <1>3. /\ asked["stop"] = 1 /\ value \in {"stopping", "stopped"} /\ Early
        /\ view.extern \in {"work", "stopped"}
        /\ view.extern = "stopped" => view.cause = "error" /\ asked["wait"] = 0
    BY <1>1, <1>2 DEF InTurn, Early
  <1>4. PICK o \in StopOutcomes(view) :
          view' = o.view /\ replies' = replies \cup o.replies
    BY DEF ServerRuns
  <1>5. CASE /\ view.extern \in {"stop", "stopped"}
             /\ view' = view /\ o.replies = {<<"stop", "invalid_state">>}
    <2>1. InTurn'
      BY <1>1, <1>2, <1>3, <1>4, <1>5 DEF InTurn, Early, ServerQuiet
    <2>2. Told'
      BY <1>1, <1>3, <1>4, <1>5 DEF Told, Leaving, ServerQuiet
    <2> QED BY <2>1, <2>2
  <1>6. CASE /\ view'.extern \in {"stop", "stopped"} /\ view.extern = "work"
             /\ view'.life # "running" /\ ~view'.waiting
             /\ o.replies \subseteq WaitAnswers \cup {<<"stop", "none">>}
    <2>1. <<"stop", "invalid_state">> \notin replies'
      BY <1>1, <1>4, <1>6, Answers DEF InTurn
    <2>2. <<"wait", "invalid_state">> \notin replies'
      BY <1>1, <1>4, <1>6, Answers DEF InTurn
    <2>3. InTurn'
      BY <1>1, <1>2, <1>3, <1>4, <1>6, <2>1, <2>2 DEF InTurn, Early, ServerQuiet
    <2>4. Told'
      BY <1>1, <1>3, <1>4, <1>6, Answers DEF Told, Leaving, ServerQuiet
    <2> QED BY <2>3, <2>4
  <1> QED BY <1>1, <1>3, <1>4, <1>5, <1>6, StopOutcome

\* It moves by itself.
LEMMA ServerMoves ==
  ASSUME TurnInv, ServerInternal
  PROVE  InTurn' /\ Told'
  <1>1. /\ ServerQuiet /\ UNCHANGED requests
        /\ InTurn /\ Told /\ view \in SessionView
    BY DEF TurnInv, ServerInternal, ServerQuiet, IInv, TypeOK
  <1>2. /\ RequestShape' <=> RequestShape
        /\ StartPosted' <=> StartPosted
        /\ WaitPosted' <=> WaitPosted
        /\ StopPosted' <=> StopPosted
    BY <1>1 DEF RequestShape, StartPosted, WaitPosted, StopPosted
  <1>3. PICK o \in ServerInternalOutcomes(view) :
          view' = o.view /\ replies' = replies \cup o.replies
    BY DEF ServerInternal
  <1>4. /\ view.extern \in {"work", "stop"}
        /\ \/ /\ view.extern = "work" /\ view'.extern = "work"
              /\ o.replies \subseteq WaitAnswers
           \/ /\ view.extern = "stop" /\ view'.extern = "stopped"
              /\ o.replies = {<<"stop", "none">>}
        /\ view'.life # "running" /\ (view'.waiting => view.waiting)
    BY <1>1, <1>3, InternalOutcome
  <1>5. ~StartPosted
    BY <1>1, <1>4 DEF InTurn, FreshView
  <1>6. /\ <<"stop", "invalid_state">> \notin replies'
        /\ <<"wait", "invalid_state">> \notin replies'
        /\ <<"start", "none">> \in replies' => <<"start", "none">> \in replies
    BY <1>1, <1>3, <1>4, Answers DEF InTurn
  <1>7. view.extern = "stop" => asked["stop"] = 1 /\ ~Early
    BY <1>1 DEF InTurn, Early
  <1>8. InTurn'
    BY <1>1, <1>2, <1>4, <1>5, <1>6, <1>7 DEF InTurn, Early, ServerQuiet
  <1>9. Told'
    BY <1>1, <1>3, <1>4, <1>7, Answers DEF Told, Leaving, ServerQuiet
  <1> QED BY <1>8, <1>9

-----------------------------------------------------------------------------
(* The handlers. *)

(***************************************************************************)
(* What a handler of the application does, and the reason that it has.     *)
(***************************************************************************)
Handled ==
  \/ Ignore
  \/ /\ value \in {"starting", "working"} /\ SwitchTo("stopping") /\ Ask("stop")
     /\ userInitiated' => signals' > 0
     /\ ~userInitiated' => view.life # "running"
  \/ /\ SwitchTo("stopped") /\ AskNothing /\ UNCHANGED userInitiated
     /\ \/ value \in {"stopping", "stopped"} \/ view.life # "running"
        \/ threads' < WorkThreads
  \/ /\ value = "starting" /\ <<"start", "none">> \in replies
     /\ SwitchTo("working") /\ Ask("wait") /\ UNCHANGED userInitiated

\* What it leaves alone, or moves one way only.
HandlerFrame ==
  /\ UNCHANGED <<view, exitCode>>
  /\ replies' \subseteq replies /\ userInitiated' \in BOOLEAN
  /\ threads' \in Int /\ threads' <= threads
  /\ signals' \in Int /\ signals' >= signals

\* A handler with its reason keeps the turn of the requests,
LEMMA HandledInTurn ==
  ASSUME TurnInv, Handled, HandlerFrame
  PROVE  InTurn'
  <1>1. /\ InTurn /\ RequestShape /\ asked \in [Operation -> Nat]
        /\ value \in {"starting", "working", "stopping", "stopped"}
        /\ view' = view /\ replies' \subseteq replies
    BY DEF TurnInv, InTurn, IInv, TypeOK, HandlerFrame
  <1>2. "start" \in Operation /\ "wait" \in Operation /\ "stop" \in Operation
    BY DEF Operation
  <1>3. CASE AskNothing /\ value' \in {value, "stopped"}
    <2>1. /\ RequestShape' <=> RequestShape
          /\ StartPosted' <=> StartPosted
          /\ WaitPosted' <=> WaitPosted
          /\ StopPosted' <=> StopPosted
      BY <1>3 DEF AskNothing, RequestShape, StartPosted, WaitPosted, StopPosted
    <2> QED BY <1>1, <1>3, <2>1 DEF InTurn, Early, AskNothing
  <1>4. CASE value \in {"starting", "working"} /\ value' = "stopping" /\ Ask("stop")
    <2>1. asked["stop"] = 0 /\ ~StopPosted
      BY <1>1, <1>4 DEF InTurn
    <2>2. /\ RequestShape' /\ StopPosted'
          /\ StartPosted' <=> StartPosted
          /\ WaitPosted' <=> WaitPosted
      BY <1>1, <1>4, <2>1, Posting DEF Ask
    <2>3. /\ asked'["stop"] = 1 /\ asked'["wait"] = asked["wait"]
          /\ asked'["start"] = asked["start"]
      BY <1>1, <1>2, <1>4, <2>1 DEF Ask
    <2> QED BY <1>1, <1>4, <2>1, <2>2, <2>3 DEF InTurn, Early
  <1>5. CASE /\ value = "starting" /\ <<"start", "none">> \in replies
             /\ value' = "working" /\ Ask("wait")
    <2>1. /\ asked["wait"] = 0 /\ asked["stop"] = 0
          /\ ~StartPosted /\ ~WaitPosted /\ ~StopPosted
          /\ view.extern = "work" /\ ~view.waiting
      BY <1>1, <1>5 DEF InTurn
    <2>2. requests = <<>>
      BY <1>1, <2>1 DEF RequestShape
    <2>3. RequestShape' /\ WaitPosted' /\ ~StartPosted' /\ ~StopPosted'
      BY <1>1, <1>5, <2>2, Posting DEF Ask
    <2>4. /\ asked'["wait"] = 1 /\ asked'["stop"] = asked["stop"]
          /\ asked'["start"] = asked["start"]
      BY <1>1, <1>2, <1>5, <2>1 DEF Ask
    <2> QED BY <1>1, <1>5, <2>1, <2>3, <2>4 DEF InTurn, Early
  <1> QED BY <1>3, <1>4, <1>5, Zenon DEF Handled, Ignore, SwitchTo, AskNothing

\* and what the main thread will tell.
LEMMA HandledTold ==
  ASSUME TurnInv, Handled, HandlerFrame
  PROVE  Told'
  <1>1. /\ InTurn /\ Told /\ asked \in [Operation -> Nat]
        /\ value \in {"starting", "working", "stopping", "stopped"}
        /\ userInitiated \in BOOLEAN
        /\ threads \in 0..WorkThreads /\ signals \in 0..MaxSignals
        /\ main \in {"wait_stopping", "asleep_stopping", "wait_stopped",
                     "asleep_stopped", "exit", "stop_threads", "done"}
        /\ SleepsWithReason /\ SeenStopping
    BY DEF TurnInv, IInv, TypeOK
  <1>2. /\ view' = view /\ exitCode' = exitCode
        /\ replies' \subseteq replies /\ userInitiated' \in BOOLEAN
        /\ threads' \in Int /\ threads' <= threads
        /\ signals' \in Int /\ signals' >= signals
        /\ WorkThreads \in Nat /\ MaxSignals \in Nat
    BY ServerMainAssumption DEF HandlerFrame
  <1>3. "start" \in Operation /\ "wait" \in Operation /\ "stop" \in Operation
    BY DEF Operation
  <1>4. CASE Ignore
    BY <1>1, <1>2, <1>4 DEF Ignore, Told, Leaving
  <1>5. ASSUME NotifyAll
        PROVE  /\ main # "asleep_stopped" => /\ woken' = woken
                                             /\ Leaving' <=> Leaving
               /\ main = "asleep_stopped" => woken' = "stopped" /\ main' = "exit"
               /\ main' = "exit" => main \in {"exit", "asleep_stopped"}
               /\ main' \in {"stop_threads", "done"} => main' = main
    BY <1>1, <1>5 DEF NotifyAll, Leaving
  <1>6. CASE /\ value \in {"starting", "working"} /\ SwitchTo("stopping")
             /\ Ask("stop")
             /\ userInitiated' => signals' > 0
             /\ ~userInitiated' => view.life # "running"
    <2>1. asked'["stop"] = 1
      BY <1>1, <1>3, <1>6 DEF Ask, InTurn
    <2>2. ~Leaving /\ main # "asleep_stopped"
      BY <1>1, <1>6 DEF Told, SeenStopping
    <2>3. ~Leaving' /\ woken' = woken /\ value' = "stopping"
      BY <1>5, <1>6, <2>2 DEF SwitchTo
    <2>4. main' \notin {"exit", "stop_threads", "done"}
      BY <2>3 DEF Leaving
    <2> QED BY <1>1, <1>2, <1>6, <2>1, <2>2, <2>3, <2>4 DEF Told
  <1>7. CASE /\ SwitchTo("stopped") /\ AskNothing /\ UNCHANGED userInitiated
             /\ \/ value \in {"stopping", "stopped"} \/ view.life # "running"
                \/ threads' < WorkThreads
    <2>1. value' = "stopped" /\ NotifyAll /\ asked' = asked
          /\ userInitiated' = userInitiated
      BY <1>7 DEF SwitchTo, AskNothing
    <2>2. ~userInitiated => view.life # "running" \/ threads' < WorkThreads
      BY <1>1, <1>2, <1>7 DEF Told
    <2>3. CASE main = "asleep_stopped"
      <3>1. exitCode = "none" /\ woken' = "stopped" /\ main' = "exit" /\ Leaving'
        BY <1>1, <1>5, <2>1, <2>3 DEF Told, Leaving
      <3> QED BY <1>1, <1>2, <2>1, <2>2, <3>1 DEF Told
    <2>4. CASE main # "asleep_stopped"
      <3>1. /\ woken' = woken /\ (Leaving' <=> Leaving)
            /\ main' = "exit" => main = "exit"
            /\ main' \in {"stop_threads", "done"} => main' = main
        BY <1>5, <2>1, <2>4
      <3> QED BY <1>1, <1>2, <2>1, <2>2, <3>1 DEF Told
    <2> QED BY <2>3, <2>4
  <1>8. CASE /\ value = "starting" /\ SwitchTo("working") /\ Ask("wait")
             /\ UNCHANGED userInitiated
    <2>1. asked'["stop"] = 0 /\ asked["stop"] = 0
      BY <1>1, <1>3, <1>8 DEF Ask, InTurn
    <2>2. ~Leaving /\ main # "asleep_stopped"
      BY <1>1, <1>8 DEF Told, SeenStopping
    <2>3. /\ ~Leaving' /\ woken' = woken /\ value' = "working"
          /\ userInitiated' = userInitiated
      BY <1>5, <1>8, <2>2 DEF SwitchTo
    <2>4. main' \notin {"exit", "stop_threads", "done"}
      BY <2>3 DEF Leaving
    <2> QED BY <1>1, <1>2, <2>1, <2>2, <2>3, <2>4 DEF Told
  <1> QED BY <1>4, <1>6, <1>7, <1>8, Zenon DEF Handled

-----------------------------------------------------------------------------
(* Each handler has one of the reasons. *)

\* Ctrl+C has one.
LEMMA SignalHandled ==
  ASSUME TurnInv, Signal
  PROVE  Handled /\ HandlerFrame
  <1>1. /\ value \in {"starting", "working", "stopping", "stopped"}
        /\ userInitiated \in BOOLEAN
        /\ threads \in 0..WorkThreads /\ signals \in 0..MaxSignals
        /\ MaxSignals \in Nat /\ WorkThreads \in Nat
    BY ServerMainAssumption DEF TurnInv, IInv, TypeOK
  <1>2. /\ signals' = signals + 1 /\ HandleAppExit
        /\ UNCHANGED <<exitCode, view, replies, threads>>
    BY DEF Signal
  <1>3. CASE value = "stopped"
    <2>1. Ignore
      BY <1>2, <1>3 DEF HandleAppExit
    <2> QED BY <1>1, <1>2, <2>1 DEF Handled, HandlerFrame, Ignore
  <1>4. CASE value = "stopping"
    <2>1. SwitchTo("stopped") /\ AskNothing /\ UNCHANGED userInitiated
      BY <1>2, <1>4 DEF HandleAppExit
    <2>2. Handled
      BY <1>4, <2>1, Zenon DEF Handled
    <2> QED BY <1>1, <1>2, <2>1, <2>2 DEF HandlerFrame
  <1>5. CASE value \in {"starting", "working"}
    <2>1. SwitchTo("stopping") /\ Ask("stop") /\ userInitiated' = TRUE
      BY <1>2, <1>5, Zenon DEF HandleAppExit
    <2>2. signals' > 0
      BY <1>1, <1>2
    <2>3. Handled
      BY <1>5, <2>1, <2>2, Zenon DEF Handled
    <2> QED BY <1>1, <1>2, <2>1, <2>3 DEF HandlerFrame
  <1> QED BY <1>1, <1>3, <1>4, <1>5

\* The handlers of the server have: a wait or a stop is answered by a server
\* that has left its work, or whose stop was asked for.
LEMMA DeliverHandled ==
  ASSUME TurnInv, Deliver
  PROVE  Handled /\ HandlerFrame
  <1>1. /\ value \in {"starting", "working", "stopping", "stopped"}
        /\ userInitiated \in BOOLEAN /\ InTurn /\ Told
        /\ replies \subseteq Reply
        /\ threads \in 0..WorkThreads /\ signals \in 0..MaxSignals
        /\ MaxSignals \in Nat /\ WorkThreads \in Nat
    BY ServerMainAssumption DEF TurnInv, IInv, TypeOK, Reply
  <1>2. PICK reply \in replies :
          /\ replies' = replies \ {reply}
          /\ CASE reply[1] = "start" -> HandleServerStart(reply[2])
               [] reply[1] = "wait"  -> HandleServerWait
               [] reply[1] = "stop"  -> HandleServerStop
    BY Zenon DEF Deliver
  <1>3. UNCHANGED <<exitCode, view, threads, signals>>
    BY DEF Deliver
  <1>4. reply = <<reply[1], reply[2]>> /\ reply[1] \in {"start", "wait", "stop"}
    BY <1>1 DEF Reply, Operation
  <1>5. ASSUME userInitiated' \in BOOLEAN PROVE HandlerFrame
    BY <1>1, <1>2, <1>3, <1>5 DEF HandlerFrame
  <1>6. CASE Ignore
    BY <1>1, <1>5, <1>6 DEF Handled, Ignore
  <1>7. CASE reply[1] = "start" /\ HandleServerStart(reply[2]) /\ value = "starting"
    <2>1. CASE reply[2] = "none"
      <3>1. SwitchTo("working") /\ Ask("wait") /\ UNCHANGED userInitiated
        BY <1>7, <2>1, Zenon DEF HandleServerStart
      <3>2. <<"start", "none">> \in replies
        BY <1>2, <1>4, <1>7, <2>1
      <3>3. Handled
        BY <1>7, <3>1, <3>2, Zenon DEF Handled
      <3> QED BY <1>1, <1>5, <3>1, <3>3
    <2>2. CASE reply[2] # "none"
      <3>1. SwitchTo("stopped") /\ AskNothing /\ UNCHANGED userInitiated
        BY <1>7, <2>2, Zenon DEF HandleServerStart
      <3>2. view.life # "running"
        BY <1>1, <1>2, <1>7, <2>2 DEF Told
      <3>3. Handled
        BY <3>1, <3>2, Zenon DEF Handled
      <3> QED BY <1>1, <1>5, <3>1, <3>3
    <2> QED BY <2>1, <2>2
  <1>8. CASE reply[1] = "wait" /\ HandleServerWait /\ value = "working"
    <2>1. SwitchTo("stopping") /\ Ask("stop") /\ userInitiated' = FALSE
      BY <1>8, Zenon DEF HandleServerWait
    <2>2. view.life # "running"
      BY <1>1, <1>2, <1>8 DEF Told
    <2>3. value \in {"starting", "working"} /\ userInitiated' \in BOOLEAN
      BY <1>8, <2>1
    <2>4. Handled
      BY <2>1, <2>2, <2>3, Zenon DEF Handled
    <2> QED BY <1>5, <2>3, <2>4
  <1>9. CASE reply[1] = "stop" /\ HandleServerStop
    <2>1. SwitchTo("stopped") /\ AskNothing /\ UNCHANGED userInitiated
      BY <1>9 DEF HandleServerStop
    <2>2. value \in {"stopping", "stopped"}
      BY <1>1, <1>2, <1>9 DEF Told, InTurn
    <2>3. Handled
      BY <2>1, <2>2, Zenon DEF Handled
    <2> QED BY <1>1, <1>5, <2>1, <2>3
  <1>10. \/ reply[1] = "start" /\ HandleServerStart(reply[2])
         \/ reply[1] = "wait" /\ HandleServerWait
         \/ reply[1] = "stop" /\ HandleServerStop
    BY <1>2, <1>4
  <1>11. /\ HandleServerStart(reply[2]) /\ value # "starting" => Ignore
         /\ HandleServerWait /\ value # "working" => Ignore
    BY Zenon DEF HandleServerStart, HandleServerWait
  <1> QED BY <1>6, <1>7, <1>8, <1>9, <1>10, <1>11

\* So has a failing thread.
LEMMA FailureHandled ==
  ASSUME TurnInv, WorkThreadFails
  PROVE  Handled /\ HandlerFrame
  <1>1. /\ value \in {"starting", "working", "stopping", "stopped"}
        /\ userInitiated \in BOOLEAN
        /\ threads \in 0..WorkThreads /\ signals \in 0..MaxSignals
        /\ MaxSignals \in Nat /\ WorkThreads \in Nat
    BY ServerMainAssumption DEF TurnInv, IInv, TypeOK
  <1>2. /\ threads > 0 /\ threads' = threads - 1 /\ HandleWorkThreadException
        /\ replies' \subseteq replies /\ UNCHANGED <<exitCode, view, signals>>
    BY DEF WorkThreadFails, Running
  <1>3. CASE value = "stopped"
    <2>1. Ignore
      BY <1>2, <1>3 DEF HandleWorkThreadException
    <2> QED BY <1>1, <1>2, <2>1 DEF Handled, HandlerFrame, Ignore
  <1>4. CASE value # "stopped"
    <2>1. SwitchTo("stopped") /\ AskNothing /\ UNCHANGED userInitiated
      BY <1>2, <1>4 DEF HandleWorkThreadException
    <2>2. threads' < WorkThreads
      BY <1>1, <1>2
    <2>3. Handled
      BY <2>1, <2>2, Zenon DEF Handled
    <2> QED BY <1>1, <1>2, <2>1, <2>3 DEF HandlerFrame
  <1> QED BY <1>3, <1>4

-----------------------------------------------------------------------------
(* The main thread. *)

\* The main thread asks for nothing, and hears of the stop before it leaves.
LEMMA MainKeeps ==
  ASSUME TurnInv, TimedOut \/ WakesSpuriously \/ Main
  PROVE  InTurn' /\ Told'
  <1>1. /\ InTurn /\ Told /\ SleepsWithReason /\ SeenStopping
        /\ value \in {"starting", "working", "stopping", "stopped"}
        /\ exitCode \in {"none", "success", "failure"}
        /\ userInitiated \in BOOLEAN
    BY DEF TurnInv, IInv, TypeOK
  <1>2. UNCHANGED <<value, userInitiated, view, requests, replies, threads, signals, asked>>
    BY DEF TimedOut, WakesSpuriously, Main, WaitStopping, WaitStopped,
           ChooseExitCode, StopThreads, serverVars
  <1>3. InTurn'
    BY <1>1, <1>2
    DEF InTurn, Early, RequestShape, StartPosted, WaitPosted, StopPosted
  <1> SUFFICES Told'
    BY <1>3
  <1>4. CASE TimedOut
    BY <1>1, <1>2, <1>4 DEF TimedOut, Told, Leaving, SleepsWithReason
  <1>5. CASE WakesSpuriously
    BY <1>1, <1>2, <1>5 DEF WakesSpuriously, Told, Leaving, SleepsWithReason
  <1>6. CASE WaitStopping
    BY <1>1, <1>2, <1>6 DEF WaitStopping, Told, Leaving
  <1>7. CASE WaitStopped
    BY <1>1, <1>2, <1>7 DEF WaitStopped, Told, Leaving
  <1>8. CASE ChooseExitCode
    BY <1>1, <1>2, <1>8 DEF ChooseExitCode, Told, Leaving
  <1>9. CASE StopThreads
    BY <1>1, <1>2, <1>9 DEF StopThreads, Told, Leaving
  <1> QED BY <1>4, <1>5, <1>6, <1>7, <1>8, <1>9 DEF Main

-----------------------------------------------------------------------------
(* The theorems. *)

\* The invariant holds at first,
LEMMA TurnStarts == Init => TurnInv
  <1> SUFFICES ASSUME Init PROVE TurnInv
    OBVIOUS
  <1>1. StartPosted /\ RequestShape
    BY DEF Init, StartPosted, RequestShape
  <1>2. ~WaitPosted /\ ~StopPosted
    <2>1. requests = <<"start">> /\ "start" \in Operation
          /\ "stop" \in Operation /\ "wait" \in Operation
      BY DEF Init, Operation
    <2> QED BY <2>1, Shapes DEF WaitPosted, StopPosted
  <1>3. asked["start"] = 1 /\ asked["wait"] = 0 /\ asked["stop"] = 0
    BY DEF Init, Operation
  <1>4. InTurn
    BY <1>1, <1>2, <1>3 DEF Init, InTurn, Early, FreshView
  <1>5. Told
    BY DEF Init, Told, Leaving, FreshView
  <1> QED BY <1>4, <1>5, Initially DEF TurnInv

\* and after every step.
LEMMA TurnInductive == TurnInv /\ [Next]_vars => TurnInv'
  <1> SUFFICES ASSUME TurnInv, [Next]_vars PROVE InTurn' /\ Told'
    BY Inductive DEF TurnInv
  <1>1. CASE Signal \/ Deliver \/ WorkThreadFails
    BY <1>1, SignalHandled, DeliverHandled, FailureHandled, HandledInTurn, HandledTold
  <1>2. CASE ServerRuns
    <2>1. Head(requests) \in {"start", "wait", "stop"}
      <3>1. requests # <<>> /\ requests \in Seq(Operation)
        BY <1>2 DEF ServerRuns, TurnInv, IInv, TypeOK
      <3> QED BY <3>1 DEF Operation
    <2> QED BY <1>2, <2>1, ServerStarts, ServerWaits, ServerStops
  <1>3. CASE ServerInternal
    BY <1>3, ServerMoves
  <1>4. CASE TimedOut \/ WakesSpuriously \/ Main
    BY <1>4, MainKeeps
  <1>5. CASE UNCHANGED vars
    <2>1. InTurn'
      BY <1>5 DEF vars, TurnInv, InTurn, Early, RequestShape, StartPosted,
                  WaitPosted, StopPosted
    <2>2. Told'
      BY <1>5 DEF vars, TurnInv, Told, Leaving
    <2> QED BY <2>1, <2>2
  <1> QED BY <1>1, <1>2, <1>3, <1>4, <1>5 DEF Next

(***************************************************************************)
(* What holds of the requests, of the replies and of the reasons to stop,  *)
(* whatever comes first.                                                   *)
(***************************************************************************)
THEOREM TurnInvariance == Spec => []TurnInv
  BY TurnStarts, TurnInductive, PTL DEF Spec

(***************************************************************************)
(* Ctrl+C and the end of the server's work race for its stop, but each     *)
(* operation is asked for once, and refused is at most the stop of a       *)
(* server that has failed to start in the meantime.                        *)
(***************************************************************************)
THEOREM AskedInTurn == Spec => []ServerAskedInTurn
  <1>1. TurnInv => ServerAskedInTurn
    BY DEF TurnInv, InTurn, ServerAskedInTurn, Operation
  <1> QED BY <1>1, TurnInvariance, PTL

(***************************************************************************)
(* The exit code of the process tells why it has ended, for every number   *)
(* of signals and of failing threads.                                      *)
(***************************************************************************)
THEOREM ExitCodeTells == Spec => []ExitTellsWhy
  <1>1. TurnInv => ExitTellsWhy
    <2> SUFFICES ASSUME TurnInv, Leaving, main # "exit"
                 PROVE  IF exitCode = "success"
                        THEN /\ userInitiated /\ signals > 0 /\ asked["stop"] = 1
                             /\ value = "stopped" \/ woken = "spurious"
                        ELSE \/ woken = "timed_out"
                             \/ /\ ~userInitiated
                                /\ view.life # "running" \/ threads < WorkThreads
      BY DEF ExitTellsWhy, Leaving
    <2>1. Told /\ exitCode \in {"none", "success", "failure"}
      BY DEF TurnInv, IInv, TypeOK
    <2>2. main \in {"stop_threads", "done"}
      BY DEF Leaving
    <2> QED BY <2>1, <2>2 DEF Told
  <1> QED BY <1>1, TurnInvariance, PTL
=============================================================================
