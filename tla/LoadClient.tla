----------------------------- MODULE LoadClient -----------------------------
(***************************************************************************)
(* The two load applications, src/asio_performance_test_client ("echo")    *)
(* and src/async_connect ("connect"): main, the session manager, which     *)
(* starts its sessions a block at a time, the sessions of ClientSession,   *)
(* and the work_state through which the last session that stops wakes      *)
(* main.  The manager and each session is a strand with threads of its     *)
(* own; main, which only calls, waits and joins, is another thread.        *)
(***************************************************************************)
EXTENDS ClientSession, FiniteSets

CONSTANTS
  SessionCount,   \* session_count
  BlockSize,      \* block_size, the sessions to start at a time
  MaxTotal        \* bound: bytes read, bytes written, connections of a session

ASSUME LoadAssumption ==
  /\ SessionCount \in Nat \ {0} /\ BlockSize \in Nat \ {0}
  /\ MaxTotal \in Nat

Ids == 1..SessionCount

App == {"echo", "connect"}

(***************************************************************************)
(* blockPause and connectPause: the pauses of the configuration are not 0. *)
(* Only the connect session has the second one.                            *)
(***************************************************************************)
Config ==
  {c \in [app : App, blockPause : BOOLEAN, connectPause : BOOLEAN] :
     c.app = "echo" => ~c.connectPause}

(***************************************************************************)
(* inbox holds what is posted to the strand of the manager; "step" is the  *)
(* start of the next block when there is no pause between blocks.  end is  *)
(* the number of sessions that were told to start.                         *)
(***************************************************************************)
Manager ==
  [inbox : Seq({"start", "step", "stop"}), end : 0..SessionCount,
   stopped : BOOLEAN, timer : BOOLEAN, cancelled : BOOLEAN]

VARIABLES config, manager, session, outstanding, main

vars == <<config, manager, session, outstanding, main>>

MainState == {"starting", "started", "waiting", "stopping",
              "joining_manager", "joining_sessions", "done"}

TypeOK ==
  /\ config \in Config /\ manager \in Manager
  /\ \A i \in Ids : session[i] \in Session
  /\ outstanding \in 0..SessionCount /\ main \in MainState

Init ==
  /\ config \in Config
  /\ manager = [inbox |-> << >>, end |-> 0, stopped |-> FALSE,
                timer |-> FALSE, cancelled |-> FALSE]
  /\ session = [i \in Ids |-> NewSession]
  /\ outstanding = SessionCount
  /\ main = "starting"

-----------------------------------------------------------------------------
(* The main thread. *)

Post(handler) == manager' = [manager EXCEPT !.inbox = Append(@, handler)]

\* async_start of the manager.
MainStart ==
  /\ main = "starting" /\ main' = "started" /\ Post("start")
  /\ UNCHANGED <<config, session, outstanding>>

\* Mutant: work_state::wait waits without looking at outstanding_ first.
WaitBlindly ==
  /\ main = "started" /\ main' = "waiting"
  /\ UNCHANGED <<config, manager, session, outstanding>>

\* work_state::wait, up to the wait for the condition.
MainWait ==
  /\ main = "started"
  /\ main' = IF outstanding = 0 THEN "stopping" ELSE "waiting"
  /\ UNCHANGED <<config, manager, session, outstanding>>

\* The wait ends without a notification: the time of the test is over, or
\* the wake-up is spurious, and wait does not look again.
MainTimesOut ==
  /\ main = "waiting" /\ main' = "stopping"
  /\ UNCHANGED <<config, manager, session, outstanding>>

\* async_stop of the manager; its work guard is dropped.
MainStop ==
  /\ main = "stopping" /\ main' = "joining_manager" /\ Post("stop")
  /\ UNCHANGED <<config, session, outstanding>>

\* The thread of the manager has run out of work.
JoinManager ==
  /\ main = "joining_manager" /\ main' = "joining_sessions"
  /\ manager.inbox = << >> /\ ~manager.timer
  /\ UNCHANGED <<config, manager, session, outstanding>>

\* The threads of the sessions have.
JoinSessions ==
  /\ main = "joining_sessions" /\ main' = "done"
  /\ \A i \in Ids : session[i].inbox = << >> /\ Quiet(session[i])
  /\ UNCHANGED <<config, manager, session, outstanding>>

-----------------------------------------------------------------------------
(* The strand of the manager. *)

\* Sessions first..last are told to start, or to stop.
Tell(first, last, request) ==
  session' = [i \in Ids |-> IF i \in first..last
                            THEN [session[i] EXCEPT !.inbox = Append(@, request)]
                            ELSE session[i]]

\* start_sessions, and schedule_session_start if there are more of them. m is
\* the manager after what the handler did before.
StartBlock(m) ==
  LET room == SessionCount - m.end
      end == m.end + IF BlockSize < room THEN BlockSize ELSE room
      n == [m EXCEPT !.end = end]
  IN  /\ Tell(m.end + 1, end, "start")
      /\ manager' = IF end = SessionCount THEN n
                    ELSE IF config.blockPause THEN [n EXCEPT !.timer = TRUE]
                    ELSE [n EXCEPT !.inbox = Append(@, "step")]

\* Mutant: do_stop tells only the sessions of the last block.
StopLastBlock(m) ==
  IF m.stopped THEN manager' = m /\ UNCHANGED session
  ELSE /\ manager' = [m EXCEPT !.stopped = TRUE, !.cancelled = m.timer]
       /\ Tell(m.end, m.end, "stop")

\* do_stop of the manager.
StopSessions(m) ==
  IF m.stopped THEN manager' = m /\ UNCHANGED session
  ELSE /\ manager' = [m EXCEPT !.stopped = TRUE, !.cancelled = m.timer]
       /\ Tell(1, m.end, "stop")

\* The posted do_start, do_stop, or next block.
ManagerHandler ==
  /\ manager.inbox # << >>
  /\ LET m == [manager EXCEPT !.inbox = Tail(@)] IN
     CASE Head(manager.inbox) = "stop" -> StopSessions(m)
       [] Head(manager.inbox) # "stop" /\ m.stopped ->
            manager' = m /\ UNCHANGED session
       [] OTHER -> StartBlock(m)
  /\ UNCHANGED <<config, outstanding, main>>

\* handle_scheduled_session_start as the handler of the timer; failed: an
\* error that is not operation_aborted.
ManagerTimer ==
  /\ manager.timer
  /\ LET m == [manager EXCEPT !.timer = FALSE, !.cancelled = FALSE] IN
     \E failed \in BOOLEAN :
        CASE m.stopped -> manager' = m /\ UNCHANGED session
          [] ~m.stopped /\ failed -> StopSessions(m)
          [] OTHER -> StartBlock(m)
  /\ UNCHANGED <<config, outstanding, main>>

-----------------------------------------------------------------------------
(* The strands of the sessions. *)

\* A handler leaves session i as s.  If that stopped the last session,
\* dec_outstanding notifies main.
Becomes(i, s) ==
  /\ session' = [session EXCEPT ![i] = s]
  /\ outstanding' = outstanding - (s.left - session[i].left)
  /\ main' = IF outstanding' = 0 /\ outstanding > 0 /\ main = "waiting"
             THEN "stopping" ELSE main
  /\ UNCHANGED <<config, manager>>

SessionRequest(i) ==
  /\ session[i].inbox # << >>
  /\ Becomes(i, IF Head(session[i].inbox) = "start"
                THEN DoStart(session[i]) ELSE DoStop(session[i]))

SessionConnect(i) ==
  /\ session[i].connect > 0
  /\ \E error, badOptions \in BOOLEAN :
       /\ error \/ session[i].totals.connects < MaxTotal
       /\ Becomes(i, IF config.app = "echo"
                     THEN HandleConnect(session[i], error, badOptions)
                     ELSE HandleConnectAgain(session[i], error, badOptions,
                                             config.connectPause))

\* No error comes with data of a socket stream.
SessionRead(i) ==
  /\ session[i].read > 0
  /\ \E bytes \in 0..session[i].read :
       /\ session[i].totals.read + bytes <= MaxTotal
       /\ Becomes(i, HandleRead(session[i], bytes, bytes = 0))

SessionWrite(i) ==
  /\ session[i].write > 0
  /\ \E bytes \in 0..session[i].write :
       /\ session[i].totals.written + bytes <= MaxTotal
       /\ Becomes(i, HandleWrite(session[i], bytes, bytes = 0))

SessionTimer(i) ==
  /\ session[i].timer
  /\ \E failed \in BOOLEAN : Becomes(i, HandleTimer(session[i], failed))

Next ==
  \/ MainStart \/ MainWait \/ MainTimesOut \/ MainStop
  \/ JoinManager \/ JoinSessions
  \/ ManagerHandler \/ ManagerTimer
  \/ \E i \in Ids : \/ SessionRequest(i) \/ SessionConnect(i)
                    \/ SessionRead(i) \/ SessionWrite(i) \/ SessionTimer(i)
  \/ main = "done" /\ UNCHANGED vars

Spec == Init /\ [][Next]_vars

(***************************************************************************)
(* The operating system runs the threads, timers expire, and an operation  *)
(* on a closed socket completes.  Nothing is assumed of the peer, of the   *)
(* operations on an open socket, or of the time that the test may take.    *)
(***************************************************************************)
Completes(i) ==
  ~session[i].open /\ (SessionConnect(i) \/ SessionRead(i) \/ SessionWrite(i))

Fairness ==
  /\ WF_vars(MainStart) /\ WF_vars(MainWait) /\ WF_vars(MainStop)
  /\ WF_vars(JoinManager) /\ WF_vars(JoinSessions)
  /\ WF_vars(ManagerHandler) /\ WF_vars(ManagerTimer)
  /\ \A i \in Ids : /\ WF_vars(SessionRequest(i)) /\ WF_vars(SessionTimer(i))
                    /\ WF_vars(Completes(i))

FairSpec == Spec /\ Fairness

-----------------------------------------------------------------------------
(***************************************************************************)
(* Properties.                                                             *)
(***************************************************************************)

\* The outstanding work is the number of sessions that have not stopped:
\* each of them leaves it once, on whichever of the many ways it stops. One
\* more, and the unsigned counter wraps below zero; one less, and the test
\* waits for its time although nothing is left to do.
OutstandingExact ==
  /\ TypeOK
  /\ outstanding = Cardinality({i \in Ids : ~session[i].stopped})

\* A connected echo session never stalls: it reads unless the buffer is full
\* and it writes unless the buffer is empty, and what it reads into is never
\* what it writes from.
EchoKeepsGoing ==
  \A i \in Ids :
    LET s == session[i] IN
    /\ s.write <= s.filled /\ s.filled + s.read <= BufferSize
    /\ config.app = "echo" /\ s.connected =>
         /\ s.read = 0 => s.filled = BufferSize
         /\ s.write = 0 => s.filled = 0

Sum(f, n) == LET g[k \in 0..n] == IF k = 0 THEN 0 ELSE f[k] + g[k - 1] IN g[n]

\* ~session_manager: register_stats for the sessions that were told to start.
Total(count(_, _)) ==
  LET g[k \in 0..manager.end] ==
        IF k = 0 THEN Zero ELSE count(g[k - 1], session[k])
  IN  g[manager.end]

\* stats::add of the echo application.
SessionsConnected ==
  LET Count(c, s) == IF s.wasConnected THEN Increment(c) ELSE c IN Total(Count)
BytesWritten ==
  LET Count(c, s) == IF s.wasConnected THEN AddCounter(c, s.bytesWritten) ELSE c
  IN  Total(Count)
BytesRead ==
  LET Count(c, s) == IF s.wasConnected THEN AddCounter(c, s.bytesRead) ELSE c
  IN  Total(Count)

\* stats::add of the connect application.
Connects == LET Count(c, s) == AddCounter(c, s.connects) IN Total(Count)

\* What is printed in the end is what all the sessions really did, also when
\* operations completed after the session had stopped, and when the counters
\* of a session or the sum of them ran out of room.
StatsExact ==
  main = "done" =>
    LET Done(what) == Sum([i \in Ids |-> session[i].totals[what]], SessionCount) IN
    IF config.app = "echo"
    THEN /\ Counts(SessionsConnected, Done("connects"))
         /\ Counts(BytesWritten, Done("written"))
         /\ Counts(BytesRead, Done("read"))
    ELSE Counts(Connects, Done("connects"))

(***************************************************************************)
(* The test ends: when all the sessions are gone without waiting for its   *)
(* time, and after its time whatever the peers do.  By then the threads    *)
(* are joined, and the assertions of the destructors hold: no timer waits, *)
(* no session is connected, and each one that started has stopped.         *)
(***************************************************************************)
EndsClean ==
  /\ main = "done" /\ manager.stopped /\ ~manager.timer
  /\ \A i \in Ids : LET s == session[i] IN
                    /\ s.started => s.stopped
                    /\ ~s.connected /\ s.read = 0 /\ s.write = 0

ClientEnds ==
  (outstanding = 0 \/ main \in {"stopping", "joining_manager"}) ~> EndsClean

=============================================================================
