--------------------------- MODULE SessionManager ---------------------------
(***************************************************************************)
(* ma::echo::server::session_manager (src/ma/echo/server/session_manager   *)
(* .cpp): the acceptor of the echo server, its bounded set of sessions and *)
(* the stop that goes through all of them.                                 *)
(*                                                                         *)
(* The manager runs on a strand of its own, so one of its handlers is one  *)
(* action.  Each session runs on another strand, maybe in another thread:  *)
(*   - the manager's calls of async_start, async_wait and async_stop are   *)
(*     posted to the session's strand and run there in the order of the    *)
(*     calls (the field `requests' of a session);                          *)
(*   - the completions are posted back through the io_services, which hand *)
(*     them to any of their threads: they reach the manager in any order   *)
(*     (the field `replies').                                              *)
(* What a session does with a request is its SessionContract.              *)
(*                                                                         *)
(* As in EchoSession, the C++ object is one record and each of its member  *)
(* functions an operator from a record to a record.                        *)
(***************************************************************************)
EXTENDS SessionContract, Naturals, Sequences, SequencesExt, FiniteSetsExt

CONSTANTS
  MaxSessions,           \* max_session_count_
  RecycledSessionCount,  \* recycled_session_count_
  MaxStopping,           \* max_stopping_sessions_
  Faults                 \* the sets of calls that may fail in one handler

(***************************************************************************)
(* "open" is open_acceptor, "create" is create_session.                    *)
(***************************************************************************)
ASSUME SessionManagerAssumption ==
  /\ MaxSessions \in Nat \ {0}
  /\ RecycledSessionCount \in Nat
  /\ MaxStopping \in Nat \ {0}
  /\ Faults \subseteq SUBSET {"open", "create"}

VARIABLE server

-----------------------------------------------------------------------------
(***************************************************************************)
(* The session wrappers, each with the session attached to it.  They are   *)
(* allocated on demand in the code; here they are numbered, one more than  *)
(* the manager may ever need (SessionsBounded).  None is the null pointer. *)
(***************************************************************************)
Slot == 1 .. MaxSessions + 1
None == 0

Wrapper == [state : {"free", "ready", "start", "work", "stop", "stopped"},
            ops : Nat]

FreeWrapper == [state |-> "free", ops |-> 0]

(***************************************************************************)
(* A session as the manager sees it: its view, the requests that were not  *)
(* yet run on its strand, and the replies that have not yet reached the    *)
(* manager.                                                                *)
(***************************************************************************)
Operation == {"start", "wait", "stop"}
ReplyError == Cause \cup {"invalid_state"}

ManagedSession == [view : SessionView, requests : Seq(Operation),
                   replies : SUBSET (Operation \X ReplyError)]

FreshSession == [view |-> FreshView, requests |-> <<>>, replies |-> {}]

(***************************************************************************)
(* The members of the class.  accepting is the wrapper bound to the accept *)
(* handler, stopScheduled whether the handler of                           *)
(* schedule_active_session_stop is posted, recycled the size of            *)
(* recycled_sessions_.  The fields below the line are history:             *)
(*   owed          handlers accepted by async_wait and async_stop and not  *)
(*                 yet called                                              *)
(*   unreported    total_accepted of the statistics less the sum of its    *)
(*                 four counters of stopped sessions                       *)
(*   startedLate   sessions whose start succeeded after the server began   *)
(*                 to stop                                                 *)
(*   badReset      some session was reset while it was not idle            *)
(***************************************************************************)
Server ==
  [extern : {"ready", "work", "stop", "stopped"},
   intern : {"work", "stop", "stopped"},
   accept : {"ready", "in_progress", "stopped"},
   accepting : Slot \cup {None},
   pending : Nat,
   acceptorOpen : BOOLEAN,
   active : Seq(Slot),
   recycled : 0 .. RecycledSessionCount,
   stoppingEnd : Slot \cup {None}, stopScheduled : BOOLEAN,
   acceptError : {"none", "error"},
   waitError : {"none", "error", "operation_aborted"},
   waitHandler : BOOLEAN, stopHandler : BOOLEAN,
   wrapper : [Slot -> Wrapper], session : [Slot -> ManagedSession],
   \* ---------------------------------------------------------------
   owed : [wait : Nat, stop : Nat],
   unreported : Nat, startedLate : Nat, badReset : BOOLEAN]

NewServer ==
  [extern |-> "ready", intern |-> "work",
   accept |-> "ready", accepting |-> None,
   pending |-> 0,
   acceptorOpen |-> FALSE,
   active |-> <<>>, recycled |-> 0,
   stoppingEnd |-> None, stopScheduled |-> FALSE,
   acceptError |-> "none", waitError |-> "none",
   waitHandler |-> FALSE, stopHandler |-> FALSE,
   wrapper |-> [w \in Slot |-> FreeWrapper],
   session |-> [w \in Slot |-> FreshSession],
   owed |-> [wait |-> 0, stop |-> 0],
   unreported |-> 0, startedLate |-> 0, badReset |-> FALSE]

-----------------------------------------------------------------------------
(* Notifying the user of the server. *)

\* Mutant: a later reason replaces the one the server stopped for.
OverwritesReason(m, error) ==
  LET parked == IF m.waitHandler THEN 1 ELSE 0
  IN  [m EXCEPT !.waitError   = error,
                !.waitHandler = FALSE,
                !.owed.wait   = @ - parked]

CompleteExternWait(m, error) ==
  LET parked == IF m.waitHandler THEN 1 ELSE 0
  IN  [m EXCEPT !.waitError   = IF @ = "none" THEN error ELSE @,
                !.waitHandler = FALSE,
                !.owed.wait   = @ - parked]

CompleteExternStop(m) ==
  LET parked == IF m.stopHandler THEN 1 ELSE 0
  IN  [m EXCEPT !.stopHandler = FALSE, !.owed.stop = @ - parked]

-----------------------------------------------------------------------------
(* Operations on a session, and the lists the manager keeps of them. *)

(***************************************************************************)
(* start_session_start, start_session_wait and start_session_stop, with    *)
(* the member function of session_wrapper each of them calls: a request is *)
(* posted to the session and counted twice, by the wrapper and by the      *)
(* manager.  A wait leaves the wrapper's state alone.                      *)
(***************************************************************************)
Request(m, w, op) ==
  [m EXCEPT !.session[w].requests = Append(@, op),
            !.wrapper[w].ops   = @ + 1,
            !.wrapper[w].state = IF op = "wait" THEN @ ELSE op,
            !.pending = @ + 1]

Completed(m, w) == [m EXCEPT !.pending = @ - 1, !.wrapper[w].ops = @ - 1]

Reported(m) == [m EXCEPT !.unreported = @ - 1]

\* Mutant: a session is recycled with its last handler still to come.
RecyclesEarly(m, w) ==
  IF m.wrapper[w].ops > 1 THEN m
  ELSE [m EXCEPT
          !.wrapper[w] = FreeWrapper,
          !.session[w] = FreshSession,
          !.recycled   = IF @ < RecycledSessionCount THEN @ + 1 ELSE @,
          !.badReset   = @ \/ m.session[w] # [FreshSession EXCEPT
                                                !.view = m.session[w].view]
                           \/ ~CanReset(m.session[w].view)]

(***************************************************************************)
(* recycle: the last handler that holds a session resets it and gives it   *)
(* back to the factory.  The wrapper is kept for a later session or freed, *)
(* which is the same but for the counter.                                  *)
(***************************************************************************)
Recycle(m, w) ==
  IF m.wrapper[w].ops # 0 THEN m
  ELSE [m EXCEPT
          !.wrapper[w] = FreeWrapper,
          !.session[w] = FreshSession,
          !.recycled   = IF @ < RecycledSessionCount THEN @ + 1 ELSE @,
          !.badReset   = @ \/ m.session[w] # [FreshSession EXCEPT
                                                !.view = m.session[w].view]
                           \/ ~CanReset(m.session[w].view)]

AddToActive(m, w) == [m EXCEPT !.active = Cons(w, @)]

(***************************************************************************)
(* The session after w in active_sessions_.                                *)
(***************************************************************************)
Position(m, w) == CHOOSE i \in DOMAIN m.active : m.active[i] = w

NextActive(m, w) ==
  LET p == Position(m, w)
  IN  IF p < Len(m.active) THEN m.active[p + 1] ELSE None

\* Mutant: the session at the cursor is erased without moving the cursor.
LeavesCursor(m, w) ==
  [m EXCEPT !.wrapper[w].state = "stopped",
            !.active = RemoveAt(@, Position(m, w))]

(***************************************************************************)
(* mark_stopped and remove_from_active, which moves the cursor of a stop   *)
(* in progress off the erased session.                                     *)
(***************************************************************************)
RemoveFromActive(m, w) ==
  [m EXCEPT !.wrapper[w].state = "stopped",
            !.stoppingEnd = IF @ = w THEN NextActive(m, w) ELSE @,
            !.active = RemoveAt(@, Position(m, w))]

-----------------------------------------------------------------------------
(* The internal stop. *)

\* Mutant: the stop is complete as soon as the list of sessions is empty.
IgnoresLateHandlers(m) ==
  IF m.active # <<>> \/ m.accept = "in_progress" \/ m.stopScheduled THEN m
  ELSE IF m.extern = "stop"
    THEN CompleteExternStop([m EXCEPT !.intern = "stopped",
                                      !.extern = "stopped"])
    ELSE [m EXCEPT !.intern = "stopped"]

(***************************************************************************)
(* continue_stop: the manager is stopped when its last operation is.       *)
(***************************************************************************)
ContinueStop(m) ==
  IF m.pending # 0 THEN m
  ELSE IF m.extern = "stop"
    THEN CompleteExternStop([m EXCEPT !.intern = "stopped",
                                      !.extern = "stopped"])
    ELSE [m EXCEPT !.intern = "stopped"]

\* Mutant: sessions that the last batch did not reach are not scheduled.
StopsOneBatch(m, begin) ==
  LET first == IF begin = None THEN Len(m.active) + 1 ELSE Position(m, begin)
      batch == {w \in Slot : \E i \in first .. Len(m.active) :
                  /\ i < first + MaxStopping
                  /\ m.active[i] = w /\ m.wrapper[w].state # "stop"}
  IN  [m EXCEPT !.wrapper = [w \in Slot |-> IF w \in batch
                                  THEN Request(m, w, "stop").wrapper[w] ELSE @[w]],
                !.session = [w \in Slot |-> IF w \in batch
                                  THEN Request(m, w, "stop").session[w] ELSE @[w]],
                !.pending = @ + Cardinality(batch)]

(***************************************************************************)
(* start_active_session_stop from the session `begin' on, followed, as it  *)
(* is wherever it is called, by the assignment of the cursor and, unless   *)
(* that is null, by schedule_active_session_stop.                          *)
(***************************************************************************)
StopBatch(m, begin) ==
  LET first == IF begin = None THEN Len(m.active) + 1 ELSE Position(m, begin)
      batch == {w \in Slot : \E i \in first .. Len(m.active) :
                  /\ i < first + MaxStopping
                  /\ m.active[i] = w /\ m.wrapper[w].state # "stop"}
      more  == first + MaxStopping <= Len(m.active)
  IN  [m EXCEPT !.wrapper = [w \in Slot |-> IF w \in batch
                                  THEN Request(m, w, "stop").wrapper[w] ELSE @[w]],
                !.session = [w \in Slot |-> IF w \in batch
                                  THEN Request(m, w, "stop").session[w] ELSE @[w]],
                !.stoppingEnd = IF more THEN m.active[first + MaxStopping]
                                        ELSE None,
                !.stopScheduled = more,
                !.pending = @ + Cardinality(batch) + IF more THEN 1 ELSE 0]

FrontActive(m) == IF m.active = <<>> THEN None ELSE m.active[1]

(***************************************************************************)
(* start_stop.                                                             *)
(***************************************************************************)
StartStop(m, error) ==
  LET closed == [m EXCEPT !.intern = "stop", !.acceptorOpen = FALSE,
                          !.accept = IF @ = "ready" THEN "stopped" ELSE @]
      told   == IF m.extern = "work" THEN CompleteExternWait(closed, error)
                                     ELSE closed
  IN  ContinueStop(StopBatch(told, FrontActive(told)))

-----------------------------------------------------------------------------
(* Normal work: accept for as long as there is room. *)

(***************************************************************************)
(* create_session and start_accept_session.  The acceptor is open and      *)
(* accept_error_ was cleared.                                              *)
(***************************************************************************)
StartAccept(m) ==
  LET w == CHOOSE x \in Slot : m.wrapper[x].state = "free"
  IN  [m EXCEPT !.wrapper[w].state = "ready",
                !.recycled = IF @ > 0 THEN @ - 1 ELSE 0,
                !.acceptorOpen = TRUE, !.acceptError = "none",
                !.accept = "in_progress", !.accepting = w,
                !.pending = @ + 1]

(***************************************************************************)
(* Accepting has failed: it is over for good, and so is the server if it   *)
(* has no session.                                                         *)
(***************************************************************************)
StopAccepting(m) ==
  LET given == [m EXCEPT !.accept = "stopped", !.acceptError = "error"]
  IN  IF m.active = <<>> THEN StartStop(given, "error") ELSE given

\* Mutant: a server that is full keeps its acceptor open.
KeepsAcceptorOpen(m, fault) ==
  IF m.active = <<>> /\ m.accept = "stopped" THEN StartStop(m, m.acceptError)
  ELSE IF m.accept # "ready" \/ Len(m.active) >= MaxSessions THEN m
  ELSE IF ~m.acceptorOpen /\ "open" \in fault THEN StopAccepting(m)
  ELSE IF "create" \in fault
    THEN IF m.active # <<>>
           THEN [m EXCEPT !.acceptorOpen = TRUE, !.acceptError = "error"]
           ELSE StopAccepting([m EXCEPT !.acceptorOpen = TRUE])
  ELSE StartAccept(m)

\* Mutant: a full server accepts one more.
AcceptsOneMore(m, fault) ==
  IF m.active = <<>> /\ m.accept = "stopped" THEN StartStop(m, m.acceptError)
  ELSE IF m.accept # "ready" THEN m
  ELSE IF Len(m.active) > MaxSessions THEN [m EXCEPT !.acceptorOpen = FALSE]
  ELSE IF ~m.acceptorOpen /\ "open" \in fault THEN StopAccepting(m)
  ELSE IF "create" \in fault
    THEN IF m.active # <<>>
           THEN [m EXCEPT !.acceptorOpen = TRUE, !.acceptError = "error"]
           ELSE StopAccepting([m EXCEPT !.acceptorOpen = TRUE])
  ELSE StartAccept(m)

ContinueWork(m, fault) ==
  IF m.active = <<>> /\ m.accept = "stopped" THEN StartStop(m, m.acceptError)
  ELSE IF m.accept # "ready" THEN m
  ELSE IF Len(m.active) >= MaxSessions THEN [m EXCEPT !.acceptorOpen = FALSE]
  ELSE IF ~m.acceptorOpen /\ "open" \in fault THEN StopAccepting(m)
  ELSE IF "create" \in fault
    THEN IF m.active # <<>>
           THEN [m EXCEPT !.acceptorOpen = TRUE, !.acceptError = "error"]
           ELSE StopAccepting([m EXCEPT !.acceptorOpen = TRUE])
  ELSE StartAccept(m)

(***************************************************************************)
(* Every handler has a variant for intern_state::work and one for          *)
(* intern_state::stop; most of them differ by their last call only.        *)
(***************************************************************************)
Continue(m, fault) ==
  IF m.intern = "work" THEN ContinueWork(m, fault) ELSE ContinueStop(m)

-----------------------------------------------------------------------------
(* What the user of the server asks for. *)

DoStartExternStart(m, fault) ==
  LET worked == ContinueWork([m EXCEPT !.extern = "work"], fault)
  IN  IF worked.intern = "stopped" THEN [worked EXCEPT !.extern = "stopped"]
                                   ELSE worked

\* Mutant: the waiting user is left to start_stop.
ForgetsWaiter(m) ==
  LET asked   == [m EXCEPT !.extern = "stop"]
      stopped == IF m.intern = "work"
                   THEN StartStop(asked, "operation_aborted") ELSE asked
  IN  IF stopped.intern = "stopped"
        THEN [stopped EXCEPT !.extern = "stopped"]
        ELSE [stopped EXCEPT !.stopHandler = TRUE, !.owed.stop = @ + 1]

DoStartExternStop(m) ==
  LET told    == CompleteExternWait([m EXCEPT !.extern = "stop"],
                                    "operation_aborted")
      stopped == IF m.intern = "work"
                   THEN StartStop(told, "operation_aborted") ELSE told
  IN  IF stopped.intern = "stopped"
        THEN [stopped EXCEPT !.extern = "stopped"]
        ELSE [stopped EXCEPT !.stopHandler = TRUE, !.owed.stop = @ + 1]

CanParkWait(m) ==
  m.extern = "work" /\ ~m.waitHandler /\ m.intern = "work"

DoReset(m, freeRecycled) ==
  [m EXCEPT !.extern = "ready", !.intern = "work", !.accept = "ready",
            !.pending = 0, !.acceptorOpen = FALSE, !.active = <<>>,
            !.recycled = IF freeRecycled THEN 0 ELSE @,
            !.waitError = "none", !.unreported = 0, !.startedLate = 0]

-----------------------------------------------------------------------------
(* The completion handlers. *)

(***************************************************************************)
(* handle_accept_at_work and handle_accept_at_stop.  The branch of the     *)
(* former for a server that is full is the one of the latter for a session *)
(* that comes too late.                                                    *)
(***************************************************************************)
HandleAcceptAtWork(m, error, fault) ==
  LET w    == m.accepting
      done == [m EXCEPT !.pending = @ - 1, !.accept = "ready",
                        !.accepting = None]
      got  == [done EXCEPT !.unreported = @ + 1]
  IN  IF error # "none"
        THEN ContinueWork(Recycle([done EXCEPT !.accept = "stopped",
                                               !.acceptError = error], w),
                          fault)
      ELSE IF Len(m.active) >= MaxSessions
        THEN ContinueWork(Recycle(Reported(got), w), fault)
      ELSE ContinueWork(Request(AddToActive(got, w), w, "start"), fault)

HandleAcceptAtStop(m) ==
  ContinueStop(Recycle([m EXCEPT !.pending = @ - 1, !.accept = "stopped",
                                 !.accepting = None], m.accepting))

\* Mutant: a session that is starting is stopped once more when it has
\* started, whether or not it was stopped in the meantime.
IgnoresWrapperState(m, w, error, fault) ==
  LET done == Completed(m, w)
  IN  IF error # "none"
        THEN Continue(Recycle(IF m.wrapper[w].state = "start"
                                THEN RemoveFromActive(Reported(done), w)
                                ELSE Reported(done), w), fault)
      ELSE IF m.intern = "work"
        THEN ContinueWork(Request([done EXCEPT !.wrapper[w].state = "work"],
                                  w, "wait"), fault)
      ELSE ContinueStop(Request([done EXCEPT !.startedLate = @ + 1], w, "stop"))

(***************************************************************************)
(* handle_session_start_at_work and _at_stop.  A session that was told to  *)
(* stop while it was starting (its wrapper has left `start') is only given *)
(* back, if nothing else holds it.                                         *)
(***************************************************************************)
HandleSessionStart(m, w, error, fault) ==
  LET done == Completed(m, w)
  IN  IF m.wrapper[w].state # "start"
        THEN Continue(Recycle(Reported(done), w), fault)
      ELSE IF error # "none"
        THEN Continue(Recycle(RemoveFromActive(Reported(done), w), w), fault)
      ELSE IF m.intern = "work"
        THEN ContinueWork(Request([done EXCEPT !.wrapper[w].state = "work"],
                                  w, "wait"), fault)
      ELSE ContinueStop(Request([done EXCEPT !.startedLate = @ + 1], w, "stop"))

\* Mutant: a session that was stopped while it waited is not reported.
ReportsWorkingOnly(m, w, fault) ==
  LET done == Completed(m, w)
  IN  IF m.wrapper[w].state # "work"
        THEN Continue(Recycle(done, w), fault)
        ELSE Continue(Request(Reported(done), w, "stop"), fault)

\* Mutant: a session that has run out of work is left to the peer.
ForgetsFinishedSession(m, w, fault) ==
  LET done == Reported(Completed(m, w))
  IN  IF m.wrapper[w].state # "work"
        THEN Continue(Recycle(done, w), fault)
        ELSE Continue(done, fault)

(***************************************************************************)
(* handle_session_wait_at_work and _at_stop.                               *)
(***************************************************************************)
HandleSessionWait(m, w, fault) ==
  LET done == Reported(Completed(m, w))
  IN  IF m.wrapper[w].state # "work"
        THEN Continue(Recycle(done, w), fault)
        ELSE Continue(Request(done, w, "stop"), fault)

\* Mutant: a stopped session is reported as well as the end of its work.
ReportsStopToo(m, w, fault) ==
  LET done == Reported(Completed(m, w))
  IN  IF m.wrapper[w].state # "stop"
        THEN Continue(Recycle(done, w), fault)
        ELSE Continue(Recycle(RemoveFromActive(done, w), w), fault)

(***************************************************************************)
(* handle_session_stop_at_work and _at_stop, in a build without assertions.*)
(***************************************************************************)
HandleSessionStop(m, w, fault) ==
  LET done == Completed(m, w)
  IN  IF m.wrapper[w].state # "stop"
        THEN Continue(Recycle(done, w), fault)
        ELSE Continue(Recycle(RemoveFromActive(done, w), w), fault)

HandleScheduledActiveSessionStop(m) ==
  ContinueStop(StopBatch([m EXCEPT !.pending = @ - 1], m.stoppingEnd))

-----------------------------------------------------------------------------
(* The steps of the manager. *)

Init == server = NewServer

ExternStart ==
  /\ server.extern = "ready"
  /\ \E fault \in Faults : server' = DoStartExternStart(server, fault)

ExternStop ==
  /\ server.extern \in {"ready", "work"}
  /\ server' = DoStartExternStop(server)

ExternWait ==
  /\ CanParkWait(server)
  /\ server' = [server EXCEPT !.waitHandler = TRUE, !.owed.wait = @ + 1]

Reset ==
  /\ server.extern = "stopped"
  /\ \E freeRecycled \in BOOLEAN : server' = DoReset(server, freeRecycled)

(***************************************************************************)
(* An accept may succeed even after the acceptor was closed, if the        *)
(* connection was there before.                                            *)
(***************************************************************************)
HandleAccept ==
  /\ server.accept = "in_progress"
  /\ \E error \in {"none", "error"}, fault \in Faults :
       server' = IF server.intern = "work"
                   THEN HandleAcceptAtWork(server, error, fault)
                   ELSE HandleAcceptAtStop(server)

(***************************************************************************)
(* A completion of session w reaches the manager's strand.                 *)
(***************************************************************************)
Deliver(w) ==
  \E reply \in server.session[w].replies, fault \in Faults :
    LET m == [server EXCEPT !.session[w].replies = @ \ {reply}]
    IN  server' = CASE reply[1] = "start" ->
                         HandleSessionStart(m, w, reply[2], fault)
                    [] reply[1] = "wait" -> HandleSessionWait(m, w, fault)
                    [] reply[1] = "stop" -> HandleSessionStop(m, w, fault)

HandleScheduledStop ==
  /\ server.stopScheduled
  /\ server' = HandleScheduledActiveSessionStop(server)

(***************************************************************************)
(* The steps of a session: the next request runs on its strand, or it      *)
(* leaves its work by itself, or ends.  Why it does so makes no difference *)
(* to the manager.                                                         *)
(***************************************************************************)
Moved(s, o) == [s EXCEPT !.view = o.view, !.replies = @ \cup o.replies]

SessionMoves(w, outcomes) ==
  \E o \in outcomes :
    server' = [server EXCEPT !.session[w] = Moved(@, o)]

SessionRuns(w) ==
  LET s == server.session[w]
      outcomes ==
        CASE Head(s.requests) = "start" -> StartOutcomes(s.view)
          [] Head(s.requests) = "wait"  -> WaitOutcomes(s.view)
          [] Head(s.requests) = "stop"  -> StopOutcomes(s.view)
  IN  /\ s.requests # <<>>
      /\ \E o \in outcomes :
           server' = [server EXCEPT
                        !.session[w] = [view |-> o.view,
                                        requests |-> Tail(s.requests),
                                        replies |-> s.replies \cup o.replies]]

SessionInternal(w) ==
  SessionMoves(w, InternalOutcomes(server.session[w].view, {"eof"}))

Next ==
  \/ ExternStart \/ ExternStop \/ ExternWait \/ Reset
  \/ HandleAccept \/ HandleScheduledStop
  \/ \E w \in Slot : Deliver(w) \/ SessionRuns(w) \/ SessionInternal(w)

Spec == Init /\ [][Next]_server

-----------------------------------------------------------------------------
(* Safety. *)

TypeOK == server \in Server

(***************************************************************************)
(* An operation that the manager has requested of a session, and whose     *)
(* reply it has not handled.                                               *)
(***************************************************************************)
Awaits(s, op) ==
  \/ Contains(s.requests, op)
  \/ op = "wait" /\ s.view.waiting
  \/ op = "stop" /\ s.view.stopping
  \/ \E reply \in s.replies : reply[1] = op

Outstanding(w, op) == Awaits(server.session[w], op)

(***************************************************************************)
(* The manager stays in its type, and pending_operations_ of the manager   *)
(* and of its wrappers count what is outstanding, wherever it is.  So      *)
(* nothing can call back into a stopped manager: it has no sessions, its   *)
(* acceptor is closed, and the assertions of continue_stop and of the      *)
(* handlers' switches hold.  And no session is reset and given back to its *)
(* factory before it is idle: nothing it was asked for is still to run,    *)
(* and no handler of the manager is still to come.  The handlers of        *)
(* async_wait and async_stop are called exactly once, and a server that    *)
(* has left its work knows the error to tell.                              *)
(***************************************************************************)
PendingAccounted ==
  /\ TypeOK
  /\ ~server.badReset
  /\ server.pending =
       Cardinality({x \in {"accept"} : server.accept = "in_progress"})
       + Cardinality({x \in {"scheduled"} : server.stopScheduled})
       + Cardinality({x \in Slot \X Operation : Outstanding(x[1], x[2])})
  /\ \A w \in Slot :
       server.wrapper[w].ops =
         Cardinality({op \in Operation : Outstanding(w, op)})
  /\ server.intern = "stopped" =>
       /\ server.accept = "stopped" /\ ~server.acceptorOpen
       /\ server.active = <<>> /\ ~server.stopScheduled
       /\ \A w \in Slot : /\ server.wrapper[w] = FreeWrapper
                          /\ server.session[w] = FreshSession
  /\ server.owed.wait = IF server.waitHandler THEN 1 ELSE 0
  /\ server.owed.stop = IF server.stopHandler THEN 1 ELSE 0
  /\ server.waitHandler => server.extern = "work" /\ server.intern = "work"
  /\ server.stopHandler <=> server.extern = "stop"
  /\ server.extern = "stop" => server.intern = "stop"
  /\ server.extern = "stopped" => server.intern = "stopped"
  /\ server.extern = "work" /\ server.intern # "work" =>
       server.waitError # "none"

(***************************************************************************)
(* A working server accepts for as long as it has room.  If it does not,   *)
(* then it is full, with its acceptor closed so that peers are refused and *)
(* not left to queue, or an error stands in its way and a session is left  *)
(* whose end makes it try again or stop.  And max_session_count bounds the *)
(* sessions that exist, accepted or about to be, those whose last handlers *)
(* are late included; not only the list of active ones, which is all the   *)
(* code compares it with.                                                  *)
(***************************************************************************)
AcceptsWhileRoom ==
  /\ Cardinality({w \in Slot : server.wrapper[w].state # "free"}) <= MaxSessions
  /\ server.extern = "work" /\ server.intern = "work" =>
       LET size == Len(server.active)
       IN  CASE server.accept = "in_progress" ->
                  size < MaxSessions /\ server.acceptorOpen
             [] server.accept = "ready" ->
                  \/ size = MaxSessions /\ ~server.acceptorOpen
                  \/ size > 0 /\ server.acceptError # "none"
             [] server.accept = "stopped" ->
                  size > 0 /\ server.acceptError # "none"

(***************************************************************************)
(* No session is forgotten: the active sessions are those that are neither *)
(* free nor being accepted nor done with, each of them once, and each has  *)
(* an operation outstanding whose reply drives it on.                      *)
(***************************************************************************)
SessionsAttended ==
  /\ Cardinality(ToSet(server.active)) = Len(server.active)
  /\ \A w \in Slot :
       LET state == server.wrapper[w].state
       IN  /\ w \in ToSet(server.active) <=> state \in {"start", "work", "stop"}
           /\ state = "ready" <=> server.accepting = w
           /\ state = "start" => Outstanding(w, "start")
           /\ state = "work" => Outstanding(w, "wait")
           /\ state = "stop" => Outstanding(w, "stop")
           /\ state = "stopped" => server.wrapper[w].ops > 0

(***************************************************************************)
(* A stop in batches reaches every session: those before the cursor are    *)
(* being stopped, and the handler that goes on from the cursor is posted   *)
(* for as long as the cursor is on a session, which is an active one.      *)
(***************************************************************************)
StopReachesEverySession ==
  server.intern = "stop" =>
    /\ server.stoppingEnd # None => server.stopScheduled
    /\ server.stoppingEnd \in {None} \cup ToSet(server.active)
    /\ \A i \in 1 .. Len(server.active) :
         (\A j \in 1 .. i : server.active[j] # server.stoppingEnd) =>
           server.wrapper[server.active[i]].state = "stop"

(***************************************************************************)
(* The requests of a session come in turn.  A start and a wait, whose      *)
(* handlers share one allocator that is not synchronised, are never        *)
(* outstanding together; none of them is refused; a stop is refused only   *)
(* by a session that could not start.                                      *)
(***************************************************************************)
RequestsInTurn ==
  \A w \in Slot :
    LET s == server.session[w]
    IN  /\ ~(Outstanding(w, "start") /\ Outstanding(w, "wait"))
        /\ <<"start", "invalid_state">> \notin s.replies
        /\ <<"wait", "invalid_state">> \notin s.replies
        /\ <<"stop", "invalid_state">> \in s.replies =>
             s.view = [FreshView EXCEPT !.extern = "stopped", !.life = "ended"]

(***************************************************************************)
(* The statistics count the end of every accepted session once: the        *)
(* sessions not counted yet are those with a start or a wait outstanding.  *)
(* The exception are the sessions that start when the server is already    *)
(* stopping, which handle_session_start_at_stop forgets to count.          *)
(***************************************************************************)
ReportedOnce ==
  server.unreported =
    Cardinality({w \in Slot : Outstanding(w, "start") \/ Outstanding(w, "wait")})
    + server.startedLate

(***************************************************************************)
(* The manager keeps the contract of a server, which is all the model of   *)
(* the application knows of it: whatever its acceptor and its sessions do, *)
(* the user sees a start, waits and a stop that are answered by it.        *)
(***************************************************************************)
ServerView ==
  [extern  |-> server.extern,
   life    |-> CASE server.intern = "work" -> "running"
                 [] server.intern = "stop" -> "ending"
                 [] server.intern = "stopped" -> "ended",
   cause   |-> server.waitError,
   waiting |-> server.waitHandler, stopping |-> server.stopHandler]

Contract == INSTANCE AbstractServer WITH view <- ServerView

ImplementsContract == Contract!Spec

(***************************************************************************)
(* What the comment in handle_session_stop_at_work and _at_stop claims and *)
(* the assertion after it checks: a stop of a session does not fail.       *)
(***************************************************************************)
StopNeverRefused ==
  \A w \in Slot : <<"stop", "invalid_state">> \notin server.session[w].replies

-----------------------------------------------------------------------------
(* Liveness. *)

(***************************************************************************)
(* What the manager is owed: posted handlers run, the accept of a closed   *)
(* acceptor completes, and a session that has left its work comes to its   *)
(* end (EchoSession shows when it does).                                   *)
(***************************************************************************)
Fairness ==
  /\ WF_server(HandleScheduledStop)
  /\ WF_server(~server.acceptorOpen /\ HandleAccept)
  /\ \A w \in Slot :
       /\ WF_server(Deliver(w))
       /\ WF_server(SessionRuns(w))
       /\ WF_server(server.session[w].view.life = "ending"
                      /\ SessionInternal(w))

FairSpec == Spec /\ Fairness

(***************************************************************************)
(* async_stop of the server is always answered, whatever its sessions were *)
(* doing and in whatever order their handlers come back.                   *)
(***************************************************************************)
StopAnswered == server.extern = "stop" ~> server.extern = "stopped"

=============================================================================
