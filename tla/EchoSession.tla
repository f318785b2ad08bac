---------------------------- MODULE EchoSession ----------------------------
(***************************************************************************)
(* ma::echo::server::session (src/ma/echo/server/session.cpp): one TCP     *)
(* connection whose incoming bytes are written back.                       *)
(*                                                                         *)
(* Everything the session does runs on its strand, one handler at a time,  *)
(* so one handler is one action here.  A handler is a chain of calls of    *)
(* member functions, each of which changes a few members; the members are  *)
(* therefore the fields of one record (the C++ object), and each member    *)
(* function is an operator from a record to a record.  What the handlers   *)
(* cannot decide -- what the peer sends, when a timer expires, in which    *)
(* order completions are delivered, which system calls fail -- is chosen   *)
(* by the actions at the end of the module.                                *)
(***************************************************************************)
EXTENDS CyclicBuffer, FiniteSets

CONSTANTS
  MaxTransfer,  \* session_config::max_transfer_size
  Timeouts,     \* TRUE: inactivity_timeout is configured, FALSE: it is not
  MaxBytes,     \* bound of the model: what a peer sends on one connection
  Faults        \* the sets of system calls that may fail in one handler

(***************************************************************************)
(* The calls whose failure a handler reacts to.  "cancel" is the call of   *)
(* cancel_timer_wait in an I/O handler, "stop_cancel" the one in           *)
(* start_stop.                                                             *)
(***************************************************************************)
SystemCall ==
  {"options", "cancel", "expires", "shutdown", "close", "stop_cancel"}

ASSUME EchoSessionAssumption ==
  /\ MaxTransfer \in Nat \ {0}
  /\ Timeouts \subseteq BOOLEAN
  /\ MaxBytes \in Nat
  /\ Faults \subseteq SUBSET SystemCall

VARIABLE session

-----------------------------------------------------------------------------
(***************************************************************************)
(* The members of the class.  extern is the state the user of the session  *)
(* drives, intern the session's own; read, write and timer are the three   *)
(* activities.  waitHandler and stopHandler say whether a handler of       *)
(* async_wait or async_stop is parked (handler_storage::has_target).       *)
(* hasTimeout says whether inactivity_timeout_ has a value.                *)
(* readOp and writeOp are the segments of the transfer in flight.          *)
(*                                                                         *)
(* The members below the line are of the world, or history:                *)
(*   socket, fin       whether socket_ is connected, and whether its       *)
(*                     sending half was shut down                          *)
(*   cells             the bytes in buffer_, each named by its position in *)
(*                     the peer's stream                                   *)
(*   received, echoed  how many bytes were consumed from and committed to  *)
(*                     the socket                                          *)
(*   inOrder           no byte was ever echoed out of its place            *)
(*   quiet             no transfer completed since the timer wait in       *)
(*                     flight was started                                  *)
(*   owed              handlers accepted by async_wait and async_stop and  *)
(*                     not yet called                                      *)
(***************************************************************************)
Activity == {"wait", "in_progress", "stopped"}
Error    == {"none", "eof", "error", "operation_aborted", "inactivity_timeout"}

Session ==
  [hasTimeout : BOOLEAN,
   extern : {"ready", "work", "stop", "stopped"},
   intern : {"work", "shutdown", "stop", "stopped"},
   read : Activity, write : Activity,
   timer : {"ready", "in_progress", "stopped"},
   timerWaitCancelled : BOOLEAN, timerTurned : BOOLEAN,
   pending : Nat,
   buffer : Buffer,
   readOp : Segments, writeOp : Segments,
   waitError : Error, waitHandler : BOOLEAN, stopHandler : BOOLEAN,
   \* ---------------------------------------------------------------
   socket : {"closed", "open"}, fin : BOOLEAN,
   cells : [Cell -> Nat],
   received : Nat, echoed : Nat, inOrder : BOOLEAN,
   quiet : BOOLEAN,
   owed : [wait : Nat, stop : Nat]]

(***************************************************************************)
(* The constructor.                                                        *)
(***************************************************************************)
NewSession(timeout) ==
  [hasTimeout |-> timeout,
   extern |-> "ready", intern |-> "work",
   read |-> "wait", write |-> "wait", timer |-> "ready",
   timerWaitCancelled |-> FALSE, timerTurned |-> FALSE,
   pending |-> 0,
   buffer |-> EmptyBuffer,
   readOp |-> <<>>, writeOp |-> <<>>,
   waitError |-> "none", waitHandler |-> FALSE, stopHandler |-> FALSE,
   socket |-> "closed", fin |-> FALSE,
   cells |-> [c \in Cell |-> 0],
   received |-> 0, echoed |-> 0, inOrder |-> TRUE,
   quiet |-> TRUE,
   owed |-> [wait |-> 0, stop |-> 0]]

-----------------------------------------------------------------------------
(* Notifying the user of the session. *)

(***************************************************************************)
(* complete_extern_wait: the first error is the one that is kept, and a    *)
(* parked wait handler is posted.                                          *)
(***************************************************************************)
CompleteExternWait(s, error) ==
  LET parked == IF s.waitHandler THEN 1 ELSE 0
  IN  [s EXCEPT !.waitError   = IF @ = "none" THEN error ELSE @,
                !.waitHandler = FALSE,
                !.owed.wait   = @ - parked]

(***************************************************************************)
(* complete_extern_stop.                                                   *)
(***************************************************************************)
CompleteExternStop(s) ==
  LET parked == IF s.stopHandler THEN 1 ELSE 0
  IN  [s EXCEPT !.stopHandler = FALSE, !.owed.stop = @ - parked]

-----------------------------------------------------------------------------
(* Starting and cancelling the asynchronous operations. *)

StartSocketRead(s, segs) ==
  [s EXCEPT !.readOp = segs, !.read = "in_progress", !.pending = @ + 1]

StartSocketWrite(s, segs) ==
  [s EXCEPT !.writeOp = segs, !.write = "in_progress", !.pending = @ + 1]

StartTimerWait(s) ==
  [s EXCEPT !.timer = "in_progress", !.timerWaitCancelled = FALSE,
            !.pending = @ + 1, !.quiet = TRUE]

(***************************************************************************)
(* cancel_timer_wait cancels the timer at most once for a wait in flight.  *)
(* `call' is the name by which a fault set refers to this call.            *)
(***************************************************************************)
CancelFails(s, call, fault) ==
  ~s.timerWaitCancelled /\ s.timer = "in_progress" /\ call \in fault

CancelTimerWait(s, call, fault) ==
  IF CancelFails(s, call, fault)
    THEN s
    ELSE [s EXCEPT !.timerWaitCancelled = TRUE, !.timerTurned = FALSE]

(***************************************************************************)
(* shutdown_socket fails on a socket that is not connected.                *)
(***************************************************************************)
ShutdownFails(s, fault) == s.socket = "closed" \/ "shutdown" \in fault

ShutdownSocket(s, fault) ==
  IF ShutdownFails(s, fault) THEN s ELSE [s EXCEPT !.fin = TRUE]

-----------------------------------------------------------------------------
(* The internal stop. *)

\* Mutant: the parked stop handler is completed only by do_start_extern_stop.
NeverCompletesStop(s) ==
  IF s.pending # 0 THEN s ELSE [s EXCEPT !.intern = "stopped"]

(***************************************************************************)
(* continue_stop: the session is stopped when its last operation is.       *)
(***************************************************************************)
ContinueStop(s) ==
  LET stopped == [s EXCEPT !.intern = "stopped"]
  IN  IF s.pending # 0 THEN s
      ELSE IF s.extern = "stop"
        THEN CompleteExternStop([stopped EXCEPT !.extern = "stopped"])
        ELSE stopped

(***************************************************************************)
(* start_stop: close the socket, cancel the timer, stop every activity     *)
(* that has no operation in flight, tell the waiting user.                 *)
(***************************************************************************)
StartStop(s, error, fault) ==
  LET s1 == [s EXCEPT !.intern = "stop", !.socket = "closed"]
      s2 == CancelTimerWait(s1, "stop_cancel", fault)
      failed == "close" \in fault \/ CancelFails(s1, "stop_cancel", fault)
      cause  == IF error = "none" /\ failed THEN "error" ELSE error
      s3 == [s2 EXCEPT
               !.read  = IF @ = "wait" THEN "stopped" ELSE @,
               !.write = IF @ = "wait" THEN "stopped" ELSE @,
               !.timer = IF @ = "ready" THEN "stopped" ELSE @]
  IN  ContinueStop(IF s.extern = "work" THEN CompleteExternWait(s3, cause)
                                        ELSE s3)

-----------------------------------------------------------------------------
(* Normal work and the graceful shutdown. *)

\* Mutant: only a read is taken for I/O activity.
OnlyReadsNeedTimer(s) ==
  s.hasTimeout /\ s.read = "in_progress" /\ ~s.timerTurned

(***************************************************************************)
(* continue_timer_wait: arm the inactivity timer, or move the expiry of    *)
(* the one in flight, if the last transfer turned it off.  expires_from_now*)
(* cancels a wait in flight; handle_timer then starts the next one.        *)
(***************************************************************************)
NeedsTimer(s) ==
  /\ s.hasTimeout
  /\ "in_progress" \in {s.read, s.write}
  /\ ~s.timerTurned

ContinueTimerWait(s, fault) ==
  LET turned == [s EXCEPT !.timerWaitCancelled = TRUE, !.timerTurned = TRUE]
  IN  IF ~NeedsTimer(s) THEN s
      ELSE IF "expires" \in fault THEN StartStop(s, "error", fault)
      ELSE IF s.timer = "ready" THEN StartTimerWait(turned)
      ELSE turned

(***************************************************************************)
(* continue_work: read if there is room, write if there is data.           *)
(***************************************************************************)
ReadMore(s, max) ==
  LET segs == Prepared(s.buffer, max)
  IN  IF s.read = "wait" /\ segs # <<>> THEN StartSocketRead(s, segs) ELSE s

WriteMore(s) ==
  LET segs == Data(s.buffer, MaxTransfer)
  IN  IF s.write = "wait" /\ segs # <<>> THEN StartSocketWrite(s, segs) ELSE s

ContinueWork(s, fault) ==
  ContinueTimerWait(WriteMore(ReadMore(s, MaxTransfer)), fault)

(***************************************************************************)
(* continue_shutdown_at_read_wait: a writer at rest is finished at once;   *)
(* from then on what the peer sends is read into the whole buffer and      *)
(* thrown away.                                                            *)
(***************************************************************************)
FinishWriting(s, fault) ==
  IF s.write = "wait"
    THEN [ShutdownSocket(s, fault) EXCEPT !.write = "stopped"]
    ELSE s

MaybeTimer(s, needTimerRestart, fault) ==
  IF needTimerRestart THEN ContinueTimerWait(s, fault) ELSE s

\* Mutant: the buffer is reset whether or not a write is in flight.
AlwaysResetsBuffer(s, needTimerRestart, fault) ==
  LET s1 == [FinishWriting(s, fault) EXCEPT !.buffer = EmptyBuffer]
  IN  IF s.write = "wait" /\ ShutdownFails(s, fault)
        THEN StartStop(s, "error", fault)
        ELSE MaybeTimer(ReadMore(s1, BufferSize), needTimerRestart, fault)

ContinueShutdownAtReadWait(s, needTimerRestart, fault) ==
  LET s1 == FinishWriting(s, fault)
      s2 == IF s1.write = "stopped" THEN [s1 EXCEPT !.buffer = EmptyBuffer]
                                    ELSE s1
  IN  IF s.write = "wait" /\ ShutdownFails(s, fault)
        THEN StartStop(s, "error", fault)
        ELSE MaybeTimer(ReadMore(s2, BufferSize), needTimerRestart, fault)

ContinueShutdownAtReadInProgress(s, needTimerRestart, fault) ==
  IF s.write = "wait" /\ ShutdownFails(s, fault)
    THEN StartStop(s, "error", fault)
    ELSE MaybeTimer(FinishWriting(s, fault), needTimerRestart, fault)

\* Mutant: at the end of the peer's stream the unwritten data is forgotten.
DropsLastData(s, needTimerRestart, fault) ==
  LET s2 == FinishWriting(s, fault)
  IN  IF s2.write = "stopped" THEN StartStop(s2, "none", fault)
                              ELSE MaybeTimer(s2, needTimerRestart, fault)

(***************************************************************************)
(* continue_shutdown_at_read_stopped: the peer has sent everything, so the *)
(* rest of the buffer is written before the session stops.  A failing      *)
(* shutdown is ignored here.                                               *)
(***************************************************************************)
ContinueShutdownAtReadStopped(s, needTimerRestart, fault) ==
  LET s1 == WriteMore(s)
      s2 == FinishWriting(s1, fault)
  IN  IF s2.write = "stopped" THEN StartStop(s2, "none", fault)
                              ELSE MaybeTimer(s2, needTimerRestart, fault)

ContinueShutdown(s, needTimerRestart, fault) ==
  CASE s.read = "wait" ->
         ContinueShutdownAtReadWait(s, needTimerRestart, fault)
    [] s.read = "in_progress" ->
         ContinueShutdownAtReadInProgress(s, needTimerRestart, fault)
    [] s.read = "stopped" ->
         ContinueShutdownAtReadStopped(s, needTimerRestart, fault)

\* Mutant: the waiting user is told of a shutdown only by the later stop.
TellsTooLate(s, error, needTimerRestart, fault) ==
  ContinueShutdown([s EXCEPT !.intern = "shutdown"], needTimerRestart, fault)

StartShutdown(s, error, needTimerRestart, fault) ==
  LET s1 == [s EXCEPT !.intern = "shutdown"]
  IN  ContinueShutdown(IF s.extern = "work" THEN CompleteExternWait(s1, error)
                                            ELSE s1,
                       needTimerRestart, fault)

-----------------------------------------------------------------------------
(* What the user of the session asks for. *)

(***************************************************************************)
(* do_start_extern_start.  Setting the options of a socket that is not     *)
(* connected fails.                                                        *)
(***************************************************************************)
DoStartExternStart(s, fault) ==
  IF s.socket = "closed" \/ "options" \in fault
    THEN [s EXCEPT !.socket = "closed", !.extern = "stopped",
                   !.intern = "stopped", !.read = "stopped",
                   !.write = "stopped", !.timer = "stopped"]
    ELSE ContinueWork([s EXCEPT !.extern = "work"], fault)

(***************************************************************************)
(* do_start_extern_stop: the handler is answered at once if the session    *)
(* has nothing left to do, and parked otherwise.                           *)
(***************************************************************************)
DoStartExternStop(s, fault) ==
  LET s1 == CompleteExternWait([s EXCEPT !.extern = "stop"],
                               "operation_aborted")
      s2 == IF s1.intern = "work"
              THEN StartShutdown(s1, "operation_aborted", FALSE, fault)
              ELSE s1
  IN  IF s2.intern = "stopped"
        THEN [s2 EXCEPT !.extern = "stopped"]
        ELSE [s2 EXCEPT !.stopHandler = TRUE, !.owed.stop = @ + 1]

\* Mutant: do_start_extern_wait does not ask whether a handler is parked.
ReplacesParkedWait(s) == s.extern = "work" /\ s.intern = "work"

(***************************************************************************)
(* do_start_extern_wait parks the handler of a working session.  In every  *)
(* other case the handler is answered at once and the session unchanged.   *)
(***************************************************************************)
CanParkWait(s) ==
  s.extern = "work" /\ ~s.waitHandler /\ s.intern = "work"

DoStartExternWait(s) ==
  IF CanParkWait(s) THEN [s EXCEPT !.waitHandler = TRUE, !.owed.wait = @ + 1]
                    ELSE s

\* Mutant: reset() forgets that the timer was turned on.
KeepsTimerTurned(s) ==
  [s EXCEPT !.extern = "ready", !.intern = "work",
            !.read = "wait", !.write = "wait", !.timer = "ready",
            !.timerWaitCancelled = FALSE,
            !.pending = 0,
            !.socket = "closed", !.fin = FALSE,
            !.buffer = EmptyBuffer,
            !.waitError = "none",
            !.cells = [c \in Cell |-> 0], !.received = 0, !.echoed = 0,
            !.inOrder = TRUE, !.quiet = TRUE]

(***************************************************************************)
(* reset: every member but the two handler storages and the operations,    *)
(* which it takes to be idle.  The last fields are the model's history of  *)
(* a connection, and a new one starts.                                     *)
(***************************************************************************)
DoReset(s) ==
  [s EXCEPT !.extern = "ready", !.intern = "work",
            !.read = "wait", !.write = "wait", !.timer = "ready",
            !.timerWaitCancelled = FALSE, !.timerTurned = FALSE,
            !.pending = 0,
            !.socket = "closed", !.fin = FALSE,
            !.buffer = EmptyBuffer,
            !.waitError = "none",
            !.cells = [c \in Cell |-> 0], !.received = 0, !.echoed = 0,
            !.inOrder = TRUE, !.quiet = TRUE]

-----------------------------------------------------------------------------
(* The completion handlers. *)

(***************************************************************************)
(* buffer_.consume(n) after a read into segs, buffer_.commit(n) after a    *)
(* write of segs, with the n bytes that the socket moved.                  *)
(***************************************************************************)
ConsumeRead(s, segs, n) ==
  [s EXCEPT !.buffer   = Consume(@, n),
            !.cells    = Stored(@, segs, n, [j \in 1 .. n |-> s.received + j]),
            !.received = @ + n]

\* Mutant: a partial write is taken for a complete one.
CommitsWholeWrite(s, segs, n) ==
  [s EXCEPT !.buffer  = Commit(@, TotalLen(segs)),
            !.inOrder = @ /\ \A j \in 1 .. n :
                               s.cells[CellAt(segs, j)] = s.echoed + j,
            !.echoed  = @ + n]

CommitWritten(s, segs, n) ==
  [s EXCEPT !.buffer  = Commit(@, n),
            !.inOrder = @ /\ \A j \in 1 .. n :
                               s.cells[CellAt(segs, j)] = s.echoed + j,
            !.echoed  = @ + n]

(***************************************************************************)
(* The first lines of the handlers of a completed read, write and wait.    *)
(***************************************************************************)
ReadCompleted(s) ==
  [s EXCEPT !.pending = @ - 1, !.read = "wait", !.readOp = <<>>,
            !.quiet = FALSE]

WriteCompleted(s) ==
  [s EXCEPT !.pending = @ - 1, !.write = "wait", !.writeOp = <<>>,
            !.quiet = FALSE]

TimerCompleted(s) == [s EXCEPT !.pending = @ - 1, !.timer = "ready"]

\* Mutant: a completed read does not cancel the timer.
ReadLeavesTimer(s, error, n, fault) ==
  LET done     == ReadCompleted(s)
      consumed == ConsumeRead(done, s.readOp, n)
  IN  IF error = "error"
        THEN StartStop([done EXCEPT !.read = "stopped"], "error", fault)
      ELSE IF error = "eof"
        THEN StartShutdown([consumed EXCEPT !.read = "stopped"], error, TRUE,
                           fault)
        ELSE ContinueWork(consumed, fault)

(***************************************************************************)
(* handle_read_at_work and handle_read_at_shutdown: a read of n bytes      *)
(* completed with `error' (n = 0 unless it is "none").                     *)
(***************************************************************************)
HandleReadAtWork(s, error, n, fault) ==
  LET done     == ReadCompleted(s)
      failed   == error = "error" \/ CancelFails(done, "cancel", fault)
      off      == CancelTimerWait(done, "cancel", fault)
      consumed == ConsumeRead(off, s.readOp, n)
  IN  IF failed THEN StartStop([off EXCEPT !.read = "stopped"], "error", fault)
      ELSE IF error = "eof"
        THEN StartShutdown([consumed EXCEPT !.read = "stopped"], error, TRUE,
                           fault)
        ELSE ContinueWork(consumed, fault)

HandleReadAtShutdown(s, error, n, fault) ==
  LET done     == ReadCompleted(s)
      failed   == error = "error" \/ CancelFails(done, "cancel", fault)
      off      == CancelTimerWait(done, "cancel", fault)
      consumed == ConsumeRead(off, s.readOp, n)
  IN  IF failed THEN StartStop([off EXCEPT !.read = "stopped"], "error", fault)
      ELSE ContinueShutdown(
             IF error = "eof" THEN [consumed EXCEPT !.read = "stopped"]
                              ELSE consumed,
             TRUE, fault)

\* Mutant: handle_read_at_stop leaves the read activity ready to read again.
ReadLeftWaiting(s) == ContinueStop(ReadCompleted(s))

HandleReadAtStop(s) == ContinueStop([ReadCompleted(s) EXCEPT !.read = "stopped"])

(***************************************************************************)
(* handle_write_at_work and handle_write_at_shutdown.                      *)
(***************************************************************************)
HandleWriteAtWork(s, error, n, fault) ==
  LET done   == WriteCompleted(s)
      failed == error # "none" \/ CancelFails(done, "cancel", fault)
      off    == CancelTimerWait(done, "cancel", fault)
  IN  IF failed THEN StartStop([off EXCEPT !.write = "stopped"], "error", fault)
                ELSE ContinueWork(CommitWritten(off, s.writeOp, n), fault)

HandleWriteAtShutdown(s, error, n, fault) ==
  LET done   == WriteCompleted(s)
      failed == error # "none" \/ CancelFails(done, "cancel", fault)
      off    == CancelTimerWait(done, "cancel", fault)
  IN  IF failed THEN StartStop([off EXCEPT !.write = "stopped"], "error", fault)
                ELSE ContinueShutdown(CommitWritten(off, s.writeOp, n), TRUE,
                                      fault)

HandleWriteAtStop(s) ==
  ContinueStop([WriteCompleted(s) EXCEPT !.write = "stopped"])

\* Mutant: a cancelled wait is not followed up by the one that was asked for.
NeverRestartsTimer(s, error, fault) ==
  LET done    == TimerCompleted(s)
      stopped == [done EXCEPT !.timer = "stopped"]
  IN  IF error = "error" THEN StartStop(stopped, error, fault)
      ELSE IF ~done.timerWaitCancelled
        THEN StartStop(stopped, "inactivity_timeout", fault)
      ELSE done

(***************************************************************************)
(* handle_timer_at_work (at work and at shutdown).  A cancelled wait may   *)
(* still complete without an error, when the timer had expired before it   *)
(* was cancelled: timerWaitCancelled, not the error, tells them apart.     *)
(***************************************************************************)
HandleTimerAtWork(s, error, fault) ==
  LET done    == TimerCompleted(s)
      stopped == [done EXCEPT !.timer = "stopped"]
  IN  IF error = "error" THEN StartStop(stopped, error, fault)
      ELSE IF ~done.timerWaitCancelled
        THEN StartStop(stopped, "inactivity_timeout", fault)
      ELSE IF done.timerTurned THEN StartTimerWait(done)
      ELSE done

HandleTimerAtStop(s) ==
  ContinueStop([TimerCompleted(s) EXCEPT !.timer = "stopped"])

-----------------------------------------------------------------------------
(* The steps of the session and of the world around it. *)

Init == session \in {NewSession(timeout) : timeout \in Timeouts}

(***************************************************************************)
(* The acceptor connects the socket of a session that is ready.            *)
(***************************************************************************)
Connect ==
  /\ session.extern = "ready" /\ session.socket = "closed"
  /\ session' = [session EXCEPT !.socket = "open"]

(***************************************************************************)
(* async_start, async_stop and async_wait, at the moment their body runs   *)
(* on the strand.  The calls that are answered with invalid_state change   *)
(* nothing and are left out.  The session's only user posts async_start    *)
(* before async_stop, so a stop never meets a session that is ready.       *)
(***************************************************************************)
ExternStart ==
  /\ session.extern = "ready"
  /\ \E fault \in Faults : session' = DoStartExternStart(session, fault)

ExternStop ==
  /\ session.extern = "work"
  /\ \E fault \in Faults : session' = DoStartExternStop(session, fault)

ExternWait ==
  /\ CanParkWait(session)
  /\ session' = DoStartExternWait(session)

(***************************************************************************)
(* The user resets a session (before it goes back to its factory) that it  *)
(* never started or that is stopped, with no handler outstanding.          *)
(***************************************************************************)
Reset ==
  /\ session.extern \in {"ready", "stopped"}
  /\ session.owed = [wait |-> 0, stop |-> 0]
  /\ session' = DoReset(session)

(***************************************************************************)
(* The completion of a transfer in flight: n bytes, or the end of the      *)
(* stream, or an error.  After the socket was closed the handler ignores   *)
(* what it is given.                                                       *)
(***************************************************************************)
Completions(segs) ==
  {<<"none", n>> : n \in 1 .. TotalLen(segs)} \cup {<<"error", 0>>}

HandleRead ==
  /\ session.read = "in_progress"
  /\ \E c \in Completions(session.readOp) \cup {<<"eof", 0>>}, fault \in Faults :
       /\ session.received + c[2] <= MaxBytes
       /\ session' =
            CASE session.intern = "work" ->
                   HandleReadAtWork(session, c[1], c[2], fault)
              [] session.intern = "shutdown" ->
                   HandleReadAtShutdown(session, c[1], c[2], fault)
              [] session.intern = "stop" ->
                   HandleReadAtStop(session)

HandleWrite ==
  /\ session.write = "in_progress"
  /\ \E c \in Completions(session.writeOp), fault \in Faults :
       session' =
         CASE session.intern = "work" ->
                HandleWriteAtWork(session, c[1], c[2], fault)
           [] session.intern = "shutdown" ->
                HandleWriteAtShutdown(session, c[1], c[2], fault)
           [] session.intern = "stop" ->
                HandleWriteAtStop(session)

(***************************************************************************)
(* The timer wait in flight completes: it expired ("none"), it was         *)
(* cancelled, or it failed.                                                *)
(***************************************************************************)
HandleTimer ==
  /\ session.timer = "in_progress"
  /\ \E error \in {"none", "operation_aborted", "error"}, fault \in Faults :
       /\ error = "operation_aborted" => session.timerWaitCancelled
       /\ session' =
            CASE session.intern \in {"work", "shutdown"} ->
                   HandleTimerAtWork(session, error, fault)
              [] session.intern = "stop" ->
                   HandleTimerAtStop(session)

Next ==
  \/ Connect \/ ExternStart \/ ExternStop \/ ExternWait \/ Reset
  \/ HandleRead \/ HandleWrite \/ HandleTimer

Spec == Init /\ [][Next]_session

-----------------------------------------------------------------------------
(* Safety. *)

TypeOK == session \in Session

InProgress(s) ==
  {a \in {"read", "write", "timer"} : s[a] = "in_progress"}

(***************************************************************************)
(* The session stays in its type, and whatever is to call back is          *)
(* accounted for.  pending_operations_ counts the activities in progress;  *)
(* so when it gets to zero everything has stopped (the assertions of       *)
(* continue_stop), and a stopped session has nothing left that could call  *)
(* back into it: reset() is safe.  A handler given to async_wait or        *)
(* async_stop is called once: it is owed a call for as long as it is       *)
(* parked, and it is parked only while something is still to happen that   *)
(* completes it.  A session that has left its work knows the error to tell *)
(* a later async_wait.                                                     *)
(***************************************************************************)
OperationsAccounted ==
  /\ TypeOK
  /\ session.pending = Cardinality(InProgress(session))
  /\ session.intern = "stopped" =>
       "stopped" = session.read /\ "stopped" = session.write
                                /\ "stopped" = session.timer
  /\ session.intern = "stop" => session.pending > 0
  /\ session.extern = "stopped" =>
       session.intern = "stopped" /\ session.socket = "closed"
  /\ session.owed.wait = IF session.waitHandler THEN 1 ELSE 0
  /\ session.owed.stop = IF session.stopHandler THEN 1 ELSE 0
  /\ session.waitHandler => session.extern = "work" /\ session.intern = "work"
  /\ session.stopHandler <=> session.extern = "stop"
  /\ session.extern = "stop" => session.intern \in {"shutdown", "stop"}
  /\ session.extern = "work" /\ session.intern # "work" =>
       session.waitError # "none"

(***************************************************************************)
(* A transfer in flight owns its cells: whatever was committed, consumed   *)
(* or reset since it was started, a read still fills the beginning of the  *)
(* room and a write still drains the beginning of the data, and a completed*)
(* transfer never makes commit or consume throw.                           *)
(***************************************************************************)
TransfersOwnTheirCells ==
  /\ Complementary(session.buffer)
  /\ session.read = "in_progress" /\ session.intern # "stop" =>
       /\ TotalLen(session.readOp) \in 1 .. session.buffer.nonfilledSize
       /\ session.readOp = Prepared(session.buffer, TotalLen(session.readOp))
  /\ session.write = "in_progress" /\ session.intern # "stop" =>
       /\ TotalLen(session.writeOp) \in 1 .. session.buffer.filledSize
       /\ session.writeOp = Data(session.buffer, TotalLen(session.writeOp))

(***************************************************************************)
(* The echo is the peer's stream, byte for byte and in order, through wrap *)
(* arounds, partial transfers and the graceful shutdown; and when the peer *)
(* ends its stream first, the session ends its own only after everything   *)
(* it has read was written back.                                           *)
(***************************************************************************)
EchoFaithful ==
  /\ session.inOrder /\ session.echoed <= session.received
  /\ session.fin /\ session.waitError = "eof" =>
       session.echoed = session.received

(***************************************************************************)
(* No working or shutting down session is left unattended: a transfer is   *)
(* in flight, and, if an inactivity timeout is configured, so is a wait    *)
(* that will be followed up until the transfer completes.  And a session   *)
(* is stopped for inactivity only if it was inactive: a wait that could    *)
(* still report a timeout saw no transfer complete.                        *)
(***************************************************************************)
TimerWatchesTransfers ==
  session.extern # "ready" /\ session.intern \in {"work", "shutdown"} =>
    /\ "in_progress" \in {session.read, session.write}
    /\ session.hasTimeout =>
         session.timer = "in_progress" /\ session.timerTurned
    /\ session.timer = "in_progress" /\ ~session.timerWaitCancelled =>
         session.quiet

(***************************************************************************)
(* A session that was reset behaves as one just constructed, whatever its  *)
(* last connection went through.                                           *)
(***************************************************************************)
RecycledIsNew == [][Reset => session' = NewSession(session.hasTimeout)]_session

(***************************************************************************)
(* The session implements its contract with the session manager.           *)
(***************************************************************************)
Life == CASE session.intern = "work" -> "running"
          [] session.intern \in {"shutdown", "stop"} -> "ending"
          [] session.intern = "stopped" -> "ended"

Contract == INSTANCE AbstractSession
  WITH view <- [extern |-> session.extern, life |-> Life,
                cause |-> session.waitError,
                waiting |-> session.waitHandler,
                stopping |-> session.stopHandler]

ImplementsContract == Contract!Spec

-----------------------------------------------------------------------------
(* Liveness. *)

(***************************************************************************)
(* What the world owes the session: a timer wait completes (it expires or  *)
(* is cancelled), and so does every operation of a closed socket.  Nothing *)
(* is assumed of the peer, but that it cannot send for ever (MaxBytes).    *)
(***************************************************************************)
Fairness ==
  /\ WF_session(HandleTimer)
  /\ WF_session(session.socket = "closed" /\ HandleRead)
  /\ WF_session(session.socket = "closed" /\ HandleWrite)

FairSpec == Spec /\ Fairness

(***************************************************************************)
(* With an inactivity timeout a session that was started comes to its end, *)
(* and its stop is answered, even if the peer neither reads, nor writes,   *)
(* nor closes.                                                             *)
(***************************************************************************)
SilentPeerDropped ==
  session.hasTimeout /\ session.extern \in {"work", "stop"} ~>
    session.intern = "stopped" /\ ~session.stopHandler

=============================================================================
