---------------------------- MODULE ClientSession ----------------------------
(***************************************************************************)
(* The session of the two load applications: the one of                    *)
(* src/asio_performance_test_client ("echo"), which keeps its buffer going *)
(* round between the client and an echo server, and the one of             *)
(* src/async_connect ("connect"), which connects again and again.  Both    *)
(* are strands: one handler at a time, each of them one operator here,     *)
(* which gives the session after the handler.                              *)
(***************************************************************************)
EXTENDS LimitedCounter, Sequences

CONSTANTS
  BufferSize,    \* buffer_size of the echo session
  Endpoints,     \* the number of endpoints that the host resolves to
  MaxAttempts    \* max_connect_attempts of the echo session, 0 means infinity

ASSUME SessionAssumption ==
  /\ BufferSize \in Nat \ {0} /\ Endpoints \in Nat \ {0}
  /\ MaxAttempts \in Nat

(***************************************************************************)
(* inbox holds the posts of the manager to the strand.  connect is the     *)
(* endpoint of the connect in flight and attempt its number, read and      *)
(* write are the sizes of the transfers in flight, 0 for none; filled is   *)
(* how much of the buffer is data to write.  timer is the wait before the  *)
(* next connect.  left counts the calls of work_state::dec_outstanding,    *)
(* totals are what the operations of the session really did; both are      *)
(* history.                                                                *)
(***************************************************************************)
Session ==
  [inbox : Seq({"start", "stop"}),
   started : BOOLEAN, stopped : BOOLEAN, connected : BOOLEAN,
   wasConnected : BOOLEAN, open : BOOLEAN,
   connect : 0..Endpoints, attempt : 0..MaxAttempts,
   read : 0..BufferSize, write : 0..BufferSize, filled : 0..BufferSize,
   timer : BOOLEAN, cancelled : BOOLEAN, left : 0..1,
   bytesRead : Counter, bytesWritten : Counter, connects : Counter,
   totals : [read : Nat, written : Nat, connects : Nat]]

\* Half of the buffer is filled with data.
NewSession ==
  [inbox |-> << >>,
   started |-> FALSE, stopped |-> FALSE, connected |-> FALSE,
   wasConnected |-> FALSE, open |-> FALSE, connect |-> 0, attempt |-> 0,
   read |-> 0, write |-> 0, filled |-> BufferSize \div 2,
   timer |-> FALSE, cancelled |-> FALSE, left |-> 0,
   bytesRead |-> Zero, bytesWritten |-> Zero, connects |-> Zero,
   totals |-> [read |-> 0, written |-> 0, connects |-> 0]]

Quiet(s) == s.connect = 0 /\ s.read = 0 /\ s.write = 0 /\ ~s.timer

-----------------------------------------------------------------------------
(* Building blocks of both sessions. *)

\* Mutant: stop without the closing of the socket.
StopKeepsSocket(s) ==
  [s EXCEPT !.connected = FALSE, !.stopped = TRUE, !.left = @ + 1]

\* stop: close the socket, cancel the wait of the connect session, and leave
\* the outstanding work.
Stop(s) ==
  [s EXCEPT !.open = FALSE, !.connected = FALSE, !.stopped = TRUE,
            !.cancelled = s.timer, !.left = @ + 1]

\* ma::async_connect: it opens a closed socket.
StartConnect(s, attempt, endpoint) ==
  [s EXCEPT !.open = TRUE, !.connect = endpoint, !.attempt = attempt]

\* do_start.
DoStart(s) ==
  LET t == [s EXCEPT !.inbox = Tail(s.inbox)] IN
  IF s.stopped THEN t ELSE StartConnect([t EXCEPT !.started = TRUE], 0, 1)

\* Mutant: do_stop without the check of stopped_.
DoStopAgain(s) == Stop([s EXCEPT !.inbox = Tail(s.inbox)])

\* do_stop.
DoStop(s) ==
  LET t == [s EXCEPT !.inbox = Tail(s.inbox)] IN
  IF s.stopped THEN t ELSE Stop(t)

-----------------------------------------------------------------------------
(* The echo session. *)

StartWriteSome(s) == IF s.filled = 0 THEN s ELSE [s EXCEPT !.write = s.filled]

StartReadSome(s) ==
  IF s.filled = BufferSize THEN s ELSE [s EXCEPT !.read = BufferSize - s.filled]

\* A failed connect goes on with the next endpoint, or with the first one
\* and the next attempt, if there is one.
ConnectAgain(s, endpoint) ==
  LET t == [s EXCEPT !.open = FALSE]
      attempt == IF MaxAttempts = 0 THEN 0 ELSE s.attempt + 1
  IN  IF endpoint < Endpoints THEN StartConnect(t, s.attempt, endpoint + 1)
      ELSE IF MaxAttempts > 0 /\ attempt >= MaxAttempts
           THEN Stop([t EXCEPT !.attempt = attempt])
           ELSE StartConnect(t, attempt, 1)

\* handle_connect; badOptions: a socket option cannot be set.
HandleConnect(s, error, badOptions) ==
  LET t == [s EXCEPT !.connect = 0, !.wasConnected = ~error,
                     !.totals.connects = IF error THEN @ ELSE 1]
  IN CASE s.stopped  -> t
       [] ~s.stopped /\ error -> ConnectAgain(t, s.connect)
       [] ~s.stopped /\ ~error /\ badOptions -> Stop([t EXCEPT !.connected = TRUE])
       [] OTHER -> StartReadSome(StartWriteSome([t EXCEPT !.connected = TRUE]))

\* Mutant: handle_read starts a write only after the next read is started,
\* and only when there is none.
HandleReadStalls(s, bytes, error) ==
  LET t == [s EXCEPT !.read = 0, !.bytesRead = Add(@, bytes),
                     !.filled = @ + bytes, !.totals.read = @ + bytes]
  IN  IF s.stopped THEN t
      ELSE IF error THEN Stop(t) ELSE StartReadSome(t)

\* handle_read.
HandleRead(s, bytes, error) ==
  LET t == [s EXCEPT !.read = 0, !.bytesRead = Add(@, bytes),
                     !.filled = @ + bytes, !.totals.read = @ + bytes]
  IN  IF s.stopped THEN t
      ELSE IF error THEN Stop(t)
           ELSE StartReadSome(IF t.write = 0 THEN StartWriteSome(t) ELSE t)

\* handle_write.
HandleWrite(s, bytes, error) ==
  LET t == [s EXCEPT !.write = 0, !.bytesWritten = Add(@, bytes),
                     !.filled = @ - bytes, !.totals.written = @ + bytes]
  IN  IF s.stopped THEN t
      ELSE IF error THEN Stop(t)
           ELSE StartWriteSome(IF t.read = 0 THEN StartReadSome(t) ELSE t)

-----------------------------------------------------------------------------
(* The connect session. *)

\* continue_work: this connection is over, the next one.
ContinueWork(s) == StartConnect(s, 0, 1)

\* Mutant: the connections are counted after the check of stopped_.
CountConnectLate(s, error, badOptions, pause) ==
  LET t == [s EXCEPT !.connect = 0,
                     !.totals.connects = IF error THEN @ ELSE @ + 1]
      u == [t EXCEPT !.connected = TRUE,
                     !.connects = IF error THEN @ ELSE Increment(@)]
  IN CASE s.stopped -> t
       [] ~s.stopped /\ error ->
            StartConnect(t, 0, IF s.connect < Endpoints THEN s.connect + 1 ELSE 1)
       [] ~s.stopped /\ ~error /\ badOptions -> Stop(u)
       [] ~s.stopped /\ ~error /\ ~badOptions /\ pause -> [u EXCEPT !.timer = TRUE]
       [] OTHER -> ContinueWork(u)

\* handle_connect; pause: there is a pause between two connections.
HandleConnectAgain(s, error, badOptions, pause) ==
  LET t == [s EXCEPT !.connect = 0,
                     !.connects = IF error THEN @ ELSE Increment(@),
                     !.totals.connects = IF error THEN @ ELSE @ + 1]
      u == [t EXCEPT !.connected = TRUE]
  IN CASE s.stopped -> t
       [] ~s.stopped /\ error ->
            StartConnect(t, 0, IF s.connect < Endpoints THEN s.connect + 1 ELSE 1)
       [] ~s.stopped /\ ~error /\ badOptions -> Stop(u)
       [] ~s.stopped /\ ~error /\ ~badOptions /\ pause -> [u EXCEPT !.timer = TRUE]
       [] OTHER -> ContinueWork(u)

\* handle_timer; failed: an error that is not operation_aborted.
HandleTimer(s, failed) ==
  LET t == [s EXCEPT !.timer = FALSE, !.cancelled = FALSE] IN
  CASE s.stopped -> t
    [] ~s.stopped /\ failed -> Stop(t)
    [] OTHER -> ContinueWork(t)
=============================================================================
