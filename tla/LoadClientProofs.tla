-------------------------- MODULE LoadClientProofs --------------------------
(***************************************************************************)
(* The load applications, for every number of sessions, size of the buffer *)
(* and integer type of the counters: the inductive invariant ClientInv,    *)
(* what the statistics rest on (a limited_int that counted n, by steps, by *)
(* numbers or by other counters, is n, or the largest value, marked, if n  *)
(* has no room in the type), and that the sums of them are exact.          *)
(***************************************************************************)
EXTENDS LoadClient, FiniteSetTheorems, SequenceTheorems, WellFoundedInduction, TLAPS

\* What counts a number is a value of the type.
LEMMA CountsTyped ==
  ASSUME NEW n \in Nat, NEW c, Counts(c, n)
  PROVE  c \in Counter
BY CounterAssumption DEF Counts, Counter, Overflow

\* The two ways in which a member of a counter that has its number changes.
LEMMA Updated ==
  ASSUME NEW n \in Nat, NEW c, Counts(c, n), n <= MaxCount
  PROVE  /\ \A k \in Nat : n + k <= MaxCount =>
              [c EXCEPT !.value = @ + k] = [value |-> n + k, overflowed |-> FALSE]
         /\ n = MaxCount => [c EXCEPT !.overflowed = TRUE] = Overflow
<1>1. c \in Counter /\ c.value = n /\ c.overflowed = FALSE
  BY CountsTyped DEF Counts
<1>2. ASSUME NEW k \in Nat, n + k <= MaxCount
      PROVE  [c EXCEPT !.value = @ + k] = [value |-> n + k, overflowed |-> FALSE]
  <2> DEFINE w == [value |-> n + k, overflowed |-> FALSE]
             u == [c EXCEPT !.value = @ + k]
  <2>1. w \in Counter /\ w.value = n + k /\ w.overflowed = FALSE
    BY <1>2, CounterAssumption DEF Counter
  <2>2. u \in Counter /\ u.value = n + k /\ u.overflowed = FALSE
    BY <1>1, <1>2, CounterAssumption DEF Counter
  <2> HIDE DEF w, u
  <2>3. u = w
    BY <2>1, <2>2 DEF Counter
  <2> QED BY <2>3 DEF u, w
<1>3. ASSUME n = MaxCount PROVE [c EXCEPT !.overflowed = TRUE] = Overflow
  <2> DEFINE u == [c EXCEPT !.overflowed = TRUE]
  <2>1. Overflow \in Counter /\ Overflow.value = n /\ Overflow.overflowed = TRUE
    BY <1>3, CounterAssumption DEF Counter, Overflow
  <2>2. u \in Counter /\ u.value = n /\ u.overflowed = TRUE
    BY <1>1, CounterAssumption DEF Counter
  <2> HIDE DEF u
  <2>3. u = Overflow
    BY <2>1, <2>2 DEF Counter
  <2> QED BY <2>3 DEF u
<1> QED BY <1>2, <1>3

\* operator += of a number, checked against the limit before the sum is made,
\* counts that number more and leaves the type at no time.
THEOREM AddCounts ==
  ASSUME NEW n \in Nat, NEW k \in Nat, NEW c, Counts(c, n)
  PROVE  Counts(Add(c, k), n + k)
<1>1. CASE n > MaxCount
  BY <1>1, CounterAssumption DEF Counts, Add, Overflow
<1>2. CASE n <= MaxCount
  <2>1. c = [value |-> n, overflowed |-> FALSE]
    BY <1>2 DEF Counts
  <2>2. CASE n + k > MaxCount
    BY <2>1, <2>2, <1>2, CounterAssumption DEF Counts, Add, Overflow
  <2>3. CASE n + k <= MaxCount
    <3>1. Add(c, k) = [c EXCEPT !.value = @ + k]
      BY <2>1, <2>3, CounterAssumption DEF Add
    <3>2. @ = [value |-> n + k, overflowed |-> FALSE]
      BY <1>2, <2>3, Updated
    <3> QED BY <2>3, <3>1, <3>2 DEF Counts
  <2> QED BY <2>2, <2>3, CounterAssumption
<1> QED BY <1>1, <1>2, CounterAssumption

\* operator += of a counter counts what both counted, although the counter
\* that is added may have lost its number.
THEOREM AddCounterCounts ==
  ASSUME NEW n \in Nat, NEW m \in Nat, NEW c, NEW d, Counts(c, n), Counts(d, m)
  PROVE  Counts(AddCounter(c, d), n + m)
<1>1. CASE n > MaxCount
  BY <1>1, CounterAssumption DEF Counts, AddCounter, Overflow
<1>2. CASE n <= MaxCount /\ m > MaxCount
  <2>1. c = [value |-> n, overflowed |-> FALSE] /\ d = Overflow
    BY <1>2, CounterAssumption DEF Counts
  <2> QED BY <1>2, <2>1, CounterAssumption DEF Counts, AddCounter, Overflow
<1>3. CASE n <= MaxCount /\ m <= MaxCount
  <2>1. /\ c = [value |-> n, overflowed |-> FALSE]
        /\ d = [value |-> m, overflowed |-> FALSE]
    BY <1>3 DEF Counts
  <2>2. AddCounter(c, d) = Add(c, m)
    BY <2>1 DEF AddCounter, Add
  <2> QED BY <1>3, <2>2, AddCounts
<1> QED BY <1>1, <1>2, <1>3, CounterAssumption

\* operator ++ counts one more; it marks the largest value itself.
THEOREM IncrementCounts ==
  ASSUME NEW n \in Nat, NEW c, Counts(c, n)
  PROVE  Counts(Increment(c), n + 1)
<1>1. CASE n > MaxCount
  BY <1>1, CounterAssumption DEF Counts, Increment, Overflow
<1>2. CASE n = MaxCount
  <2>1. c.value = MaxCount /\ ~c.overflowed
    BY <1>2 DEF Counts
  <2>2. Increment(c) = [c EXCEPT !.overflowed = TRUE]
    BY <2>1 DEF Increment
  <2>3. @ = Overflow
    BY <1>2, Updated
  <2>4. ~(n + 1 <= MaxCount)
    BY <1>2, CounterAssumption
  <2> QED BY <2>2, <2>3, <2>4, Zenon DEF Counts
<1>3. CASE n < MaxCount
  <2>1. c = [value |-> n, overflowed |-> FALSE]
    BY <1>3, CounterAssumption DEF Counts
  <2>2. Increment(c) = [c EXCEPT !.value = @ + 1]
    BY <1>3, <2>1, CounterAssumption DEF Increment
  <2>3. @ = [value |-> n + 1, overflowed |-> FALSE]
    BY <1>3, Updated, CounterAssumption
  <2> QED BY <1>3, <2>2, <2>3, CounterAssumption DEF Counts
<1> QED BY <1>1, <1>2, <1>3, CounterAssumption
-----------------------------------------------------------------------------
(* The sessions.                                                           *)

\* What holds of a session of application a in the middle of its handlers.
Steady(s, a) ==
  /\ s \in Session
  /\ s.left = IF s.stopped THEN 1 ELSE 0
  /\ s.stopped => ~s.connected
  /\ s.write <= s.filled /\ s.filled + s.read <= BufferSize
  /\ Counts(s.bytesRead, s.totals.read)
  /\ Counts(s.bytesWritten, s.totals.written)
  /\ s.inbox \in {<< >>, <<"start">>, <<"stop">>, <<"start", "stop">>}
  /\ s.inbox # << >> /\ Head(s.inbox) = "start" => ~s.started
  /\ a = "connect" => Counts(s.connects, s.totals.connects)
  /\ a = "echo" =>
       /\ ~s.timer
       /\ s.totals.connects = IF s.wasConnected THEN 1 ELSE 0
       /\ s.connect > 0 => s.started /\ ~s.wasConnected
       /\ ~s.started => ~s.wasConnected
       /\ ~s.wasConnected => /\ ~s.connected /\ s.read = 0 /\ s.write = 0
                             /\ s.totals.read = 0 /\ s.totals.written = 0

\* The clause of EchoKeepsGoing for a session.
Going(s, a) ==
  a = "echo" /\ s.connected =>
    /\ s.read = 0 => s.filled = BufferSize
    /\ s.write = 0 => s.filled = 0

\* There is another attempt to connect.
Trying(s) == ~s.stopped /\ MaxAttempts > 0 => s.attempt < MaxAttempts

Sound(s, a) == Steady(s, a) /\ Going(s, a) /\ Trying(s)

LEMMA Fresh == \A a \in App : Sound(NewSession, a) /\ ~NewSession.stopped
  <1>1. BufferSize \div 2 \in 0..BufferSize
    BY SessionAssumption
  <1>2. NewSession \in Session
    BY <1>1, SessionAssumption, CounterAssumption DEF NewSession, Session, Counter, Zero
  <1>3. /\ NewSession.inbox = << >> /\ ~NewSession.started /\ ~NewSession.stopped
        /\ ~NewSession.connected /\ ~NewSession.wasConnected /\ NewSession.connect = 0
        /\ NewSession.attempt = 0 /\ NewSession.read = 0 /\ NewSession.write = 0
        /\ NewSession.filled = BufferSize \div 2 /\ ~NewSession.timer /\ NewSession.left = 0
        /\ NewSession.bytesRead = Zero /\ NewSession.bytesWritten = Zero
        /\ NewSession.connects = Zero /\ NewSession.totals.read = 0
        /\ NewSession.totals.written = 0 /\ NewSession.totals.connects = 0
    BY DEF NewSession
  <1>4. Counts(Zero, 0)
    BY CounterAssumption DEF Counts, Zero
  <1>5. \A a \in App : Steady(NewSession, a)
    BY <1>1, <1>2, <1>3, <1>4 DEF Steady
  <1> QED BY <1>3, <1>5, SessionAssumption DEF Sound, Going, Trying

\* The fields that stopping and connecting leave alone.
Fields(s, u) ==
  /\ u.inbox = s.inbox /\ u.started = s.started /\ u.wasConnected = s.wasConnected
  /\ u.read = s.read /\ u.write = s.write /\ u.filled = s.filled /\ u.timer = s.timer
  /\ u.bytesRead = s.bytesRead /\ u.bytesWritten = s.bytesWritten
  /\ u.connects = s.connects /\ u.totals = s.totals

LEMMA Stops ==
  ASSUME NEW s, NEW a \in App, Steady(s, a), ~s.stopped
  PROVE  Sound(Stop(s), a) /\ Stop(s).stopped
<1> DEFINE u == Stop(s)
<1>1. /\ s \in Session /\ s.left = 0
  BY DEF Steady
<1>2. /\ u \in Session /\ Fields(s, u) /\ ~u.connected /\ u.stopped /\ u.left = 1
      /\ u.connect = s.connect /\ u.attempt = s.attempt
  <2>1. s.timer \in BOOLEAN
    BY <1>1 DEF Session
  <2>2. s.left + 1 = 1 /\ 1 \in 0..1
    BY <1>1
  <2>3. u \in Session
    BY <1>1, <2>1, <2>2 DEF Stop, Session
  <2>4. Fields(s, u)
    BY <1>1 DEF Stop, Session, Fields
  <2>5. /\ ~u.connected /\ u.stopped /\ u.left = 1
        /\ u.connect = s.connect /\ u.attempt = s.attempt
    BY <1>1, <2>2 DEF Stop, Session
  <2> QED BY <2>3, <2>4, <2>5
<1> HIDE DEF u
<1>3. Steady(u, a)
  BY <1>1, <1>2 DEF Steady, Fields
<1> QED BY <1>2, <1>3 DEF Sound, Going, Trying, u

LEMMA Connecting ==
  ASSUME NEW s, NEW a \in App, Steady(s, a), ~s.stopped,
         a = "echo" => s.started /\ ~s.wasConnected,
         NEW n \in 0..MaxAttempts, NEW e \in 1..Endpoints,
         MaxAttempts > 0 => n < MaxAttempts
  PROVE  Sound(StartConnect(s, n, e), a)
         /\ StartConnect(s, n, e).stopped = s.stopped
<1> DEFINE u == StartConnect(s, n, e)
<1>1. s \in Session
  BY DEF Steady
<1>2. /\ u \in Session /\ Fields(s, u) /\ u.connected = s.connected /\ u.stopped = s.stopped
      /\ u.left = s.left /\ u.connect = e /\ u.attempt = n
  <2>1. e \in 0..Endpoints
    OBVIOUS
  <2>3. u \in Session
    BY <1>1, <2>1 DEF StartConnect, Session
  <2>4. Fields(s, u)
    BY <1>1 DEF StartConnect, Session, Fields
  <2>5. /\ u.connected = s.connected /\ u.stopped = s.stopped
        /\ u.left = s.left /\ u.connect = e /\ u.attempt = n
    BY <1>1 DEF StartConnect, Session
  <2> QED BY <2>3, <2>4, <2>5
<1> HIDE DEF u
<1>3. Steady(u, a)
  BY <1>1, <1>2 DEF Steady, Fields
<1>4. Going(u, a)
  BY <1>2, <1>3 DEF Steady, Going, Fields
<1> QED BY <1>2, <1>3, <1>4 DEF Sound, Trying, u

\* Nothing but the transfers in flight.
Transfers(s, u) ==
  /\ u.inbox = s.inbox /\ u.started = s.started /\ u.stopped = s.stopped
  /\ u.connected = s.connected /\ u.wasConnected = s.wasConnected
  /\ u.connect = s.connect /\ u.attempt = s.attempt /\ u.filled = s.filled
  /\ u.timer = s.timer /\ u.left = s.left
  /\ u.bytesRead = s.bytesRead /\ u.bytesWritten = s.bytesWritten
  /\ u.connects = s.connects /\ u.totals = s.totals

LEMMA Writing ==
  ASSUME NEW s, NEW a \in App, Steady(s, a), a = "echo" => s.wasConnected
  PROVE  /\ Steady(StartWriteSome(s), a) /\ Transfers(s, StartWriteSome(s))
         /\ StartWriteSome(s).write = s.filled /\ StartWriteSome(s).read = s.read
<1> DEFINE u == StartWriteSome(s)
<1>1. /\ s \in Session /\ s.write \in Nat /\ s.filled \in Nat /\ s.write <= s.filled
  BY SessionAssumption DEF Steady, Session
<1>2. s.filled = 0 => s.write = s.filled
  BY <1>1
<1>3. u \in Session
  BY <1>1 DEF StartWriteSome, Session
<1>4. Transfers(s, u)
  BY <1>1 DEF StartWriteSome, Session, Transfers
<1>5. u.write = s.filled /\ u.read = s.read
  BY <1>1, <1>2 DEF StartWriteSome, Session
<1> HIDE DEF u
<1>6. u.write <= u.filled
  BY <1>1, <1>4, <1>5 DEF Transfers
<1>7. Steady(u, a)
  BY <1>3, <1>4, <1>5, <1>6 DEF Steady, Transfers
<1> QED BY <1>4, <1>5, <1>7 DEF u

\* The room of a buffer of n cells of which f are filled.
LEMMA Room ==
  ASSUME NEW n \in Nat, NEW f \in 0..n
  PROVE  /\ n - f \in 0..n /\ f + (n - f) <= n
         /\ \A r \in Nat : f + r <= n /\ f = n => r = n - f
OBVIOUS

LEMMA Reading ==
  ASSUME NEW s, NEW a \in App, Steady(s, a), a = "echo" => s.wasConnected
  PROVE  /\ Steady(StartReadSome(s), a) /\ Transfers(s, StartReadSome(s))
         /\ StartReadSome(s).read = BufferSize - s.filled
         /\ StartReadSome(s).write = s.write
<1> DEFINE u == StartReadSome(s)
<1>1. /\ s \in Session /\ s.read \in Nat /\ s.filled \in 0..BufferSize
      /\ s.filled + s.read <= BufferSize
  BY SessionAssumption DEF Steady, Session
<1>2. /\ s.filled = BufferSize => s.read = BufferSize - s.filled
      /\ BufferSize - s.filled \in 0..BufferSize
      /\ s.filled + (BufferSize - s.filled) <= BufferSize
  BY <1>1, SessionAssumption, Room
<1>3. u \in Session
  BY <1>1, <1>2 DEF StartReadSome, Session
<1>4. Transfers(s, u)
  BY <1>1 DEF StartReadSome, Session, Transfers
<1>5. u.read = BufferSize - s.filled /\ u.write = s.write
  BY <1>1, <1>2 DEF StartReadSome, Session
<1> HIDE DEF u
<1>6. u.filled + u.read <= BufferSize
  BY <1>2, <1>4, <1>5 DEF Transfers
<1>7. Steady(u, a)
  BY <1>3, <1>4, <1>5, <1>6 DEF Steady, Transfers
<1> QED BY <1>4, <1>5, <1>7 DEF u

\* The sequences of posts.
LEMMA Posts ==
  /\ Tail(<<"start">>) = << >> /\ Tail(<<"stop">>) = << >>
  /\ Tail(<<"start", "stop">>) = <<"stop">>
  /\ Head(<<"start">>) = "start" /\ Head(<<"stop">>) = "stop"
  /\ Head(<<"start", "stop">>) = "start"
  /\ Append(<< >>, "start") = <<"start">> /\ Append(<< >>, "stop") = <<"stop">>
  /\ Append(<<"start">>, "stop") = <<"start", "stop">>
<1>1. Tail(<<"start">>) = << >> /\ Tail(<<"stop">>) = << >>
  OBVIOUS
<1>2. Tail(<<"start", "stop">>) = <<"stop">>
  OBVIOUS
<1>3. /\ Head(<<"start">>) = "start" /\ Head(<<"stop">>) = "stop"
      /\ Head(<<"start", "stop">>) = "start"
  OBVIOUS
<1>4. Append(<< >>, "start") = <<"start">> /\ Append(<< >>, "stop") = <<"stop">>
  OBVIOUS
<1>5. Append(<<"start">>, "stop") = <<"start", "stop">>
  <2> DEFINE p == Append(<<"start">>, "stop")
             q == <<"start", "stop">>
  <2>1. p \in Seq({"start", "stop"}) /\ q \in Seq({"start", "stop"})
    OBVIOUS
  <2>2. Len(p) = 2 /\ p[1] = "start" /\ p[2] = "stop"
    OBVIOUS
  <2>3. Len(q) = 2 /\ q[1] = "start" /\ q[2] = "stop"
    OBVIOUS
  <2>4. \A i \in 1..Len(p) : p[i] = q[i]
    BY <2>2, <2>3
  <2> HIDE DEF p, q
  <2>5. p = q
    BY <2>1, <2>2, <2>3, <2>4, SeqEqual
  <2> QED BY <2>5 DEF p, q
<1> QED BY <1>1, <1>2, <1>3, <1>4, <1>5

\* A post taken from the inbox.
LEMMA Taking ==
  ASSUME NEW s, NEW a \in App, Sound(s, a), s.inbox # << >>
  PROVE  /\ Sound([s EXCEPT !.inbox = Tail(s.inbox)], a)
         /\ [s EXCEPT !.inbox = Tail(s.inbox)].stopped = s.stopped
         /\ [s EXCEPT !.inbox = Tail(s.inbox)].started = s.started
         /\ [s EXCEPT !.inbox = Tail(s.inbox)].inbox \in {<< >>, <<"stop">>}
<1> DEFINE u == [s EXCEPT !.inbox = Tail(s.inbox)]
<1>1. /\ s \in Session /\ s.inbox \in {<<"start">>, <<"stop">>, <<"start", "stop">>}
  BY DEF Sound, Steady
<1>2. Tail(s.inbox) \in {<< >>, <<"stop">>}
  BY <1>1, Posts
<1>3. u \in Session
  <2>1. Tail(s.inbox) \in Seq({"start", "stop"})
    <3>1. << >> \in Seq({"start", "stop"}) /\ <<"stop">> \in Seq({"start", "stop"})
      OBVIOUS
    <3> QED BY <1>2, <3>1
  <2> QED BY <1>1, <2>1 DEF Session
<1>4. u.inbox \in {<< >>, <<"stop">>}
  BY <1>1, <1>2 DEF Session
<1>5. /\ u.started = s.started /\ u.stopped = s.stopped
      /\ u.connected = s.connected /\ u.wasConnected = s.wasConnected
      /\ u.connect = s.connect /\ u.attempt = s.attempt /\ u.filled = s.filled
      /\ u.timer = s.timer /\ u.left = s.left /\ u.read = s.read /\ u.write = s.write
      /\ u.bytesRead = s.bytesRead /\ u.bytesWritten = s.bytesWritten
      /\ u.connects = s.connects /\ u.totals = s.totals
  BY <1>1 DEF Session
<1> HIDE DEF u
<1>6. u.inbox # << >> => Head(u.inbox) = "stop"
  BY <1>4, Posts
<1>7. Steady(u, a)
  BY <1>3, <1>4, <1>5, <1>6 DEF Sound, Steady
<1> QED BY <1>4, <1>5, <1>7 DEF Sound, Going, Trying, u

\* do_start and do_stop.
LEMMA RequestSound ==
  ASSUME NEW s, NEW a \in App, Sound(s, a), s.inbox # << >>
  PROVE  /\ Head(s.inbox) = "start" => Sound(DoStart(s), a)
         /\ Sound(DoStop(s), a)
<1> DEFINE t == [s EXCEPT !.inbox = Tail(s.inbox)]
<1>1. /\ Sound(t, a) /\ t.stopped = s.stopped /\ t.started = s.started
      /\ t.inbox \in {<< >>, <<"stop">>}
  BY Taking
<1>2. /\ DoStop(s) = IF s.stopped THEN t ELSE Stop(t)
      /\ DoStart(s) = IF s.stopped THEN t
                      ELSE StartConnect([t EXCEPT !.started = TRUE], 0, 1)
  BY DEF DoStop, DoStart
<1> HIDE DEF t
<1>3. Sound(DoStop(s), a)
  BY <1>1, <1>2, Stops DEF Sound
<1>4. ASSUME Head(s.inbox) = "start", ~s.stopped
      PROVE  Sound(StartConnect([t EXCEPT !.started = TRUE], 0, 1), a)
  <2> DEFINE u == [t EXCEPT !.started = TRUE]
  <2>1. t \in Session /\ Steady(t, a) /\ ~t.started /\ ~t.stopped
    BY <1>1, <1>4 DEF Sound, Steady
  <2>2. u \in Session
    BY <2>1 DEF Session
  <2>3. /\ u.started /\ u.stopped = t.stopped /\ u.inbox = t.inbox
        /\ u.connected = t.connected /\ u.wasConnected = t.wasConnected
        /\ u.connect = t.connect /\ u.attempt = t.attempt /\ u.filled = t.filled
        /\ u.timer = t.timer /\ u.left = t.left /\ u.read = t.read /\ u.write = t.write
        /\ u.bytesRead = t.bytesRead /\ u.bytesWritten = t.bytesWritten
        /\ u.connects = t.connects /\ u.totals = t.totals
    BY <2>1 DEF Session
  <2> HIDE DEF u
  <2>4. u.inbox # << >> => Head(u.inbox) = "stop"
    BY <1>1, <2>3, Posts
  <2>5. Steady(u, a) /\ (a = "echo" => ~u.wasConnected)
    BY <2>1, <2>2, <2>3, <2>4 DEF Steady
  <2>6. 0 \in 0..MaxAttempts /\ 1 \in 1..Endpoints /\ (MaxAttempts > 0 => 0 < MaxAttempts)
    BY SessionAssumption
  <2>7. Sound(StartConnect(u, 0, 1), a)
    BY <2>1, <2>3, <2>5, <2>6, Connecting
  <2> QED BY <2>7 DEF u
<1> QED BY <1>1, <1>2, <1>3, <1>4

\* handle_read of the echo session.
LEMMA ReadSound ==
  ASSUME NEW s, NEW a \in App, Sound(s, a), s.read > 0,
         NEW n \in 0..s.read, NEW failed \in BOOLEAN
  PROVE  Sound(HandleRead(s, n, failed), a)
<1> DEFINE t == [s EXCEPT !.read = 0, !.bytesRead = Add(@, n),
                          !.filled = @ + n, !.totals.read = @ + n]
<1>1. /\ s \in Session /\ Steady(s, a) /\ n \in Nat /\ n <= s.read /\ Trying(s)
      /\ s.filled \in Nat /\ s.read \in Nat /\ s.write \in Nat
      /\ s.filled + s.read <= BufferSize /\ s.write <= s.filled
      /\ s.totals.read \in Nat /\ Counts(s.bytesRead, s.totals.read)
  BY SessionAssumption DEF Sound, Steady, Session
<1>2. /\ s.filled + n \in 0..BufferSize /\ s.write <= s.filled + n
      /\ s.filled + n + 0 <= BufferSize /\ s.totals.read + n \in Nat
      /\ 0 \in 0..BufferSize
  BY <1>1, SessionAssumption
<1>3. Counts(Add(s.bytesRead, n), s.totals.read + n) /\ Add(s.bytesRead, n) \in Counter
  BY <1>1, <1>2, AddCounts, CountsTyped
<1>4. t \in Session
  BY <1>1, <1>2, <1>3 DEF Session
<1>5. /\ t.started = s.started /\ t.stopped = s.stopped /\ t.inbox = s.inbox
      /\ t.connected = s.connected /\ t.wasConnected = s.wasConnected
      /\ t.connect = s.connect /\ t.attempt = s.attempt /\ t.filled = s.filled + n
      /\ t.timer = s.timer /\ t.left = s.left /\ t.read = 0 /\ t.write = s.write
      /\ t.bytesRead = Add(s.bytesRead, n) /\ t.bytesWritten = s.bytesWritten
      /\ t.connects = s.connects
  BY <1>1 DEF Session
<1>6. /\ t.totals.read = s.totals.read + n /\ t.totals.written = s.totals.written
      /\ t.totals.connects = s.totals.connects
  BY <1>1 DEF Session
<1>7. HandleRead(s, n, failed) =
        IF s.stopped THEN t
        ELSE IF failed THEN Stop(t)
             ELSE StartReadSome(IF t.write = 0 THEN StartWriteSome(t) ELSE t)
  BY DEF HandleRead
<1> HIDE DEF t
<1>8. a = "echo" => t.wasConnected
  BY <1>1, <1>5 DEF Steady
<1>9. Steady(t, a) /\ Trying(t)
  BY <1>1, <1>2, <1>3, <1>4, <1>5, <1>6, <1>8 DEF Steady, Trying
<1>10. s.stopped => Sound(t, a)
  BY <1>1, <1>5, <1>9 DEF Sound, Going, Steady
<1>11. ~s.stopped => Sound(Stop(t), a)
  BY <1>5, <1>9, Stops
<1>12. Sound(StartReadSome(IF t.write = 0 THEN StartWriteSome(t) ELSE t), a)
  <2> DEFINE w == IF t.write = 0 THEN StartWriteSome(t) ELSE t
             u == StartReadSome(w)
  <2>1. /\ Steady(w, a) /\ Transfers(t, w) /\ (w.write = 0 => w.filled = 0)
        /\ w.filled \in 0..BufferSize
    BY <1>4, <1>8, <1>9, Writing DEF Transfers, Session
  <2> HIDE DEF w
  <2>2. a = "echo" => w.wasConnected
    BY <1>8, <2>1 DEF Transfers
  <2>3. /\ Steady(u, a) /\ Transfers(w, u) /\ u.read = BufferSize - w.filled
        /\ u.write = w.write
    BY <2>1, <2>2, Reading
  <2> HIDE DEF u
  <2>4. Going(u, a)
    BY <2>1, <2>3, SessionAssumption DEF Going, Transfers
  <2>5. Trying(u)
    BY <1>9, <2>1, <2>3 DEF Trying, Transfers
  <2> QED BY <2>3, <2>4, <2>5 DEF Sound, u, w
<1> QED BY <1>7, <1>10, <1>11, <1>12

\* handle_write.
LEMMA WriteSound ==
  ASSUME NEW s, NEW a \in App, Sound(s, a), s.write > 0,
         NEW n \in 0..s.write, NEW failed \in BOOLEAN
  PROVE  Sound(HandleWrite(s, n, failed), a)
<1> DEFINE t == [s EXCEPT !.write = 0, !.bytesWritten = Add(@, n),
                          !.filled = @ - n, !.totals.written = @ + n]
<1>1. /\ s \in Session /\ Steady(s, a) /\ n \in Nat /\ n <= s.write /\ Trying(s)
      /\ s.filled \in 0..BufferSize /\ s.read \in Nat /\ s.write \in Nat
      /\ s.filled + s.read <= BufferSize /\ s.write <= s.filled
      /\ s.totals.written \in Nat /\ Counts(s.bytesWritten, s.totals.written)
  BY SessionAssumption DEF Sound, Steady, Session
<1>2. /\ s.filled - n \in 0..BufferSize /\ 0 <= s.filled - n
      /\ (s.filled - n) + s.read <= BufferSize /\ s.totals.written + n \in Nat
      /\ 0 \in 0..BufferSize
  BY <1>1, SessionAssumption
<1>3. /\ Counts(Add(s.bytesWritten, n), s.totals.written + n)
      /\ Add(s.bytesWritten, n) \in Counter
  BY <1>1, <1>2, AddCounts, CountsTyped
<1>4. t \in Session
  BY <1>1, <1>2, <1>3 DEF Session
<1>5. /\ t.started = s.started /\ t.stopped = s.stopped /\ t.inbox = s.inbox
      /\ t.connected = s.connected /\ t.wasConnected = s.wasConnected
      /\ t.connect = s.connect /\ t.attempt = s.attempt /\ t.filled = s.filled - n
      /\ t.timer = s.timer /\ t.left = s.left /\ t.read = s.read /\ t.write = 0
      /\ t.bytesRead = s.bytesRead /\ t.bytesWritten = Add(s.bytesWritten, n)
      /\ t.connects = s.connects
  BY <1>1 DEF Session
<1>6. /\ t.totals.read = s.totals.read /\ t.totals.written = s.totals.written + n
      /\ t.totals.connects = s.totals.connects
  BY <1>1 DEF Session
<1>7. HandleWrite(s, n, failed) =
        IF s.stopped THEN t
        ELSE IF failed THEN Stop(t)
             ELSE StartWriteSome(IF t.read = 0 THEN StartReadSome(t) ELSE t)
  BY DEF HandleWrite
<1> HIDE DEF t
<1>8. a = "echo" => t.wasConnected
  BY <1>1, <1>5 DEF Steady
<1>9. Steady(t, a) /\ Trying(t)
  BY <1>1, <1>2, <1>3, <1>4, <1>5, <1>6, <1>8 DEF Steady, Trying
<1>10. s.stopped => Sound(t, a)
  BY <1>1, <1>5, <1>9 DEF Sound, Going, Steady
<1>11. ~s.stopped => Sound(Stop(t), a)
  BY <1>5, <1>9, Stops
<1>12. Sound(StartWriteSome(IF t.read = 0 THEN StartReadSome(t) ELSE t), a)
  <2> DEFINE w == IF t.read = 0 THEN StartReadSome(t) ELSE t
             u == StartWriteSome(w)
  <2>1. /\ Steady(w, a) /\ Transfers(t, w)
        /\ w.read = 0 => w.read = BufferSize - w.filled
        /\ w.filled \in 0..BufferSize
    <3>1. t.filled \in 0..BufferSize
      BY <1>4 DEF Session
    <3>2. CASE t.read = 0
      <4>1. /\ Steady(StartReadSome(t), a) /\ Transfers(t, StartReadSome(t))
            /\ StartReadSome(t).read = BufferSize - t.filled
        BY <1>8, <1>9, Reading
      <4> QED BY <3>1, <3>2, <4>1 DEF Transfers
    <3>3. CASE t.read # 0
      BY <1>9, <3>1, <3>3 DEF Transfers
    <3> QED BY <3>2, <3>3
  <2> HIDE DEF w
  <2>2. a = "echo" => w.wasConnected
    BY <1>8, <2>1 DEF Transfers
  <2>3. /\ Steady(u, a) /\ Transfers(w, u) /\ u.read = w.read
        /\ u.write = w.filled
    BY <2>1, <2>2, Writing
  <2> HIDE DEF u
  <2>4. Going(u, a)
    BY <2>1, <2>3, SessionAssumption DEF Going, Transfers
  <2>5. Trying(u)
    BY <1>9, <2>1, <2>3 DEF Trying, Transfers
  <2> QED BY <2>3, <2>4, <2>5 DEF Sound, u, w
<1> QED BY <1>7, <1>10, <1>11, <1>12

\* The number of the next attempt.
LEMMA NextAttempt ==
  ASSUME NEW s, s \in Session, Trying(s), ~s.stopped
  PROVE  LET n == IF MaxAttempts = 0 THEN 0 ELSE s.attempt + 1 IN
         n \in 0..MaxAttempts /\
           (~(MaxAttempts > 0 /\ n >= MaxAttempts) /\ MaxAttempts > 0 => n < MaxAttempts)
BY SessionAssumption DEF Trying, Session

\* A failed connect of the echo session.
LEMMA Again ==
  ASSUME NEW s, NEW a \in App, Steady(s, a), Trying(s), ~s.stopped, s.started,
         a = "echo" => ~s.wasConnected, NEW e \in 1..Endpoints
  PROVE  Sound(ConnectAgain(s, e), a)
<1> DEFINE t == [s EXCEPT !.open = FALSE]
           n == IF MaxAttempts = 0 THEN 0 ELSE s.attempt + 1
           u == [t EXCEPT !.attempt = n]
<1>1. s \in Session
  BY DEF Steady
<1>2. n \in 0..MaxAttempts /\ (MaxAttempts > 0 /\ ~(n >= MaxAttempts) => n < MaxAttempts)
  BY <1>1, NextAttempt
<1>3. /\ ConnectAgain(s, e) =
           IF e < Endpoints THEN StartConnect(t, s.attempt, e + 1)
           ELSE IF MaxAttempts > 0 /\ n >= MaxAttempts THEN Stop(u)
                ELSE StartConnect(t, n, 1)
  BY DEF ConnectAgain
<1> HIDE DEF n
<1>4. /\ t \in Session /\ Fields(s, t) /\ t.connected = s.connected /\ t.left = s.left
      /\ t.stopped = s.stopped /\ t.connect = s.connect /\ t.attempt = s.attempt
  BY <1>1 DEF Session, Fields
<1> HIDE DEF t
<1>5. Steady(t, a)
  BY <1>4 DEF Steady, Fields
<1>6. /\ u \in Session /\ Fields(t, u) /\ u.connected = t.connected /\ u.left = t.left
      /\ u.stopped = t.stopped /\ u.connect = t.connect
  BY <1>2, <1>4 DEF Session, Fields
<1> HIDE DEF u
<1>7. Steady(u, a)
  BY <1>5, <1>6 DEF Steady, Fields
<1>8. Sound(Stop(u), a)
  BY <1>4, <1>6, <1>7, Stops
<1>9. /\ 1 \in 1..Endpoints /\ (e < Endpoints => e + 1 \in 1..Endpoints)
      /\ s.attempt \in 0..MaxAttempts
  BY <1>1, SessionAssumption DEF Session
<1>10. \A m \in 0..MaxAttempts, f \in 1..Endpoints :
         (MaxAttempts > 0 => m < MaxAttempts) => Sound(StartConnect(t, m, f), a)
  BY <1>4, <1>5, Connecting DEF Fields
<1>11. e < Endpoints => Sound(StartConnect(t, s.attempt, e + 1), a)
  BY <1>9, <1>10 DEF Trying
<1>12. ~(MaxAttempts > 0 /\ n >= MaxAttempts) => Sound(StartConnect(t, n, 1), a)
  BY <1>2, <1>9, <1>10
<1> QED BY <1>3, <1>8, <1>11, <1>12

\* handle_connect of the echo session.
LEMMA ConnectSound ==
  ASSUME NEW s, Sound(s, "echo"), s.connect > 0,
         NEW failed \in BOOLEAN, NEW bad \in BOOLEAN
  PROVE  Sound(HandleConnect(s, failed, bad), "echo")
<1> DEFINE t == [s EXCEPT !.connect = 0, !.wasConnected = ~failed,
                          !.totals.connects = IF failed THEN @ ELSE 1]
           u == [t EXCEPT !.connected = TRUE]
<1>1. /\ s \in Session /\ Steady(s, "echo") /\ Trying(s) /\ "echo" \in App
      /\ s.started /\ ~s.wasConnected /\ s.totals.connects = 0
      /\ s.read = 0 /\ s.write = 0 /\ s.connect \in 1..Endpoints /\ ~s.connected
      /\ ~s.timer
  BY SessionAssumption DEF Sound, Steady, Session, App
<1>2. 0 \in 0..Endpoints
  BY SessionAssumption
<1>3. t \in Session
  BY <1>1, <1>2 DEF Session
<1>4. /\ t.started = s.started /\ t.stopped = s.stopped /\ t.inbox = s.inbox
      /\ t.connected = s.connected /\ t.wasConnected = ~failed
      /\ t.connect = 0 /\ t.attempt = s.attempt /\ t.filled = s.filled
      /\ t.timer = s.timer /\ t.left = s.left /\ t.read = s.read /\ t.write = s.write
      /\ t.bytesRead = s.bytesRead /\ t.bytesWritten = s.bytesWritten
      /\ t.connects = s.connects
  BY <1>1 DEF Session
<1>5. /\ t.totals.read = s.totals.read /\ t.totals.written = s.totals.written
      /\ t.totals.connects = IF failed THEN 0 ELSE 1
  BY <1>1 DEF Session
<1>6. HandleConnect(s, failed, bad) =
        CASE s.stopped  -> t
          [] ~s.stopped /\ failed -> ConnectAgain(t, s.connect)
          [] ~s.stopped /\ ~failed /\ bad -> Stop(u)
          [] OTHER -> StartReadSome(StartWriteSome(u))
  BY DEF HandleConnect
<1> HIDE DEF t
<1>7. Steady(t, "echo") /\ Trying(t)
  <2>1. t.totals.connects = IF t.wasConnected THEN 1 ELSE 0
    BY <1>4, <1>5
  <2>2. /\ t.totals.read = 0 /\ t.totals.written = 0 /\ t.read = 0 /\ t.write = 0
        /\ ~t.connected /\ t.started /\ ~t.timer
    BY <1>1, <1>4, <1>5 DEF Steady
  <2>3. Steady(t, "echo")
    BY <1>1, <1>3, <1>4, <1>5, <2>1, <2>2 DEF Steady
  <2> QED BY <1>1, <1>4, <2>3 DEF Trying
<1>8. s.stopped => Sound(t, "echo")
  BY <1>4, <1>7 DEF Sound, Going, Steady
<1>9. ~s.stopped /\ failed => Sound(ConnectAgain(t, s.connect), "echo")
  BY <1>1, <1>4, <1>7, Again
<1>10. u \in Session
  BY <1>3 DEF Session
<1>11. /\ u.started = t.started /\ u.stopped = t.stopped /\ u.inbox = t.inbox
       /\ u.connected /\ u.wasConnected = t.wasConnected
       /\ u.connect = t.connect /\ u.attempt = t.attempt /\ u.filled = t.filled
       /\ u.timer = t.timer /\ u.left = t.left /\ u.read = t.read /\ u.write = t.write
       /\ u.bytesRead = t.bytesRead /\ u.bytesWritten = t.bytesWritten
       /\ u.connects = t.connects /\ u.totals = t.totals
  BY <1>3 DEF Session
<1> HIDE DEF u
<1>12. ~s.stopped /\ ~failed => Steady(u, "echo") /\ u.wasConnected
  BY <1>4, <1>7, <1>10, <1>11 DEF Steady
<1>13. ~s.stopped /\ ~failed => Sound(Stop(u), "echo")
  BY <1>1, <1>4, <1>11, <1>12, Stops
<1>14. ASSUME ~s.stopped, ~failed
       PROVE  Sound(StartReadSome(StartWriteSome(u)), "echo")
  <2> DEFINE w == StartWriteSome(u)
             r == StartReadSome(w)
  <2>1. /\ Steady(w, "echo") /\ Transfers(u, w) /\ w.write = w.filled
        /\ w.filled \in 0..BufferSize /\ w.wasConnected
    <3>1. /\ Steady(w, "echo") /\ Transfers(u, w) /\ w.write = u.filled
      BY <1>1, <1>12, <1>14, Writing
    <3> HIDE DEF w
    <3> QED BY <1>10, <1>12, <1>14, <3>1 DEF Transfers, Session
  <2> HIDE DEF w
  <2>2. /\ Steady(r, "echo") /\ Transfers(w, r) /\ r.read = BufferSize - w.filled
        /\ r.write = w.write
    BY <1>1, <2>1, Reading
  <2> HIDE DEF r
  <2>3. Going(r, "echo")
    BY <2>1, <2>2, SessionAssumption DEF Going, Transfers
  <2>4. Trying(r)
    BY <1>7, <1>11, <2>1, <2>2 DEF Trying, Transfers
  <2> QED BY <2>2, <2>3, <2>4 DEF Sound, r, w
<1> QED BY <1>6, <1>8, <1>9, <1>13, <1>14

\* handle_connect of the connect session.
LEMMA ConnectAgainSound ==
  ASSUME NEW s, Sound(s, "connect"), s.connect > 0,
         NEW failed \in BOOLEAN, NEW bad \in BOOLEAN, NEW pause \in BOOLEAN
  PROVE  Sound(HandleConnectAgain(s, failed, bad, pause), "connect")
<1> DEFINE c == IF failed THEN s.connects ELSE Increment(s.connects)
           n == IF failed THEN s.totals.connects ELSE s.totals.connects + 1
           t == [s EXCEPT !.connect = 0,
                          !.connects = IF failed THEN @ ELSE Increment(@),
                          !.totals.connects = IF failed THEN @ ELSE @ + 1]
           u == [t EXCEPT !.connected = TRUE]
           p == [u EXCEPT !.timer = TRUE]
           e == IF s.connect < Endpoints THEN s.connect + 1 ELSE 1
<1>1. /\ s \in Session /\ Steady(s, "connect") /\ "connect" \in App /\ "connect" # "echo"
      /\ s.totals.connects \in Nat /\ Counts(s.connects, s.totals.connects)
      /\ s.connect \in 1..Endpoints
  BY SessionAssumption DEF Sound, Steady, Session, App
<1>2. 0 \in 0..Endpoints /\ e \in 1..Endpoints /\ 1 \in 1..Endpoints
      /\ 0 \in 0..MaxAttempts /\ (MaxAttempts > 0 => 0 < MaxAttempts)
  BY <1>1, SessionAssumption
<1>3. n \in Nat /\ Counts(c, n) /\ c \in Counter
  BY <1>1, IncrementCounts, CountsTyped
<1>4. t = [s EXCEPT !.connect = 0, !.connects = c, !.totals.connects = n]
  BY <1>1 DEF Session
<1>5. HandleConnectAgain(s, failed, bad, pause) =
        CASE s.stopped -> t
          [] ~s.stopped /\ failed -> StartConnect(t, 0, e)
          [] ~s.stopped /\ ~failed /\ bad -> Stop(u)
          [] ~s.stopped /\ ~failed /\ ~bad /\ pause -> p
          [] OTHER -> ContinueWork(u)
  BY DEF HandleConnectAgain
<1> HIDE DEF c, n, e
<1>6. [s EXCEPT !.connect = 0, !.connects = c, !.totals.connects = n] \in Session
  BY <1>1, <1>2, <1>3 DEF Session
<1>7. t \in Session
  BY <1>4, <1>6
<1>8. /\ t.started = s.started /\ t.stopped = s.stopped /\ t.inbox = s.inbox
      /\ t.connected = s.connected /\ t.wasConnected = s.wasConnected
      /\ t.connect = 0 /\ t.attempt = s.attempt /\ t.filled = s.filled
      /\ t.timer = s.timer /\ t.left = s.left /\ t.read = s.read /\ t.write = s.write
      /\ t.bytesRead = s.bytesRead /\ t.bytesWritten = s.bytesWritten
      /\ t.connects = c
      /\ t.totals.read = s.totals.read /\ t.totals.written = s.totals.written
      /\ t.totals.connects = n
  <2> DEFINE q == [s EXCEPT !.connect = 0, !.connects = c, !.totals.connects = n]
  <2>1. /\ q.started = s.started /\ q.stopped = s.stopped /\ q.inbox = s.inbox
        /\ q.connected = s.connected /\ q.wasConnected = s.wasConnected
        /\ q.connect = 0 /\ q.attempt = s.attempt /\ q.filled = s.filled
        /\ q.timer = s.timer /\ q.left = s.left /\ q.read = s.read /\ q.write = s.write
        /\ q.bytesRead = s.bytesRead /\ q.bytesWritten = s.bytesWritten
        /\ q.connects = c
    BY <1>1 DEF Session
  <2>2. /\ q.totals.read = s.totals.read /\ q.totals.written = s.totals.written
        /\ q.totals.connects = n
    BY <1>1 DEF Session
  <2>3. t = q
    BY <1>4
  <2> HIDE DEF q, t
  <2> QED BY <2>1, <2>2, <2>3
<1> HIDE DEF t
<1>9. Steady(t, "connect")
  BY <1>1, <1>3, <1>7, <1>8 DEF Steady
<1>10. s.stopped => Sound(t, "connect")
  BY <1>1, <1>8, <1>9 DEF Sound, Going, Trying
<1>11. ~s.stopped /\ failed => Sound(StartConnect(t, 0, e), "connect")
  BY <1>1, <1>2, <1>8, <1>9, Connecting
<1>12. u \in Session
  BY <1>7 DEF Session
<1>13. /\ u.started = t.started /\ u.stopped = t.stopped /\ u.inbox = t.inbox
       /\ u.connected /\ u.wasConnected = t.wasConnected
       /\ u.connect = t.connect /\ u.attempt = t.attempt /\ u.filled = t.filled
       /\ u.timer = t.timer /\ u.left = t.left /\ u.read = t.read /\ u.write = t.write
       /\ u.bytesRead = t.bytesRead /\ u.bytesWritten = t.bytesWritten
       /\ u.connects = t.connects /\ u.totals = t.totals
  BY <1>7 DEF Session
<1> HIDE DEF u
<1>14. ~s.stopped => Steady(u, "connect")
  BY <1>1, <1>8, <1>9, <1>12, <1>13 DEF Steady
<1>15. ~s.stopped => Sound(Stop(u), "connect") /\ Sound(ContinueWork(u), "connect")
  BY <1>1, <1>2, <1>8, <1>13, <1>14, Stops, Connecting DEF ContinueWork
<1>16. /\ p \in Session /\ p.timer /\ p.started = u.started /\ p.stopped = u.stopped
       /\ p.inbox = u.inbox /\ p.connected /\ p.wasConnected = u.wasConnected
       /\ p.connect = u.connect /\ p.attempt = u.attempt /\ p.filled = u.filled
       /\ p.left = u.left /\ p.read = u.read /\ p.write = u.write
       /\ p.bytesRead = u.bytesRead /\ p.bytesWritten = u.bytesWritten
       /\ p.connects = u.connects /\ p.totals = u.totals
  BY <1>12, <1>13 DEF Session
<1> HIDE DEF p
<1>17. ~s.stopped => Sound(p, "connect")
  BY <1>1, <1>8, <1>13, <1>14, <1>16 DEF Sound, Steady, Going, Trying
<1> QED BY <1>5, <1>10, <1>11, <1>15, <1>17

\* handle_timer of the connect session.
LEMMA TimerSound ==
  ASSUME NEW s, NEW a \in App, Sound(s, a), s.timer, NEW failed \in BOOLEAN
  PROVE  Sound(HandleTimer(s, failed), a)
<1> DEFINE t == [s EXCEPT !.timer = FALSE, !.cancelled = FALSE]
<1>1. s \in Session /\ Steady(s, a) /\ a = "connect"
  BY DEF Sound, Steady, App
<1>2. /\ t \in Session /\ t.started = s.started /\ t.stopped = s.stopped
      /\ t.inbox = s.inbox /\ ~t.timer
      /\ t.connected = s.connected /\ t.wasConnected = s.wasConnected
      /\ t.connect = s.connect /\ t.attempt = s.attempt /\ t.filled = s.filled
      /\ t.left = s.left /\ t.read = s.read /\ t.write = s.write
      /\ t.bytesRead = s.bytesRead /\ t.bytesWritten = s.bytesWritten
      /\ t.connects = s.connects /\ t.totals = s.totals
  BY <1>1 DEF Session
<1>3. HandleTimer(s, failed) = CASE s.stopped  -> t
                                 [] ~s.stopped /\ failed -> Stop(t)
                                 [] OTHER -> StartConnect(t, 0, 1)
  BY DEF HandleTimer, ContinueWork
<1> HIDE DEF t
<1>4. Steady(t, a)
  BY <1>1, <1>2 DEF Steady
<1>5. s.stopped => Sound(t, a)
  BY <1>1, <1>2, <1>4 DEF Sound, Going, Trying
<1>6. /\ 0 \in 0..MaxAttempts /\ 1 \in 1..Endpoints
      /\ MaxAttempts > 0 => 0 < MaxAttempts
  BY SessionAssumption
<1>7. ~s.stopped => Sound(Stop(t), a) /\ Sound(StartConnect(t, 0, 1), a)
  BY <1>1, <1>2, <1>4, <1>6, Stops, Connecting
<1> QED BY <1>3, <1>5, <1>7

LEMMA InboxKept ==
  ASSUME NEW s \in Session
  PROVE  /\ \A n \in 0..s.read, failed \in BOOLEAN : HandleRead(s, n, failed).inbox = s.inbox
         /\ \A n \in 0..s.write, failed \in BOOLEAN : HandleWrite(s, n, failed).inbox = s.inbox
         /\ \A failed \in BOOLEAN : HandleTimer(s, failed).inbox = s.inbox
         /\ \A failed, bad \in BOOLEAN : HandleConnect(s, failed, bad).inbox = s.inbox
         /\ \A failed, bad, pause \in BOOLEAN :
              HandleConnectAgain(s, failed, bad, pause).inbox = s.inbox
         /\ DoStart(s).inbox = Tail(s.inbox) /\ DoStop(s).inbox = Tail(s.inbox)
<1>1. \A n \in 0..s.read, failed \in BOOLEAN : HandleRead(s, n, failed).inbox = s.inbox
  BY DEF Session, HandleRead, StartReadSome, StartWriteSome, Stop
<1>2. \A n \in 0..s.write, failed \in BOOLEAN : HandleWrite(s, n, failed).inbox = s.inbox
  BY DEF Session, HandleWrite, StartReadSome, StartWriteSome, Stop
<1>3. \A failed \in BOOLEAN : HandleTimer(s, failed).inbox = s.inbox
  BY DEF Session, HandleTimer, ContinueWork, StartConnect, Stop
<1>4. \A failed, bad \in BOOLEAN : HandleConnect(s, failed, bad).inbox = s.inbox
  BY DEF Session, HandleConnect, ConnectAgain, StartConnect, Stop, StartReadSome, StartWriteSome
<1>5. \A failed, bad, pause \in BOOLEAN :
        HandleConnectAgain(s, failed, bad, pause).inbox = s.inbox
  BY DEF Session, HandleConnectAgain, ContinueWork, StartConnect, Stop
<1>6. DoStart(s).inbox = Tail(s.inbox) /\ DoStop(s).inbox = Tail(s.inbox)
  BY DEF Session, DoStart, DoStop, StartConnect, Stop
<1> QED BY <1>1, <1>2, <1>3, <1>4, <1>5, <1>6

-----------------------------------------------------------------------------
(* Sums.  The library's theorems on induction and on recursive functions   *)
(* take an operator as a parameter; here both go through a set of numbers  *)
(* and its least element.                                                  *)

\* A nonempty set of numbers has a least one.
LEMMA LeastExists ==
  ASSUME NEW S \in SUBSET Nat, S # {}
  PROVE  \E x \in S : \A y \in S : x <= y
<1>1. PICK x \in S : \A y \in S : ~(<<y, x>> \in OpToRel(<, Nat))
  BY NatLessThanWellFounded, WFMin
<1>2. \A y \in S : x <= y
  <2> SUFFICES ASSUME NEW y \in S, y < x PROVE FALSE
    OBVIOUS
  <2>1. <<y, x>> \in Nat \X Nat
    OBVIOUS
  <2>2. <<y, x>> \in OpToRel(<, Nat)
    BY <2>1, Zenon DEF OpToRel
  <2> QED BY <1>1, <2>2
<1> QED BY <1>2

\* So a set that holds 0, and with each number up to n the next, holds 0..n.
LEMMA UpTo ==
  ASSUME NEW n \in Nat, NEW S, 0 \in S, \A k \in 1..n : k - 1 \in S => k \in S
  PROVE  \A k \in 0..n : k \in S
<1> SUFFICES ASSUME ~ \A k \in 0..n : k \in S PROVE FALSE
  OBVIOUS
<1> DEFINE B == {k \in 0..n : k \notin S}
<1>1. B # {} /\ B \in SUBSET Nat
  OBVIOUS
<1>2. PICK m \in B : \A y \in B : m <= y
  BY <1>1, LeastExists
<1>3. m \in 1..n /\ m \notin S
  OBVIOUS
<1>4. m - 1 \in 0..n /\ ~(m <= m - 1)
  BY <1>3
<1>5. m - 1 \in S
  BY <1>2, <1>4
<1> QED BY <1>3, <1>5

\* h begins with d and goes on as F says.
Follows(h, d, n, F) == h[0] = d /\ \A k \in 1..n : h[k] = F[<<k, h[k - 1]>>]

\* A function on 0..n can be defined by what follows from each value.
LEMMA Recursion ==
  ASSUME NEW D, NEW d \in D, NEW n \in Nat, NEW F \in [(1..n) \X D -> D]
  PROVE  \E h \in [0..n -> D] : Follows(h, d, n, F)
<1> DEFINE S == {m \in 0..n : \E h \in [0..m -> D] :
                   h[0] = d /\ \A k \in 1..m : h[k] = F[<<k, h[k - 1]>>]}
<1>1. 0 \in S
  <2> DEFINE h == [k \in 0..0 |-> d]
  <2>1. h \in [0..0 -> D] /\ h[0] = d /\ \A k \in 1..0 : h[k] = F[<<k, h[k - 1]>>]
    OBVIOUS
  <2> HIDE DEF h
  <2>2. 0 \in 0..n
    OBVIOUS
  <2> QED BY <2>1, <2>2
<1>2. ASSUME NEW m \in 1..n, m - 1 \in S PROVE m \in S
  <2>1. PICK h \in [0..m - 1 -> D] :
          h[0] = d /\ \A k \in 1..m - 1 : h[k] = F[<<k, h[k - 1]>>]
    BY <1>2
  <2> DEFINE g == [k \in 0..m |-> IF k = m THEN F[<<m, h[m - 1]>>] ELSE h[k]]
  <2>2. h[m - 1] \in D
    OBVIOUS
  <2>3. F[<<m, h[m - 1]>>] \in D
    BY <2>2
  <2>4. /\ \A k \in 0..m : k # m => k \in 0..m - 1
        /\ \A k \in 1..m : k # m => k \in 1..m - 1
        /\ \A k \in 1..m : k - 1 \in 0..m - 1 /\ k - 1 # m /\ k - 1 \in 0..m /\ k \in 0..m
        /\ 0 \in 0..m /\ 0 # m
    OBVIOUS
  <2>5. g \in [0..m -> D]
    BY <2>3, <2>4
  <2>6. \A k \in 0..m - 1 : g[k] = h[k]
    BY <2>4
  <2>7. g[0] = d
    BY <2>1, <2>4
  <2>8. ASSUME NEW k \in 1..m PROVE g[k] = F[<<k, g[k - 1]>>]
    <3>1. g[k - 1] = h[k - 1]
      BY <2>4
    <3>2. CASE k = m
      BY <2>4, <3>1, <3>2
    <3>3. CASE k # m
      BY <2>1, <2>4, <3>1, <3>3
    <3> QED BY <3>2, <3>3
  <2> HIDE DEF g
  <2> QED BY <2>5, <2>7, <2>8
<1> HIDE DEF S
<1>3. n \in S
  BY <1>1, <1>2, UpTo
<1> QED BY <1>3 DEF S, Follows

\* Sum is the last value of the sequence of partial sums.
LEMMA Summed ==
  ASSUME NEW n \in Nat, NEW f \in [1..n -> Nat]
  PROVE  \E h \in [0..n -> Nat] :
           h[0] = 0 /\ (\A k \in 1..n : h[k] = f[k] + h[k - 1]) /\ Sum(f, n) = h[n]
<1> DEFINE F == [p \in (1..n) \X Nat |-> f[p[1]] + p[2]]
           g == CHOOSE h : h = [k \in 0..n |-> IF k = 0 THEN 0 ELSE f[k] + h[k - 1]]
<1>1. F \in [(1..n) \X Nat -> Nat]
  OBVIOUS
<1>2. PICK h \in [0..n -> Nat] : Follows(h, 0, n, F)
  <2> HIDE DEF F
  <2> QED BY <1>1, Recursion
<1>3. ASSUME NEW k \in 1..n PROVE h[k] = f[k] + h[k - 1]
  <2>1. k - 1 \in 0..n
    OBVIOUS
  <2>2. <<k, h[k - 1]>> \in (1..n) \X Nat
    BY <2>1
  <2>3. F[<<k, h[k - 1]>>] = f[k] + h[k - 1]
    BY <2>2
  <2> QED BY <1>2, <2>3 DEF Follows
<1>4. h = [k \in 0..n |-> IF k = 0 THEN 0 ELSE f[k] + h[k - 1]]
  BY <1>2, <1>3 DEF Follows
<1>5. g = [k \in 0..n |-> IF k = 0 THEN 0 ELSE f[k] + g[k - 1]]
  BY <1>4
<1>6. Sum(f, n) = g[n]
  BY DEF Sum
<1> HIDE DEF g, F
<1>7. g[0] = 0 /\ \A k \in 1..n : g[k] = f[k] + g[k - 1]
  <2>1. 0 \in 0..n /\ \A k \in 1..n : k \in 0..n /\ k # 0
    OBVIOUS
  <2> QED BY <1>5, <2>1
<1> DEFINE S == {k \in 0..n : g[k] = h[k]}
<1>8. \A k \in 1..n : k - 1 \in S => k \in S
  BY <1>3, <1>7
<1>9. 0 \in S
  BY <1>2, <1>7 DEF Follows
<1>10. n \in S
  <2> HIDE DEF S
  <2>1. \A k \in 0..n : k \in S
    BY <1>8, <1>9, UpTo
  <2> QED BY <2>1
<1>11. g[n] = h[n]
  BY <1>10
<1> QED BY <1>2, <1>3, <1>6, <1>11 DEF Follows

\* If a counter starts at zero and counts f[k] more in step k, then in the end
\* it has counted the sum of f, of which nothing is left after the last step.
LEMMA Totalled ==
  ASSUME NEW g, NEW m \in 0..SessionCount, NEW f \in [Ids -> Nat], g[0] = Zero,
         \A k \in 1..m : \A j \in Nat : Counts(g[k - 1], j) => Counts(g[k], j + f[k]),
         \A k \in m + 1 .. SessionCount : f[k] = 0
  PROVE  Counts(g[m], Sum(f, SessionCount))
<1>0. SessionCount \in Nat
  BY LoadAssumption
<1>1. PICK h \in [0..SessionCount -> Nat] :
        /\ h[0] = 0 /\ \A k \in 1..SessionCount : h[k] = f[k] + h[k - 1]
        /\ Sum(f, SessionCount) = h[SessionCount]
  BY <1>0, Summed DEF Ids
<1> DEFINE S == {k \in 0..m : Counts(g[k], h[k])}
           T == {k \in 0..SessionCount : k > m => h[k] = h[m]}
<1>2. 0 \in S
  <2>1. Counts(Zero, 0)
    BY CounterAssumption DEF Counts, Zero
  <2> QED BY <1>0, <1>1, <2>1
<1>3. ASSUME NEW k \in 1..m, k - 1 \in S PROVE k \in S
  <2>1. k \in 1..SessionCount /\ k - 1 \in 0..SessionCount /\ k \in 0..m
    BY <1>0
  <2>2. h[k - 1] \in Nat /\ f[k] \in Nat
    BY <2>1 DEF Ids
  <2>3. Counts(g[k], h[k - 1] + f[k])
    BY <1>3, <2>2
  <2>4. h[k - 1] + f[k] = h[k]
    BY <1>1, <2>1, <2>2
  <2>5. Counts(g[k], h[k])
    BY <2>3, <2>4
  <2> QED BY <2>1, <2>5
<1>4. m \in S
  <2> HIDE DEF S
  <2>1. m \in Nat /\ m \in 0..m
    BY <1>0
  <2>2. \A k \in 0..m : k \in S
    BY <1>2, <1>3, <2>1, UpTo
  <2> QED BY <2>1, <2>2
<1>5. 0 \in T
  BY <1>0
<1>6. ASSUME NEW k \in 1..SessionCount, k - 1 \in T PROVE k \in T
  <2> SUFFICES ASSUME k > m PROVE h[k] = h[m]
    BY <1>0
  <2>1. k \in m + 1 .. SessionCount /\ k - 1 \in 0..SessionCount
    BY <1>0
  <2>2. h[k - 1] \in Nat /\ f[k] = 0
    BY <2>1
  <2>3. h[k] = h[k - 1]
    <3>1. h[k] = f[k] + h[k - 1]
      BY <1>1
    <3> QED BY <2>2, <3>1
  <2>4. k - 1 > m \/ k - 1 = m
    BY <1>0
  <2> QED BY <1>6, <2>3, <2>4
<1>7. SessionCount \in T
  <2> HIDE DEF T
  <2>1. SessionCount \in 0..SessionCount
    BY <1>0
  <2> QED BY <1>0, <1>5, <1>6, <2>1, UpTo
<1>8. h[SessionCount] = h[m]
  <2>1. SessionCount > m \/ SessionCount = m
    BY <1>0
  <2> QED BY <1>7, <2>1
<1> QED BY <1>1, <1>4, <1>8

-----------------------------------------------------------------------------
(* The application.                                                        *)

Active == {i \in Ids : ~session[i].stopped}

Told == {<< >>, <<"start">>}

SessionsSound ==
  /\ session \in [Ids -> Session] /\ \A i \in Ids : Sound(session[i], config.app)
  /\ outstanding = Cardinality(Active)

ClientInv ==
  /\ config \in Config /\ manager \in Manager /\ main \in MainState
  /\ SessionsSound
  /\ \A i \in Ids : i > manager.end => session[i] = NewSession
  /\ ~manager.stopped => \A i \in Ids : session[i].inbox \in Told

LEMMA Ided == IsFiniteSet(Ids) /\ Cardinality(Ids) = SessionCount /\ Ids \subseteq Nat
BY FS_Interval, LoadAssumption DEF Ids

LEMMA ActiveFinite ==
  IsFiniteSet(Active) /\ Cardinality(Active) \in 0..SessionCount
<1>1. Active \subseteq Ids
  BY DEF Active
<1>2. IsFiniteSet(Active) /\ Cardinality(Active) <= SessionCount
  BY <1>1, Ided, FS_Subset
<1>3. Cardinality(Active) \in Nat
  BY <1>2, FS_CardinalityType
<1> QED BY <1>2, <1>3, LoadAssumption

LEMMA Starts == Init => ClientInv
<1> SUFFICES ASSUME Init PROVE ClientInv
  OBVIOUS
<1>1. \A a \in App : Sound(NewSession, a) /\ ~NewSession.stopped /\ NewSession \in Session
  BY Fresh DEF Sound, Steady
<1>2. /\ config \in Config /\ config.app \in App /\ main \in MainState
      /\ session = [i \in Ids |-> NewSession] /\ outstanding = SessionCount
      /\ manager = [inbox |-> << >>, end |-> 0, stopped |-> FALSE,
                    timer |-> FALSE, cancelled |-> FALSE]
  BY DEF Init, Config, MainState
<1>3. manager \in Manager
  BY <1>2, LoadAssumption DEF Manager
<1>4. Active = Ids
  BY <1>1, <1>2 DEF Active
<1>5. SessionsSound
  BY <1>1, <1>2, <1>4, Ided DEF SessionsSound
<1>6. NewSession.inbox = << >>
  BY DEF NewSession
<1> QED BY <1>2, <1>3, <1>5, <1>6 DEF ClientInv, Told

\* A handler that leaves session i as s.
LEMMA Left ==
  ASSUME ClientInv, NEW i \in Ids, NEW s, Becomes(i, s), Sound(s, config.app),
         i <= manager.end,
         \/ s.inbox = session[i].inbox
         \/ session[i].inbox # << >> /\ s.inbox = Tail(session[i].inbox)
  PROVE  ClientInv'
<1> DEFINE r == session[i]
<1>1. /\ session \in [Ids -> Session] /\ s \in Session /\ r \in Session
      /\ s.left = (IF s.stopped THEN 1 ELSE 0)
      /\ r.left = (IF r.stopped THEN 1 ELSE 0)
      /\ outstanding = Cardinality(Active)
  BY DEF ClientInv, SessionsSound, Sound, Steady
<1>2. /\ session' = [session EXCEPT ![i] = s] /\ config' = config /\ manager' = manager
      /\ outstanding' = outstanding - (s.left - r.left)
      /\ main' \in {main, "stopping"}
  BY DEF Becomes
<1>3. /\ session'[i] = s /\ \A j \in Ids : j # i => session'[j] = session[j]
      /\ session' \in [Ids -> Session]
  BY <1>1, <1>2
<1>4. outstanding' = Cardinality(Active')
  <2>0. IsFiniteSet(Active) /\ Cardinality(Active) \in Nat
    BY ActiveFinite
  <2>1. CASE r.stopped = s.stopped
    <3>1. Active' = Active
      BY <1>3, <2>1 DEF Active
    <3>2. s.left - r.left = 0
      BY <1>1, <2>1
    <3> QED BY <1>1, <1>2, <2>0, <3>1, <3>2
  <2>2. CASE ~r.stopped /\ s.stopped
    <3>1. Active' = Active \ {i} /\ i \in Active
      BY <1>3, <2>2 DEF Active
    <3>2. s.left - r.left = 1
      BY <1>1, <2>2
    <3>3. Cardinality(Active \ {i}) = Cardinality(Active) - 1
      BY <2>0, <3>1, FS_RemoveElement
    <3> QED BY <1>1, <1>2, <2>0, <3>1, <3>2, <3>3
  <2>3. CASE r.stopped /\ ~s.stopped
    <3>1. Active' = Active \cup {i} /\ i \notin Active
      BY <1>3, <2>3 DEF Active
    <3>2. s.left - r.left = 0 - 1
      BY <1>1, <2>3
    <3>3. Cardinality(Active \cup {i}) = Cardinality(Active) + 1
      BY <2>0, <3>1, FS_AddElement
    <3> QED BY <1>1, <1>2, <2>0, <3>1, <3>2, <3>3
  <2>4. r.stopped \in BOOLEAN /\ s.stopped \in BOOLEAN
    BY <1>1 DEF Session
  <2> QED BY <2>1, <2>2, <2>3, <2>4
<1>5. SessionsSound'
  BY <1>2, <1>3, <1>4 DEF ClientInv, SessionsSound
<1>6. \A j \in Ids : (j > manager.end => session[j] = NewSession)'
  <2>1. i \in Nat /\ manager.end \in Nat /\ ~(i > manager.end)
    BY Ided DEF ClientInv, Manager
  <2> QED BY <1>2, <1>3, <2>1 DEF ClientInv
<1>7. (~manager.stopped => \A j \in Ids : session[j].inbox \in Told)'
  <2> SUFFICES ASSUME ~manager.stopped PROVE \A j \in Ids : session'[j].inbox \in Told
    BY <1>2
  <2>1. \A j \in Ids : session[j].inbox \in Told
    BY DEF ClientInv
  <2>2. s.inbox \in Told
    BY <2>1, Posts DEF Told
  <2> QED BY <1>3, <2>1, <2>2
<1> QED BY <1>2, <1>5, <1>6, <1>7 DEF ClientInv, MainState

\* The handlers of the sessions.
LEMMA SessionKeeps ==
  ASSUME ClientInv, NEW i \in Ids,
         SessionRequest(i) \/ SessionConnect(i) \/ SessionRead(i) \/ SessionWrite(i)
           \/ SessionTimer(i)
  PROVE  ClientInv'
<1> DEFINE r == session[i]
           a == config.app
<1>1. /\ r \in Session /\ Sound(r, a) /\ a \in App /\ config.connectPause \in BOOLEAN
  BY DEF ClientInv, SessionsSound, Config
<1>2. i <= manager.end
  <2> SUFFICES ASSUME ~(i <= manager.end) PROVE FALSE
    OBVIOUS
  <2>1. r = NewSession
    BY Ided DEF ClientInv, Manager
  <2>2. /\ r.inbox = << >> /\ r.connect = 0 /\ r.read = 0 /\ r.write = 0 /\ ~r.timer
    BY <2>1 DEF NewSession
  <2> QED BY <2>2 DEF SessionRequest, SessionConnect, SessionRead, SessionWrite, SessionTimer
<1>3. CASE SessionRequest(i)
  <2> DEFINE s == IF Head(r.inbox) = "start" THEN DoStart(r) ELSE DoStop(r)
  <2>1. r.inbox # << >> /\ Becomes(i, s)
    BY <1>3 DEF SessionRequest
  <2>2. Sound(s, a) /\ s.inbox = Tail(r.inbox)
    BY <1>1, <2>1, RequestSound, InboxKept
  <2> HIDE DEF s
  <2> QED BY <1>2, <2>1, <2>2, Left
<1>4. CASE SessionConnect(i)
  <2>1. PICK failed \in BOOLEAN, bad \in BOOLEAN :
          Becomes(i, IF a = "echo" THEN HandleConnect(r, failed, bad)
                     ELSE HandleConnectAgain(r, failed, bad, config.connectPause))
    BY <1>4 DEF SessionConnect
  <2>2. r.connect > 0
    BY <1>4 DEF SessionConnect
  <2>3. CASE a = "echo"
    <3>1. /\ Sound(HandleConnect(r, failed, bad), a)
          /\ HandleConnect(r, failed, bad).inbox = r.inbox
      BY <1>1, <2>2, <2>3, ConnectSound, InboxKept
    <3> QED BY <1>2, <2>1, <2>3, <3>1, Left
  <2>4. CASE a = "connect"
    <3>1. /\ Sound(HandleConnectAgain(r, failed, bad, config.connectPause), a)
          /\ HandleConnectAgain(r, failed, bad, config.connectPause).inbox = r.inbox
      BY <1>1, <2>2, <2>4, ConnectAgainSound, InboxKept
    <3> QED BY <1>2, <2>1, <2>4, <3>1, Left
  <2> QED BY <1>1, <2>3, <2>4 DEF App
<1>5. CASE SessionRead(i)
  <2>1. PICK n \in 0..r.read : Becomes(i, HandleRead(r, n, n = 0))
    BY <1>5 DEF SessionRead
  <2>2. (n = 0) \in BOOLEAN /\ r.read > 0
    BY <1>5 DEF SessionRead
  <2>3. Sound(HandleRead(r, n, n = 0), a) /\ HandleRead(r, n, n = 0).inbox = r.inbox
    BY <1>1, <2>2, ReadSound, InboxKept
  <2> QED BY <1>2, <2>1, <2>3, Left
<1>6. CASE SessionWrite(i)
  <2>1. PICK n \in 0..r.write : Becomes(i, HandleWrite(r, n, n = 0))
    BY <1>6 DEF SessionWrite
  <2>2. (n = 0) \in BOOLEAN /\ r.write > 0
    BY <1>6 DEF SessionWrite
  <2>3. Sound(HandleWrite(r, n, n = 0), a) /\ HandleWrite(r, n, n = 0).inbox = r.inbox
    BY <1>1, <2>2, WriteSound, InboxKept
  <2> QED BY <1>2, <2>1, <2>3, Left
<1>7. CASE SessionTimer(i)
  <2>1. PICK failed \in BOOLEAN : Becomes(i, HandleTimer(r, failed))
    BY <1>7 DEF SessionTimer
  <2>2. r.timer
    BY <1>7 DEF SessionTimer
  <2>3. Sound(HandleTimer(r, failed), a) /\ HandleTimer(r, failed).inbox = r.inbox
    BY <1>1, <2>2, TimerSound, InboxKept
  <2> QED BY <1>2, <2>1, <2>3, Left
<1> QED BY <1>3, <1>4, <1>5, <1>6, <1>7

\* Sessions that are told something.
LEMMA Telling ==
  ASSUME ClientInv, NEW b \in Nat, NEW e \in Nat, NEW p \in {"start", "stop"}, Tell(b, e, p),
         config' = config, outstanding' = outstanding,
         \A i \in Ids : i \in b..e => IF p = "start" THEN session[i] = NewSession
                                      ELSE session[i].inbox \in Told
  PROVE  /\ SessionsSound'
         /\ \A i \in Ids : i \notin b..e => session'[i] = session[i]
         /\ p = "start" => \A i \in Ids : i \in b..e => session'[i].inbox = <<"start">>
<1>1. /\ session \in [Ids -> Session] /\ \A i \in Ids : Sound(session[i], config.app)
      /\ outstanding = Cardinality(Active) /\ config.app \in App
  BY DEF ClientInv, SessionsSound, Config
<1>2. \A i \in Ids : session'[i] = IF i \in b..e
                                   THEN [session[i] EXCEPT !.inbox = Append(@, p)]
                                   ELSE session[i]
  BY DEF Tell
<1>3. ASSUME NEW i \in Ids, i \in b..e
      PROVE  /\ Sound(session'[i], config.app) /\ session'[i].stopped = session[i].stopped
             /\ session'[i] \in Session
             /\ p = "start" => session'[i].inbox = <<"start">>
  <2> DEFINE s == session[i]
             u == [s EXCEPT !.inbox = Append(@, p)]
  <2>1. s \in Session /\ Sound(s, config.app)
    BY <1>1
  <2>2. session'[i] = u
    BY <1>2, <1>3
  <2>3. /\ Append(s.inbox, p) \in {<<"start">>, <<"stop">>, <<"start", "stop">>}
        /\ p = "start" => Append(s.inbox, p) = <<"start">> /\ ~s.started
        /\ Head(Append(s.inbox, p)) = "start" => ~s.started
    <3>1. CASE p = "start"
      <4>1. s = NewSession
        BY <1>3, <3>1
      <4>2. s.inbox = << >> /\ ~s.started
        BY <4>1 DEF NewSession
      <4> QED BY <3>1, <4>2, Posts
    <3>2. CASE p = "stop"
      <4>1. s.inbox \in Told
        BY <1>3, <3>2
      <4>2. s.inbox = <<"start">> => ~s.started
        BY <2>1, Posts DEF Sound, Steady
      <4>3. CASE s.inbox = << >>
        <5>1. Append(s.inbox, p) = <<"stop">>
          BY <3>2, <4>3, Posts
        <5> QED BY <3>2, <5>1, Posts
      <4>4. CASE s.inbox = <<"start">>
        <5>1. Append(s.inbox, p) = <<"start", "stop">>
          BY <3>2, <4>4, Posts
        <5> QED BY <3>2, <4>2, <4>4, <5>1
      <4> QED BY <4>1, <4>3, <4>4 DEF Told
    <3> QED BY <3>1, <3>2
  <2>4. Append(s.inbox, p) \in Seq({"start", "stop"})
    <3>1. s.inbox \in Seq({"start", "stop"})
      BY <2>1 DEF Session
    <3> QED BY <3>1, AppendProperties
  <2>5. u \in Session
    BY <2>1, <2>4 DEF Session
  <2>6. /\ u.started = s.started /\ u.stopped = s.stopped /\ u.inbox = Append(s.inbox, p)
        /\ u.connected = s.connected /\ u.wasConnected = s.wasConnected
        /\ u.connect = s.connect /\ u.attempt = s.attempt /\ u.filled = s.filled
        /\ u.timer = s.timer /\ u.left = s.left /\ u.read = s.read /\ u.write = s.write
        /\ u.bytesRead = s.bytesRead /\ u.bytesWritten = s.bytesWritten
        /\ u.connects = s.connects /\ u.totals = s.totals
    BY <2>1 DEF Session
  <2> HIDE DEF u
  <2>7. Steady(u, config.app)
    BY <2>1, <2>3, <2>5, <2>6 DEF Sound, Steady
  <2>8. Sound(u, config.app)
    BY <2>1, <2>6, <2>7 DEF Sound, Going, Trying
  <2> QED BY <2>2, <2>3, <2>5, <2>6, <2>8
<1>4. \A i \in Ids : /\ Sound(session'[i], config.app) /\ session'[i] \in Session
                     /\ session'[i].stopped = session[i].stopped
  BY <1>1, <1>2, <1>3
<1>5. Active' = Active
  BY <1>4 DEF Active
<1>6. session' \in [Ids -> Session]
  BY <1>4 DEF Tell
<1> QED BY <1>1, <1>2, <1>3, <1>4, <1>5, <1>6 DEF SessionsSound

\* Where a block of sessions ends.
LEMMA Block ==
  ASSUME NEW e \in 0..SessionCount
  PROVE  LET room == SessionCount - e
             f == e + IF BlockSize < room THEN BlockSize ELSE room
         IN  f \in 0..SessionCount /\ e <= f
BY LoadAssumption

Handler == {"start", "step", "stop"}

LEMMA BlockStarted ==
  ASSUME ClientInv, NEW m \in Manager, StartBlock(m), m.end = manager.end,
         m.stopped = manager.stopped, ~m.stopped, UNCHANGED <<config, outstanding, main>>
  PROVE  ClientInv'
<1> DEFINE room == SessionCount - m.end
           e == m.end + IF BlockSize < room THEN BlockSize ELSE room
           n == [m EXCEPT !.end = e]
<1>1. m.end \in 0..SessionCount /\ m.inbox \in Seq(Handler)
  BY DEF Manager, Handler
<1>2. e \in 0..SessionCount /\ m.end <= e
  BY <1>1, Block
<1>3. /\ Tell(m.end + 1, e, "start")
      /\ manager' = IF e = SessionCount THEN n
                    ELSE IF config.blockPause THEN [n EXCEPT !.timer = TRUE]
                    ELSE [n EXCEPT !.inbox = Append(@, "step")]
  BY DEF StartBlock
<1> HIDE DEF e
<1>4. n \in Manager /\ n.end = e /\ n.stopped = m.stopped /\ n.inbox = m.inbox
  BY <1>2 DEF Manager
<1> HIDE DEF n
<1>5. [n EXCEPT !.timer = TRUE] \in Manager /\ [n EXCEPT !.timer = TRUE].end = e
      /\ [n EXCEPT !.timer = TRUE].stopped = m.stopped
  BY <1>4 DEF Manager
<1>6. Append(n.inbox, "step") \in Seq(Handler)
  BY <1>1, <1>4, AppendProperties DEF Handler
<1>7. [n EXCEPT !.inbox = Append(@, "step")] \in Manager
      /\ [n EXCEPT !.inbox = Append(@, "step")].end = e
      /\ [n EXCEPT !.inbox = Append(@, "step")].stopped = m.stopped
  BY <1>4, <1>6 DEF Manager, Handler
<1>8. manager' \in Manager /\ manager'.end = e /\ manager'.stopped = m.stopped
  BY <1>3, <1>4, <1>5, <1>7
<1>9. /\ m.end \in Nat /\ e \in Nat /\ m.end + 1 \in Nat
      /\ \A i \in Ids : i > m.end <=> ~(i <= m.end)
      /\ \A i \in Ids : i \in m.end + 1 .. e <=> i > m.end /\ i <= e
  BY <1>1, <1>2, LoadAssumption DEF Ids
<1>10. \A i \in Ids : i > m.end => session[i] = NewSession
  BY DEF ClientInv
<1>11. /\ SessionsSound'
       /\ \A i \in Ids : i \notin m.end + 1 .. e => session'[i] = session[i]
       /\ \A i \in Ids : i \in m.end + 1 .. e => session'[i].inbox = <<"start">>
  BY <1>3, <1>9, <1>10, Telling
<1>12. \A i \in Ids : i > e => session'[i] = NewSession
  <2>1. \A i \in Ids : i > e => i > m.end /\ i \notin m.end + 1 .. e
    BY <1>2, <1>9 DEF Ids
  <2> QED BY <1>10, <1>11, <2>1
<1>13. \A i \in Ids : session'[i].inbox \in Told
  BY <1>11 DEF ClientInv, Told
<1> QED BY <1>8, <1>11, <1>12, <1>13 DEF ClientInv

LEMMA AllTold ==
  ASSUME ClientInv, NEW m \in Manager, StopSessions(m), m.end = manager.end,
         m.stopped = manager.stopped, UNCHANGED <<config, outstanding, main>>
  PROVE  ClientInv'
<1> DEFINE n == [m EXCEPT !.stopped = TRUE, !.cancelled = m.timer]
<1>1. CASE m.stopped
  <2>1. manager' = m /\ session' = session
    BY <1>1 DEF StopSessions
  <2>2. SessionsSound'
    BY <2>1 DEF ClientInv, SessionsSound, Active
  <2> QED BY <1>1, <2>1, <2>2 DEF ClientInv
<1>2. CASE ~m.stopped
  <2>1. manager' = n /\ Tell(1, m.end, "stop")
    BY <1>2 DEF StopSessions
  <2>2. n \in Manager /\ n.end = m.end /\ n.stopped
    BY DEF Manager
  <2>3. m.end \in Nat /\ 1 \in Nat /\ \A i \in Ids : i > m.end => i \notin 1..m.end
    BY LoadAssumption DEF Manager, Ids
  <2>4. \A i \in Ids : session[i].inbox \in Told
    BY <1>2 DEF ClientInv
  <2>5. SessionsSound' /\ \A i \in Ids : i \notin 1..m.end => session'[i] = session[i]
    BY <2>1, <2>3, <2>4, Telling
  <2> HIDE DEF n
  <2> QED BY <2>1, <2>2, <2>3, <2>5 DEF ClientInv
<1>3. m.stopped \in BOOLEAN
  BY DEF Manager
<1> QED BY <1>1, <1>2, <1>3

\* The handlers of the manager.
LEMMA ManagerKeeps ==
  ASSUME ClientInv, ManagerHandler \/ ManagerTimer
  PROVE  ClientInv'
<1>1. /\ manager \in Manager /\ manager.inbox \in Seq(Handler)
  BY DEF ClientInv, Manager, Handler
<1>2. ASSUME NEW m \in Manager, manager' = m, m.end = manager.end,
             m.stopped = manager.stopped, UNCHANGED <<session, config, outstanding, main>>
      PROVE  ClientInv'
  <2>1. SessionsSound'
    BY <1>2 DEF ClientInv, SessionsSound, Active
  <2> QED BY <1>2, <2>1 DEF ClientInv
<1>3. CASE ManagerHandler
  <2> DEFINE m == [manager EXCEPT !.inbox = Tail(@)]
  <2>1. manager.inbox # << >> /\ Tail(manager.inbox) \in Seq(Handler)
    BY <1>1, <1>3, HeadTailProperties DEF ManagerHandler
  <2>2. m \in Manager /\ m.end = manager.end /\ m.stopped = manager.stopped
    BY <1>1, <2>1 DEF Manager, Handler
  <2>3. /\ \/ StopSessions(m) \/ (manager' = m /\ UNCHANGED session)
           \/ ~m.stopped /\ StartBlock(m)
        /\ UNCHANGED <<config, outstanding, main>>
    BY <1>3 DEF ManagerHandler
  <2> HIDE DEF m
  <2> QED BY <1>2, <2>2, <2>3, AllTold, BlockStarted
<1>4. CASE ManagerTimer
  <2> DEFINE m == [manager EXCEPT !.timer = FALSE, !.cancelled = FALSE]
  <2>2. m \in Manager /\ m.end = manager.end /\ m.stopped = manager.stopped
    BY <1>1 DEF Manager
  <2>3. /\ \/ StopSessions(m) \/ (manager' = m /\ UNCHANGED session)
           \/ ~m.stopped /\ StartBlock(m)
        /\ UNCHANGED <<config, outstanding, main>>
    BY <1>4 DEF ManagerTimer
  <2> HIDE DEF m
  <2> QED BY <1>2, <2>2, <2>3, AllTold, BlockStarted
<1> QED BY <1>3, <1>4

\* The main thread.
LEMMA MainKeeps ==
  ASSUME ClientInv,
         MainStart \/ MainWait \/ MainTimesOut \/ MainStop \/ JoinManager \/ JoinSessions
           \/ UNCHANGED vars
  PROVE  ClientInv'
<1>1. /\ manager \in Manager /\ manager.inbox \in Seq(Handler)
  BY DEF ClientInv, Manager, Handler
<1>2. ASSUME manager' \in Manager, manager'.end = manager.end, main' \in MainState,
             manager'.stopped = manager.stopped, UNCHANGED <<session, config, outstanding>>
      PROVE  ClientInv'
  <2>1. SessionsSound'
    BY <1>2 DEF ClientInv, SessionsSound, Active
  <2> QED BY <1>2, <2>1 DEF ClientInv
<1>3. ASSUME NEW p \in Handler, Post(p)
      PROVE  /\ manager' \in Manager /\ manager'.end = manager.end
             /\ manager'.stopped = manager.stopped
  <2>1. Append(manager.inbox, p) \in Seq(Handler)
    BY <1>1, AppendProperties
  <2> QED BY <1>1, <1>3, <2>1 DEF Post, Manager, Handler
<1>4. CASE MainStart
  BY <1>2, <1>3, <1>4 DEF MainStart, MainState, Handler
<1>5. CASE MainStop
  BY <1>2, <1>3, <1>5 DEF MainStop, MainState, Handler
<1>6. CASE MainWait \/ MainTimesOut \/ JoinManager \/ JoinSessions \/ UNCHANGED vars
  <2>1. main' \in MainState /\ UNCHANGED <<manager, session, config, outstanding>>
    BY <1>6 DEF MainWait, MainTimesOut, JoinManager, JoinSessions, vars, MainState, ClientInv
  <2> QED BY <1>1, <1>2, <2>1
<1> QED BY <1>4, <1>5, <1>6

\* All the sessions are sound, and the work that is outstanding is counted.
THEOREM ClientInvariant == Spec => []ClientInv
<1>1. Init => ClientInv
  BY Starts
<1>2. ClientInv /\ [Next]_vars => ClientInv'
  <2> SUFFICES ASSUME ClientInv, [Next]_vars PROVE ClientInv'
    OBVIOUS
  <2>1. CASE ManagerHandler \/ ManagerTimer
    BY <2>1, ManagerKeeps
  <2>2. CASE \E i \in Ids : SessionRequest(i) \/ SessionConnect(i) \/ SessionRead(i)
                              \/ SessionWrite(i) \/ SessionTimer(i)
    BY <2>2, SessionKeeps
  <2>3. CASE MainStart \/ MainWait \/ MainTimesOut \/ MainStop \/ JoinManager \/ JoinSessions
               \/ UNCHANGED vars
    BY <2>3, MainKeeps
  <2> QED BY <2>1, <2>2, <2>3 DEF Next
<1> QED BY <1>1, <1>2, PTL DEF Spec

THEOREM Outstanding == Spec => []OutstandingExact
<1>1. ClientInv => OutstandingExact
  <2> SUFFICES ASSUME ClientInv PROVE OutstandingExact
    OBVIOUS
  <2>1. outstanding = Cardinality(Active) /\ Cardinality(Active) \in 0..SessionCount
    BY ActiveFinite DEF ClientInv, SessionsSound
  <2>2. TypeOK
    BY <2>1 DEF ClientInv, SessionsSound, TypeOK
  <2> QED BY <2>1, <2>2 DEF OutstandingExact, Active
<1> QED BY <1>1, ClientInvariant, PTL

THEOREM EchoNeverStalls == Spec => []EchoKeepsGoing
<1>1. ClientInv => EchoKeepsGoing
  BY DEF ClientInv, SessionsSound, Sound, Steady, Going, EchoKeepsGoing
<1> QED BY <1>1, ClientInvariant, PTL
-----------------------------------------------------------------------------
(* The statistics.                                                         *)

\* Adding gives a counter.
LEMMA Typed ==
  /\ Zero \in Counter
  /\ \A c, d \in Counter : AddCounter(c, d) \in Counter
  /\ \A c \in Counter : Increment(c) \in Counter
<1>1. Zero \in Counter /\ Overflow \in Counter
  BY CounterAssumption DEF Zero, Overflow, Counter
<1>2. ASSUME NEW c \in Counter, NEW d \in Counter PROVE AddCounter(c, d) \in Counter
  <2>1. c.value \in 0..MaxCount /\ d.value \in 0..MaxCount
    BY DEF Counter
  <2>2. CASE MaxCount - c.value < d.value
    BY <1>1, <2>2 DEF AddCounter
  <2>3. CASE ~(MaxCount - c.value < d.value)
    <3>1. c.value + d.value \in 0..MaxCount
      BY <2>1, <2>3, CounterAssumption
    <3>2. [c EXCEPT !.value = @ + d.value] \in Counter
      BY <3>1 DEF Counter
    <3> QED BY <1>1, <2>3, <3>2 DEF AddCounter
  <2> QED BY <2>2, <2>3
<1>3. ASSUME NEW c \in Counter PROVE Increment(c) \in Counter
  <2>1. c.value \in 0..MaxCount
    BY DEF Counter
  <2>2. [c EXCEPT !.overflowed = TRUE] \in Counter
    BY DEF Counter
  <2>3. CASE c.value # MaxCount
    <3>1. c.value + 1 \in 0..MaxCount
      BY <2>1, <2>3, CounterAssumption
    <3>2. [c EXCEPT !.value = @ + 1] \in Counter
      BY <3>1 DEF Counter
    <3> QED BY <2>2, <3>2 DEF Increment
  <2>4. CASE c.value = MaxCount
    BY <2>2, <2>4 DEF Increment
  <2> QED BY <2>3, <2>4
<1> QED BY <1>1, <1>2, <1>3

\* What a session below the end contributes, and what one above does.
LEMMA Reported ==
  ASSUME ClientInv
  PROVE  LET n == manager.end IN
         /\ n \in 0..SessionCount /\ n \in Nat /\ 1..n \subseteq Ids
         /\ n + 1 .. SessionCount \subseteq Ids
         /\ \A i \in n + 1 .. SessionCount : /\ session[i].totals.connects = 0
                                             /\ session[i].totals.read = 0
                                             /\ session[i].totals.written = 0
         /\ \A i \in Ids : Steady(session[i], config.app)
<1> DEFINE n == manager.end
<1>1. n \in 0..SessionCount /\ n \in Nat /\ 1..n \subseteq Ids
      /\ n + 1 .. SessionCount \subseteq Ids /\ \A i \in n + 1 .. SessionCount : i > n
  BY LoadAssumption DEF ClientInv, Manager, Ids
<1>2. \A i \in Ids : Steady(session[i], config.app)
  BY DEF ClientInv, SessionsSound, Sound
<1>3. \A i \in n + 1 .. SessionCount : session[i] = NewSession
  BY <1>1 DEF ClientInv
<1>4. /\ NewSession.totals.connects = 0 /\ NewSession.totals.read = 0
      /\ NewSession.totals.written = 0
  BY DEF NewSession
<1> QED BY <1>1, <1>2, <1>3, <1>4

ConnectsOf(c, s) == AddCounter(c, s.connects)

\* What the connect application prints: the connections.
LEMMA ConnectsCounted ==
  ASSUME ClientInv, config.app = "connect"
  PROVE  Counts(Connects,
                Sum([i \in Ids |-> session[i].totals.connects], SessionCount))
<1> DEFINE n == manager.end
           f == [i \in Ids |-> session[i].totals.connects]
           g == CHOOSE h : h = [k \in 0..n |-> IF k = 0 THEN Zero
                                               ELSE ConnectsOf(h[k - 1], session[k])]
           F == [p \in (1..n) \X Counter |-> ConnectsOf(p[2], session[p[1]])]
<1>1. /\ n \in 0..SessionCount /\ n \in Nat /\ 1..n \subseteq Ids
      /\ n + 1 .. SessionCount \subseteq Ids
      /\ \A i \in n + 1 .. SessionCount : session[i].totals.connects = 0
  BY Reported
<1>2. \A i \in Ids : session[i].connects \in Counter /\ session[i].totals.connects \in Nat
  BY Reported DEF Steady, Session
<1>3. Connects = g[n]
  BY DEF Connects, Total, ConnectsOf
<1>4. F \in [(1..n) \X Counter -> Counter]
  BY <1>1, <1>2, Typed DEF ConnectsOf
<1>5. \A k \in 1..n : \A c \in Counter : F[<<k, c>>] = ConnectsOf(c, session[k])
  OBVIOUS
<1>6. PICK h \in [0..n -> Counter] : Follows(h, Zero, n, F)
  <2> HIDE DEF F, n
  <2> QED BY <1>1, <1>4, Recursion, Typed
<1>7. ASSUME NEW k \in 1..n
      PROVE  h[k] = ConnectsOf(h[k - 1], session[k])
  <2>1. k - 1 \in 0..n
    BY <1>1
  <2> HIDE DEF n, F
  <2>2. h[k - 1] \in Counter
    BY <1>6, <2>1
  <2> QED BY <1>5, <1>6, <2>2 DEF Follows
<1>8. h = [k \in 0..n |-> IF k = 0 THEN Zero ELSE ConnectsOf(h[k - 1], session[k])]
  BY <1>1, <1>6, <1>7 DEF Follows
<1>9. g = [k \in 0..n |-> IF k = 0 THEN Zero ELSE ConnectsOf(g[k - 1], session[k])]
  BY <1>8
<1> HIDE DEF g, F
<1>10. /\ g[0] = Zero
       /\ \A k \in 1..n : g[k] = ConnectsOf(g[k - 1], session[k])
  BY <1>1, <1>9
<1>11. f \in [Ids -> Nat] /\ \A i \in Ids : f[i] = session[i].totals.connects
  BY <1>2
<1> HIDE DEF f
<1>12. ASSUME NEW k \in 1..n, NEW j \in Nat, Counts(g[k - 1], j)
       PROVE  Counts(g[k], j + f[k])
  <2>1. /\ k \in Ids /\ f[k] = session[k].totals.connects /\ f[k] \in Nat
        /\ Counts(session[k].connects, f[k])
    BY <1>1, <1>2, <1>11, Reported DEF Steady
  <2> QED BY <1>10, <1>12, <2>1, AddCounterCounts DEF ConnectsOf
<1>13. \A k \in n + 1 .. SessionCount : f[k] = 0
  BY <1>1, <1>11
<1> HIDE DEF n
<1>14. Counts(g[n], Sum(f, SessionCount))
  BY <1>1, <1>10, <1>11, <1>12, <1>13, Totalled
<1> QED BY <1>3, <1>14 DEF f

SessionsConnectedOf(c, s) == IF s.wasConnected THEN Increment(c) ELSE c

\* What the echo application prints: the sessions that connected,
LEMMA SessionsCounted ==
  ASSUME ClientInv, config.app = "echo"
  PROVE  Counts(SessionsConnected,
                Sum([i \in Ids |-> session[i].totals.connects], SessionCount))
<1> DEFINE n == manager.end
           f == [i \in Ids |-> session[i].totals.connects]
           g == CHOOSE h : h = [k \in 0..n |-> IF k = 0 THEN Zero
                                               ELSE SessionsConnectedOf(h[k - 1], session[k])]
           F == [p \in (1..n) \X Counter |-> SessionsConnectedOf(p[2], session[p[1]])]
<1>1. /\ n \in 0..SessionCount /\ n \in Nat /\ 1..n \subseteq Ids
      /\ n + 1 .. SessionCount \subseteq Ids
      /\ \A i \in n + 1 .. SessionCount : session[i].totals.connects = 0
  BY Reported
<1>2. \A i \in Ids : session[i].totals.connects \in Nat
  BY Reported DEF Steady, Session
<1>3. SessionsConnected = g[n]
  BY DEF SessionsConnected, Total, SessionsConnectedOf
<1>4. F \in [(1..n) \X Counter -> Counter]
  BY <1>1, <1>2, Typed DEF SessionsConnectedOf
<1>5. \A k \in 1..n : \A c \in Counter : F[<<k, c>>] = SessionsConnectedOf(c, session[k])
  OBVIOUS
<1>6. PICK h \in [0..n -> Counter] : Follows(h, Zero, n, F)
  <2> HIDE DEF F, n
  <2> QED BY <1>1, <1>4, Recursion, Typed
<1>7. ASSUME NEW k \in 1..n
      PROVE  h[k] = SessionsConnectedOf(h[k - 1], session[k])
  <2>1. k - 1 \in 0..n
    BY <1>1
  <2> HIDE DEF n, F
  <2>2. h[k - 1] \in Counter
    BY <1>6, <2>1
  <2> QED BY <1>5, <1>6, <2>2 DEF Follows
<1>8. h = [k \in 0..n |-> IF k = 0 THEN Zero ELSE SessionsConnectedOf(h[k - 1], session[k])]
  BY <1>1, <1>6, <1>7 DEF Follows
<1>9. g = [k \in 0..n |-> IF k = 0 THEN Zero ELSE SessionsConnectedOf(g[k - 1], session[k])]
  BY <1>8
<1> HIDE DEF g, F
<1>10. /\ g[0] = Zero
       /\ \A k \in 1..n : g[k] = SessionsConnectedOf(g[k - 1], session[k])
  BY <1>1, <1>9
<1>11. f \in [Ids -> Nat] /\ \A i \in Ids : f[i] = session[i].totals.connects
  BY <1>2
<1> HIDE DEF f
<1>12. ASSUME NEW k \in 1..n, NEW j \in Nat, Counts(g[k - 1], j)
       PROVE  Counts(g[k], j + f[k])
  <2>1. /\ k \in Ids /\ f[k] = session[k].totals.connects /\ f[k] \in Nat
        /\ session[k].wasConnected => f[k] = 1
        /\ ~session[k].wasConnected => f[k] = 0
    BY <1>1, <1>2, <1>11, Reported DEF Steady
  <2>2. CASE session[k].wasConnected
    BY <1>10, <1>12, <2>1, <2>2, IncrementCounts DEF SessionsConnectedOf
  <2>3. CASE ~session[k].wasConnected
    BY <1>10, <1>12, <2>1, <2>3 DEF SessionsConnectedOf
  <2> QED BY <2>2, <2>3
<1>13. \A k \in n + 1 .. SessionCount : f[k] = 0
  BY <1>1, <1>11
<1> HIDE DEF n
<1>14. Counts(g[n], Sum(f, SessionCount))
  BY <1>1, <1>10, <1>11, <1>12, <1>13, Totalled
<1> QED BY <1>3, <1>14 DEF f

BytesWrittenOf(c, s) == IF s.wasConnected THEN AddCounter(c, s.bytesWritten) ELSE c

\* the bytes that were written,
LEMMA WrittenCounted ==
  ASSUME ClientInv, config.app = "echo"
  PROVE  Counts(BytesWritten,
                Sum([i \in Ids |-> session[i].totals.written], SessionCount))
<1> DEFINE n == manager.end
           f == [i \in Ids |-> session[i].totals.written]
           g == CHOOSE h : h = [k \in 0..n |-> IF k = 0 THEN Zero
                                               ELSE BytesWrittenOf(h[k - 1], session[k])]
           F == [p \in (1..n) \X Counter |-> BytesWrittenOf(p[2], session[p[1]])]
<1>1. /\ n \in 0..SessionCount /\ n \in Nat /\ 1..n \subseteq Ids
      /\ n + 1 .. SessionCount \subseteq Ids
      /\ \A i \in n + 1 .. SessionCount : session[i].totals.written = 0
  BY Reported
<1>2. \A i \in Ids : session[i].bytesWritten \in Counter /\ session[i].totals.written \in Nat
  BY Reported DEF Steady, Session
<1>3. BytesWritten = g[n]
  BY DEF BytesWritten, Total, BytesWrittenOf
<1>4. F \in [(1..n) \X Counter -> Counter]
  BY <1>1, <1>2, Typed DEF BytesWrittenOf
<1>5. \A k \in 1..n : \A c \in Counter : F[<<k, c>>] = BytesWrittenOf(c, session[k])
  OBVIOUS
<1>6. PICK h \in [0..n -> Counter] : Follows(h, Zero, n, F)
  <2> HIDE DEF F, n
  <2> QED BY <1>1, <1>4, Recursion, Typed
<1>7. ASSUME NEW k \in 1..n
      PROVE  h[k] = BytesWrittenOf(h[k - 1], session[k])
  <2>1. k - 1 \in 0..n
    BY <1>1
  <2> HIDE DEF n, F
  <2>2. h[k - 1] \in Counter
    BY <1>6, <2>1
  <2> QED BY <1>5, <1>6, <2>2 DEF Follows
<1>8. h = [k \in 0..n |-> IF k = 0 THEN Zero ELSE BytesWrittenOf(h[k - 1], session[k])]
  BY <1>1, <1>6, <1>7 DEF Follows
<1>9. g = [k \in 0..n |-> IF k = 0 THEN Zero ELSE BytesWrittenOf(g[k - 1], session[k])]
  BY <1>8
<1> HIDE DEF g, F
<1>10. /\ g[0] = Zero
       /\ \A k \in 1..n : g[k] = BytesWrittenOf(g[k - 1], session[k])
  BY <1>1, <1>9
<1>11. f \in [Ids -> Nat] /\ \A i \in Ids : f[i] = session[i].totals.written
  BY <1>2
<1> HIDE DEF f
<1>12. ASSUME NEW k \in 1..n, NEW j \in Nat, Counts(g[k - 1], j)
       PROVE  Counts(g[k], j + f[k])
  <2>1. /\ k \in Ids /\ f[k] = session[k].totals.written /\ f[k] \in Nat
        /\ session[k].wasConnected => Counts(session[k].bytesWritten, f[k])
        /\ ~session[k].wasConnected => f[k] = 0
    BY <1>1, <1>2, <1>11, Reported DEF Steady
  <2>2. CASE session[k].wasConnected
    BY <1>10, <1>12, <2>1, <2>2, AddCounterCounts DEF BytesWrittenOf
  <2>3. CASE ~session[k].wasConnected
    BY <1>10, <1>12, <2>1, <2>3 DEF BytesWrittenOf
  <2> QED BY <2>2, <2>3
<1>13. \A k \in n + 1 .. SessionCount : f[k] = 0
  BY <1>1, <1>11
<1> HIDE DEF n
<1>14. Counts(g[n], Sum(f, SessionCount))
  BY <1>1, <1>10, <1>11, <1>12, <1>13, Totalled
<1> QED BY <1>3, <1>14 DEF f

BytesReadOf(c, s) == IF s.wasConnected THEN AddCounter(c, s.bytesRead) ELSE c

\* and the bytes that were read.
LEMMA ReadCounted ==
  ASSUME ClientInv, config.app = "echo"
  PROVE  Counts(BytesRead,
                Sum([i \in Ids |-> session[i].totals.read], SessionCount))
<1> DEFINE n == manager.end
           f == [i \in Ids |-> session[i].totals.read]
           g == CHOOSE h : h = [k \in 0..n |-> IF k = 0 THEN Zero
                                               ELSE BytesReadOf(h[k - 1], session[k])]
           F == [p \in (1..n) \X Counter |-> BytesReadOf(p[2], session[p[1]])]
<1>1. /\ n \in 0..SessionCount /\ n \in Nat /\ 1..n \subseteq Ids
      /\ n + 1 .. SessionCount \subseteq Ids
      /\ \A i \in n + 1 .. SessionCount : session[i].totals.read = 0
  BY Reported
<1>2. \A i \in Ids : session[i].bytesRead \in Counter /\ session[i].totals.read \in Nat
  BY Reported DEF Steady, Session
<1>3. BytesRead = g[n]
  BY DEF BytesRead, Total, BytesReadOf
<1>4. F \in [(1..n) \X Counter -> Counter]
  BY <1>1, <1>2, Typed DEF BytesReadOf
<1>5. \A k \in 1..n : \A c \in Counter : F[<<k, c>>] = BytesReadOf(c, session[k])
  OBVIOUS
<1>6. PICK h \in [0..n -> Counter] : Follows(h, Zero, n, F)
  <2> HIDE DEF F, n
  <2> QED BY <1>1, <1>4, Recursion, Typed
<1>7. ASSUME NEW k \in 1..n
      PROVE  h[k] = BytesReadOf(h[k - 1], session[k])
  <2>1. k - 1 \in 0..n
    BY <1>1
  <2> HIDE DEF n, F
  <2>2. h[k - 1] \in Counter
    BY <1>6, <2>1
  <2> QED BY <1>5, <1>6, <2>2 DEF Follows
<1>8. h = [k \in 0..n |-> IF k = 0 THEN Zero ELSE BytesReadOf(h[k - 1], session[k])]
  BY <1>1, <1>6, <1>7 DEF Follows
<1>9. g = [k \in 0..n |-> IF k = 0 THEN Zero ELSE BytesReadOf(g[k - 1], session[k])]
  BY <1>8
<1> HIDE DEF g, F
<1>10. /\ g[0] = Zero
       /\ \A k \in 1..n : g[k] = BytesReadOf(g[k - 1], session[k])
  BY <1>1, <1>9
<1>11. f \in [Ids -> Nat] /\ \A i \in Ids : f[i] = session[i].totals.read
  BY <1>2
<1> HIDE DEF f
<1>12. ASSUME NEW k \in 1..n, NEW j \in Nat, Counts(g[k - 1], j)
       PROVE  Counts(g[k], j + f[k])
  <2>1. /\ k \in Ids /\ f[k] = session[k].totals.read /\ f[k] \in Nat
        /\ session[k].wasConnected => Counts(session[k].bytesRead, f[k])
        /\ ~session[k].wasConnected => f[k] = 0
    BY <1>1, <1>2, <1>11, Reported DEF Steady
  <2>2. CASE session[k].wasConnected
    BY <1>10, <1>12, <2>1, <2>2, AddCounterCounts DEF BytesReadOf
  <2>3. CASE ~session[k].wasConnected
    BY <1>10, <1>12, <2>1, <2>3 DEF BytesReadOf
  <2> QED BY <2>2, <2>3
<1>13. \A k \in n + 1 .. SessionCount : f[k] = 0
  BY <1>1, <1>11
<1> HIDE DEF n
<1>14. Counts(g[n], Sum(f, SessionCount))
  BY <1>1, <1>10, <1>11, <1>12, <1>13, Totalled
<1> QED BY <1>3, <1>14 DEF f

THEOREM StatisticsExact == Spec => []StatsExact
<1>1. ClientInv => StatsExact
  <2> SUFFICES ASSUME ClientInv, main = "done" PROVE StatsExact
    BY DEF StatsExact
  <2>1. CASE config.app = "echo"
    <3>1. /\ Counts(SessionsConnected,
                    Sum([i \in Ids |-> session[i].totals["connects"]], SessionCount))
          /\ Counts(BytesWritten,
                    Sum([i \in Ids |-> session[i].totals["written"]], SessionCount))
          /\ Counts(BytesRead,
                    Sum([i \in Ids |-> session[i].totals["read"]], SessionCount))
      BY <2>1, SessionsCounted, WrittenCounted, ReadCounted
    <3> QED BY <2>1, <3>1 DEF StatsExact
  <2>2. CASE config.app = "connect"
    <3>1. Counts(Connects, Sum([i \in Ids |-> session[i].totals["connects"]], SessionCount))
      BY <2>2, ConnectsCounted
    <3> QED BY <2>2, <3>1 DEF StatsExact
  <2> QED BY <2>1, <2>2 DEF ClientInv, Config, App
<1> QED BY <1>1, ClientInvariant, PTL
=============================================================================
