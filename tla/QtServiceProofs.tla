-------------------------- MODULE QtServiceProofs --------------------------
(***************************************************************************)
(* QtService for every number of servants: the service answers each call   *)
(* once, and each time of work once or twice, whatever its servants still  *)
(* signal after it has let go of them.                                     *)
(***************************************************************************)
EXTENDS QtService, Integers, FiniteSetTheorems, SequenceTheorems, TLAPS

-----------------------------------------------------------------------------
(***************************************************************************)
(* What the servant may do by the contract of the server, which is that of *)
(* ServerMain too.                                                         *)
(***************************************************************************)

Reply == Operation \X (Cause \cup {"invalid_state"})

(***************************************************************************)
(* Every operation of the server leads to a view, and replies to what it   *)
(* was asked for.                                                          *)
(***************************************************************************)
OutcomeOK(o) == o.view \in SessionView /\ o.replies \subseteq Reply

LEMMA StartTyped ==
  ASSUME NEW v \in SessionView, NEW o \in ServerStartOutcomes(v)
  PROVE  OutcomeOK(o)
  <1>1. {<<"start", "invalid_state">>, <<"start", "none">>,
         <<"start", "error">>} \subseteq Reply
    BY DEF Reply, Operation, Cause, EndCause
  <1>2. /\ [v EXCEPT !.extern = "work"] \in SessionView
        /\ [v EXCEPT !.extern = "stopped", !.life = "ended",
                     !.cause = "error"] \in SessionView
    BY DEF SessionView, Cause, EndCause
  <1> QED
    BY <1>1, <1>2 DEF ServerStartOutcomes, OutcomeOK, Outcome

LEMMA WaitTyped ==
  ASSUME NEW v \in SessionView, NEW o \in WaitOutcomes(v)
  PROVE  OutcomeOK(o)
  <1>1. {<<"wait", "invalid_state">>, <<"wait", v.cause>>} \subseteq Reply
    BY DEF Reply, Operation, SessionView
  <1>2. [v EXCEPT !.waiting = TRUE] \in SessionView
    BY DEF SessionView
  <1>3. \A view1 \in SessionView, replies1 \in SUBSET Reply :
          OutcomeOK(Outcome(view1, replies1))
    BY DEF OutcomeOK, Outcome
  <1>4. CASE v.extern # "work" \/ v.waiting
    BY <1>1, <1>3, <1>4 DEF WaitOutcomes
  <1>5. CASE v.extern = "work" /\ ~v.waiting /\ v.life # "running"
    BY <1>1, <1>3, <1>5 DEF WaitOutcomes
  <1>6. CASE v.extern = "work" /\ ~v.waiting /\ v.life = "running"
    BY <1>2, <1>3, <1>6 DEF WaitOutcomes
  <1> QED BY <1>4, <1>5, <1>6

LEMMA WaitReplyTyped ==
  ASSUME NEW v \in SessionView, NEW cause \in Cause
  PROVE  WaitReply(v, cause) \subseteq Reply
  BY SMTT(30) DEF WaitReply, Reply, Operation

LEMMA StopTyped ==
  ASSUME NEW v \in SessionView, NEW o \in StopOutcomes(v)
  PROVE  OutcomeOK(o)
  <1> DEFINE cause == IF v.cause = "none" THEN "operation_aborted" ELSE v.cause
             lives == IF v.life = "running" THEN {"ending", "ended"}
                                            ELSE {v.life}
  <1>1. cause \in Cause /\ lives \subseteq {"running", "ending", "ended"}
    BY DEF SessionView, Cause
  <1>2. WaitReply(v, cause) \subseteq Reply
    BY <1>1, WaitReplyTyped
  <1>3. {<<"stop", "invalid_state">>, <<"stop", "none">>} \subseteq Reply
    BY DEF Reply, Operation, Cause
  <1>4. CASE v.extern \in {"stop", "stopped"}
    BY <1>3, <1>4 DEF StopOutcomes, OutcomeOK, Outcome
  <1>5. CASE v.extern \notin {"stop", "stopped"}
    <2>1. PICK life \in lives :
            o = IF life = "ended"
                  THEN Outcome([v EXCEPT !.waiting = FALSE, !.cause = cause,
                                         !.extern = "stopped", !.life = life],
                               WaitReply(v, cause) \cup {<<"stop", "none">>})
                  ELSE Outcome([v EXCEPT !.waiting = FALSE, !.cause = cause,
                                         !.extern = "stop", !.life = life,
                                         !.stopping = TRUE],
                               WaitReply(v, cause))
      BY <1>5 DEF StopOutcomes, Outcome, SessionView
    <2> QED
      BY <1>1, <1>2, <1>3, <2>1 DEF OutcomeOK, Outcome, SessionView
  <1> QED BY <1>4, <1>5

LEMMA InternalTyped ==
  ASSUME NEW v \in SessionView, NEW o \in ServerInternalOutcomes(v)
  PROVE  OutcomeOK(o)
  <1>1. WaitReply(v, "error") \subseteq Reply
    BY WaitReplyTyped DEF Cause, EndCause
  <1>2. {<<"stop", "none">>} \subseteq Reply
    BY DEF Reply, Operation, Cause
  <1>3. CASE v.extern = "work" /\ v.life = "running"
    <2>1. PICK life \in {"ending", "ended"} :
            o = Outcome([v EXCEPT !.life = life, !.cause = "error",
                                  !.waiting = FALSE], WaitReply(v, "error"))
      BY <1>3 DEF ServerInternalOutcomes, InternalOutcomes
    <2>2. [v EXCEPT !.life = life, !.cause = "error", !.waiting = FALSE]
            \in SessionView
      BY DEF SessionView, Cause, EndCause
    <2> QED BY <1>1, <2>1, <2>2 DEF OutcomeOK, Outcome
  <1>4. CASE v.extern = "work" /\ v.life = "ending"
    <2>1. o = Outcome([v EXCEPT !.life = "ended"], {})
      BY <1>4 DEF ServerInternalOutcomes, InternalOutcomes
    <2> QED BY <2>1 DEF OutcomeOK, Outcome, SessionView
  <1>5. CASE v.extern = "stop" /\ v.life = "ending"
    <2>1. o = Outcome([[v EXCEPT !.life = "ended"] EXCEPT
                         !.extern = "stopped", !.stopping = FALSE],
                      {<<"stop", "none">>})
      BY <1>5 DEF ServerInternalOutcomes, InternalOutcomes
    <2> QED BY <1>2, <2>1 DEF OutcomeOK, Outcome, SessionView
  <1> QED
    BY <1>3, <1>4, <1>5 DEF ServerInternalOutcomes, InternalOutcomes

-----------------------------------------------------------------------------
(* The service. *)

\* The forwarded signals among the events es.
Marks(es, sig) == {i \in DOMAIN es : es[i].from = 0 /\ es[i].signal = sig}
Count(es, sig) == Cardinality(Marks(es, sig))

LEMMA Counted == \A s : Forwarded(s) = Count(service.events, s)
BY DEF Forwarded, Count, Marks

LEMMA CountNat ==
  ASSUME NEW es \in Seq(Event), NEW sig
  PROVE  IsFiniteSet(Marks(es, sig)) /\ Count(es, sig) \in Nat
<1>1. IsFiniteSet(1..Len(es))
  BY FS_Interval
<1>2. Marks(es, sig) \subseteq 1..Len(es)
  BY DEF Marks
<1>3. IsFiniteSet(Marks(es, sig))
  BY <1>1, <1>2, FS_Subset
<1> QED BY <1>3, FS_CardinalityType DEF Count

\* A new event counts if it is forwarded with that signal.
LEMMA CountAppend ==
  ASSUME NEW es \in Seq(Event), NEW e \in Event, NEW sig
  PROVE  Count(Append(es, e), sig)
           = Count(es, sig) + IF e.from = 0 /\ e.signal = sig THEN 1 ELSE 0
<1> DEFINE n == Len(es)
           M == Marks(es, sig)
           N == Marks(Append(es, e), sig)
<1>1. /\ n \in Nat /\ DOMAIN es = 1..n /\ DOMAIN Append(es, e) = 1..n + 1
      /\ \A i \in 1..n : Append(es, e)[i] = es[i]
      /\ Append(es, e)[n + 1] = e /\ n + 1 \notin 1..n
      /\ 1..n + 1 = 1..n \cup {n + 1}
  BY AppendProperties
<1>2. IsFiniteSet(M) /\ Count(es, sig) \in Nat /\ n + 1 \notin M
  BY <1>1, CountNat DEF Marks
<1>3. CASE e.from = 0 /\ e.signal = sig
  <2>1. N = M \cup {n + 1}
    BY <1>1, <1>3 DEF Marks
  <2>2. Cardinality(M \cup {n + 1}) = Cardinality(M) + 1
    BY <1>2, FS_AddElement
  <2> QED BY <1>3, <2>1, <2>2 DEF Count
<1>4. CASE ~(e.from = 0 /\ e.signal = sig)
  <2>1. N = M
    BY <1>1, <1>4 DEF Marks
  <2> QED BY <1>2, <1>4, <2>1 DEF Count
<1> QED BY <1>3, <1>4

\* Taking the first event out moves the others, and counts it no more.
LEMMA CountTail ==
  ASSUME NEW es \in Seq(Event), es # << >>, NEW sig
  PROVE  Count(es, sig)
           = Count(Tail(es), sig)
               + IF Head(es).from = 0 /\ Head(es).signal = sig THEN 1 ELSE 0
<1> DEFINE n == Len(es)
           M == Marks(Tail(es), sig)
           N == Marks(es, sig)
           f == [i \in M |-> i + 1]
<1>1. /\ n \in Nat \ {0} /\ DOMAIN es = 1..n /\ DOMAIN Tail(es) = 1..n - 1
      /\ \A i \in 1..n - 1 : Tail(es)[i] = es[i + 1]
      /\ Head(es) = es[1] /\ Tail(es) \in Seq(Event)
  BY HeadTailProperties
<1>2. /\ IsFiniteSet(M) /\ Count(Tail(es), sig) \in Nat
      /\ IsFiniteSet(N) /\ Count(es, sig) \in Nat
  BY <1>1, CountNat
<1>3. f \in Bijection(M, N \ {1})
  <2>1. \A i \in 1..n - 1 : i + 1 \in 1..n /\ i + 1 # 1
    BY <1>1
  <2>2. \A j \in 1..n : j # 1 => j - 1 \in 1..n - 1 /\ (j - 1) + 1 = j
    BY <1>1
  <2>3. M \subseteq 1..n - 1 /\ N \subseteq 1..n
    BY <1>1 DEF Marks
  <2>4. \A i \in M : i + 1 \in N \ {1}
    BY <1>1, <2>1, <2>3 DEF Marks
  <2>5. \A j \in N \ {1} : j - 1 \in M
    BY <1>1, <2>2, <2>3 DEF Marks
  <2>6. f \in [M -> N \ {1}] /\ \A i \in M : f[i] = i + 1
    BY <2>4
  <2>7. \A i, j \in M : f[i] = f[j] => i = j
    <3>1. \A i, j \in Nat : i + 1 = j + 1 => i = j
      OBVIOUS
    <3>2. M \subseteq Nat
      BY <1>1, <2>3
    <3> QED BY <2>6, <3>1, <3>2
  <2>8. \A j \in N \ {1} : \E i \in M : f[i] = j
    BY <2>2, <2>3, <2>5, <2>6
  <2> HIDE DEF f
  <2> QED BY <2>6, <2>7, <2>8 DEF Bijection, Injection, Surjection, IsInjective
<1>4. Cardinality(N \ {1}) = Count(Tail(es), sig)
  <2>1. IsFiniteSet(N \ {1})
    BY <1>2, FS_Subset
  <2> HIDE DEF f
  <2>2. ExistsBijection(M, N \ {1})
    BY <1>3 DEF ExistsBijection
  <2>3. Cardinality(N \ {1}) = Cardinality(M)
    BY <1>2, <2>2, FS_Bijection
  <2> QED BY <2>3 DEF Count
<1>5. CASE Head(es).from = 0 /\ Head(es).signal = sig
  <2>1. 1 \in N
    BY <1>1, <1>5 DEF Marks
  <2>2. Cardinality(N \ {1}) = Cardinality(N) - 1
    BY <1>2, <2>1, FS_RemoveElement
  <2> QED BY <1>2, <1>4, <1>5, <2>2 DEF Count
<1>6. CASE ~(Head(es).from = 0 /\ Head(es).signal = sig)
  <2>1. N \ {1} = N
    BY <1>1, <1>6 DEF Marks
  <2>2. Cardinality(N \ {1}) = Count(es, sig)
    BY <2>1 DEF Count
  <2> QED BY <1>2, <1>4, <1>6, <2>2
<1> QED BY <1>5, <1>6

Signal == {"start", "stop", "work"}

Owed(s, sig, state) == Count(s.events, sig) + IF s.state = state THEN 1 ELSE 0

\* No time of work was told to be over twice, or while it went on.
Told(s) == s.over + (IF s.state = "working" THEN 1 ELSE 0) <= s.asked.work

\* The service between two slots.
Good(s) ==
  /\ s \in Service /\ Told(s)
  /\ (s.servant # 0) = (s.state # "stopped")
  /\ s.asked.start = s.answered.start + Owed(s, "start", "starting")
  /\ s.asked.stop = s.answered.stop + Owed(s, "stop", "stopping")
  /\ s.asked.work = s.answered.work + Owed(s, "work", "working")
  /\ \A i \in DOMAIN s.events :
       s.events[i].from = 0 => /\ s.events[i].error = "operation_aborted"
                               /\ s.events[i].signal \in Signal

\* The form shows the state.
Shown(f, state) ==
  /\ f.shown = state /\ f.startButton = (state = "stopped")
  /\ f.stopButton = (state \in {"starting", "working"})
  /\ f.terminateButton = (state # "stopped") /\ f.timer = (state # "stopped")

QtInv == Good(service) /\ form \in Form /\ Shown(form, service.state)

\* u is s, but for its state, its servant and what the two count.
Runs(s, u) ==
  /\ u \in Service /\ u.events = s.events /\ u.asked = s.asked /\ u.answered = s.answered
  /\ u.over = s.over

\* The types of what the counts speak of.
LEMMA QtFields ==
  ASSUME NEW s \in Service
  PROVE  /\ s.state \in {"stopped", "starting", "working", "stopping"}
         /\ s.events \in Seq(Event)
         /\ s.asked.start \in Nat /\ s.asked.stop \in Nat /\ s.asked.work \in Nat
         /\ s.answered.start \in Nat /\ s.answered.stop \in Nat /\ s.answered.work \in Nat
         /\ s.servant \in 0..MaxServants /\ s.made \in 0..MaxServants
         /\ s.asked \in [Signal -> Nat] /\ s.answered \in [Signal -> Nat]
         /\ s.over \in Nat
BY DEF Service, Signal

\* The blocks that the slots are built from.
LEMMA MakesServant ==
  ASSUME NEW s \in Service, s.made < MaxServants
  PROVE  LET u == CreateServant(s) IN
         Runs(s, u) /\ u.servant # 0 /\ u.state = s.state
<1> DEFINE u == CreateServant(s)
<1>1. s.made + 1 \in 0..MaxServants /\ s.made + 1 # 0
  BY QtFields, QtAssumption
<1>2. WorkThreads \in 0..WorkThreads
  BY QtAssumption
<1>3. u \in Service
  BY <1>1, <1>2 DEF CreateServant, Service
<1>4. /\ u.events = s.events /\ u.asked = s.asked /\ u.answered = s.answered
      /\ u.over = s.over
      /\ u.servant = s.made + 1 /\ u.state = s.state
  BY DEF CreateServant, Service
<1> HIDE DEF u
<1> QED BY <1>1, <1>3, <1>4 DEF Runs, u

LEMMA DropsServant ==
  ASSUME NEW s \in Service
  PROVE  LET u == DestroyServant(s) IN
         Runs(s, u) /\ u.servant = 0 /\ u.state = s.state
<1> DEFINE u == DestroyServant(s)
<1>1. FreshView \in SessionView /\ 0 \in 0..MaxServants /\ 0 \in 0..WorkThreads
  BY QtAssumption DEF FreshView, SessionView, Cause
<1>2. /\ << >> \in Seq(Operation)
      /\ {} \subseteq Operation \X (Cause \cup {"invalid_state"})
  OBVIOUS
<1>3. u \in Service
  BY <1>1, <1>2 DEF DestroyServant, Service
<1>4. /\ u.events = s.events /\ u.asked = s.asked /\ u.answered = s.answered
      /\ u.over = s.over
      /\ u.servant = 0 /\ u.state = s.state
  BY DEF DestroyServant, Service
<1> HIDE DEF u
<1> QED BY <1>3, <1>4 DEF Runs, u

LEMMA Asks ==
  ASSUME NEW s \in Service, NEW op \in Operation
  PROVE  LET u == Ask(s, op) IN
         Runs(s, u) /\ u.servant = s.servant /\ u.state = s.state
<1> DEFINE u == Ask(s, op)
<1>1. Append(s.requests, op) \in Seq(Operation)
  BY AppendProperties DEF Service
<1>3. u \in Service
  BY <1>1 DEF Ask, Service
<1>4. /\ u.events = s.events /\ u.asked = s.asked /\ u.answered = s.answered
      /\ u.over = s.over
      /\ u.servant = s.servant /\ u.state = s.state
  BY DEF Ask, Service
<1> HIDE DEF u
<1> QED BY <1>3, <1>4 DEF Runs, u

LEMMA ForwardsOne ==
  ASSUME NEW s \in Service, NEW sig \in Signal
  PROVE  LET u == Forward(s, sig, "operation_aborted")
             e == [from |-> 0, signal |-> sig, error |-> "operation_aborted"]
         IN  /\ u \in Service /\ u.events = Append(s.events, e) /\ e \in Event
             /\ u.asked = s.asked /\ u.answered = s.answered /\ u.over = s.over
             /\ u.servant = s.servant /\ u.state = s.state
<1> DEFINE u == Forward(s, sig, "operation_aborted")
           e == [from |-> 0, signal |-> sig, error |-> "operation_aborted"]
<1>1. e \in Event
  BY QtAssumption DEF Event, Signal, Operation, Cause
<1>2. Append(s.events, e) \in Seq(Event)
  BY <1>1, QtFields, AppendProperties
<1> HIDE DEF e
<1>3. Append(s.events, e) \in Seq(Event) => u \in Service
  BY DEF Forward, Service, e
<1>4. /\ u.events = Append(s.events, e) /\ u.asked = s.asked /\ u.answered = s.answered
      /\ u.over = s.over
      /\ u.servant = s.servant /\ u.state = s.state
  BY DEF Forward, Service, e
<1> HIDE DEF u
<1> QED BY <1>1, <1>2, <1>3, <1>4 DEF u, e

LEMMA Enter ==
  ASSUME NEW s \in Service,
         NEW st \in {"stopped", "starting", "working", "stopping"}
  PROVE  LET u == [s EXCEPT !.state = st] IN
         Runs(s, u) /\ u.servant = s.servant /\ u.state = st
<1> DEFINE u == [s EXCEPT !.state = st]
<1>1. u \in Service
  BY DEF Service
<1>2. /\ u.events = s.events /\ u.asked = s.asked /\ u.answered = s.answered
      /\ u.over = s.over
      /\ u.servant = s.servant /\ u.state = st
  BY DEF Service
<1> HIDE DEF u
<1> QED BY <1>1, <1>2 DEF Runs, u

LEMMA AcceptsOne ==
  ASSUME NEW s \in Service, NEW sig \in Signal
  PROVE  LET u == Accept(s, sig) IN
         /\ u \in Service /\ u.events = s.events /\ u.answered = s.answered /\ u.over = s.over
         /\ u.asked = [s.asked EXCEPT ![sig] = @ + 1]
         /\ u.servant = s.servant /\ u.state = s.state
<1> DEFINE u == Accept(s, sig)
<1>1. [s.asked EXCEPT ![sig] = @ + 1] \in [Signal -> Nat]
  BY QtFields
<1>2. u \in Service
  BY <1>1 DEF Accept, Service, Signal
<1>3. /\ u.events = s.events /\ u.answered = s.answered /\ u.over = s.over
      /\ u.asked = [s.asked EXCEPT ![sig] = @ + 1]
      /\ u.servant = s.servant /\ u.state = s.state
  BY DEF Accept, Service
<1> HIDE DEF u
<1> QED BY <1>2, <1>3 DEF u

LEMMA AnswersOne ==
  ASSUME NEW s \in Service, NEW sig \in Signal
  PROVE  LET u == Answer(s, sig) IN
         /\ u \in Service /\ u.events = s.events /\ u.asked = s.asked /\ u.over = s.over
         /\ u.answered = [s.answered EXCEPT ![sig] = @ + 1]
         /\ u.servant = s.servant /\ u.state = s.state
<1> DEFINE u == Answer(s, sig)
<1>1. [s.answered EXCEPT ![sig] = @ + 1] \in [Signal -> Nat]
  BY QtFields
<1>2. u \in Service
  BY <1>1 DEF Answer, Service, Signal
<1>3. /\ u.events = s.events /\ u.asked = s.asked /\ u.over = s.over
      /\ u.answered = [s.answered EXCEPT ![sig] = @ + 1]
      /\ u.servant = s.servant /\ u.state = s.state
  BY DEF Answer, Service
<1> HIDE DEF u
<1> QED BY <1>2, <1>3 DEF u

\* One more in a count.
LEMMA OneMore ==
  ASSUME NEW c \in [Signal -> Nat], NEW sig \in Signal
  PROVE  /\ [c EXCEPT ![sig] = @ + 1].start = c.start + IF sig = "start" THEN 1 ELSE 0
         /\ [c EXCEPT ![sig] = @ + 1].stop = c.stop + IF sig = "stop" THEN 1 ELSE 0
         /\ [c EXCEPT ![sig] = @ + 1].work = c.work + IF sig = "work" THEN 1 ELSE 0
BY DEF Signal

\* What is forwarded is the same in the same events, or one more or less.
LEMMA Forwards ==
  ASSUME NEW es \in Seq(Event), NEW sig \in Signal,
         NEW e \in Event, e.from = 0, e.signal = sig, e.error = "operation_aborted"
  PROVE  /\ Count(Append(es, e), "start") = Count(es, "start") + IF sig = "start" THEN 1 ELSE 0
         /\ Count(Append(es, e), "stop") = Count(es, "stop") + IF sig = "stop" THEN 1 ELSE 0
         /\ Count(Append(es, e), "work") = Count(es, "work") + IF sig = "work" THEN 1 ELSE 0
BY CountAppend

LEMMA CountsNat ==
  ASSUME NEW s \in Service
  PROVE  /\ Count(s.events, "start") \in Nat /\ Count(s.events, "stop") \in Nat
         /\ Count(s.events, "work") \in Nat
BY CountNat, QtFields

\* The events that are forwarded are the answers of what was aborted.
Aborts(es) ==
  \A i \in DOMAIN es : es[i].from = 0 => /\ es[i].error = "operation_aborted"
                                         /\ es[i].signal \in Signal

LEMMA AbortsAppend ==
  ASSUME NEW es \in Seq(Event), NEW e \in Event, Aborts(es),
         e.from = 0 => e.error = "operation_aborted" /\ e.signal \in Signal
  PROVE  Aborts(Append(es, e))
<1> DEFINE n == Len(es)
<1>1. /\ DOMAIN Append(es, e) = 1..n + 1 /\ DOMAIN es = 1..n /\ n \in Nat
      /\ \A i \in 1..n : Append(es, e)[i] = es[i]
      /\ Append(es, e)[n + 1] = e /\ \A i \in 1..n + 1 : i \in 1..n \/ i = n + 1
  BY AppendProperties
<1> QED BY <1>1 DEF Aborts

LEMMA AbortsTail ==
  ASSUME NEW es \in Seq(Event), es # << >>, Aborts(es)
  PROVE  /\ Aborts(Tail(es)) /\ Tail(es) \in Seq(Event)
         /\ Head(es).from = 0 =>
              Head(es).error = "operation_aborted" /\ Head(es).signal \in Signal
<1> DEFINE n == Len(es)
<1>1. /\ n \in Nat \ {0} /\ DOMAIN es = 1..n /\ DOMAIN Tail(es) = 1..n - 1
      /\ \A i \in 1..n - 1 : Tail(es)[i] = es[i + 1] /\ i + 1 \in 1..n
      /\ Head(es) = es[1] /\ Tail(es) \in Seq(Event) /\ 1 \in 1..n
  BY HeadTailProperties
<1> QED BY <1>1 DEF Aborts

\* Nobody is told that work is over, and it begins no more often.
LEMMA StillTold ==
  ASSUME NEW s \in Service, Told(s), NEW u, u.over = s.over, u.asked.work = s.asked.work,
         u.state = "working" => s.state = "working"
  PROVE  Told(u)
<1>1. s.over \in Nat /\ s.asked.work \in Nat
  BY QtFields
<1> QED BY <1>1 DEF Told

\* asyncStart: one more start that is owed an answer.
LEMMA QtStarted ==
  ASSUME NEW s, Good(s), s.state = "stopped", s.made < MaxServants
  PROVE  Good(AsyncStart(s)) /\ AsyncStart(s).state = "starting"
<1> DEFINE c == CreateServant(s)
           a == Ask(c, "start")
           b == Accept(a, "start")
           u == [b EXCEPT !.state = "starting"]
<1>0. s \in Service
  BY DEF Good
<1>1. Runs(s, c) /\ c.servant # 0 /\ c.state = s.state /\ c \in Service
  BY <1>0, MakesServant DEF Runs
<1> HIDE DEF c
<1>2. Runs(c, a) /\ a.servant = c.servant /\ a.state = c.state /\ a \in Service
  BY <1>1, Asks DEF Runs, Operation
<1> HIDE DEF a
<1>3. /\ b \in Service /\ b.events = a.events /\ b.answered = a.answered /\ b.over = a.over
      /\ b.asked = [a.asked EXCEPT !["start"] = @ + 1] /\ b.servant = a.servant
  BY <1>2, AcceptsOne DEF Signal
<1> HIDE DEF b
<1>4. Runs(b, u) /\ u.servant = b.servant /\ u.state = "starting" /\ u \in Service
  BY <1>3, Enter DEF Runs
<1>5. AsyncStart(s) = u
  BY DEF AsyncStart, a, b, c
<1> HIDE DEF u
<1>6. u.events = s.events /\ u.answered = s.answered /\ u.servant # 0 /\ u.over = s.over
  BY <1>1, <1>2, <1>3, <1>4 DEF Runs
<1>7. /\ u.asked.start = s.asked.start + 1 /\ u.asked.stop = s.asked.stop
      /\ u.asked.work = s.asked.work
  <2>1. u.asked = [s.asked EXCEPT !["start"] = @ + 1]
    BY <1>1, <1>2, <1>3, <1>4 DEF Runs
  <2> QED BY <1>0, <2>1, QtFields, OneMore DEF Signal
<1>8. /\ s.asked.start = s.answered.start + Count(s.events, "start")
      /\ s.asked.stop = s.answered.stop + Count(s.events, "stop")
      /\ s.asked.work = s.answered.work + Count(s.events, "work")
  BY <1>0, QtFields, CountsNat DEF Good, Owed
<1>9. /\ u.asked.start = u.answered.start + Owed(u, "start", "starting")
      /\ u.asked.stop = u.answered.stop + Owed(u, "stop", "stopping")
      /\ u.asked.work = u.answered.work + Owed(u, "work", "working")
  <2>1. /\ u.answered.start = s.answered.start /\ u.answered.stop = s.answered.stop
        /\ u.answered.work = s.answered.work /\ u.events = s.events
    BY <1>6
  <2>2. /\ s.answered.start \in Nat /\ s.answered.stop \in Nat
        /\ s.answered.work \in Nat
    BY <1>0, QtFields
  <2>3. u.state = "starting"
    BY <1>4
  <2>4. /\ Count(s.events, "start") \in Nat /\ Count(s.events, "stop") \in Nat
        /\ Count(s.events, "work") \in Nat
    BY <1>0, CountsNat
  <2> QED BY <1>7, <1>8, <2>1, <2>2, <2>3, <2>4 DEF Owed
<1>10. Told(u)
  BY <1>0, <1>4, <1>6, <1>7, StillTold DEF Good
<1>11. Good(u)
  BY <1>4, <1>6, <1>9, <1>10 DEF Good
<1> QED BY <1>4, <1>5, <1>11

\* asyncStop: what was going on is answered with an event, and a stop is owed.
LEMMA QtStopped ==
  ASSUME NEW s, Good(s), s.state \in {"starting", "working"}
  PROVE  Good(AsyncStop(s)) /\ AsyncStop(s).state = "stopping"
<1> DEFINE sig == IF s.state = "starting" THEN "start" ELSE "work"
           e == [from |-> 0, signal |-> sig, error |-> "operation_aborted"]
           c == Forward(s, sig, "operation_aborted")
           a == Ask(c, "stop")
           b == Accept(a, "stop")
           u == [b EXCEPT !.state = "stopping"]
<1>0. s \in Service /\ sig \in Signal
  BY DEF Good, Signal
<1>01. e.from = 0 /\ e.signal = sig /\ e.error = "operation_aborted"
  OBVIOUS
<1> HIDE DEF sig
<1>1. /\ c \in Service /\ c.events = Append(s.events, e) /\ e \in Event
      /\ c.asked = s.asked /\ c.answered = s.answered /\ c.over = s.over
      /\ c.servant = s.servant /\ c.state = s.state
  BY <1>0, ForwardsOne
<1> HIDE DEF c, e
<1>2. Runs(c, a) /\ a.servant = c.servant /\ a.state = c.state /\ a \in Service
  BY <1>1, Asks DEF Runs, Operation
<1> HIDE DEF a
<1>3. /\ b \in Service /\ b.events = a.events /\ b.answered = a.answered /\ b.over = a.over
      /\ b.asked = [a.asked EXCEPT !["stop"] = @ + 1] /\ b.servant = a.servant
  BY <1>2, AcceptsOne DEF Signal
<1> HIDE DEF b
<1>4. Runs(b, u) /\ u.servant = b.servant /\ u.state = "stopping" /\ u \in Service
  BY <1>3, Enter DEF Runs
<1>5. AsyncStop(s) = u
  BY DEF AsyncStop, a, b, c, sig
<1> HIDE DEF u
<1>6. /\ u.events = Append(s.events, e) /\ u.answered = s.answered
      /\ u.servant = s.servant /\ u.over = s.over
  BY <1>1, <1>2, <1>3, <1>4 DEF Runs
<1>7. /\ u.asked.start = s.asked.start /\ u.asked.stop = s.asked.stop + 1
      /\ u.asked.work = s.asked.work
  <2>1. u.asked = [s.asked EXCEPT !["stop"] = @ + 1]
    BY <1>1, <1>2, <1>3, <1>4 DEF Runs
  <2> QED BY <1>0, <2>1, QtFields, OneMore DEF Signal
<1>8. /\ Count(u.events, "start") = Count(s.events, "start") + IF sig = "start" THEN 1 ELSE 0
      /\ Count(u.events, "stop") = Count(s.events, "stop") + IF sig = "stop" THEN 1 ELSE 0
      /\ Count(u.events, "work") = Count(s.events, "work") + IF sig = "work" THEN 1 ELSE 0
  BY <1>0, <1>01, <1>1, <1>6, QtFields, Forwards
<1>9. Aborts(u.events)
  <2>1. Aborts(s.events)
    BY DEF Good, Aborts
  <2> QED BY <1>0, <1>01, <1>1, <1>6, <2>1, QtFields, AbortsAppend
<1>10. /\ u.asked.start = u.answered.start + Owed(u, "start", "starting")
       /\ u.asked.stop = u.answered.stop + Owed(u, "stop", "stopping")
       /\ u.asked.work = u.answered.work + Owed(u, "work", "working")
  <2>1. /\ u.answered.start = s.answered.start /\ u.answered.stop = s.answered.stop
        /\ u.answered.work = s.answered.work
    BY <1>6
  <2>2. /\ s.answered.start \in Nat /\ s.answered.stop \in Nat
        /\ s.answered.work \in Nat
    BY <1>0, QtFields
  <2>3. u.state = "stopping"
    BY <1>4
  <2>4. /\ Count(s.events, "start") \in Nat /\ Count(s.events, "stop") \in Nat
        /\ Count(s.events, "work") \in Nat
    BY <1>0, CountsNat
  <2>5. /\ s.asked.start = s.answered.start + Owed(s, "start", "starting")
        /\ s.asked.stop = s.answered.stop + Owed(s, "stop", "stopping")
        /\ s.asked.work = s.answered.work + Owed(s, "work", "working")
    BY DEF Good
  <2>6. CASE s.state = "starting"
    BY <1>7, <1>8, <2>1, <2>2, <2>3, <2>4, <2>5, <2>6 DEF Owed, sig
  <2>7. CASE s.state = "working"
    BY <1>7, <1>8, <2>1, <2>2, <2>3, <2>4, <2>5, <2>7 DEF Owed, sig
  <2> QED BY <2>6, <2>7
<1>11. Told(u)
  BY <1>0, <1>4, <1>6, <1>7, StillTold DEF Good
<1>12. Good(u)
  BY <1>4, <1>6, <1>9, <1>10, <1>11 DEF Good, Aborts
<1> QED BY <1>4, <1>5, <1>12

\* terminate answers whatever was going on.
LEMMA Terminates ==
  ASSUME NEW s, Good(s)
  PROVE  Good(Terminate(s)) /\ Terminate(s).state = "stopped"
<1> DEFINE d == DestroyServant(s)
<1>0. s \in Service
  BY DEF Good
<1>1. Runs(s, d) /\ d.servant = 0 /\ d.state = s.state /\ d \in Service
  BY <1>0, DropsServant DEF Runs
<1> HIDE DEF d
<1>2. CASE s.state = "stopped"
  <2> DEFINE u == [d EXCEPT !.state = "stopped"]
  <2>1. Terminate(s) = u
    BY <1>2 DEF Terminate, d
  <2>2. Runs(d, u) /\ u.servant = d.servant /\ u.state = "stopped"
    BY <1>1, Enter
  <2> HIDE DEF u
  <2>3. Told(u)
    BY <1>0, <1>1, <2>2, StillTold DEF Good, Runs
  <2>4. Good(u)
    BY <1>0, <1>1, <1>2, <2>2, <2>3 DEF Good, Runs, Owed
  <2> QED BY <2>1, <2>2, <2>4
<1>3. ASSUME NEW sig \in Signal, s.state # "stopped",
             sig = CASE s.state = "starting" -> "start" [] s.state = "working" -> "work"
                     [] s.state = "stopping" -> "stop"
      PROVE  Good(Terminate(s)) /\ Terminate(s).state = "stopped"
  <2> DEFINE e == [from |-> 0, signal |-> sig, error |-> "operation_aborted"]
             t == Forward(d, sig, "operation_aborted")
             u == [t EXCEPT !.state = "stopped"]
  <2>1. Terminate(s) = u
    BY <1>0, <1>3, QtFields DEF Terminate, d
  <2>2. e.from = 0 /\ e.signal = sig /\ e.error = "operation_aborted"
    OBVIOUS
  <2>3. /\ t \in Service /\ t.events = Append(d.events, e) /\ e \in Event
        /\ t.asked = d.asked /\ t.answered = d.answered /\ t.over = d.over
        /\ t.servant = d.servant /\ t.state = d.state
    BY <1>1, <1>3, ForwardsOne
  <2> HIDE DEF e, t
  <2>4. Runs(t, u) /\ u.servant = t.servant /\ u.state = "stopped" /\ u \in Service
    BY <2>3, Enter DEF Runs
  <2> HIDE DEF u
  <2>5. /\ u.events = Append(s.events, e) /\ u.answered = s.answered
        /\ u.asked = s.asked /\ u.servant = 0 /\ u.over = s.over
    BY <1>1, <2>3, <2>4 DEF Runs
  <2>6. /\ Count(u.events, "start") = Count(s.events, "start") + IF sig = "start" THEN 1 ELSE 0
        /\ Count(u.events, "stop") = Count(s.events, "stop") + IF sig = "stop" THEN 1 ELSE 0
        /\ Count(u.events, "work") = Count(s.events, "work") + IF sig = "work" THEN 1 ELSE 0
    <3>1. s.events \in Seq(Event)
      BY <1>0, QtFields
    <3>2. u.events = Append(s.events, e) /\ e \in Event
      BY <2>3, <2>5
    <3> DEFINE es == Append(s.events, e)
    <3>3. /\ Count(es, "start") = Count(s.events, "start") + IF sig = "start" THEN 1 ELSE 0
          /\ Count(es, "stop") = Count(s.events, "stop") + IF sig = "stop" THEN 1 ELSE 0
          /\ Count(es, "work") = Count(s.events, "work") + IF sig = "work" THEN 1 ELSE 0
      BY <2>2, <3>1, <3>2, Forwards
    <3> HIDE DEF es
    <3>4. u.events = es
      BY <3>2 DEF es
    <3> QED BY <3>3, <3>4
  <2>7. Aborts(u.events)
    <3>1. Aborts(s.events)
      BY DEF Good, Aborts
    <3> QED BY <1>0, <1>3, <2>2, <2>3, <2>5, <3>1, QtFields, AbortsAppend
  <2>8. /\ u.asked.start = u.answered.start + Owed(u, "start", "starting")
        /\ u.asked.stop = u.answered.stop + Owed(u, "stop", "stopping")
        /\ u.asked.work = u.answered.work + Owed(u, "work", "working")
    <3>1. s.state \in {"starting", "working", "stopping"}
      BY <1>0, <1>3, QtFields
    <3>2. CASE s.state = "starting"
      BY <1>0, <1>3, <2>4, <2>5, <2>6, <3>2, QtFields, CountsNat DEF Good, Owed
    <3>3. CASE s.state = "working"
      BY <1>0, <1>3, <2>4, <2>5, <2>6, <3>3, QtFields, CountsNat DEF Good, Owed
    <3>4. CASE s.state = "stopping"
      BY <1>0, <1>3, <2>4, <2>5, <2>6, <3>4, QtFields, CountsNat DEF Good, Owed
    <3> QED BY <3>1, <3>2, <3>3, <3>4
  <2>9. Told(u)
    BY <1>0, <2>4, <2>5, StillTold DEF Good
  <2>10. Good(u)
    BY <2>4, <2>5, <2>7, <2>8, <2>9 DEF Good, Aborts
  <2> QED BY <2>1, <2>4, <2>10
<1>4. CASE s.state = "starting"
  BY <1>3, <1>4 DEF Signal
<1>5. CASE s.state = "working"
  BY <1>3, <1>5 DEF Signal
<1>6. CASE s.state = "stopping"
  BY <1>3, <1>6 DEF Signal
<1> QED BY <1>0, <1>2, <1>4, <1>5, <1>6, QtFields

\* The counts of a good service, with the numbers they are made of.
LEMMA Balance ==
  ASSUME NEW s, Good(s)
  PROVE  /\ s.asked.start = s.answered.start + Owed(s, "start", "starting")
         /\ s.asked.stop = s.answered.stop + Owed(s, "stop", "stopping")
         /\ s.asked.work = s.answered.work + Owed(s, "work", "working")
         /\ s.answered.start \in Nat /\ s.answered.stop \in Nat /\ s.answered.work \in Nat
         /\ Count(s.events, "start") \in Nat /\ Count(s.events, "stop") \in Nat
         /\ Count(s.events, "work") \in Nat
<1>1. s \in Service
  BY DEF Good
<1>2. s.answered.start \in Nat /\ s.answered.stop \in Nat /\ s.answered.work \in Nat
  BY <1>1, QtFields
<1>3. /\ Count(s.events, "start") \in Nat /\ Count(s.events, "stop") \in Nat
      /\ Count(s.events, "work") \in Nat
  BY <1>1, CountsNat
<1> QED BY <1>2, <1>3 DEF Good

\* onServantStartCompleted: the start is answered, and work has come or not.
LEMMA StartEnds ==
  ASSUME NEW s, Good(s), s.state = "starting", NEW error
  PROVE  LET u == ServantStarted(s, error) IN Good(u) /\ u.state \in {"stopped", "working"}
<1>0. s \in Service
  BY DEF Good
<1>1. CASE error # "none"
  <2> DEFINE d == DestroyServant(s)
             t == [d EXCEPT !.state = "stopped"]
             u == Answer(t, "start")
  <2>1. Runs(s, d) /\ d.servant = 0 /\ d \in Service
    BY <1>0, DropsServant DEF Runs
  <2> HIDE DEF d
  <2>2. Runs(d, t) /\ t.servant = d.servant /\ t.state = "stopped" /\ t \in Service
    BY <2>1, Enter DEF Runs
  <2> HIDE DEF t
  <2>3. /\ u \in Service /\ u.events = t.events /\ u.asked = t.asked /\ u.over = t.over
        /\ u.answered = [t.answered EXCEPT !["start"] = @ + 1]
        /\ u.servant = t.servant /\ u.state = t.state
    BY <2>2, AnswersOne DEF Signal
  <2>4. ServantStarted(s, error) = u
    BY <1>1 DEF ServantStarted, t, d
  <2> HIDE DEF u
  <2>5. /\ u.answered.start = s.answered.start + 1 /\ u.answered.stop = s.answered.stop
        /\ u.answered.work = s.answered.work
    <3>1. u.answered = [s.answered EXCEPT !["start"] = @ + 1]
      BY <2>1, <2>2, <2>3 DEF Runs
    <3> QED BY <1>0, <3>1, QtFields, OneMore DEF Signal
  <2>6. u.events = s.events /\ u.servant = 0 /\ u.state = "stopped" /\ u.asked = s.asked
        /\ u.over = s.over
    BY <2>1, <2>2, <2>3 DEF Runs
  <2>7. /\ u.asked.start = u.answered.start + Owed(u, "start", "starting")
        /\ u.asked.stop = u.answered.stop + Owed(u, "stop", "stopping")
        /\ u.asked.work = u.answered.work + Owed(u, "work", "working")
    BY <2>5, <2>6, Balance DEF Owed
  <2>8. Told(u)
    BY <1>0, <2>6, StillTold DEF Good
  <2>9. Good(u)
    BY <2>3, <2>6, <2>7, <2>8 DEF Good
  <2> QED BY <2>4, <2>6, <2>9
<1>2. CASE error = "none"
  <2> DEFINE d == Ask(s, "wait")
             t == [d EXCEPT !.state = "working"]
             b == Accept(t, "work")
             u == Answer(b, "start")
  <2>1. Runs(s, d) /\ d.servant = s.servant /\ d \in Service
    BY <1>0, Asks DEF Runs, Operation
  <2>2. [d EXCEPT !.state = "working"] = [Ask(s, "wait") EXCEPT !.state = "working"]
    OBVIOUS
  <2>3. ServantStarted(s, error) = u
    BY <1>2 DEF ServantStarted
  <2> HIDE DEF d
  <2>4. Runs(d, t) /\ t.servant = d.servant /\ t.state = "working" /\ t \in Service
    BY <2>1, Enter DEF Runs
  <2> HIDE DEF t
  <2>5. /\ b \in Service /\ b.events = t.events /\ b.answered = t.answered /\ b.over = t.over
        /\ b.asked = [t.asked EXCEPT !["work"] = @ + 1]
        /\ b.servant = t.servant /\ b.state = t.state
    BY <2>4, AcceptsOne DEF Signal
  <2> HIDE DEF b
  <2>6. /\ u \in Service /\ u.events = b.events /\ u.asked = b.asked /\ u.over = b.over
        /\ u.answered = [b.answered EXCEPT !["start"] = @ + 1]
        /\ u.servant = b.servant /\ u.state = b.state
    BY <2>5, AnswersOne DEF Signal
  <2> HIDE DEF u
  <2>7. /\ u.answered.start = s.answered.start + 1 /\ u.answered.stop = s.answered.stop
        /\ u.answered.work = s.answered.work
    <3>1. u.answered = [s.answered EXCEPT !["start"] = @ + 1]
      BY <2>1, <2>4, <2>5, <2>6 DEF Runs
    <3> QED BY <1>0, <3>1, QtFields, OneMore DEF Signal
  <2>8. /\ u.asked.start = s.asked.start /\ u.asked.stop = s.asked.stop
        /\ u.asked.work = s.asked.work + 1
    <3>1. u.asked = [s.asked EXCEPT !["work"] = @ + 1]
      BY <2>1, <2>4, <2>5, <2>6 DEF Runs
    <3> QED BY <1>0, <3>1, QtFields, OneMore DEF Signal
  <2>9. /\ u.events = s.events /\ u.servant = s.servant /\ u.state = "working"
        /\ u.over = s.over
    BY <2>1, <2>4, <2>5, <2>6 DEF Runs
  <2>10. /\ u.asked.start = u.answered.start + Owed(u, "start", "starting")
         /\ u.asked.stop = u.answered.stop + Owed(u, "stop", "stopping")
         /\ u.asked.work = u.answered.work + Owed(u, "work", "working")
    BY <2>7, <2>8, <2>9, Balance DEF Owed
  <2>11. Told(u)
    <3>1. Told(s) /\ s.over \in Nat /\ s.asked.work \in Nat
      BY <1>0, QtFields DEF Good
    <3> QED BY <2>8, <2>9, <3>1 DEF Told
  <2>12. Good(u)
    BY <2>6, <2>9, <2>10, <2>11 DEF Good
  <2> QED BY <2>3, <2>9, <2>12
<1> QED BY <1>1, <1>2

\* onServantStopCompleted.
LEMMA StopEnds ==
  ASSUME NEW s, Good(s), s.state = "stopping"
  PROVE  LET u == ServantStopped(s) IN Good(u) /\ u.state = "stopped"
<1> DEFINE d == DestroyServant(s)
           t == [d EXCEPT !.state = "stopped"]
           u == Answer(t, "stop")
<1>0. s \in Service
  BY DEF Good
<1>1. Runs(s, d) /\ d.servant = 0 /\ d \in Service
  BY <1>0, DropsServant DEF Runs
<1> HIDE DEF d
<1>2. Runs(d, t) /\ t.servant = d.servant /\ t.state = "stopped" /\ t \in Service
  BY <1>1, Enter DEF Runs
<1> HIDE DEF t
<1>3. /\ u \in Service /\ u.events = t.events /\ u.asked = t.asked /\ u.over = t.over
      /\ u.answered = [t.answered EXCEPT !["stop"] = @ + 1]
      /\ u.servant = t.servant /\ u.state = t.state
  BY <1>2, AnswersOne DEF Signal
<1>4. ServantStopped(s) = u
  BY DEF ServantStopped, t, d
<1> HIDE DEF u
<1>5. /\ u.answered.start = s.answered.start /\ u.answered.stop = s.answered.stop + 1
      /\ u.answered.work = s.answered.work
  <2>1. u.answered = [s.answered EXCEPT !["stop"] = @ + 1]
    BY <1>1, <1>2, <1>3 DEF Runs
  <2> QED BY <1>0, <2>1, QtFields, OneMore DEF Signal
<1>6. u.events = s.events /\ u.servant = 0 /\ u.state = "stopped" /\ u.asked = s.asked
      /\ u.over = s.over
  BY <1>1, <1>2, <1>3 DEF Runs
<1>7. /\ u.asked.start = u.answered.start + Owed(u, "start", "starting")
      /\ u.asked.stop = u.answered.stop + Owed(u, "stop", "stopping")
      /\ u.asked.work = u.answered.work + Owed(u, "work", "working")
  BY <1>5, <1>6, Balance DEF Owed
<1>8. Told(u)
  BY <1>0, <1>6, StillTold DEF Good
<1>9. Good(u)
  BY <1>3, <1>6, <1>7, <1>8 DEF Good
<1> QED BY <1>4, <1>6, <1>9

\* on_service_workCompleted of the form.
LEMMA WorkEnds ==
  ASSUME NEW s, Good(s)
  PROVE  /\ Good(WorkCompleted(s))
         /\ WorkCompleted(s).state = "stopped" <=> s.state = "stopped"
<1>1. CASE s.state = "working"
  BY <1>1, QtStopped DEF WorkCompleted
<1>2. CASE s.state # "working"
  BY <1>2 DEF WorkCompleted
<1> QED BY <1>1, <1>2

\* onServantWaitCompleted: work is over, and the form stops the service, whereby
\* it is answered again. Between the two the service is not good.
LEMMA WorkIsOver ==
  ASSUME NEW s, Good(s), s.state = "working"
  PROVE  LET u == WorkCompleted(TellOver(s)) IN Good(u) /\ u.state = "stopping"
<1> DEFINE a == AsyncStop(s)
           u == [a EXCEPT !.over = a.over + 1]
<1>0. s \in Service /\ Told(s) /\ s.over \in Nat /\ s.asked.work \in Nat
  BY QtFields DEF Good
<1>1. WorkCompleted(TellOver(s)) = u
  BY <1>0 DEF WorkCompleted, TellOver, AsyncStop, Forward, Ask, Accept, Service
<1>2. Good(a) /\ a.state = "stopping" /\ a \in Service
  BY QtStopped DEF Good
<1>3. a.over = s.over /\ a.asked.work = s.asked.work
  BY <1>0 DEF AsyncStop, Forward, Ask, Accept, Service
<1> HIDE DEF a
<1>a. a.over + 1 \in Nat
  BY <1>0, <1>3
<1>4. u \in Service /\ u.over = s.over + 1
  <2>1. u \in Service
    BY <1>2, <1>a DEF Service
  <2>2. u.over = a.over + 1
    BY <1>2 DEF Service
  <2> QED BY <2>1, <2>2, <1>3
<1>5. /\ u.state = a.state /\ u.events = a.events /\ u.asked = a.asked
      /\ u.answered = a.answered /\ u.servant = a.servant
  BY <1>2 DEF Service
<1> HIDE DEF u
<1>6. Told(u)
  BY <1>0, <1>2, <1>3, <1>4, <1>5 DEF Told
<1>7. Good(u)
  BY <1>2, <1>4, <1>5, <1>6 DEF Good, Owed
<1> QED BY <1>1, <1>2, <1>5, <1>7

\* An event is taken out: a signal of a servant,
LEMMA TakenFromServant ==
  ASSUME Good(service), service.events # << >>, Head(service.events).from # 0
  PROVE  Good(Received) /\ Received.state = service.state
<1> DEFINE u == Received
           es == service.events
<1>0. service \in Service /\ es \in Seq(Event) /\ Aborts(es)
  BY QtFields DEF Good, Aborts
<1>1. Aborts(Tail(es)) /\ Tail(es) \in Seq(Event)
  BY <1>0, AbortsTail
<1>2. u \in Service
  BY <1>0, <1>1 DEF Received, Service
<1>3. /\ u.events = Tail(es) /\ u.asked = service.asked /\ u.answered = service.answered
      /\ u.over = service.over
      /\ u.servant = service.servant /\ u.state = service.state
  BY <1>0 DEF Received, Service
<1>4. /\ Count(Tail(es), "start") = Count(es, "start")
      /\ Count(Tail(es), "stop") = Count(es, "stop")
      /\ Count(Tail(es), "work") = Count(es, "work")
  <2>1. \A sig : Count(es, sig) = Count(Tail(es), sig) + 0
    BY <1>0, CountTail
  <2>2. \A sig : Count(Tail(es), sig) \in Nat
    BY <1>1, CountNat
  <2> QED BY <2>1, <2>2
<1> HIDE DEF u, es
<1>5. /\ u.asked.start = u.answered.start + Owed(u, "start", "starting")
      /\ u.asked.stop = u.answered.stop + Owed(u, "stop", "stopping")
      /\ u.asked.work = u.answered.work + Owed(u, "work", "working")
  BY <1>3, <1>4, Balance DEF Owed, es
<1>6. Told(u)
  BY <1>0, <1>3, StillTold DEF Good
<1>7. Good(u)
  BY <1>1, <1>2, <1>3, <1>5, <1>6 DEF Good, Aborts
<1> QED BY <1>3, <1>7 DEF u

\* What is taken from one term is added to another.
LEMMA Shift ==
  ASSUME NEW b \in Nat, NEW d \in Nat, NEW x \in Nat, NEW y \in Nat
  PROVE  b + ((d + y) + x) = (b + y) + (d + x)
OBVIOUS

\* or one that the service forwards to itself, and answers with.
LEMMA TakenAndAnswered ==
  ASSUME Good(service), service.events # << >>, Head(service.events).from = 0
  PROVE  LET u == Answer(Received, Head(service.events).signal) IN
         /\ Good(u) /\ u.state = service.state
         /\ Head(service.events).error = "operation_aborted"
<1> DEFINE t == Received
           es == service.events
           sig == Head(es).signal
           u == Answer(t, sig)
<1>0. service \in Service /\ es \in Seq(Event) /\ Aborts(es)
  BY QtFields DEF Good, Aborts
<1>1. /\ Aborts(Tail(es)) /\ Tail(es) \in Seq(Event) /\ sig \in Signal
      /\ Head(es).error = "operation_aborted"
  BY <1>0, AbortsTail
<1>2. t \in Service
  BY <1>0, <1>1 DEF Received, Service
<1>3. /\ t.events = Tail(es) /\ t.asked = service.asked /\ t.answered = service.answered
      /\ t.over = service.over
      /\ t.servant = service.servant /\ t.state = service.state
  BY <1>0 DEF Received, Service
<1>4. \A x \in Signal : Count(es, x) = Count(Tail(es), x) + IF sig = x THEN 1 ELSE 0
  BY <1>0, CountTail
<1>5. \A x : Count(Tail(es), x) \in Nat
  BY <1>1, CountNat
<1> HIDE DEF t
<1>6. /\ u \in Service /\ u.events = t.events /\ u.asked = t.asked /\ u.over = t.over
      /\ u.answered = [t.answered EXCEPT ![sig] = @ + 1]
      /\ u.servant = t.servant /\ u.state = t.state
  BY <1>1, <1>2, AnswersOne
<1> HIDE DEF u, es, sig
<1>7. /\ u.answered.start = service.answered.start + IF sig = "start" THEN 1 ELSE 0
      /\ u.answered.stop = service.answered.stop + IF sig = "stop" THEN 1 ELSE 0
      /\ u.answered.work = service.answered.work + IF sig = "work" THEN 1 ELSE 0
  <2>1. u.answered = [service.answered EXCEPT ![sig] = @ + 1]
    BY <1>3, <1>6
  <2> QED BY <1>0, <1>1, <2>1, QtFields, OneMore
<1>8. u.events = Tail(es) /\ u.servant = service.servant /\ u.state = service.state
      /\ u.asked = service.asked /\ u.over = service.over
  BY <1>3, <1>6
<1>9. /\ Count(es, "start") = Count(u.events, "start") + IF sig = "start" THEN 1 ELSE 0
      /\ Count(es, "stop") = Count(u.events, "stop") + IF sig = "stop" THEN 1 ELSE 0
      /\ Count(es, "work") = Count(u.events, "work") + IF sig = "work" THEN 1 ELSE 0
      /\ Count(u.events, "start") \in Nat /\ Count(u.events, "stop") \in Nat
      /\ Count(u.events, "work") \in Nat
  BY <1>4, <1>5, <1>8 DEF Signal
<1>10. /\ u.asked.start = u.answered.start + Owed(u, "start", "starting")
       /\ u.asked.stop = u.answered.stop + Owed(u, "stop", "stopping")
       /\ u.asked.work = u.answered.work + Owed(u, "work", "working")
  <2>1. /\ service.asked.start = service.answered.start + Owed(service, "start", "starting")
        /\ service.asked.stop = service.answered.stop + Owed(service, "stop", "stopping")
        /\ service.asked.work = service.answered.work + Owed(service, "work", "working")
        /\ service.answered.start \in Nat /\ service.answered.stop \in Nat
        /\ service.answered.work \in Nat
    BY Balance
  <2>2. u.state = service.state /\ u.asked = service.asked
    BY <1>8
  <2>3. u.asked.start = u.answered.start + Owed(u, "start", "starting")
    <3> DEFINE x == IF service.state = "starting" THEN 1 ELSE 0
               y == IF sig = "start" THEN 1 ELSE 0
    <3>1. x \in Nat /\ y \in Nat
      OBVIOUS
    <3>2. /\ u.answered.start = service.answered.start + y
          /\ Count(es, "start") = Count(u.events, "start") + y
          /\ Owed(u, "start", "starting") = Count(u.events, "start") + x
          /\ Owed(service, "start", "starting") = Count(es, "start") + x
      BY <1>7, <1>9, <2>2 DEF Owed, es
    <3> HIDE DEF x, y
    <3> QED BY <1>9, <2>1, <2>2, <3>1, <3>2, Shift
  <2>4. u.asked.stop = u.answered.stop + Owed(u, "stop", "stopping")
    <3> DEFINE x == IF service.state = "stopping" THEN 1 ELSE 0
               y == IF sig = "stop" THEN 1 ELSE 0
    <3>1. x \in Nat /\ y \in Nat
      OBVIOUS
    <3>2. /\ u.answered.stop = service.answered.stop + y
          /\ Count(es, "stop") = Count(u.events, "stop") + y
          /\ Owed(u, "stop", "stopping") = Count(u.events, "stop") + x
          /\ Owed(service, "stop", "stopping") = Count(es, "stop") + x
      BY <1>7, <1>9, <2>2 DEF Owed, es
    <3> HIDE DEF x, y
    <3> QED BY <1>9, <2>1, <2>2, <3>1, <3>2, Shift
  <2>5. u.asked.work = u.answered.work + Owed(u, "work", "working")
    <3> DEFINE x == IF service.state = "working" THEN 1 ELSE 0
               y == IF sig = "work" THEN 1 ELSE 0
    <3>1. x \in Nat /\ y \in Nat
      OBVIOUS
    <3>2. /\ u.answered.work = service.answered.work + y
          /\ Count(es, "work") = Count(u.events, "work") + y
          /\ Owed(u, "work", "working") = Count(u.events, "work") + x
          /\ Owed(service, "work", "working") = Count(es, "work") + x
      BY <1>7, <1>9, <2>2 DEF Owed, es
    <3> HIDE DEF x, y
    <3> QED BY <1>9, <2>1, <2>2, <3>1, <3>2, Shift
  <2> QED BY <2>3, <2>4, <2>5
<1>11. Told(u)
  BY <1>0, <1>8, StillTold DEF Good
<1>12. Good(u)
  BY <1>1, <1>6, <1>8, <1>10, <1>11 DEF Good, Aborts
<1> QED BY <1>1, <1>8, <1>12 DEF u, t, sig, es

\* The service after a handler of the servant, which nobody calls.
LEMMA Unseen ==
  ASSUME Good(service), service' \in Service, service'.events = service.events,
         service'.asked = service.asked, service'.answered = service.answered,
         service'.servant = service.servant, service'.state = service.state,
         service'.over = service.over, QtInv, form' = form
  PROVE  QtInv'
BY DEF QtInv, Good, Owed, Told

\* A signal of the servant is an event that answers nothing yet.
LEMMA Emits ==
  ASSUME QtInv, NEW s \in Service, s.events = service.events, s.asked = service.asked,
         s.answered = service.answered, s.servant = service.servant, s.servant # 0,
         s.state = service.state, s.over = service.over, NEW sig \in Operation \cup {"exception"},
         NEW error \in Cause \cup {"invalid_state"},
         service' = Posted(s, sig, error), form' = form
  PROVE  QtInv'
<1> DEFINE e == [from |-> s.servant, signal |-> sig, error |-> error]
<1>1. e \in Event /\ e.from # 0
  BY QtFields DEF Event
<1>2. Append(s.events, e) \in Seq(Event)
  BY <1>1, QtFields, AppendProperties
<1>3. service' = [s EXCEPT !.events = Append(s.events, e)]
  BY DEF Posted
<1> HIDE DEF e
<1>4. service' \in Service
  BY <1>2, <1>3 DEF Service
<1>5. /\ service'.events = Append(service.events, e) /\ service'.asked = service.asked
      /\ service'.answered = service.answered /\ service'.servant = service.servant
      /\ service'.state = service.state /\ service'.over = service.over
  BY <1>3 DEF Service
<1>6. service \in Service /\ service.events \in Seq(Event) /\ Aborts(service.events)
  BY QtFields DEF QtInv, Good, Aborts
<1>7. \A x : Count(Append(service.events, e), x) = Count(service.events, x) + 0
  BY <1>1, <1>6, CountAppend
<1>8. \A x : Count(service'.events, x) = Count(service.events, x)
  <2>1. \A x : Count(service.events, x) \in Nat
    BY <1>6, CountNat
  <2> QED BY <1>5, <1>7, <2>1
<1>9. Aborts(service'.events)
  BY <1>1, <1>5, <1>6, AbortsAppend
<1>10. Good(service)'
  BY <1>4, <1>5, <1>8, <1>9 DEF QtInv, Good, Owed, Aborts, Told
<1> QED BY <1>5, <1>10 DEF QtInv

\* What the threads of the servant do.
LEMMA ServantKeeps ==
  ASSUME QtInv, ServerRuns \/ ServerLeavesWork \/ ServerEndsStop
                  \/ EmitCompleted \/ WorkThreadFails
  PROVE  QtInv'
<1>0. /\ service \in Service /\ Good(service) /\ service.view \in SessionView
      /\ service.requests \in Seq(Operation) /\ service.replies \in SUBSET Reply
      /\ service.threads \in 0..WorkThreads
  BY DEF QtInv, Good, Service, Reply
<1>1. ASSUME NEW o, OutcomeOK(o), NEW q \in Seq(Operation),
             service' = [service EXCEPT !.view = o.view, !.requests = q,
                                        !.replies = service.replies \cup o.replies],
             form' = form
      PROVE  QtInv'
  <2>1. /\ o.view \in SessionView /\ q \in Seq(Operation)
        /\ service.replies \cup o.replies
             \in SUBSET (Operation \X (Cause \cup {"invalid_state"}))
    BY <1>0, <1>1 DEF OutcomeOK, Reply
  <2>2. service' \in Service
    BY <1>0, <1>1, <2>1 DEF Service
  <2>3. /\ service'.events = service.events /\ service'.asked = service.asked
        /\ service'.answered = service.answered /\ service'.servant = service.servant
        /\ service'.state = service.state /\ service'.over = service.over
    BY <1>0, <1>1 DEF Service
  <2> QED BY <1>0, <1>1, <2>2, <2>3, Unseen
<1>2. CASE ServerRuns
  <2> DEFINE v == service.view
             request == Head(service.requests)
  <2>1. /\ service.requests # << >> /\ form' = form
        /\ \E o \in CASE request = "start" -> ServerStartOutcomes(v)
                      [] request = "wait"  -> WaitOutcomes(v)
                      [] request = "stop"  -> StopOutcomes(v) :
             service' = [service EXCEPT !.view = o.view, !.requests = Tail(@),
                                        !.replies = @ \cup o.replies]
    BY <1>2 DEF ServerRuns
  <2>2. request \in Operation /\ Tail(service.requests) \in Seq(Operation)
    BY <1>0, <2>1, HeadTailProperties
  <2>3. \A o \in CASE request = "start" -> ServerStartOutcomes(v)
                   [] request = "wait"  -> WaitOutcomes(v)
                   [] request = "stop"  -> StopOutcomes(v) : OutcomeOK(o)
    BY <1>0, <2>2, StartTyped, WaitTyped, StopTyped DEF Operation
  <2> QED BY <1>1, <2>1, <2>2, <2>3
<1>3. CASE ServerLeavesWork \/ ServerEndsStop
  <2>1. PICK o \in ServerInternalOutcomes(service.view) :
          service' = [service EXCEPT !.view = o.view, !.replies = @ \cup o.replies]
    BY <1>3 DEF ServerLeavesWork, ServerEndsStop, Becomes
  <2>2. form' = form
    BY <1>3 DEF ServerLeavesWork, ServerEndsStop, Becomes
  <2>3. OutcomeOK(o)
    BY <1>0, InternalTyped
  <2>4. service' = [service EXCEPT !.view = o.view, !.requests = service.requests,
                                   !.replies = service.replies \cup o.replies]
    BY <1>0, <2>1 DEF Service
  <2> QED BY <1>0, <1>1, <2>2, <2>3, <2>4
<1>4. ASSUME NEW r \in SUBSET Reply, NEW n \in 0..WorkThreads,
             NEW sig \in Operation \cup {"exception"},
             NEW error \in Cause \cup {"invalid_state"}, service.servant # 0,
             service' = Posted([service EXCEPT !.replies = r, !.threads = n], sig, error),
             form' = form
      PROVE  QtInv'
  <2> DEFINE s == [service EXCEPT !.replies = r, !.threads = n]
  <2>1. r \in SUBSET (Operation \X (Cause \cup {"invalid_state"}))
    BY DEF Reply
  <2>2. s \in Service
    BY <1>0, <2>1 DEF Service
  <2>3. /\ s.events = service.events /\ s.asked = service.asked
        /\ s.answered = service.answered /\ s.servant = service.servant
        /\ s.state = service.state /\ s.over = service.over
    BY <1>0 DEF Service
  <2> HIDE DEF s
  <2>4. service' = Posted(s, sig, error)
    BY <1>4 DEF s
  <2> QED BY <1>4, <2>2, <2>3, <2>4, Emits
<1>5. CASE EmitCompleted
  <2>1. PICK reply \in service.replies :
          service' = Posted([service EXCEPT !.replies = @ \ {reply}], reply[1], reply[2])
    BY <1>5 DEF EmitCompleted
  <2>2. service.servant # 0 /\ form' = form
    BY <1>5 DEF EmitCompleted, Running
  <2>3. reply[1] \in Operation /\ reply[2] \in Cause \cup {"invalid_state"}
    BY <1>0 DEF Reply
  <2>4. [service EXCEPT !.replies = @ \ {reply}]
          = [service EXCEPT !.replies = service.replies \ {reply}, !.threads = service.threads]
    BY <1>0 DEF Service
  <2>5. service.replies \ {reply} \in SUBSET Reply
    BY <1>0
  <2> QED BY <1>0, <1>4, <2>1, <2>2, <2>3, <2>4, <2>5
<1>6. CASE WorkThreadFails
  <2>1. PICK lost \in {{}} \cup {{reply} : reply \in service.replies} :
          service' = Posted([service EXCEPT !.replies = @ \ lost, !.threads = @ - 1],
                               "exception", "none")
    BY <1>6 DEF WorkThreadFails
  <2>2. service.servant # 0 /\ service.threads > 0 /\ form' = form
    BY <1>6 DEF WorkThreadFails, Running
  <2>3. service.threads - 1 \in 0..WorkThreads
    BY <1>0, <2>2, QtAssumption
  <2>4. service.replies \ lost \in SUBSET Reply /\ "none" \in Cause
    BY <1>0 DEF Cause
  <2> QED BY <1>4, <2>1, <2>2, <2>3, <2>4
<1> QED BY <1>2, <1>3, <1>5, <1>6

\* The slots end with the form showing the service.
LEMMA Showing ==
  ASSUME QtInv, NEW s, Good(s), Shows(s), s.state # "stopped" => service.state # "stopped"
  PROVE  QtInv'
<1> DEFINE f == ConditionalStopStatsTimer(form, s)
<1>1. s.state \in {"stopped", "starting", "working", "stopping"} /\ form \in Form
  BY QtFields DEF QtInv, Good
<1>2. f \in Form /\ f.timer = (s.state # "stopped") /\ f.shown = form.shown
      /\ f.startButton = form.startButton /\ f.stopButton = form.stopButton
      /\ f.terminateButton = form.terminateButton
  BY <1>1 DEF Form, ConditionalStopStatsTimer, QtInv, Shown
<1>3. service' = s /\ form' = UpdateWidgetsStates(f, s)
  BY DEF Shows
<1> HIDE DEF f
<1>4. CASE s.state = f.shown
  BY <1>2, <1>3, <1>4 DEF UpdateWidgetsStates, QtInv, Shown
<1>5. CASE s.state # f.shown
  <2> DEFINE start == s.state = "stopped"
             stop == s.state \in {"starting", "working"}
             terminate == s.state # "stopped"
  <2>1. form' = [f EXCEPT !.shown = s.state, !.startButton = start, !.stopButton = stop,
                          !.terminateButton = terminate]
    BY <1>3, <1>5 DEF UpdateWidgetsStates
  <2>2. start \in BOOLEAN /\ stop \in BOOLEAN /\ terminate \in BOOLEAN
    OBVIOUS
  <2> HIDE DEF start, stop, terminate
  <2>3. form' \in Form
    BY <1>1, <1>2, <2>1, <2>2 DEF Form
  <2>4. /\ form'.shown = s.state /\ form'.startButton = start /\ form'.stopButton = stop
        /\ form'.terminateButton = terminate /\ form'.timer = f.timer
    BY <1>2, <2>1 DEF Form
  <2>5. Shown(form', s.state)
    BY <1>2, <2>4 DEF Shown, start, stop, terminate
  <2> QED BY <1>3, <2>3, <2>5 DEF QtInv
<1> QED BY <1>4, <1>5

\* What the main thread does.
LEMMA MainThreadKeeps ==
  ASSUME QtInv,
         ClickStart \/ ClickStop \/ ClickTerminate \/ Loop
  PROVE  QtInv'
<1>0. Good(service) /\ form \in Form /\ Shown(form, service.state)
  BY DEF QtInv
<1>1. CASE ClickStart
  <2> DEFINE s == AsyncStart(service)
             f == [form EXCEPT !.timer = TRUE]
  <2>1. service.state = "stopped" /\ service.made < MaxServants
    BY <1>0, <1>1 DEF ClickStart, Shown
  <2>2. Good(s) /\ s.state = "starting"
    BY <1>0, <2>1, QtStarted
  <2>3. service' = s /\ form' = UpdateWidgetsStates(f, s)
    BY <1>1 DEF ClickStart
  <2> HIDE DEF s
  <2>4. form' = [f EXCEPT !.shown = "starting", !.startButton = FALSE,
                          !.stopButton = TRUE, !.terminateButton = TRUE]
    <3>1. f.shown = "stopped"
      BY <1>0, <2>1 DEF Shown, Form
    <3>2. /\ (s.state = "stopped") = FALSE /\ (s.state \in {"starting", "working"}) = TRUE
          /\ (s.state # "stopped") = TRUE
      BY <2>2
    <3>3. form' = [f EXCEPT !.shown = s.state, !.startButton = s.state = "stopped",
                            !.stopButton = s.state \in {"starting", "working"},
                            !.terminateButton = s.state # "stopped"]
      BY <2>2, <2>3, <3>1 DEF UpdateWidgetsStates
    <3> QED BY <2>2, <3>2, <3>3
  <2>5. form' \in Form
    BY <1>0, <2>4 DEF Form
  <2>6. Shown(form', "starting")
    BY <1>0, <2>4 DEF Form, Shown
  <2> QED BY <2>2, <2>3, <2>5, <2>6 DEF QtInv
<1>2. CASE ClickStop
  <2> DEFINE s == AsyncStop(service)
  <2>1. service.state \in {"starting", "working"}
    BY <1>0, <1>2 DEF ClickStop, Shown
  <2>2. Good(s) /\ s.state = "stopping"
    BY <1>0, <2>1, QtStopped
  <2>3. service' = s /\ form' = UpdateWidgetsStates(form, s)
    BY <1>2 DEF ClickStop
  <2> HIDE DEF s
  <2>4. ConditionalStopStatsTimer(form, s) = form
    BY <1>0, <2>2 DEF ConditionalStopStatsTimer, Form
  <2>5. Shows(s)
    BY <2>3, <2>4 DEF Shows
  <2> QED BY <2>1, <2>2, <2>5, Showing
<1>3. CASE ClickTerminate
  <2>1. Shows(Terminate(service))
    BY <1>3 DEF ClickTerminate
  <2> QED BY <1>0, <2>1, Terminates, Showing
<1>4. CASE Loop
  <2> DEFINE r == Received
  <2>1. ASSUME service.events # << >>, Head(service.events).from # 0
        PROVE  Good(r) /\ r.state = service.state
    BY <1>0, <2>1, TakenFromServant
  <2>2. ASSUME Good(r), r.state = service.state, Ignored PROVE QtInv'
    BY <1>0, <2>2 DEF Ignored, QtInv
  <2> HIDE DEF r
  <2>3. CASE OnServantStartCompleted
    <3>1. Good(r) /\ r.state = service.state
      BY <2>1, <2>3 DEF OnServantStartCompleted, Comes
    <3>2. CASE service.state # "starting"
      BY <2>2, <2>3, <3>1, <3>2 DEF OnServantStartCompleted
    <3>3. CASE service.state = "starting"
      <4>1. Shows(ServantStarted(r, Head(service.events).error))
        BY <2>3, <3>3 DEF OnServantStartCompleted, r
      <4> QED BY <3>1, <3>3, <4>1, StartEnds, Showing
    <3> QED BY <3>2, <3>3
  <2>4. CASE OnServantWaitCompleted
    <3>1. Good(r) /\ r.state = service.state
      BY <2>1, <2>4 DEF OnServantWaitCompleted, Comes
    <3>2. CASE service.state # "working"
      BY <2>2, <2>4, <3>1, <3>2 DEF OnServantWaitCompleted
    <3>3. CASE service.state = "working"
      <4>1. Shows(WorkCompleted(TellOver(r)))
        BY <2>4, <3>3 DEF OnServantWaitCompleted, r
      <4> QED BY <3>1, <3>3, <4>1, WorkIsOver, Showing
    <3> QED BY <3>2, <3>3
  <2>5. CASE OnServantStopCompleted
    <3>1. Good(r) /\ r.state = service.state
      BY <2>1, <2>5 DEF OnServantStopCompleted, Comes
    <3>2. CASE service.state # "stopping"
      BY <2>2, <2>5, <3>1, <3>2 DEF OnServantStopCompleted
    <3>3. CASE service.state = "stopping"
      <4>1. Shows(ServantStopped(r))
        BY <2>5, <3>3 DEF OnServantStopCompleted, r
      <4> QED BY <3>1, <3>3, <4>1, StopEnds, Showing
    <3> QED BY <3>2, <3>3
  <2>6. CASE OnServantWorkThreadException
    <3>1. Good(r) /\ r.state = service.state
      BY <2>1, <2>6 DEF OnServantWorkThreadException, Comes
    <3>2. CASE service.state = "stopped"
      BY <2>2, <2>6, <3>1, <3>2 DEF OnServantWorkThreadException
    <3>3. CASE service.state # "stopped"
      <4>1. Shows(Terminate(r))
        BY <2>6, <3>3 DEF OnServantWorkThreadException, r
      <4> QED BY <3>1, <3>3, <4>1, Terminates, Showing
    <3> QED BY <3>2, <3>3
  <2>7. CASE OnForwarded
    <3> DEFINE sig == Head(service.events).signal
               u == Answer(r, sig)
    <3>1. service.events # << >> /\ Head(service.events).from = 0
      BY <2>7 DEF OnForwarded
    <3>2. Good(u) /\ u.state = service.state /\ Head(service.events).error = "operation_aborted"
      BY <1>0, <3>1, TakenAndAnswered DEF r
    <3>3. Shows(IF sig = "work" THEN WorkCompleted(u) ELSE u)
      BY <2>7, <3>2 DEF OnForwarded, r
    <3> HIDE DEF u
    <3>4. CASE sig = "work"
      BY <3>2, <3>3, <3>4, WorkEnds, Showing
    <3>5. CASE sig # "work"
      BY <3>2, <3>3, <3>5, Showing
    <3> QED BY <3>4, <3>5
  <2> QED BY <1>4, <2>3, <2>4, <2>5, <2>6, <2>7 DEF Loop
<1> QED BY <1>1, <1>2, <1>3, <1>4

LEMMA QtStarts == Init => QtInv
<1> SUFFICES ASSUME Init PROVE QtInv
  OBVIOUS
<1>1. /\ FreshView \in SessionView /\ 0 \in 0..WorkThreads /\ 0 \in 0..MaxServants
  BY QtAssumption DEF FreshView, SessionView, Cause
<1>2. service =
       [state |-> "stopped", servant |-> 0, made |-> 0, view |-> FreshView,
        requests |-> << >>, replies |-> {}, threads |-> 0, events |-> << >>,
        asked |-> [start |-> 0, stop |-> 0, work |-> 0],
        answered |-> [start |-> 0, stop |-> 0, work |-> 0], over |-> 0]
  BY DEF Init
<1>3. /\ [start |-> 0, stop |-> 0, work |-> 0] \in [{"start", "stop", "work"} -> Nat]
  OBVIOUS
<1>4. << >> \in Seq(Operation) /\ << >> \in Seq(Event)
  OBVIOUS
<1>5. service \in Service
  BY <1>1, <1>2, <1>3, <1>4 DEF Service
<1>6. form \in Form /\ Shown(form, "stopped")
  <2>1. form = [startButton |-> TRUE, stopButton |-> FALSE,
                terminateButton |-> FALSE, shown |-> "stopped", timer |-> FALSE]
    BY DEF Init
  <2>2. form \in Form
    BY <2>1 DEF Form
  <2>3. /\ form.shown = "stopped" /\ form.startButton = TRUE /\ form.stopButton = FALSE
        /\ form.terminateButton = FALSE /\ form.timer = FALSE
    BY <2>1
  <2>4. /\ form.startButton = ("stopped" = "stopped")
        /\ form.terminateButton = ("stopped" # "stopped")
        /\ form.timer = ("stopped" # "stopped")
    BY <2>3, Zenon
  <2>5. form.stopButton = ("stopped" \in {"starting", "working"})
    <3>1. "stopped" \notin {"starting", "working"}
      OBVIOUS
    <3>2. \A p, q \in BOOLEAN : ~p /\ ~q => p = q
      OBVIOUS
    <3>3. ("stopped" \in {"starting", "working"}) \in BOOLEAN
      OBVIOUS
    <3> QED BY <2>3, <3>1, <3>2, <3>3, Zenon
  <2> QED BY <2>2, <2>3, <2>4, <2>5, Zenon DEF Shown
<1>7. \A x : Count(<< >>, x) = 0
  <2>1. \A x : Marks(<< >>, x) = {}
    BY DEF Marks
  <2> QED BY <2>1, FS_EmptySet DEF Count
<1>8. /\ service.state = "stopped" /\ service.events = << >> /\ service.servant = 0
      /\ service.asked.start = 0 /\ service.asked.stop = 0 /\ service.asked.work = 0
      /\ service.answered.start = 0 /\ service.answered.stop = 0
      /\ service.answered.work = 0 /\ service.over = 0
  BY <1>2
<1>9. Good(service)
  BY <1>5, <1>7, <1>8 DEF Good, Owed, Told
<1> QED BY <1>6, <1>8, <1>9 DEF QtInv

\* The counts, the form and the service agree between the slots, whatever events
\* of whichever servant are on their way.
THEOREM QtInvariant == Spec => []QtInv
<1>1. Init => QtInv
  BY QtStarts
<1>2. QtInv /\ [Next]_(vars) => QtInv'
  <2> SUFFICES ASSUME QtInv, [Next]_(vars) PROVE QtInv'
    OBVIOUS
  <2>1. CASE Next
    BY <2>1, MainThreadKeeps, ServantKeeps DEF Next
  <2>2. CASE UNCHANGED vars
    BY <2>2 DEF vars, QtInv, Good, Owed, Told
  <2> QED BY <2>1, <2>2
<1> QED BY <1>1, <1>2, PTL DEF Spec

\* Each start and stop of the service is answered once, each time of work once as
\* aborted and at most once before with the error of the servant, none is refused,
\* and there is a server in every state but stopped, for every number of servants
\* and of threads, and however late their signals come.
THEOREM CallsAnswered == Spec => []EveryCallAnswered
<1>1. QtInv => EveryCallAnswered
  <2> SUFFICES ASSUME QtInv PROVE EveryCallAnswered
    OBVIOUS
  <2>1. \A sig, state : Pending(sig, state) = Owed(service, sig, state)
    BY Counted DEF Pending, Owed
  <2> QED BY <2>1 DEF EveryCallAnswered, TypeOK, QtInv, Good, Shown, Told
<1> QED BY <1>1, QtInvariant, PTL
=============================================================================
