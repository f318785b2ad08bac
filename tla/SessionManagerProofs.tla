------------------------ MODULE SessionManagerProofs ------------------------
(***************************************************************************)
(* SessionManager for every number of sessions, every number of recycled   *)
(* ones, every size of the batches of a stop and every combination of      *)
(* failing system calls: its counters are exact, its sessions attended and *)
(* its stops complete, and it implements its contract (AbstractServer).    *)
(*                                                                         *)
(* None of the properties is inductive alone.  IInv says what each of the  *)
(* manager's handlers relies on when it begins and restores before it ends *)
(* (Working), and that a working manager uses its room (RoomUsed), which   *)
(* holds only when continue_work has run.  The counters are cardinalities: *)
(* of the pairs of a session and an operation it still owes a reply for.   *)
(* The proof follows the code: what one session does (SessionShape), what  *)
(* a wrapper's state tells of its session (SlotShape), the operators of    *)
(* the model field by field, the handlers, and Next; last, the handlers    *)
(* again, for what they change of what the user sees.                      *)
(***************************************************************************)
EXTENDS SessionManager, FiniteSetTheorems, TLAPS

One(b) == IF b THEN 1 ELSE 0

-----------------------------------------------------------------------------
(* What a session can look like. *)

\* A session whose start has failed.
Failed == [FreshView EXCEPT !.extern = "stopped", !.life = "ended"]

ViewShape(v) ==
  /\ v \in SessionView
  /\ v.extern = "ready" => v = FreshView
  /\ v.waiting => v.extern = "work"
  /\ v.stopping <=> v.extern = "stop"
  /\ v.extern = "stop" => v.life = "ending"

RequestQueue ==
  {<<>>, <<"start">>, <<"start", "stop">>, <<"wait">>, <<"wait", "stop">>, <<"stop">>}

Replied(s, op) == \E reply \in s.replies : reply[1] = op

(***************************************************************************)
(* The requests, the view and the replies of a session agree: a request is *)
(* made once, meets the session in the state for it, and is replied to     *)
(* once.                                                                   *)
(***************************************************************************)
SessionShape(s) ==
  /\ s \in ManagedSession /\ ViewShape(s.view) /\ s.requests \in RequestQueue
  /\ Contains(s.requests, "start") => s.view = FreshView /\ s.replies = {}
  /\ Contains(s.requests, "wait") =>
       s.view.extern = "work" /\ ~s.view.waiting /\ s.replies = {}
  /\ s.requests = <<"stop">> =>
       /\ s.view.extern = "work" \/ s.view = Failed
       /\ ~Replied(s, "stop")
  /\ s.view.waiting => ~Replied(s, "start") /\ ~Replied(s, "wait")
  /\ ~(Replied(s, "start") /\ Replied(s, "wait"))
  /\ \A r1, r2 \in s.replies : r1[1] = r2[1] => r1 = r2
  /\ \A r \in s.replies :
       /\ r[1] = "start" => /\ r[2] \in {"none", "error"} /\ s.view.extern # "ready"
                            /\ r[2] = "error" => s.view = Failed
       /\ r[1] = "wait" => r[2] # "invalid_state" /\ s.view.extern # "ready"
       /\ r[1] = "stop" => /\ s.view.extern = "stopped"
                           /\ r[2] = "invalid_state" => s.view = Failed

(***************************************************************************)
(* The state of a wrapper tells what its session was asked for.            *)
(***************************************************************************)
AwaitsOnly(s, op) == \A o \in Operation : Awaits(s, o) <=> o = op

SlotShape(state, s) ==
  /\ state \in {"free", "ready"} => s = FreshSession
  /\ state = "start" =>
       /\ AwaitsOnly(s, "start")
       /\ s.view.extern = "stopped" => <<"start", "error">> \in s.replies
  /\ state = "work" => AwaitsOnly(s, "wait") /\ s.view.extern = "work"
  /\ state = "stop" => Awaits(s, "stop")
  /\ state = "stopped" =>
       /\ AwaitsOnly(s, "start") \/ AwaitsOnly(s, "wait")
       /\ s.view.extern = "stopped"

AwaitedOps(s) == {op \in Operation : Awaits(s, op)}

Awaited(session) == {x \in Slot \X Operation : Awaits(session[x[1]], x[2])}

Unreported(session) ==
  {w \in Slot : Awaits(session[w], "start") \/ Awaits(session[w], "wait")}

Used(wrapper) == {w \in Slot : wrapper[w].state # "free"}

-----------------------------------------------------------------------------
(* The manager. *)

Shaped(session) == \A w \in Slot : SessionShape(session[w])

OpsCounted(wrapper, session) ==
  \A w \in Slot : wrapper[w].ops = Cardinality(AwaitedOps(session[w]))

SlotsShaped(wrapper, session) ==
  \A w \in Slot : SlotShape(wrapper[w].state, session[w])

Distinct(active) ==
  \A i, j \in 1 .. Len(active) : active[i] = active[j] => i = j

Listed(active, wrapper) ==
  /\ Distinct(active)
  /\ \A w \in Slot : w \in ToSet(active)
                       <=> wrapper[w].state \in {"start", "work", "stop"}

AcceptingReady(accepting, wrapper) ==
  \A w \in Slot : wrapper[w].state = "ready" <=> accepting = w

\* Up to the cursor, or to the end, all sessions are being stopped.
Reached(end, active, wrapper) ==
  \A i \in 1 .. Len(active) :
    (\A j \in 1 .. i : active[j] # end) => wrapper[active[i]].state = "stop"

PendingCounted(m) ==
  m.pending = One(m.accept = "in_progress") + One(m.stopScheduled)
                + Cardinality(Awaited(m.session))

ReportsCounted(m) ==
  m.unreported = Cardinality(Unreported(m.session)) + m.startedLate

(***************************************************************************)
(* stopping is TRUE in do_start_extern_stop, which has changed the state   *)
(* and not yet parked its handler.                                         *)
(***************************************************************************)
Answers(m, stopping) ==
  /\ m.owed.wait = One(m.waitHandler) /\ m.owed.stop = One(m.stopHandler)
  /\ m.stopHandler <=> m.extern = "stop" /\ ~stopping
  /\ m.waitHandler => m.extern = "work" /\ m.intern = "work"
  /\ m.extern = "work" /\ m.intern # "work" => m.waitError # "none"
  /\ m.extern \in {"ready", "work"} /\ m.intern = "work" => m.waitError = "none"

(***************************************************************************)
(* The type of a server whose counters may be anything: that they are not  *)
(* negative follows from what they count.                                  *)
(***************************************************************************)
LooseWrapper == [state : {"free", "ready", "start", "work", "stop", "stopped"},
                 ops : Int]

LooseServer ==
  [extern : {"ready", "work", "stop", "stopped"},
   intern : {"work", "stop", "stopped"},
   accept : {"ready", "in_progress", "stopped"},
   accepting : Slot \cup {None},
   pending : Int,
   acceptorOpen : BOOLEAN,
   active : Seq(Slot),
   recycled : 0 .. RecycledSessionCount,
   stoppingEnd : Slot \cup {None}, stopScheduled : BOOLEAN,
   acceptError : {"none", "error"},
   waitError : {"none", "error", "operation_aborted"},
   waitHandler : BOOLEAN, stopHandler : BOOLEAN,
   wrapper : [Slot -> LooseWrapper], session : [Slot -> ManagedSession],
   owed : [wait : Int, stop : Int],
   unreported : Int, startedLate : Nat, badReset : BOOLEAN]

(***************************************************************************)
(* The sessions and what is counted of them, between any two calls of a    *)
(* handler.                                                                *)
(***************************************************************************)
Accounts(m) ==
  /\ m \in LooseServer /\ ~m.badReset
  /\ Shaped(m.session) /\ OpsCounted(m.wrapper, m.session)
  /\ PendingCounted(m) /\ ReportsCounted(m)

Slots(m) ==
  /\ SlotsShaped(m.wrapper, m.session)
  /\ Listed(m.active, m.wrapper)
  /\ AcceptingReady(m.accepting, m.wrapper)
  /\ m.accept = "in_progress" <=> m.accepting # None
  /\ Cardinality(Used(m.wrapper)) <= MaxSessions

AtWork(m) ==
  /\ m.stoppingEnd = None /\ ~m.stopScheduled
  /\ \A w \in Slot : /\ m.wrapper[w].state # "stopped"
                     /\ m.wrapper[w].state = "stop" => AwaitsOnly(m.session[w], "stop")
  /\ m.accept = "in_progress" => m.acceptorOpen /\ Len(m.active) < MaxSessions
  /\ m.accept = "stopped" => m.acceptError # "none"

AtStop(m) ==
  /\ ~m.acceptorOpen /\ m.accept # "ready"
  /\ m.stoppingEnd # None => m.stopScheduled
  /\ m.stoppingEnd \in {None} \cup ToSet(m.active)
  /\ Reached(m.stoppingEnd, m.active, m.wrapper)

\* A manager in the middle of a handler, before it goes on or stops.
Working(m, stopping) ==
  /\ Accounts(m) /\ Slots(m) /\ Answers(m, stopping)
  /\ m.intern = "work" => AtWork(m)
  /\ m.intern # "work" => AtStop(m)
  /\ m.extern = "ready" => m.intern = "work" /\ m.accept = "ready" /\ m.pending = 0
  /\ m.extern = "stopped" => m.intern = "stopped"
  /\ m.extern = "stop" /\ m.intern = "work" => stopping
  /\ m.extern = "stop" /\ m.intern = "stopped" => stopping
  /\ m.intern = "stopped" => m.pending = 0

RoomUsed(m) ==
  m.extern = "work" /\ m.intern = "work" =>
    CASE m.accept = "in_progress" -> TRUE
      [] m.accept = "ready" ->
           \/ Len(m.active) = MaxSessions /\ ~m.acceptorOpen
           \/ Len(m.active) > 0 /\ m.acceptError # "none"
      [] m.accept = "stopped" -> Len(m.active) > 0

IInv == Working(server, FALSE) /\ RoomUsed(server)

-----------------------------------------------------------------------------
(* What is awaited, counted. *)

\* There are finitely many slots, and what is awaited of them is a number.
LEMMA AwaitedFinite ==
  ASSUME NEW session
  PROVE  /\ IsFiniteSet(Slot) /\ Cardinality(Slot) = MaxSessions + 1
         /\ IsFiniteSet(Awaited(session)) /\ Cardinality(Awaited(session)) \in Nat
         /\ IsFiniteSet(Unreported(session))
         /\ Cardinality(Unreported(session)) \in Nat
<1>1. IsFiniteSet(Slot) /\ Cardinality(Slot) = MaxSessions + 1
  BY SessionManagerAssumption, FS_Interval DEF Slot
<1>2. IsFiniteSet(Operation)
  <2>1. Operation = (({} \cup {"start"}) \cup {"wait"}) \cup {"stop"}
    BY DEF Operation
  <2> QED BY <2>1, FS_EmptySet, FS_AddElement
<1>3. IsFiniteSet(Slot \X Operation)
  BY <1>1, <1>2, FS_Product
<1>4. Awaited(session) \in SUBSET (Slot \X Operation)
  BY DEF Awaited
<1>5. Unreported(session) \in SUBSET Slot
  BY DEF Unreported
<1> QED BY <1>1, <1>3, <1>4, <1>5, FS_Subset, FS_CardinalityType

\* What is awaited of one session is a number too.
LEMMA AwaitedOpsFinite ==
  ASSUME NEW s
  PROVE  IsFiniteSet(AwaitedOps(s)) /\ Cardinality(AwaitedOps(s)) \in Nat
<1>1. IsFiniteSet(Operation)
  <2>1. Operation = (({} \cup {"start"}) \cup {"wait"}) \cup {"stop"}
    BY DEF Operation
  <2> QED BY <2>1, FS_EmptySet, FS_AddElement
<1>2. AwaitedOps(s) \in SUBSET Operation
  BY DEF AwaitedOps
<1> QED BY <1>1, <1>2, FS_Subset, FS_CardinalityType

(***************************************************************************)
(* One session comes to await one operation more, or one less, or does not *)
(* change in what it awaits.                                               *)
(***************************************************************************)
LEMMA AwaitsMore ==
  ASSUME NEW session \in [Slot -> ManagedSession], NEW w \in Slot, NEW t,
         NEW op \in Operation, ~Awaits(session[w], op),
         \A o \in Operation : Awaits(t, o) <=> Awaits(session[w], o) \/ o = op
  PROVE  LET after == [session EXCEPT ![w] = t]
         IN  /\ Cardinality(Awaited(after)) = Cardinality(Awaited(session)) + 1
             /\ Cardinality(AwaitedOps(t)) = Cardinality(AwaitedOps(session[w])) + 1
<1> DEFINE after == [session EXCEPT ![w] = t]
<1>1. Awaited(after) = Awaited(session) \cup {<<w, op>>} /\ <<w, op>> \notin Awaited(session)
  BY DEF Awaited
<1>2. AwaitedOps(t) = AwaitedOps(session[w]) \cup {op} /\ op \notin AwaitedOps(session[w])
  BY DEF AwaitedOps
<1> QED BY <1>1, <1>2, AwaitedFinite, AwaitedOpsFinite, FS_AddElement

\* One reply was taken: one less is awaited, and something was.
LEMMA AwaitsLess ==
  ASSUME NEW session \in [Slot -> ManagedSession], NEW w \in Slot, NEW t,
         NEW op \in Operation, Awaits(session[w], op),
         \A o \in Operation : Awaits(t, o) <=> Awaits(session[w], o) /\ o # op
  PROVE  LET after == [session EXCEPT ![w] = t]
         IN  /\ Cardinality(Awaited(after)) = Cardinality(Awaited(session)) - 1
             /\ Cardinality(Awaited(session)) > 0
             /\ Cardinality(AwaitedOps(t)) = Cardinality(AwaitedOps(session[w])) - 1
             /\ Cardinality(AwaitedOps(session[w])) > 0
<1> DEFINE after == [session EXCEPT ![w] = t]
<1>1. Awaited(after) = Awaited(session) \ {<<w, op>>} /\ <<w, op>> \in Awaited(session)
  BY DEF Awaited
<1>2. AwaitedOps(t) = AwaitedOps(session[w]) \ {op} /\ op \in AwaitedOps(session[w])
  BY DEF AwaitedOps
<1> HIDE DEF after
<1>3. Cardinality(Awaited(after)) = Cardinality(Awaited(session)) - 1
  BY <1>1, AwaitedFinite, FS_RemoveElement
<1>4. Cardinality(AwaitedOps(t)) = Cardinality(AwaitedOps(session[w])) - 1
  BY <1>2, AwaitedOpsFinite, FS_RemoveElement
<1> QED BY <1>3, <1>4, AwaitedFinite, AwaitedOpsFinite DEF after

\* A session that awaits what it did changes none of the counts.
LEMMA AwaitsSame ==
  ASSUME NEW session \in [Slot -> ManagedSession], NEW w \in Slot, NEW t,
         \A o \in Operation : Awaits(t, o) <=> Awaits(session[w], o)
  PROVE  LET after == [session EXCEPT ![w] = t]
         IN  /\ Awaited(after) = Awaited(session)
             /\ Unreported(after) = Unreported(session)
             /\ AwaitedOps(t) = AwaitedOps(session[w])
BY DEF Awaited, AwaitedOps, Unreported, Operation

\* How many sessions have not yet reported, when one of them is replaced.
LEMMA UnreportedChanges ==
  ASSUME NEW session \in [Slot -> ManagedSession], NEW w \in Slot, NEW t
  PROVE  LET after == [session EXCEPT ![w] = t]
         IN  /\ w \in Unreported(session) => Cardinality(Unreported(session)) > 0
             /\ w \in Unreported(session) <=>
                  Awaits(session[w], "start") \/ Awaits(session[w], "wait")
             /\ w \in Unreported(after) <=> Awaits(t, "start") \/ Awaits(t, "wait")
             /\ Cardinality(Unreported(after)) =
                  Cardinality(Unreported(session)) - One(w \in Unreported(session))
                    + One(w \in Unreported(after))
<1> DEFINE after == [session EXCEPT ![w] = t]
           before == Unreported(session)
           others == before \ {w}
<1>1. /\ w \in before <=> Awaits(session[w], "start") \/ Awaits(session[w], "wait")
      /\ w \in Unreported(after) <=> Awaits(t, "start") \/ Awaits(t, "wait")
      /\ Unreported(after) = IF w \in Unreported(after) THEN before \cup {w} ELSE others
  BY DEF Unreported
<1>2. IsFiniteSet(before) /\ Cardinality(before) \in Nat
  BY AwaitedFinite
<1> HIDE DEF after, before
<1>3. /\ IsFiniteSet(others) /\ Cardinality(others) \in Nat
      /\ Cardinality(others) = Cardinality(before) - One(w \in before)
  BY <1>2, FS_RemoveElement, FS_CardinalityType DEF One
<1>4. w \in before => Cardinality(before) > 0
  BY <1>2, FS_EmptySet
<1>5. Cardinality(others \cup {w}) = Cardinality(others) + 1
  BY <1>3, FS_AddElement
<1>6. Unreported(after) = IF w \in Unreported(after) THEN others \cup {w} ELSE others
  BY <1>1
<1> HIDE DEF others
<1>7. Cardinality(Unreported(after)) =
        Cardinality(before) - One(w \in before) + One(w \in Unreported(after))
  <2>1. CASE w \in Unreported(after)
    <3>1. One(w \in Unreported(after)) = 1 /\ Unreported(after) = others \cup {w}
      BY <1>6, <2>1 DEF One
    <3> QED BY <1>2, <1>3, <1>5, <3>1
  <2>2. CASE w \notin Unreported(after)
    <3>1. One(w \in Unreported(after)) = 0 /\ Unreported(after) = others
      BY <1>6, <2>2 DEF One
    <3>2. One(w \in before) \in Int
      BY DEF One
    <3> QED BY <1>2, <1>3, <3>1, <3>2
  <2> QED BY <2>1, <2>2
<1> QED BY <1>1, <1>4, <1>7 DEF after, before

-----------------------------------------------------------------------------
(* The queue of requests of a session. *)

\* What is in a queue of at most two requests.
LEMMA QueueContents ==
  /\ \A op : ~Contains(<<>>, op)
  /\ \A a, op : Contains(<<a>>, op) <=> op = a
  /\ \A a, b, op : Contains(<<a, b>>, op) <=> op = a \/ op = b
<1>1. \A op : ~Contains(<<>>, op)
  BY DEF Contains
<1>2. ASSUME NEW a, NEW op PROVE Contains(<<a>>, op) <=> op = a
  <2>1. Len(<<a>>) = 1 /\ <<a>>[1] = a
    OBVIOUS
  <2> DEFINE q == <<a>>
  <2> HIDE DEF q
  <2>2. Len(q) = 1 /\ q[1] = a
    BY <2>1 DEF q
  <2>3. Contains(q, op) <=> op = a
    BY <2>2 DEF Contains
  <2> QED BY <2>3 DEF q
<1>3. ASSUME NEW a, NEW b, NEW op
      PROVE  Contains(<<a, b>>, op) <=> op = a \/ op = b
  <2> DEFINE q == <<a, b>>
  <2>1. Len(q) = 2 /\ q[1] = a /\ q[2] = b
    OBVIOUS
  <2> HIDE DEF q
  <2>2. 1 .. 2 = {1, 2}
    OBVIOUS
  <2>3. Contains(q, op) <=> op = a \/ op = b
    BY <2>1, <2>2 DEF Contains
  <2> QED BY <2>3 DEF q
<1> QED BY <1>1, <1>2, <1>3

(***************************************************************************)
(* A queue of at most two requests grows at its end and shrinks at its     *)
(* head.                                                                   *)
(***************************************************************************)
LEMMA QueueMoves ==
  /\ \A a : Append(<<>>, a) = <<a>>
  /\ \A a, b : Append(<<a>>, b) = <<a, b>>
  /\ \A a : Head(<<a>>) = a /\ Tail(<<a>>) = <<>>
  /\ \A a, b : Head(<<a, b>>) = a /\ Tail(<<a, b>>) = <<b>>
<1>1. \A a : Append(<<>>, a) = <<a>>
  OBVIOUS
<1>2. ASSUME NEW a, NEW b PROVE Append(<<a>>, b) = <<a, b>>
  <2> DEFINE s == Append(<<a>>, b)
             t == <<a, b>>
             S == {a, b}
  <2>0. <<a>> \in Seq(S) /\ b \in S
    OBVIOUS
  <2>1. s \in Seq(S) /\ Len(s) = 2 /\ s[1] = a /\ s[2] = b
    BY <2>0
  <2>2. t \in Seq(S) /\ Len(t) = 2 /\ t[1] = a /\ t[2] = b
    OBVIOUS
  <2> HIDE DEF s, t, S
  <2>3. \A i \in 1 .. 2 : s[i] = t[i]
    BY <2>1, <2>2
  <2>4. s = t
    BY <2>1, <2>2, <2>3
  <2> QED BY <2>4 DEF s, t
<1>3. \A a : Head(<<a>>) = a /\ Tail(<<a>>) = <<>>
  OBVIOUS
<1>4. ASSUME NEW a, NEW b PROVE Head(<<a, b>>) = a /\ Tail(<<a, b>>) = <<b>>
  <2> DEFINE s == Tail(<<a, b>>)
             t == <<b>>
             S == {a, b}
  <2>0. <<a, b>> \in Seq(S) /\ Len(<<a, b>>) = 2 /\ <<a, b>>[2] = b
    OBVIOUS
  <2>1. s \in Seq(S) /\ Len(s) = 1 /\ s[1] = b
    BY <2>0
  <2>2. t \in Seq(S) /\ Len(t) = 1 /\ t[1] = b
    OBVIOUS
  <2> HIDE DEF s, t, S
  <2>3. s = t
    BY <2>1, <2>2
  <2> QED BY <2>3 DEF s, t
<1> QED BY <1>1, <1>2, <1>3, <1>4

\* Queues of different lengths differ.
LEMMA QueuesDiffer ==
  /\ \A a : <<>> # <<a>>
  /\ \A a, b : <<>> # <<a, b>>
  /\ \A a, b : <<a>> = <<b>> <=> a = b
  /\ \A a, b, c : <<a>> # <<b, c>>
<1>1. \A a : Len(<<a>>) = 1
  OBVIOUS
<1>2. \A a, b : Len(<<a, b>>) = 2
  OBVIOUS
<1>3. Len(<<>>) = 0
  OBVIOUS
<1>4. \A a : <<a>>[1] = a
  OBVIOUS
<1> QED BY <1>1, <1>2, <1>3, <1>4

-----------------------------------------------------------------------------
(* A session, as it is asked, replies, and moves.                          *)

Idle(s) == \A op \in Operation : ~Awaits(s, op)

\* A fresh session awaits nothing.
LEMMA FreshShaped ==
  SessionShape(FreshSession) /\ FreshSession.view = FreshView /\ Idle(FreshSession)
<1> DEFINE s == FreshSession
<1>1. s.view = FreshView /\ s.requests = <<>> /\ s.replies = {}
  BY DEF FreshSession
<1>2. s \in ManagedSession
  BY DEF FreshSession, ManagedSession, FreshView, SessionView, Cause, EndCause
<1>3. /\ FreshView.extern = "ready" /\ FreshView.life = "running"
      /\ FreshView.waiting = FALSE /\ FreshView.stopping = FALSE
      /\ FreshView \in SessionView
  BY DEF FreshView, SessionView, Cause, EndCause
<1>4. <<>> \in RequestQueue
  BY DEF RequestQueue
<1>5. ViewShape(s.view)
  BY <1>1, <1>3 DEF ViewShape
<1>6. Idle(s)
  BY <1>1, <1>3, QueueContents DEF Idle, Awaits
<1>7. <<>> # <<"stop">>
  BY QueuesDiffer
<1> HIDE DEF s
<1>8. SessionShape(s)
  BY <1>1, <1>2, <1>3, <1>4, <1>5, <1>7, QueueContents DEF SessionShape, Replied
<1> QED BY <1>1, <1>6, <1>8 DEF s

(***************************************************************************)
(* What each queue of requests says of the session.                        *)
(***************************************************************************)
LEMMA QueueTells ==
  ASSUME NEW s, SessionShape(s)
  PROVE  /\ \/ s.requests = <<>> \/ s.requests = <<"wait">> \/ s.requests = <<"stop">>
            \/ s.requests = <<"start">> \/ s.requests = <<"start", "stop">>
            \/ s.requests = <<"wait", "stop">>
         /\ Contains(s.requests, "start") <=>
              s.requests = <<"start">> \/ s.requests = <<"start", "stop">>
         /\ Contains(s.requests, "wait") <=>
              s.requests = <<"wait">> \/ s.requests = <<"wait", "stop">>
         /\ Contains(s.requests, "stop") <=>
              \/ s.requests = <<"stop">> \/ s.requests = <<"start", "stop">>
              \/ s.requests = <<"wait", "stop">>
<1>1. s.requests \in RequestQueue
  BY DEF SessionShape
<1> QED BY <1>1, QueueContents, QueuesDiffer DEF RequestQueue

(***************************************************************************)
(* A request is made of a new session, of one that works and awaits        *)
(* nothing, or, for a stop, of one that was not yet asked to.              *)
(***************************************************************************)
Requestable(s, op) ==
  \/ op = "start" /\ s = FreshSession
  \/ op = "wait" /\ Idle(s) /\ s.view.extern = "work"
  \/ /\ op = "stop" /\ ~Awaits(s, "stop")
     /\ Contains(s.requests, "start") \/ s.view.extern = "work" \/ s.view = Failed

Requested(s, op) == [s EXCEPT !.requests = Append(@, op)]

(***************************************************************************)
(* A request that may be made is awaited from then on, and nothing else    *)
(* changes.                                                                *)
(***************************************************************************)
LEMMA RequestShaped ==
  ASSUME NEW s, SessionShape(s), NEW op \in Operation, Requestable(s, op)
  PROVE  /\ SessionShape(Requested(s, op)) /\ ~Awaits(s, op)
         /\ Requested(s, op).view = s.view /\ Requested(s, op).replies = s.replies
         /\ \A o \in Operation : Awaits(Requested(s, op), o) <=> Awaits(s, o) \/ o = op
<1> DEFINE t == Requested(s, op)
<1>1. s \in ManagedSession
  BY DEF SessionShape
<1>2. /\ t.view = s.view /\ t.replies = s.replies /\ t.requests = Append(s.requests, op)
      /\ t \in ManagedSession
  <2>1. s \in [view : SessionView, requests : Seq(Operation),
                replies : SUBSET (Operation \X ReplyError)]
    BY <1>1 DEF ManagedSession
  <2>2. Append(s.requests, op) \in Seq(Operation)
    BY <2>1
  <2> QED BY <2>1, <2>2 DEF Requested, ManagedSession
<1> HIDE DEF t
<1>3. CASE op = "start" /\ s = FreshSession
  <2>1. s.requests = <<>> /\ s.view = FreshView /\ s.replies = {}
    BY <1>3 DEF FreshSession
  <2>2. t.requests = <<"start">> /\ t.requests \in RequestQueue
    BY <1>2, <1>3, <2>1, QueueMoves DEF RequestQueue
  <2>3. SessionShape(t)
    BY <1>2, <2>1, <2>2, QueueContents, QueuesDiffer DEF SessionShape, Replied, FreshView
  <2>4. \A o \in Operation : Awaits(t, o) <=> Awaits(s, o) \/ o = op
    BY <1>2, <1>3, <2>1, <2>2, QueueContents DEF Awaits
  <2>5. ~Awaits(s, op)
    BY <1>3, FreshShaped DEF Idle
  <2> QED BY <1>2, <2>3, <2>4, <2>5 DEF t
<1>4. CASE op = "wait" /\ Idle(s) /\ s.view.extern = "work"
  <2>1. s.requests = <<>> /\ ~s.view.waiting /\ s.replies = {}
    <3>1. ~Awaits(s, "start") /\ ~Awaits(s, "wait") /\ ~Awaits(s, "stop")
      BY <1>4 DEF Idle, Operation
    <3>2. s.requests = <<>>
      BY <3>1, QueueTells DEF Awaits
    <3>3. \A r \in s.replies : r[1] \in Operation
      BY <1>1 DEF ManagedSession
    <3> QED BY <1>4, <3>1, <3>2, <3>3 DEF Awaits, Idle
  <2>2. t.requests = <<"wait">> /\ t.requests \in RequestQueue
    BY <1>2, <1>4, <2>1, QueueMoves DEF RequestQueue
  <2>3. SessionShape(t)
    BY <1>2, <1>4, <2>1, <2>2, QueueContents, QueuesDiffer DEF SessionShape, Replied
  <2>4. \A o \in Operation : Awaits(t, o) <=> Awaits(s, o) \/ o = op
    BY <1>2, <1>4, <2>1, <2>2, QueueContents DEF Awaits
  <2>5. ~Awaits(s, op)
    BY <1>4 DEF Idle
  <2> QED BY <1>2, <2>3, <2>4, <2>5 DEF t
<1>5. CASE /\ op = "stop" /\ ~Awaits(s, "stop")
           /\ Contains(s.requests, "start") \/ s.view.extern = "work" \/ s.view = Failed
  <2>1. ~Contains(s.requests, "stop") /\ ~Replied(s, "stop")
    BY <1>5 DEF Awaits, Replied
  <2>2. /\ s.requests = <<>> => t.requests = <<"stop">>
        /\ s.requests = <<"start">> => t.requests = <<"start", "stop">>
        /\ s.requests = <<"wait">> => t.requests = <<"wait", "stop">>
    BY <1>2, <1>5, QueueMoves
  <2>3. s.requests = <<>> \/ s.requests = <<"start">> \/ s.requests = <<"wait">>
    BY <2>1, QueueTells
  <2>4. t.requests \in RequestQueue
    BY <2>2, <2>3 DEF RequestQueue
  <2>5. /\ Contains(t.requests, "start") <=> Contains(s.requests, "start")
        /\ Contains(t.requests, "wait") <=> Contains(s.requests, "wait")
        /\ Contains(t.requests, "stop")
        /\ t.requests = <<"stop">> => ~Contains(s.requests, "start")
    <3>1. CASE s.requests = <<>>
      <4>1. t.requests = <<"stop">>
        BY <2>2, <3>1
      <4> QED BY <3>1, <4>1, QueueContents
    <3>2. CASE s.requests = <<"start">>
      <4>1. t.requests = <<"start", "stop">>
        BY <2>2, <3>2
      <4> QED BY <3>2, <4>1, QueueContents, QueuesDiffer
    <3>3. CASE s.requests = <<"wait">>
      <4>1. t.requests = <<"wait", "stop">>
        BY <2>2, <3>3
      <4> QED BY <3>3, <4>1, QueueContents, QueuesDiffer
    <3> QED BY <2>3, <3>1, <3>2, <3>3
  <2>6. SessionShape(t)
    BY <1>2, <1>5, <2>1, <2>4, <2>5 DEF SessionShape, Replied
  <2>7. \A o \in Operation : Awaits(t, o) <=> Awaits(s, o) \/ o = op
    BY <1>2, <1>5, <2>5 DEF Awaits, Operation
  <2> QED BY <1>2, <1>5, <2>6, <2>7 DEF t
<1> QED BY <1>3, <1>4, <1>5 DEF Requestable

(***************************************************************************)
(* A reply that reaches the manager is awaited, and is the only one.       *)
(***************************************************************************)
Unposted(s, reply) == [s EXCEPT !.replies = @ \ {reply}]

(***************************************************************************)
(* A reply that reaches the manager is awaited, and is the only one of its *)
(* operation.                                                              *)
(***************************************************************************)
LEMMA ReplyShaped ==
  ASSUME NEW s, SessionShape(s), NEW reply \in s.replies
  PROVE  /\ SessionShape(Unposted(s, reply))
         /\ Unposted(s, reply).view = s.view
         /\ reply[1] \in Operation /\ Awaits(s, reply[1])
         /\ \A o \in Operation :
              Awaits(Unposted(s, reply), o) <=> Awaits(s, o) /\ o # reply[1]
<1> DEFINE t == Unposted(s, reply)
<1>1. s \in ManagedSession /\ reply[1] \in Operation /\ reply[2] \in ReplyError
  BY DEF SessionShape, ManagedSession
<1>2. /\ t.view = s.view /\ t.requests = s.requests /\ t.replies = s.replies \ {reply}
      /\ t \in ManagedSession
  BY <1>1 DEF Unposted, ManagedSession
<1> HIDE DEF t
<1>3. SessionShape(t)
  BY <1>2 DEF SessionShape, Replied
<1>4. ~Contains(s.requests, reply[1])
  BY <1>1, QueueTells DEF SessionShape, Replied, Operation
<1>5. /\ reply[1] = "wait" => ~s.view.waiting
      /\ reply[1] = "stop" => ~s.view.stopping
  BY DEF SessionShape, ViewShape, Replied
<1>6. \A r \in s.replies : r[1] = reply[1] => r = reply
  BY DEF SessionShape
<1>7. \A o \in Operation : Awaits(t, o) <=> Awaits(s, o) /\ o # reply[1]
  BY <1>2, <1>4, <1>5, <1>6 DEF Awaits
<1>8. Awaits(s, reply[1])
  BY DEF Awaits
<1> QED BY <1>1, <1>2, <1>3, <1>7, <1>8 DEF t

(***************************************************************************)
(* The outcomes of the contract, as far as the manager depends on them.    *)
(***************************************************************************)
LEMMA StartGives ==
  ASSUME NEW o \in StartOutcomes(FreshView)
  PROVE  /\ ViewShape(o.view) /\ ~o.view.waiting /\ ~o.view.stopping
         /\ \/ o.view.extern = "work" /\ o.replies = {<<"start", "none">>}
            \/ o.view = Failed /\ o.replies = {<<"start", "error">>}
<1>1. FreshView.extern = "ready"
  BY DEF FreshView
<1>2. \/ o = Outcome([FreshView EXCEPT !.extern = "work"], {<<"start", "none">>})
      \/ o = Outcome([FreshView EXCEPT !.extern = "work", !.life = "ending",
                                       !.cause = "error"], {<<"start", "none">>})
      \/ o = Outcome([FreshView EXCEPT !.extern = "stopped", !.life = "ended"],
                     {<<"start", "error">>})
  BY <1>1 DEF StartOutcomes
<1> DEFINE started == [FreshView EXCEPT !.extern = "work"]
           failing == [FreshView EXCEPT !.extern = "work", !.life = "ending",
                                        !.cause = "error"]
<1>3. \/ o.view = started /\ o.replies = {<<"start", "none">>}
      \/ o.view = failing /\ o.replies = {<<"start", "none">>}
      \/ o.view = Failed /\ o.replies = {<<"start", "error">>}
  BY <1>2 DEF Outcome, Failed
<1>4. /\ started \in SessionView /\ failing \in SessionView /\ Failed \in SessionView
      /\ started.extern = "work" /\ failing.extern = "work" /\ Failed.extern = "stopped"
      /\ \A v \in {started, failing, Failed} : v.waiting = FALSE /\ v.stopping = FALSE
  BY DEF FreshView, Failed, SessionView, Cause, EndCause
<1> HIDE DEF started, failing
<1>5. ViewShape(started) /\ ViewShape(failing) /\ ViewShape(Failed)
  BY <1>4 DEF ViewShape
<1> QED BY <1>3, <1>4, <1>5

\* The contract of a wait: it is parked or answered, and the work goes on.
LEMMA WaitGives ==
  ASSUME NEW v, ViewShape(v), v.extern = "work", ~v.waiting, NEW o \in WaitOutcomes(v)
  PROVE  /\ ViewShape(o.view) /\ o.view.extern = "work" /\ ~o.view.stopping
         /\ \/ o.view.waiting /\ o.replies = {}
            \/ /\ ~o.view.waiting
               /\ \E cause \in Cause : o.replies = {<<"wait", cause>>}
<1>1. v \in SessionView /\ v.stopping = FALSE
  BY DEF ViewShape, SessionView
<1>2. \/ o = Outcome(v, {<<"wait", v.cause>>})
      \/ o = Outcome([v EXCEPT !.waiting = TRUE], {})
  BY DEF WaitOutcomes
<1>3. CASE o = Outcome(v, {<<"wait", v.cause>>})
  <2>1. o.view = v /\ o.replies = {<<"wait", v.cause>>}
    BY <1>3 DEF Outcome
  <2> QED BY <1>1, <2>1 DEF SessionView
<1>4. CASE o = Outcome([v EXCEPT !.waiting = TRUE], {})
  <2> DEFINE u == [v EXCEPT !.waiting = TRUE]
  <2>1. o.view = u /\ o.replies = {}
    BY <1>4 DEF Outcome
  <2>2. /\ u \in SessionView /\ u.extern = v.extern /\ u.life = v.life
        /\ u.waiting = TRUE /\ u.stopping = v.stopping
    BY <1>1 DEF SessionView
  <2> HIDE DEF u
  <2>3. ViewShape(u)
    BY <1>1, <2>2 DEF ViewShape, FreshView
  <2> QED BY <1>1, <2>1, <2>2, <2>3
<1> QED BY <1>2, <1>3, <1>4

\* A stop of a session whose start failed is refused.
LEMMA RefusedStop ==
  ASSUME NEW o \in StopOutcomes(Failed)
  PROVE  o.view = Failed /\ o.replies = {<<"stop", "invalid_state">>}
BY DEF StopOutcomes, Failed, FreshView, Outcome

(***************************************************************************)
(* The contract of a stop: the parked wait is answered, and the stop is    *)
(* answered or parked.                                                     *)
(***************************************************************************)
LEMMA StopGives ==
  ASSUME NEW v, ViewShape(v), v.extern = "work", NEW o \in StopOutcomes(v)
  PROVE  /\ ViewShape(o.view) /\ ~o.view.waiting
         /\ \E told : /\ told = {} \/ \E cause \in Cause : told = {<<"wait", cause>>}
                      /\ told # {} <=> v.waiting
                      /\ \/ /\ o.view.extern = "stopped" /\ ~o.view.stopping
                            /\ o.replies = told \cup {<<"stop", "none">>}
                         \/ /\ o.view.extern = "stop" /\ o.view.stopping
                            /\ o.replies = told
<1> DEFINE cause == IF v.cause = "none" THEN "operation_aborted" ELSE v.cause
           left  == [v EXCEPT !.waiting = FALSE, !.cause = cause]
           told  == WaitReply(v, cause)
           ended(life)  == [left EXCEPT !.extern = "stopped", !.life = life]
           ending(life) == [left EXCEPT !.extern = "stop", !.life = life,
                                        !.stopping = TRUE]
<1>1. v \in SessionView /\ v.stopping = FALSE
  BY DEF ViewShape, SessionView
<1>2. cause \in Cause
  BY <1>1 DEF SessionView, Cause
<1>3. PICK life \in {"running", "ending", "ended"} :
        /\ life # "running"
        /\ o = IF life = "ended" THEN Outcome(ended(life), told \cup {<<"stop", "none">>})
                                 ELSE Outcome(ending(life), told)
  <2> DEFINE lives == IF v.life = "running" THEN {"ending", "ended"} ELSE {v.life}
             outcome(life) ==
               IF life = "ended" THEN Outcome(ended(life), told \cup {<<"stop", "none">>})
                                 ELSE Outcome(ending(life), told)
  <2>1. StopOutcomes(v) = {outcome(life) : life \in lives}
    BY DEF StopOutcomes
  <2> HIDE DEF outcome
  <2>2. PICK life \in lives : o = outcome(life)
    BY <2>1
  <2>3. life \in {"running", "ending", "ended"} /\ life # "running"
    BY <1>1 DEF SessionView
  <2> QED BY <2>2, <2>3 DEF outcome
<1> HIDE DEF cause
<1>4. /\ left \in SessionView /\ left.waiting = FALSE /\ left.stopping = FALSE
  BY <1>1, <1>2 DEF SessionView
<1>5. /\ told = {} \/ told = {<<"wait", cause>>}
      /\ told # {} <=> v.waiting
  BY <1>1 DEF WaitReply
<1> HIDE DEF left, told
<1>6. CASE life = "ended"
  <2>1. o.view = ended(life) /\ o.replies = told \cup {<<"stop", "none">>}
    BY <1>3, <1>6 DEF Outcome
  <2>2. /\ ended(life) \in SessionView /\ ended(life).extern = "stopped"
        /\ ended(life).waiting = FALSE /\ ended(life).stopping = FALSE
    BY <1>4 DEF SessionView
  <2>3. ViewShape(ended(life))
    BY <2>2 DEF ViewShape
  <2> HIDE DEF ended
  <2> QED BY <1>2, <1>5, <2>1, <2>2, <2>3
<1>7. CASE life # "ended"
  <2>1. o.view = ending(life) /\ o.replies = told
    BY <1>3, <1>7 DEF Outcome
  <2>2. /\ ending(life) \in SessionView /\ ending(life).extern = "stop"
        /\ ending(life).life = "ending"
        /\ ending(life).waiting = FALSE /\ ending(life).stopping = TRUE
    BY <1>3, <1>4, <1>7 DEF SessionView
  <2>3. ViewShape(ending(life))
    BY <2>2 DEF ViewShape
  <2> HIDE DEF ending
  <2> QED BY <1>2, <1>5, <2>1, <2>2, <2>3
<1> QED BY <1>6, <1>7

Gone(v, life, cause) ==
  Outcome([v EXCEPT !.life = life, !.cause = cause, !.waiting = FALSE],
          WaitReply(v, cause))

\* What a working session may still do by itself.
LEMMA WorkLeft ==
  ASSUME NEW v \in SessionView, NEW causes, v.extern = "work", v.life = "running"
  PROVE  InternalOutcomes(v, causes) =
           {Gone(v, life, cause) : life \in {"ending", "ended"}, cause \in causes}
BY DEF InternalOutcomes, Gone

\* A session that has ended does nothing by itself.
LEMMA NothingLeftAtWork ==
  ASSUME NEW v \in SessionView, NEW causes, v.extern = "work", v.life = "ended"
  PROVE  InternalOutcomes(v, causes) = {}
BY DEF InternalOutcomes, Outcome, WaitReply, SessionView

\* A stop completes by itself only while the session ends.
LEMMA NothingLeftAtStop ==
  ASSUME NEW v \in SessionView, NEW causes, v.extern = "stop", v.life # "ending"
  PROVE  InternalOutcomes(v, causes) = {}
BY DEF InternalOutcomes, Outcome, WaitReply, SessionView

\* A session that neither works nor stops does nothing by itself.
LEMMA NothingLeft ==
  ASSUME NEW v \in SessionView, NEW causes,
         v.extern # "work", v.extern # "stop"
  PROVE  InternalOutcomes(v, causes) = {}
BY DEF InternalOutcomes, Outcome, WaitReply, SessionView

(***************************************************************************)
(* What a session does by itself: the wait is answered, the work ends, or  *)
(* the stop completes.                                                     *)
(***************************************************************************)
LEMMA InternalGives ==
  ASSUME NEW v, ViewShape(v), NEW causes \in SUBSET Cause,
         NEW o \in InternalOutcomes(v, causes)
  PROVE  /\ ViewShape(o.view) /\ v.extern \in {"work", "stop"}
         /\ \/ /\ o.view.extern = "work" /\ v.extern = "work" /\ ~o.view.waiting
               /\ v.waiting /\ \E cause \in Cause : o.replies = {<<"wait", cause>>}
            \/ /\ o.view.extern = "work" /\ v.extern = "work"
               /\ o.view.waiting = v.waiting /\ o.replies = {}
            \/ /\ v.extern = "stop" /\ o.view.extern = "stopped"
               /\ ~o.view.waiting /\ o.replies = {<<"stop", "none">>}
<1>1. v \in SessionView
  BY DEF ViewShape
<1>2. CASE v.extern = "work" /\ v.life = "running"
  <2>1. PICK life \in {"ending", "ended"}, cause \in causes :
          o = Outcome([v EXCEPT !.life = life, !.cause = cause, !.waiting = FALSE],
                      WaitReply(v, cause))
    <3>1. PICK life \in {"ending", "ended"}, cause \in causes : o = Gone(v, life, cause)
      BY <1>1, <1>2, WorkLeft
    <3> QED BY <3>1 DEF Gone
  <2> DEFINE u == [v EXCEPT !.life = life, !.cause = cause, !.waiting = FALSE]
  <2>2. o.view = u /\ o.replies = WaitReply(v, cause)
    BY <2>1 DEF Outcome
  <2>3. /\ u \in SessionView /\ u.extern = v.extern
        /\ u.waiting = FALSE /\ u.stopping = v.stopping
    BY <1>1, <2>1 DEF SessionView
  <2> HIDE DEF u
  <2>4. ViewShape(u)
    BY <1>2, <2>3 DEF ViewShape
  <2>5. o.replies = IF v.waiting THEN {<<"wait", cause>>} ELSE {}
    BY <2>2 DEF WaitReply
  <2>6. v.waiting \in BOOLEAN
    BY <1>1 DEF SessionView
  <2> QED BY <1>2, <2>2, <2>3, <2>4, <2>5, <2>6
<1>3. CASE v.extern = "work" /\ v.life = "ending"
  <2> DEFINE u == [v EXCEPT !.life = "ended"]
  <2>1. o.view = u /\ o.replies = {}
    BY <1>3 DEF InternalOutcomes, Outcome
  <2>2. /\ u \in SessionView /\ u.extern = v.extern
        /\ u.waiting = v.waiting /\ u.stopping = v.stopping
    BY <1>1 DEF SessionView
  <2> HIDE DEF u
  <2>3. ViewShape(u)
    BY <1>3, <2>2 DEF ViewShape
  <2> QED BY <1>3, <2>1, <2>2, <2>3
<1>4. CASE v.extern = "stop" /\ v.life = "ending"
  <2> DEFINE left == [v EXCEPT !.life = "ended"]
             u == [left EXCEPT !.extern = "stopped", !.stopping = FALSE]
  <2>1. o = Outcome(u, {<<"stop", "none">>})
    BY <1>4 DEF InternalOutcomes
  <2>2. o.view = u /\ o.replies = {<<"stop", "none">>}
    BY <2>1 DEF Outcome
  <2>3. left \in SessionView /\ left.waiting = v.waiting
    BY <1>1 DEF SessionView
  <2> HIDE DEF left
  <2>4. /\ u \in SessionView /\ u.extern = "stopped"
        /\ u.waiting = v.waiting /\ u.stopping = FALSE
    BY <2>3 DEF SessionView
  <2> HIDE DEF u
  <2>5. ViewShape(u) /\ ~u.waiting
    BY <1>4, <2>4 DEF ViewShape
  <2> QED BY <1>4, <2>2, <2>4, <2>5
<1>5. \/ v.extern = "work" /\ v.life = "running"
      \/ v.extern = "work" /\ v.life = "ending"
      \/ v.extern = "stop" /\ v.life = "ending"
  <2>1. CASE v.extern = "work" /\ v.life = "ended"
    BY <1>1, <2>1, NothingLeftAtWork
  <2>2. CASE v.extern = "stop" /\ v.life # "ending"
    BY <1>1, <2>2, NothingLeftAtStop
  <2>3. CASE v.extern # "work" /\ v.extern # "stop"
    BY <1>1, <2>3, NothingLeft
  <2> QED BY <1>1, <2>1, <2>2, <2>3 DEF SessionView
<1> QED BY <1>2, <1>3, <1>4, <1>5

(***************************************************************************)
(* The queue of a session as its first request is run.                     *)
(***************************************************************************)
LEMMA QueueTyped ==
  ASSUME NEW q \in RequestQueue
  PROVE  q \in Seq(Operation)
<1>1. "start" \in Operation /\ "wait" \in Operation /\ "stop" \in Operation
  BY DEF Operation
<1>2. \A a \in Operation : <<a>> \in Seq(Operation)
  OBVIOUS
<1>3. \A a, b \in Operation : <<a, b>> \in Seq(Operation)
  OBVIOUS
<1>4. <<>> \in Seq(Operation)
  OBVIOUS
<1> HIDE DEF Operation
<1>5. \/ q = <<>> \/ q = <<"wait">> \/ q = <<"stop">>
      \/ q = <<"start">> \/ q = <<"start", "stop">> \/ q = <<"wait", "stop">>
  BY DEF RequestQueue
<1> QED BY <1>1, <1>2, <1>3, <1>4, <1>5

\* Only a stop can be behind another request.
LEMMA QueueRuns ==
  ASSUME NEW s, SessionShape(s), s.requests # <<>>
  PROVE  LET head == Head(s.requests)
             rest == Tail(s.requests)
         IN  /\ head \in Operation /\ rest \in RequestQueue
             /\ rest = <<>> \/ rest = <<"stop">>
             /\ Contains(s.requests, "start") <=> head = "start"
             /\ Contains(s.requests, "wait") <=> head = "wait"
             /\ ~Contains(rest, "start") /\ ~Contains(rest, "wait")
             /\ Contains(rest, "stop") <=> Contains(s.requests, "stop") /\ head # "stop"
             /\ head = "stop" => /\ s.requests = <<"stop">> /\ rest = <<>>
                                 /\ Contains(s.requests, "stop")
<1> DEFINE q == s.requests
           head == Head(q)
           rest == Tail(q)
<1>1. \/ q = <<"wait">> \/ q = <<"stop">>
      \/ q = <<"start">> \/ q = <<"start", "stop">> \/ q = <<"wait", "stop">>
  BY QueueTells
<1>2. <<>> \in RequestQueue /\ <<"stop">> \in RequestQueue
  BY DEF RequestQueue
<1>3. "start" \in Operation /\ "wait" \in Operation /\ "stop" \in Operation
  BY DEF Operation
<1>4. ~Contains(<<>>, "start") /\ ~Contains(<<>>, "wait") /\ ~Contains(<<>>, "stop")
  BY QueueContents
<1>5. ~Contains(<<"stop">>, "start") /\ ~Contains(<<"stop">>, "wait")
      /\ Contains(<<"stop">>, "stop")
  BY QueueContents
<1> HIDE DEF q
<1>6. CASE q = <<"wait">>
  <2>1. head = "wait" /\ rest = <<>>
    BY <1>6, QueueMoves
  <2>2. Contains(q, "wait") /\ ~Contains(q, "start") /\ ~Contains(q, "stop")
    BY <1>6, QueueContents
  <2> QED BY <2>1, <2>2, <1>2, <1>3, <1>4 DEF q
<1>7. CASE q = <<"start">>
  <2>1. head = "start" /\ rest = <<>>
    BY <1>7, QueueMoves
  <2>2. Contains(q, "start") /\ ~Contains(q, "wait") /\ ~Contains(q, "stop")
    BY <1>7, QueueContents
  <2> QED BY <2>1, <2>2, <1>2, <1>3, <1>4 DEF q
<1>8. CASE q = <<"stop">>
  <2>1. head = "stop" /\ rest = <<>>
    BY <1>8, QueueMoves
  <2> QED BY <1>8, <2>1, <1>2, <1>3, <1>4, <1>5 DEF q
<1>9. CASE q = <<"start", "stop">>
  <2>1. head = "start" /\ rest = <<"stop">>
    BY <1>9, QueueMoves
  <2>2. Contains(q, "start") /\ ~Contains(q, "wait") /\ Contains(q, "stop")
    BY <1>9, QueueContents
  <2> QED BY <2>1, <2>2, <1>2, <1>3, <1>5 DEF q
<1>10. CASE q = <<"wait", "stop">>
  <2>1. head = "wait" /\ rest = <<"stop">>
    BY <1>10, QueueMoves
  <2>2. Contains(q, "wait") /\ ~Contains(q, "start") /\ Contains(q, "stop")
    BY <1>10, QueueContents
  <2> QED BY <2>1, <2>2, <1>2, <1>3, <1>5 DEF q
<1> QED BY <1>1, <1>6, <1>7, <1>8, <1>9, <1>10

\* What it is to await a start, a wait and a stop.
LEMMA AwaitsEach ==
  ASSUME NEW s
  PROVE  /\ Awaits(s, "start") <=> Contains(s.requests, "start") \/ Replied(s, "start")
         /\ Awaits(s, "wait") <=>
              Contains(s.requests, "wait") \/ s.view.waiting \/ Replied(s, "wait")
         /\ Awaits(s, "stop") <=>
              Contains(s.requests, "stop") \/ s.view.stopping \/ Replied(s, "stop")
<1> DEFINE waiting == s.view.waiting
           stopping == s.view.stopping
<1>1. \A op : Awaits(s, op) <=> \/ Contains(s.requests, op)
                                \/ op = "wait" /\ waiting
                                \/ op = "stop" /\ stopping
                                \/ Replied(s, op)
  BY Zenon DEF Awaits, Replied
<1>2. Awaits(s, "start") <=> Contains(s.requests, "start") \/ Replied(s, "start")
  <2>1. "start" # "wait" /\ "start" # "stop"
    OBVIOUS
  <2> QED BY <1>1, <2>1, Zenon
<1>3. Awaits(s, "wait") <=>
        Contains(s.requests, "wait") \/ waiting \/ Replied(s, "wait")
  <2>1. "wait" # "stop"
    OBVIOUS
  <2> QED BY <1>1, <2>1, Zenon
<1>4. Awaits(s, "stop") <=>
        Contains(s.requests, "stop") \/ stopping \/ Replied(s, "stop")
  <2>1. "wait" # "stop"
    OBVIOUS
  <2> QED BY <1>1, <2>1, Zenon
<1> QED BY <1>2, <1>3, <1>4

\* The fields of a fresh session and of one whose start has failed.
LEMMA PlainViews ==
  /\ FreshView.extern = "ready" /\ FreshView.life = "running"
  /\ ~FreshView.waiting /\ ~FreshView.stopping
  /\ Failed.extern = "stopped" /\ Failed.life = "ended"
  /\ ~Failed.waiting /\ ~Failed.stopping
  /\ FreshSession.view = FreshView /\ FreshSession.requests = <<>>
  /\ FreshSession.replies = {}
<1>1. /\ FreshView.extern = "ready" /\ FreshView.life = "running"
      /\ ~FreshView.waiting /\ ~FreshView.stopping
  BY DEF FreshView
<1>2. /\ Failed.extern = "stopped" /\ Failed.life = "ended"
      /\ ~Failed.waiting /\ ~Failed.stopping
  BY DEF FreshView, Failed
<1>3. /\ FreshSession.view = FreshView /\ FreshSession.requests = <<>>
      /\ FreshSession.replies = {}
  BY DEF FreshSession
<1> QED BY <1>1, <1>2, <1>3

\* The operations replied to, when there is one reply.
LEMMA RepliedOnly ==
  ASSUME NEW t, NEW r, t.replies = {r}
  PROVE  \A op : Replied(t, op) <=> op = r[1]
BY DEF Replied

\* The operations replied to, with one reply more.
LEMMA RepliedAdds ==
  ASSUME NEW t, NEW replies, NEW r, t.replies = replies \cup {r}
  PROVE  \A op : Replied(t, op) <=> (\E reply \in replies : reply[1] = op) \/ op = r[1]
BY DEF Replied

(***************************************************************************)
(* A session that moves by itself keeps what its manager relies on: it     *)
(* agrees with the state of its wrapper, and awaits what it did.           *)
(***************************************************************************)
Kept(s, t) ==
  /\ SessionShape(t)
  /\ \A op \in Operation : Awaits(t, op) <=> Awaits(s, op)
  /\ \A state : SlotShape(state, s) => SlotShape(state, t)

Ran(s, o) == [view |-> o.view, requests |-> Tail(s.requests),
              replies |-> s.replies \cup o.replies]

\* Running a start keeps what the manager relies on.
LEMMA StartRunShaped ==
  ASSUME NEW s, SessionShape(s), NEW o \in StartOutcomes(s.view),
         s.requests # <<>>, Head(s.requests) = "start"
  PROVE  Kept(s, Ran(s, o))
<1> DEFINE t == Ran(s, o)
<1>1. t.view = o.view /\ t.requests = Tail(s.requests) /\ t.replies = s.replies \cup o.replies
      /\ t = [view |-> t.view, requests |-> t.requests, replies |-> t.replies]
  BY DEF Ran
<1>2. /\ t.requests \in RequestQueue
      /\ ~Contains(t.requests, "start") /\ ~Contains(t.requests, "wait")
      /\ Contains(t.requests, "stop") <=> Contains(s.requests, "stop")
  BY <1>1, QueueRuns
<1>3. Contains(s.requests, "start") /\ ~Contains(s.requests, "wait")
  BY QueueRuns
<1>4. s.view = FreshView /\ s.replies = {} /\ ~s.view.waiting /\ ~s.view.stopping
  BY <1>3, PlainViews DEF SessionShape
<1>5. /\ ViewShape(t.view) /\ ~t.view.waiting /\ ~t.view.stopping
      /\ \/ t.view.extern = "work" /\ t.replies = {<<"start", "none">>}
         \/ t.view = Failed /\ t.replies = {<<"start", "error">>}
  BY <1>1, <1>4, StartGives
<1>6. Failed.extern = "stopped"
  BY PlainViews
<1> HIDE DEF t
<1>8. t \in ManagedSession
  <2>1. t.view \in SessionView
    BY <1>5 DEF ViewShape
  <2>2. t.replies \in SUBSET (Operation \X ReplyError)
    BY <1>5 DEF Operation, ReplyError, Cause, EndCause
  <2> QED BY <1>1, <1>2, <2>1, <2>2, QueueTyped DEF ManagedSession
<1>10. SessionShape(t)
  BY <1>5, <1>6, <1>2, <1>8, <1>2 DEF SessionShape, Replied
<1>11. /\ Awaits(t, "start") /\ Awaits(s, "start")
       /\ ~Awaits(t, "wait") /\ ~Awaits(s, "wait")
       /\ Awaits(t, "stop") <=> Awaits(s, "stop")
  <2>1. Replied(t, "start") /\ ~Replied(t, "wait") /\ ~Replied(t, "stop")
    <3>1. PICK error : t.replies = {<<"start", error>>}
      BY <1>5
    <3>2. \A op : Replied(t, op) <=> op = "start"
      <4>1. <<"start", error>>[1] = "start"
        OBVIOUS
      <4> QED BY <3>1, <4>1, RepliedOnly, Zenon
    <3> QED BY <3>2
  <2>2. ~Replied(s, "start") /\ ~Replied(s, "wait") /\ ~Replied(s, "stop")
    BY <1>4 DEF Replied
  <2> QED BY <1>2, <1>3, <1>4, <1>5, <2>1, <2>2, AwaitsEach
<1>12. \A op \in Operation : Awaits(t, op) <=> Awaits(s, op)
  BY <1>11 DEF Operation
<1>13. s # FreshSession /\ s.view.extern # "stopped" /\ s.view.extern # "work"
  BY <1>4, PlainViews
<1>14. t.view.extern = "stopped" => <<"start", "error">> \in t.replies
  BY <1>5
<1>15. ASSUME NEW state, SlotShape(state, s) PROVE SlotShape(state, t)
  BY <1>12, <1>13, <1>14, <1>15 DEF SlotShape, AwaitsOnly, Operation
<1> QED BY <1>10, <1>12, <1>15 DEF t, Kept

\* Running a wait keeps what the manager relies on.
LEMMA WaitRunShaped ==
  ASSUME NEW s, SessionShape(s), NEW o \in WaitOutcomes(s.view),
         s.requests # <<>>, Head(s.requests) = "wait"
  PROVE  Kept(s, Ran(s, o))
<1> DEFINE t == Ran(s, o)
<1>1. t.view = o.view /\ t.requests = Tail(s.requests) /\ t.replies = s.replies \cup o.replies
      /\ t = [view |-> t.view, requests |-> t.requests, replies |-> t.replies]
  BY DEF Ran
<1>2. /\ t.requests \in RequestQueue
      /\ ~Contains(t.requests, "start") /\ ~Contains(t.requests, "wait")
      /\ Contains(t.requests, "stop") <=> Contains(s.requests, "stop")
  BY <1>1, QueueRuns
<1>3. Contains(s.requests, "wait") /\ ~Contains(s.requests, "start")
  BY QueueRuns
<1>4. s.view.extern = "work" /\ s.replies = {} /\ ~s.view.waiting /\ ~s.view.stopping
      /\ ViewShape(s.view)
  BY <1>3 DEF SessionShape, ViewShape
<1>5. /\ ViewShape(t.view) /\ t.view.extern = "work" /\ ~t.view.stopping
      /\ \/ t.view.waiting /\ t.replies = {}
         \/ /\ ~t.view.waiting
            /\ \E cause \in Cause : t.replies = {<<"wait", cause>>}
  BY <1>1, <1>4, WaitGives
<1> HIDE DEF t
<1>6. "invalid_state" \notin Cause
  BY DEF Cause, EndCause
<1>8. t \in ManagedSession
  <2>1. t.view \in SessionView
    BY <1>5 DEF ViewShape
  <2>2. t.replies \in SUBSET (Operation \X ReplyError)
    BY <1>5 DEF Operation, ReplyError
  <2> QED BY <1>1, <1>2, <2>1, <2>2, QueueTyped DEF ManagedSession
<1>10. SessionShape(t)
  BY <1>5, <1>6, <1>2, <1>8, <1>2 DEF SessionShape, Replied
<1>11. /\ ~Awaits(t, "start") /\ ~Awaits(s, "start")
       /\ Awaits(t, "wait") /\ Awaits(s, "wait")
       /\ Awaits(t, "stop") <=> Awaits(s, "stop")
  <2>1. ~Replied(t, "start") /\ (t.view.waiting \/ Replied(t, "wait"))
        /\ ~Replied(t, "stop")
    <3>1. CASE t.view.waiting /\ t.replies = {}
      BY <3>1 DEF Replied
    <3>2. CASE \E cause \in Cause : t.replies = {<<"wait", cause>>}
      <4>1. PICK error : t.replies = {<<"wait", error>>}
        BY <3>2
      <4>2. \A op : Replied(t, op) <=> op = "wait"
        <5>1. <<"wait", error>>[1] = "wait"
          OBVIOUS
        <5> QED BY <4>1, <5>1, RepliedOnly, Zenon
      <4> QED BY <4>2
    <3> QED BY <1>5, <3>1, <3>2
  <2>2. ~Replied(s, "start") /\ ~Replied(s, "wait") /\ ~Replied(s, "stop")
    BY <1>4 DEF Replied
  <2> QED BY <1>2, <1>3, <1>4, <1>5, <2>1, <2>2, AwaitsEach
<1>12. \A op \in Operation : Awaits(t, op) <=> Awaits(s, op)
  BY <1>11 DEF Operation
<1>13. s # FreshSession
  BY PlainViews
<1>15. ASSUME NEW state, SlotShape(state, s) PROVE SlotShape(state, t)
  BY <1>4, <1>5, <1>12, <1>13, <1>15 DEF SlotShape, AwaitsOnly, Operation
<1> QED BY <1>10, <1>12, <1>15 DEF t, Kept

\* Running a stop keeps what the manager relies on.
LEMMA StopRunShaped ==
  ASSUME NEW s, SessionShape(s), NEW o \in StopOutcomes(s.view),
         s.requests # <<>>, Head(s.requests) = "stop"
  PROVE  Kept(s, Ran(s, o))
<1> DEFINE t == Ran(s, o)
<1>1. t.view = o.view /\ t.requests = Tail(s.requests) /\ t.replies = s.replies \cup o.replies
      /\ t = [view |-> t.view, requests |-> t.requests, replies |-> t.replies]
  BY DEF Ran
<1>2. s.requests = <<"stop">> /\ t.requests = <<>>
  BY <1>1, QueueRuns
<1>3. /\ Contains(s.requests, "stop") /\ ~Contains(s.requests, "start")
      /\ ~Contains(s.requests, "wait")
  BY <1>2, QueueContents
<1>4. /\ s.view.extern = "work" \/ s.view = Failed
      /\ ~Replied(s, "stop") /\ ViewShape(s.view) /\ s \in ManagedSession
  BY <1>2 DEF SessionShape
<1>5. Failed.extern = "stopped" /\ ~Failed.waiting /\ ~Failed.stopping
  BY PlainViews
<1>6. /\ ViewShape(t.view) /\ ~t.view.waiting
      /\ \E told :
           /\ told = {} \/ \E cause \in Cause : told = {<<"wait", cause>>}
           /\ told # {} <=> s.view.waiting
           /\ \/ /\ s.view = Failed /\ t.view = Failed
                 /\ t.replies = s.replies \cup told \cup {<<"stop", "invalid_state">>}
              \/ /\ s.view.extern = "work" /\ t.view.extern = "stopped"
                 /\ ~t.view.stopping
                 /\ t.replies = s.replies \cup told \cup {<<"stop", "none">>}
              \/ /\ s.view.extern = "work" /\ t.view.extern = "stop" /\ t.view.stopping
                 /\ t.replies = s.replies \cup told
  <2>1. CASE s.view = Failed
    <3>1. t.view = Failed /\ t.replies = s.replies \cup {<<"stop", "invalid_state">>}
      BY <1>1, <2>1, RefusedStop
    <3>2. s.replies \cup {<<"stop", "invalid_state">>}
            = s.replies \cup {} \cup {<<"stop", "invalid_state">>}
      OBVIOUS
    <3> HIDE DEF t
    <3>3. ViewShape(t.view) /\ ~t.view.waiting /\ ~s.view.waiting
      BY <1>4, <1>5, <2>1, <3>1
    <3> QED BY <2>1, <3>1, <3>2, <3>3
  <2>2. CASE s.view.extern = "work"
    <3>1. PICK told : /\ told = {} \/ \E cause \in Cause : told = {<<"wait", cause>>}
                      /\ told # {} <=> s.view.waiting
                      /\ \/ /\ o.view.extern = "stopped" /\ ~o.view.stopping
                            /\ o.replies = told \cup {<<"stop", "none">>}
                         \/ /\ o.view.extern = "stop" /\ o.view.stopping
                            /\ o.replies = told
      BY <1>4, <2>2, StopGives
    <3>2. ViewShape(t.view) /\ ~t.view.waiting
      BY <1>1, <1>4, <2>2, StopGives
    <3>3. \/ /\ t.view.extern = "stopped" /\ ~t.view.stopping
             /\ t.replies = s.replies \cup told \cup {<<"stop", "none">>}
          \/ /\ t.view.extern = "stop" /\ t.view.stopping
             /\ t.replies = s.replies \cup told
      BY <1>1, <3>1
    <3> HIDE DEF t
    <3> QED BY <2>2, <3>1, <3>2, <3>3
  <2> QED BY <1>4, <2>1, <2>2
<1> HIDE DEF t
<1>7. PICK told :
           /\ told = {} \/ \E cause \in Cause : told = {<<"wait", cause>>}
           /\ told # {} <=> s.view.waiting
           /\ \/ /\ s.view = Failed /\ t.view = Failed
                 /\ t.replies = s.replies \cup told \cup {<<"stop", "invalid_state">>}
              \/ /\ s.view.extern = "work" /\ t.view.extern = "stopped"
                 /\ ~t.view.stopping
                 /\ t.replies = s.replies \cup told \cup {<<"stop", "none">>}
              \/ /\ s.view.extern = "work" /\ t.view.extern = "stop" /\ t.view.stopping
                 /\ t.replies = s.replies \cup told
  BY <1>6
<1>8. t.requests \in RequestQueue
  BY <1>2 DEF RequestQueue
<1>9. "invalid_state" \notin Cause
  BY DEF Cause, EndCause
<1>10. t \in ManagedSession
  <2>1. t.view \in SessionView
    BY <1>6 DEF ViewShape
  <2>2. told \in SUBSET (Operation \X ReplyError)
    BY <1>7 DEF Operation, ReplyError
  <2>3. /\ <<"stop", "none">> \in Operation \X ReplyError
        /\ <<"stop", "invalid_state">> \in Operation \X ReplyError
    BY DEF Operation, ReplyError, Cause
  <2>4. s.replies \in SUBSET (Operation \X ReplyError)
    BY <1>4 DEF ManagedSession
  <2>5. t.replies \in SUBSET (Operation \X ReplyError)
    BY <1>7, <2>2, <2>3, <2>4
  <2> QED BY <1>1, <1>8, <2>1, <2>5, QueueTyped DEF ManagedSession
<1>11. /\ \A r \in s.replies : r \in t.replies
       /\ \A r \in t.replies :
            \/ r \in s.replies
            \/ r[1] = "wait" /\ r[2] \in Cause /\ s.view.waiting
            \/ /\ r[1] = "stop" /\ t.view.extern = "stopped"
               /\ \/ r[2] = "none"
                  \/ r[2] = "invalid_state" /\ t.view = Failed
       /\ \A r1, r2 \in t.replies :
            (r1 \notin s.replies /\ r2 \notin s.replies /\ r1[1] = r2[1]) => r1 = r2
       /\ s.view.waiting => Replied(t, "wait")
  <2> DEFINE said == t.replies \ (s.replies \cup told)
  <2>1. \/ said = {}
        \/ said \subseteq {<<"stop", "none">>} /\ t.view.extern = "stopped"
        \/ said \subseteq {<<"stop", "invalid_state">>} /\ t.view = Failed
    BY <1>7
  <2>0. s.replies \subseteq t.replies /\ told \subseteq t.replies
    BY <1>7
  <2>2. \A r \in said : /\ r[1] = "stop" /\ t.view.extern = "stopped"
                        /\ \/ r[2] = "none"
                           \/ r[2] = "invalid_state" /\ t.view = Failed
    BY <1>5, <2>1
  <2>3. \A r1, r2 \in said : r1 = r2
    BY <2>1
  <2>4. \A r \in told : r[1] = "wait" /\ r[2] \in Cause /\ s.view.waiting
    BY <1>7
  <2>5. \A r1, r2 \in told : r1 = r2
    BY <1>7
  <2>6. s.view.waiting => Replied(t, "wait")
    <3> SUFFICES ASSUME s.view.waiting PROVE Replied(t, "wait")
      OBVIOUS
    <3>1. PICK cause \in Cause : told = {<<"wait", cause>>}
      BY <1>7
    <3>2. <<"wait", cause>> \in t.replies /\ <<"wait", cause>>[1] = "wait"
      BY <2>0, <3>1
    <3> QED BY <3>2 DEF Replied
  <2>7. \A r \in t.replies : r \in s.replies \/ r \in told \/ r \in said
    OBVIOUS
  <2>8. \A r1, r2 \in t.replies :
          (r1 \notin s.replies /\ r2 \notin s.replies /\ r1[1] = r2[1]) => r1 = r2
    <3>1. "wait" # "stop"
      OBVIOUS
    <3> HIDE DEF said
    <3> QED BY <2>2, <2>3, <2>4, <2>5, <2>7, <3>1
  <2> HIDE DEF said
  <2> QED BY <2>0, <2>2, <2>4, <2>6, <2>7, <2>8
<1>12. SessionShape(t)
  <2>1. ~Contains(t.requests, "start") /\ ~Contains(t.requests, "wait")
        /\ t.requests # <<"stop">>
    BY <1>2, QueueContents, QueuesDiffer
  <2>2. s.view.waiting => ~Replied(s, "start") /\ ~Replied(s, "wait")
    BY DEF SessionShape
  <2>3. ~(Replied(t, "start") /\ Replied(t, "wait"))
    BY <1>11, <2>2 DEF SessionShape, Replied
  <2>4. \A r1, r2 \in t.replies : r1[1] = r2[1] => r1 = r2
    <3>1. \A r1, r2 \in s.replies : r1[1] = r2[1] => r1 = r2
      BY DEF SessionShape
    <3>2. \A r \in s.replies : r[1] # "stop" /\ (s.view.waiting => r[1] # "wait")
      BY <1>4, <2>2 DEF Replied
    <3> QED BY <1>11, <3>1, <3>2
  <2>5. \A r \in s.replies :
          /\ r[1] = "start" => /\ r[2] \in {"none", "error"}
                               /\ r[2] = "error" => s.view = Failed
          /\ r[1] = "wait" => r[2] # "invalid_state"
          /\ r[1] # "stop"
    BY <1>4 DEF SessionShape, Replied
  <2>6. t.view.extern # "ready" /\ (s.view = Failed => t.view = Failed)
    BY <1>5, <1>7
  <2>7. \A r \in t.replies :
           /\ r[1] = "start" => /\ r[2] \in {"none", "error"} /\ t.view.extern # "ready"
                                /\ r[2] = "error" => t.view = Failed
           /\ r[1] = "wait" => r[2] # "invalid_state" /\ t.view.extern # "ready"
           /\ r[1] = "stop" => /\ t.view.extern = "stopped"
                               /\ r[2] = "invalid_state" => t.view = Failed
    BY <1>9, <1>11, <2>5, <2>6
  <2> QED BY <1>6, <1>8, <1>10, <2>1, <2>3, <2>4, <2>7 DEF SessionShape
<1>13. \A op \in Operation : Awaits(t, op) <=> Awaits(s, op)
  <2>1. ~Contains(t.requests, "start") /\ ~Contains(t.requests, "wait")
        /\ ~Contains(t.requests, "stop")
    BY <1>2, QueueContents
  <2>2. Awaits(t, "start") <=> Awaits(s, "start")
    BY <1>3, <1>11, <2>1, AwaitsEach DEF Replied
  <2>3. Awaits(t, "stop") /\ Awaits(s, "stop")
    <3>1. t.view.stopping \/ Replied(t, "stop")
      <4>1. CASE t.view.stopping
        BY <4>1
      <4>2. CASE \E error : t.replies = (s.replies \cup told) \cup {<<"stop", error>>}
        <5>1. PICK error : t.replies = (s.replies \cup told) \cup {<<"stop", error>>}
          BY <4>2
        <5>2. <<"stop", error>>[1] = "stop"
          OBVIOUS
        <5> DEFINE r == <<"stop", error>>
        <5>3. r \in t.replies /\ r[1] = "stop"
          BY <5>1, <5>2
        <5> QED BY <5>3 DEF Replied
      <4> QED BY <1>7, <4>1, <4>2
    <3> QED BY <1>3, <3>1, AwaitsEach
  <2>4. Awaits(t, "wait") <=> Awaits(s, "wait")
    <3>1. CASE s.view.waiting
      BY <1>11, <3>1, AwaitsEach
    <3>2. CASE ~s.view.waiting
      BY <1>3, <1>6, <1>11, <2>1, <3>2, AwaitsEach DEF Replied
    <3> QED BY <3>1, <3>2
  <2> QED BY <2>2, <2>3, <2>4 DEF Operation
<1>14. Awaits(s, "stop") /\ s # FreshSession
  BY <1>3, PlainViews, AwaitsEach
<1>15. ASSUME NEW state, SlotShape(state, s) PROVE SlotShape(state, t)
  <2>1. Awaits(t, "stop")
    BY <1>13, <1>14 DEF Operation
  <2>2. state # "free" /\ state # "ready" /\ state # "start" /\ state # "work"
        /\ state # "stopped"
    BY <1>14, <1>15 DEF SlotShape, AwaitsOnly, Operation
  <2> QED BY <2>1, <2>2 DEF SlotShape
<1> QED BY <1>12, <1>13, <1>15 DEF t, Kept

\* Running the first request, whichever it is.
LEMMA RunShaped ==
  ASSUME NEW s, SessionShape(s), s.requests # <<>>,
         NEW o \in CASE Head(s.requests) = "start" -> StartOutcomes(s.view)
                     [] Head(s.requests) = "wait"  -> WaitOutcomes(s.view)
                     [] Head(s.requests) = "stop"  -> StopOutcomes(s.view)
  PROVE  Kept(s, Ran(s, o))
<1>1. Head(s.requests) = "start" \/ Head(s.requests) = "wait" \/ Head(s.requests) = "stop"
  BY QueueTells, QueueMoves
<1> QED BY <1>1, StartRunShaped, WaitRunShaped, StopRunShaped

\* So does what the session does by itself.
LEMMA InternalShaped ==
  ASSUME NEW s, SessionShape(s), NEW causes \in SUBSET Cause,
         NEW o \in InternalOutcomes(s.view, causes)
  PROVE  Kept(s, Moved(s, o))
<1> DEFINE t == Moved(s, o)
<1>1. s \in ManagedSession /\ ViewShape(s.view)
  BY DEF SessionShape
<1>3. t.view = o.view /\ t.requests = s.requests /\ t.replies = s.replies \cup o.replies
  BY <1>1 DEF Moved, ManagedSession
<1>4. /\ ViewShape(t.view) /\ s.view.extern \in {"work", "stop"}
      /\ \/ /\ t.view.extern = "work" /\ s.view.extern = "work" /\ ~t.view.waiting
            /\ s.view.waiting
            /\ \E cause \in Cause : t.replies = s.replies \cup {<<"wait", cause>>}
         \/ /\ t.view.extern = "work" /\ s.view.extern = "work"
            /\ t.view.waiting = s.view.waiting /\ t.replies = s.replies
         \/ /\ s.view.extern = "stop" /\ t.view.extern = "stopped"
            /\ ~t.view.waiting /\ t.replies = s.replies \cup {<<"stop", "none">>}
  <2>1. s.replies \cup {} = s.replies
    OBVIOUS
  <2> HIDE DEF t
  <2> QED BY <1>1, <1>3, <2>1, InternalGives
<1> HIDE DEF t
<1>5. t \in ManagedSession
  <2>1. t.view \in SessionView
    BY <1>4 DEF ViewShape
  <2>2. t.replies \in SUBSET (Operation \X ReplyError)
    BY <1>1, <1>4 DEF ManagedSession, Operation, ReplyError, Cause
  <2>3. t.requests \in Seq(Operation)
    BY <1>1, <1>3 DEF ManagedSession
  <2>4. o.view \in SessionView /\ s.replies \cup o.replies \in SUBSET (Operation \X ReplyError)
    BY <1>3, <2>1, <2>2
  <2> QED BY <1>1, <2>4 DEF t, Moved, ManagedSession
<1>6. s.view # FreshView /\ s.view # Failed /\ s # FreshSession
  BY <1>4, PlainViews
<1>7. s.requests \in RequestQueue /\ ~Contains(s.requests, "start")
  BY <1>6 DEF SessionShape
<1>8. "invalid_state" \notin Cause
  BY DEF Cause, EndCause
<1>9. s.view.stopping <=> s.view.extern = "stop"
  BY <1>1 DEF ViewShape
<1>10. t.view.stopping <=> t.view.extern = "stop"
  BY <1>4 DEF ViewShape
<1>11. CASE /\ t.view.extern = "work" /\ s.view.extern = "work" /\ ~t.view.waiting
            /\ s.view.waiting
            /\ \E cause \in Cause : t.replies = s.replies \cup {<<"wait", cause>>}
  <2>1. PICK cause \in Cause : t.replies = s.replies \cup {<<"wait", cause>>}
    BY <1>11
  <2>2. ~Contains(s.requests, "wait") /\ ~Replied(s, "start") /\ ~Replied(s, "wait")
    BY <1>11 DEF SessionShape
  <2>3. SessionShape(t)
    BY <1>3, <1>4, <1>5, <1>6, <1>7, <1>8, <1>11, <2>1, <2>2 DEF SessionShape, Replied
  <2>4. /\ Awaits(t, "wait") /\ Awaits(s, "wait")
        /\ Awaits(t, "start") <=> Awaits(s, "start")
        /\ Awaits(t, "stop") <=> Awaits(s, "stop")
    <3>1. /\ Replied(t, "wait")
          /\ Replied(t, "start") <=> Replied(s, "start")
          /\ Replied(t, "stop") <=> Replied(s, "stop")
      <4>1. \A op : Replied(t, op) <=> Replied(s, op) \/ op = "wait"
        <5>1. <<"wait", cause>>[1] = "wait"
          OBVIOUS
        <5> QED BY <2>1, <5>1, RepliedAdds, Zenon DEF Replied
      <4> QED BY <4>1
    <3>2. t.view.stopping <=> s.view.stopping
      BY <1>9, <1>10, <1>11
    <3> QED BY <1>3, <1>11, <3>1, <3>2, AwaitsEach
  <2>5. \A op \in Operation : Awaits(t, op) <=> Awaits(s, op)
    BY <2>4 DEF Operation
  <2>6. ASSUME NEW state, SlotShape(state, s) PROVE SlotShape(state, t)
    BY <1>6, <1>11, <2>4, <2>5, <2>6 DEF SlotShape, AwaitsOnly, Operation
  <2> QED BY <2>3, <2>5, <2>6 DEF t, Kept
<1>12. CASE /\ t.view.extern = "work" /\ s.view.extern = "work"
            /\ t.view.waiting = s.view.waiting /\ t.replies = s.replies
  <2>1. t.view # FreshView
    BY <1>12 DEF FreshView
  <2>2. SessionShape(t)
    BY <1>3, <1>4, <1>5, <1>6, <1>7, <1>12 DEF SessionShape, Replied
  <2>3. \A op \in Operation : Awaits(t, op) <=> Awaits(s, op)
    <3>1. \A op \in Operation : Replied(t, op) <=> Replied(s, op)
      BY <1>12 DEF Replied
    <3>2. t.view.stopping <=> s.view.stopping
      BY <1>9, <1>10, <1>12
    <3> QED BY <1>3, <1>12, <3>1, <3>2, AwaitsEach DEF Operation
  <2>4. ASSUME NEW state, SlotShape(state, s) PROVE SlotShape(state, t)
    BY <1>6, <1>12, <2>3, <2>4 DEF SlotShape, AwaitsOnly, Operation
  <2> QED BY <2>2, <2>3, <2>4 DEF t, Kept
<1>13. CASE /\ s.view.extern = "stop" /\ t.view.extern = "stopped"
            /\ ~t.view.waiting /\ t.replies = s.replies \cup {<<"stop", "none">>}
  <2>1. ~s.view.waiting /\ s.requests # <<"stop">> /\ ~Contains(s.requests, "wait")
        /\ ~Replied(s, "stop")
    BY <1>1, <1>6, <1>13 DEF SessionShape, ViewShape, Replied
  <2>2. ~Contains(s.requests, "stop")
    BY <1>7, <2>1, QueueTells
  <2>3. SessionShape(t)
    BY <1>3, <1>4, <1>5, <1>6, <1>7, <1>13, <2>1 DEF SessionShape, Replied
  <2>4. /\ Awaits(t, "stop") /\ Awaits(s, "stop")
        /\ Awaits(t, "start") <=> Awaits(s, "start")
        /\ Awaits(t, "wait") <=> Awaits(s, "wait")
    <3>1. /\ Replied(t, "stop")
          /\ Replied(t, "start") <=> Replied(s, "start")
          /\ Replied(t, "wait") <=> Replied(s, "wait")
      <4>1. \A op : Replied(t, op) <=> Replied(s, op) \/ op = "stop"
        <5>1. <<"stop", "none">>[1] = "stop"
          OBVIOUS
        <5> QED BY <1>13, <5>1, RepliedAdds, Zenon DEF Replied
      <4> QED BY <4>1
    <3> QED BY <1>3, <1>9, <1>13, <2>1, <3>1, AwaitsEach
  <2>5. \A op \in Operation : Awaits(t, op) <=> Awaits(s, op)
    BY <2>4 DEF Operation
  <2>6. ASSUME NEW state, SlotShape(state, s) PROVE SlotShape(state, t)
    BY <1>6, <2>4, <2>6 DEF SlotShape, AwaitsOnly, Operation
  <2> QED BY <2>3, <2>5, <2>6 DEF t, Kept
<1> QED BY <1>4, <1>11, <1>12, <1>13

-----------------------------------------------------------------------------
(* The list of active sessions. *)

Elements(s) == {s[i] : i \in 1 .. Len(s)}

\* The elements of a list of sessions, by position and by value.
LEMMA ToSetElements ==
  ASSUME NEW s \in Seq(Slot)
  PROVE  /\ ToSet(s) = Elements(s) /\ ToSet(s) \in SUBSET Slot
         /\ Len(s) \in Nat /\ (s = <<>> <=> Len(s) = 0)
         /\ DOMAIN s = 1 .. Len(s)
         /\ \A i \in 1 .. Len(s) : s[i] \in Slot /\ s[i] \in ToSet(s)
         /\ \A w \in ToSet(s) : \E i \in 1 .. Len(s) : s[i] = w
BY DEF ToSet, Elements

\* A session that is not in the list is added at its front.
LEMMA FrontAdded ==
  ASSUME NEW s \in Seq(Slot), NEW w \in Slot, Distinct(s), w \notin ToSet(s)
  PROVE  /\ Cons(w, s) \in Seq(Slot) /\ Len(Cons(w, s)) = Len(s) + 1
         /\ Distinct(Cons(w, s)) /\ ToSet(Cons(w, s)) = ToSet(s) \cup {w}
<1> DEFINE t == Cons(w, s)
<1>1. <<w>> \in Seq(Slot) /\ Len(<<w>>) = 1 /\ <<w>>[1] = w
  OBVIOUS
<1>2. /\ t \in Seq(Slot) /\ Len(t) = Len(s) + 1 /\ t[1] = w
      /\ \A i \in 2 .. Len(t) : t[i] = s[i - 1]
  BY <1>1 DEF Cons
<1> HIDE DEF t
<1>3. \A i \in 1 .. Len(s) : s[i] \in ToSet(s) /\ s[i] # w
  BY ToSetElements
<1>4. Distinct(t)
  <2> SUFFICES ASSUME NEW i \in 1 .. Len(t), NEW j \in 1 .. Len(t), t[i] = t[j]
               PROVE  i = j
    BY DEF Distinct
  <2>1. Len(s) \in Nat
    OBVIOUS
  <2>2. CASE i = 1 /\ j = 1
    BY <2>2
  <2>3. CASE i # 1 /\ j # 1
    <3>1. /\ i - 1 \in 1 .. Len(s) /\ j - 1 \in 1 .. Len(s)
          /\ t[i] = s[i - 1] /\ t[j] = s[j - 1]
      BY <1>2, <2>1, <2>3
    <3>2. i - 1 = j - 1
      BY <3>1 DEF Distinct
    <3> QED BY <3>2
  <2>4. CASE i = 1 /\ j # 1
    <3>1. j - 1 \in 1 .. Len(s) /\ t[j] = s[j - 1]
      BY <1>2, <2>1, <2>4
    <3> QED BY <1>2, <1>3, <2>4, <3>1
  <2>5. CASE i # 1 /\ j = 1
    <3>1. i - 1 \in 1 .. Len(s) /\ t[i] = s[i - 1]
      BY <1>2, <2>1, <2>5
    <3> QED BY <1>2, <1>3, <2>5, <3>1
  <2> QED BY <2>2, <2>3, <2>4, <2>5
<1>5. ToSet(t) = ToSet(s) \cup {w}
  <2>1. ASSUME NEW x \in ToSet(t) PROVE x \in ToSet(s) \cup {w}
    <3>1. PICK i \in 1 .. Len(t) : t[i] = x
      BY <1>2, ToSetElements
    <3>2. CASE i = 1
      BY <1>2, <3>1, <3>2
    <3>3. CASE i # 1
      <4>1. i - 1 \in 1 .. Len(s) /\ t[i] = s[i - 1]
        BY <1>2, <3>3
      <4> QED BY <1>3, <3>1, <4>1
    <3> QED BY <3>2, <3>3
  <2>2. ASSUME NEW x \in ToSet(s) PROVE x \in ToSet(t)
    <3>1. PICK i \in 1 .. Len(s) : s[i] = x
      BY DEF ToSet
    <3>2. i + 1 \in 2 .. Len(t) /\ t[i + 1] = s[(i + 1) - 1] /\ (i + 1) - 1 = i
      BY <1>2
    <3>3. i + 1 \in 1 .. Len(t) /\ t[i + 1] = x
      BY <1>2, <3>1, <3>2
    <3> QED BY <1>2, <3>3, ToSetElements
  <2>3. w \in ToSet(t)
    <3>1. 1 \in 1 .. Len(t) /\ t[1] = w
      BY <1>2
    <3> QED BY <1>2, <3>1, ToSetElements
  <2> QED BY <2>1, <2>2, <2>3
<1> QED BY <1>2, <1>4, <1>5 DEF t

\* Position finds a session of the list.
LEMMA PositionFound ==
  ASSUME NEW m, m.active \in Seq(Slot), NEW w \in ToSet(m.active)
  PROVE  Position(m, w) \in 1 .. Len(m.active) /\ m.active[Position(m, w)] = w
<1>1. \E i \in DOMAIN m.active : m.active[i] = w
  BY DEF ToSet
<1>2. DOMAIN m.active = 1 .. Len(m.active)
  OBVIOUS
<1> QED BY <1>1, <1>2 DEF Position

(***************************************************************************)
(* Erasing a position erases one session and keeps the order of the        *)
(* others.                                                                 *)
(***************************************************************************)
LEMMA SlotErased ==
  ASSUME NEW s \in Seq(Slot), Distinct(s), NEW p \in 1 .. Len(s)
  PROVE  LET t == RemoveAt(s, p)
         IN  /\ t \in Seq(Slot) /\ Len(t) = Len(s) - 1
             /\ \A i \in 1 .. Len(t) : t[i] = IF i < p THEN s[i] ELSE s[i + 1]
             /\ Distinct(t) /\ ToSet(t) = ToSet(s) \ {s[p]}
<1> DEFINE a == SubSeq(s, 1, p - 1)
           b == SubSeq(s, p + 1, Len(s))
           t == RemoveAt(s, p)
<1>0. Len(s) \in Nat /\ p \in Nat /\ 1 <= p /\ p <= Len(s)
  OBVIOUS
<1>1. /\ a \in Seq(Slot) /\ Len(a) = p - 1
      /\ \A i \in 1 .. p - 1 : a[i] = s[i]
  BY <1>0
<1>2. /\ b \in Seq(Slot) /\ Len(b) = Len(s) - p
      /\ \A i \in 1 .. Len(s) - p : b[i] = s[p + i]
  BY <1>0
<1>3. t = a \o b
  BY DEF RemoveAt
<1> HIDE DEF a, b, t
<1>4. /\ t \in Seq(Slot) /\ Len(t) = Len(s) - 1
      /\ \A i \in 1 .. Len(t) : t[i] = IF i <= p - 1 THEN a[i] ELSE b[i - (p - 1)]
  BY <1>0, <1>1, <1>2, <1>3, SMTT(40)
<1>5. \A i \in 1 .. Len(t) : t[i] = IF i < p THEN s[i] ELSE s[i + 1]
  <2> TAKE i \in 1 .. Len(t)
  <2>1. CASE i < p
    BY <1>0, <1>1, <1>4, <2>1
  <2>2. CASE ~(i < p)
    <3>1. i - (p - 1) \in 1 .. Len(s) - p /\ p + (i - (p - 1)) = i + 1
      BY <1>0, <1>4, <2>2
    <3>2. b[i - (p - 1)] = s[i + 1]
      BY <1>2, <3>1
    <3> QED BY <1>0, <1>4, <2>2, <3>2
  <2> QED BY <2>1, <2>2
<1> DEFINE at(i) == IF i < p THEN i ELSE i + 1
<1>6. \A i \in 1 .. Len(t) : at(i) \in 1 .. Len(s) /\ at(i) # p /\ t[i] = s[at(i)]
  BY <1>0, <1>4, <1>5
<1>7. \A i, j \in 1 .. Len(t) : at(i) = at(j) => i = j
  BY <1>0, <1>4
<1>8. \A k \in 1 .. Len(s) : k # p => \E i \in 1 .. Len(t) : at(i) = k
  <2> TAKE k \in 1 .. Len(s)
  <2>1. CASE k < p
    <3>1. k \in 1 .. Len(t) /\ at(k) = k
      BY <1>0, <1>4, <2>1
    <3> QED BY <3>1
  <2>2. CASE k > p
    <3>1. k - 1 \in 1 .. Len(t) /\ at(k - 1) = k
      BY <1>0, <1>4, <2>2
    <3> QED BY <3>1
  <2> QED BY <1>0, <2>1, <2>2
<1> HIDE DEF at
<1>9. Distinct(t)
  <2> SUFFICES ASSUME NEW i \in 1 .. Len(t), NEW j \in 1 .. Len(t), t[i] = t[j]
               PROVE  i = j
    BY DEF Distinct
  <2>1. at(i) = at(j)
    BY <1>6 DEF Distinct
  <2> QED BY <1>7, <2>1
<1>10. ToSet(t) = ToSet(s) \ {s[p]}
  <2> t \in Seq(Slot)
    BY <1>4, Zenon
  <2>0. \A x \in ToSet(t) : \E i \in 1 .. Len(t) : t[i] = x
    BY ToSetElements, Zenon
  <2>1. ASSUME NEW x \in ToSet(t) PROVE x \in ToSet(s) \ {s[p]}
    <3>1. PICK i \in 1 .. Len(t) : t[i] = x
      BY <2>0, Zenon
    <3>2. s[at(i)] = x /\ at(i) \in 1 .. Len(s) /\ at(i) # p
      BY <1>6, <3>1
    <3>3. s[at(i)] # s[p]
      BY <3>2 DEF Distinct
    <3> QED BY <3>2, <3>3, ToSetElements
  <2>2. ASSUME NEW x \in ToSet(s), x # s[p] PROVE x \in ToSet(t)
    <3>1. PICK k \in 1 .. Len(s) : s[k] = x
      BY ToSetElements
    <3>2. PICK i \in 1 .. Len(t) : at(i) = k
      BY <1>8, <2>2, <3>1
    <3>3. t[i] = x
      BY <1>6, <3>1, <3>2
    <3> QED BY <1>4, <3>3, ToSetElements
  <2> QED BY <2>1, <2>2
<1> QED BY <1>4, <1>5, <1>9, <1>10 DEF t

\* The length of a list without repetitions is the number of its sessions.
LEMMA ActiveCounted ==
  ASSUME NEW s \in Seq(Slot), Distinct(s)
  PROVE  Cardinality(ToSet(s)) = Len(s)
<1>1. s \in [1 .. Len(s) -> ToSet(s)] /\ Len(s) \in Nat
  BY DEF ToSet
<1>2. s \in Surjection(1 .. Len(s), ToSet(s))
  <2>1. \A w \in ToSet(s) : \E i \in 1 .. Len(s) : s[i] = w
    BY DEF ToSet
  <2> QED BY <1>1, <2>1 DEF Surjection
<1>3. s \in Injection(1 .. Len(s), ToSet(s))
  <2>1. \A i, j \in DOMAIN s : s[i] = s[j] => i = j
    BY DEF Distinct
  <2>2. IsInjective(s)
    BY <2>1, Zenon DEF IsInjective
  <2> QED BY <1>1, <2>2 DEF Injection
<1>4. IsFiniteSet(1 .. Len(s)) /\ Cardinality(1 .. Len(s)) = Len(s)
  <2> DEFINE n == Len(s)
  <2>1. n \in Nat
    BY <1>1
  <2> HIDE DEF n
  <2>2. IsFiniteSet(1 .. n) /\ Cardinality(1 .. n) = IF 1 > n THEN 0 ELSE n - 1 + 1
    BY <2>1, FS_Interval
  <2>3. Cardinality(1 .. n) = n
    BY <2>1, <2>2
  <2> QED BY <2>2, <2>3 DEF n
<1> QED BY <1>2, <1>3, <1>4, FS_Surjection

\* There are more slots than sessions, so one is free.
LEMMA RoomLeft ==
  ASSUME NEW wrapper, Cardinality(Used(wrapper)) <= MaxSessions
  PROVE  \E w \in Slot : wrapper[w].state = "free"
<1>1. SUFFICES ASSUME \A w \in Slot : wrapper[w].state # "free" PROVE FALSE
  OBVIOUS
<1>2. Used(wrapper) = Slot
  BY <1>1 DEF Used
<1> QED BY <1>2, AwaitedFinite, SessionManagerAssumption

(***************************************************************************)
(* The active sessions are some of those in use, and in the absence of     *)
(* late handlers and of a session being accepted they are all of them.     *)
(***************************************************************************)
LEMMA ActiveUsed ==
  ASSUME NEW active \in Seq(Slot), NEW wrapper, Listed(active, wrapper)
  PROVE  /\ IsFiniteSet(Used(wrapper)) /\ Cardinality(Used(wrapper)) \in Nat
         /\ Len(active) <= Cardinality(Used(wrapper))
         /\ (\A w \in Slot : wrapper[w].state \in {"free", "start", "work", "stop"})
              => Len(active) = Cardinality(Used(wrapper))
<1>1. ToSet(active) \in SUBSET Used(wrapper)
  BY ToSetElements DEF Listed, Used
<1>2. Used(wrapper) \in SUBSET Slot
  BY DEF Used
<1>3. IsFiniteSet(Used(wrapper)) /\ Cardinality(Used(wrapper)) \in Nat
  BY <1>2, AwaitedFinite, FS_Subset, FS_CardinalityType
<1>4. Cardinality(ToSet(active)) = Len(active)
  BY ActiveCounted DEF Listed
<1>5. (\A w \in Slot : wrapper[w].state \in {"free", "start", "work", "stop"})
        => ToSet(active) = Used(wrapper)
  BY <1>1 DEF Listed, Used
<1> QED BY <1>1, <1>3, <1>4, <1>5, FS_Subset

-----------------------------------------------------------------------------
(* The operators of the model, field by field.                             *)

\* What no operation on a session changes.
SameManager(m, n) ==
  /\ n.extern = m.extern /\ n.intern = m.intern
  /\ n.accept = m.accept /\ n.accepting = m.accepting
  /\ n.acceptorOpen = m.acceptorOpen /\ n.stopScheduled = m.stopScheduled
  /\ n.acceptError = m.acceptError /\ n.waitError = m.waitError
  /\ n.waitHandler = m.waitHandler /\ n.stopHandler = m.stopHandler
  /\ n.owed = m.owed

\* What a change of the sessions alone leaves.
SameLists(m, n) ==
  n.active = m.active /\ n.stoppingEnd = m.stoppingEnd

SameCounts(m, n) ==
  /\ n.pending = m.pending /\ n.unreported = m.unreported
  /\ n.startedLate = m.startedLate

\* Slot w holds the session t, and its wrapper is in a state with a count.
Holds(m, n, w, t, state, ops) ==
  /\ n.session = [m.session EXCEPT ![w] = t]
  /\ n.wrapper = [m.wrapper EXCEPT ![w] = [state |-> state, ops |-> ops]]

\* The types of what belongs to one session.
LEMMA SlotFields ==
  ASSUME NEW m \in LooseServer, NEW w \in Slot
  PROVE  /\ m.session \in [Slot -> ManagedSession] /\ m.session[w] \in ManagedSession
         /\ m.wrapper \in [Slot -> LooseWrapper] /\ m.wrapper[w] \in LooseWrapper
         /\ m.wrapper[w].ops \in Int /\ m.active \in Seq(Slot)
         /\ m.wrapper[w] = [state |-> m.wrapper[w].state, ops |-> m.wrapper[w].ops]
<1>1. /\ m.session \in [Slot -> ManagedSession] /\ m.wrapper \in [Slot -> LooseWrapper]
      /\ m.active \in Seq(Slot)
  BY DEF LooseServer
<1> QED BY <1>1 DEF LooseWrapper

\* Asking and replying keep the type of a session.
LEMMA ManagedFields ==
  ASSUME NEW s \in ManagedSession
  PROVE  /\ \A op \in Operation : Requested(s, op) \in ManagedSession
         /\ \A reply : Unposted(s, reply) \in ManagedSession
<1>1. ASSUME NEW op \in Operation PROVE Requested(s, op) \in ManagedSession
  <2>1. Append(s.requests, op) \in Seq(Operation)
    BY DEF ManagedSession
  <2> QED BY <2>1 DEF ManagedSession, Requested
<1>2. ASSUME NEW reply PROVE Unposted(s, reply) \in ManagedSession
  <2>1. s.replies \ {reply} \in SUBSET (Operation \X ReplyError)
    BY DEF ManagedSession
  <2> QED BY <2>1, Zenon DEF ManagedSession, Unposted
<1> QED BY <1>1, <1>2

\* What asking a session for an operation changes.
LEMMA RequestFields ==
  ASSUME NEW m \in LooseServer, NEW w \in Slot, NEW op \in Operation
  PROVE  LET n == Request(m, w, op)
         IN  /\ n \in LooseServer /\ SameManager(m, n) /\ SameLists(m, n)
             /\ n.badReset = m.badReset
             /\ n.pending = m.pending + 1 /\ n.unreported = m.unreported
             /\ n.startedLate = m.startedLate
             /\ Holds(m, n, w, Requested(m.session[w], op),
                      IF op = "wait" THEN m.wrapper[w].state ELSE op,
                      m.wrapper[w].ops + 1)
<1> DEFINE n == Request(m, w, op)
           state == IF op = "wait" THEN m.wrapper[w].state ELSE op
           session == [m.session EXCEPT ![w] = Requested(m.session[w], op)]
           wrapper == [m.wrapper EXCEPT ![w] = [state |-> state,
                                                ops |-> m.wrapper[w].ops + 1]]
           pending == m.pending + 1
<1>1. session = [m.session EXCEPT ![w].requests = Append(@, op)]
  BY SlotFields DEF Requested
<1>2. wrapper = [m.wrapper EXCEPT ![w].ops = @ + 1,
                                  ![w].state = IF op = "wait" THEN @ ELSE op]
  BY SlotFields DEF LooseWrapper
<1>3. session \in [Slot -> ManagedSession]
  BY SlotFields, ManagedFields
<1>4. wrapper \in [Slot -> LooseWrapper]
  <2>1. state \in {"free", "ready", "start", "work", "stop", "stopped"}
    BY SlotFields DEF LooseWrapper, Operation
  <2>2. m.wrapper[w].ops + 1 \in Int
    <3>1. m.wrapper[w].ops \in Int
      BY SlotFields
    <3> QED BY <3>1
  <2> HIDE DEF state
  <2> QED BY <2>1, <2>2, SlotFields DEF LooseWrapper
<1>5. pending \in Int
  BY DEF LooseServer
<1>6. n = [m EXCEPT !.session = session, !.wrapper = wrapper, !.pending = pending]
  BY <1>1, <1>2 DEF Request
<1> HIDE DEF n, session, wrapper, pending
<1>7. n \in LooseServer
  BY <1>3, <1>4, <1>5, <1>6, Zenon DEF LooseServer
<1>8. /\ n.session = session /\ n.wrapper = wrapper
      /\ SameManager(m, n) /\ SameLists(m, n) /\ n.badReset = m.badReset
      /\ n.pending = pending /\ n.unreported = m.unreported
      /\ n.startedLate = m.startedLate
  BY <1>6 DEF LooseServer, SameManager, SameLists
<1> QED BY <1>7, <1>8 DEF n, session, wrapper, pending, Holds

\* What taking a reply changes.
LEMMA UnpostedFields ==
  ASSUME NEW m \in LooseServer, NEW w \in Slot, NEW reply
  PROVE  LET n == [m EXCEPT !.session[w].replies = @ \ {reply}]
         IN  /\ n \in LooseServer /\ SameManager(m, n) /\ SameLists(m, n)
             /\ n.badReset = m.badReset /\ SameCounts(m, n)
             /\ n.session = [m.session EXCEPT ![w] = Unposted(m.session[w], reply)]
             /\ n.wrapper = m.wrapper
<1> DEFINE n == [m EXCEPT !.session[w].replies = @ \ {reply}]
           session == [m.session EXCEPT ![w] = Unposted(m.session[w], reply)]
<1>1. session = [m.session EXCEPT ![w].replies = @ \ {reply}]
  BY SlotFields DEF Unposted
<1>2. session \in [Slot -> ManagedSession]
  BY SlotFields, ManagedFields
<1>3. n = [m EXCEPT !.session = session]
  BY <1>1
<1> HIDE DEF n, session
<1>4. n \in LooseServer
  BY <1>2, <1>3, Zenon DEF LooseServer
<1>5. /\ n.session = session /\ n.wrapper = m.wrapper
      /\ SameManager(m, n) /\ SameLists(m, n) /\ n.badReset = m.badReset
      /\ SameCounts(m, n)
  BY <1>3 DEF LooseServer, SameManager, SameLists, SameCounts
<1> QED BY <1>4, <1>5 DEF n, session

\* What counting a completed operation changes.
LEMMA CompletedFields ==
  ASSUME NEW m \in LooseServer, NEW w \in Slot
  PROVE  LET n == Completed(m, w)
         IN  /\ n \in LooseServer /\ SameManager(m, n) /\ SameLists(m, n)
             /\ n.badReset = m.badReset
             /\ n.pending = m.pending - 1 /\ n.unreported = m.unreported
             /\ n.startedLate = m.startedLate
             /\ n.session = m.session
             /\ n.wrapper = [m.wrapper EXCEPT ![w] =
                              [state |-> m.wrapper[w].state,
                               ops |-> m.wrapper[w].ops - 1]]
<1> DEFINE n == Completed(m, w)
           wrapper == [m.wrapper EXCEPT ![w] = [state |-> m.wrapper[w].state,
                                                ops |-> m.wrapper[w].ops - 1]]
           pending == m.pending - 1
<1>1. wrapper = [m.wrapper EXCEPT ![w].ops = @ - 1]
  BY SlotFields DEF LooseWrapper
<1>2. wrapper \in [Slot -> LooseWrapper]
  <2>1. m.wrapper[w].ops \in Int
    BY SlotFields
  <2>2. m.wrapper[w].ops - 1 \in Int
    BY <2>1
  <2> QED BY <2>2, SlotFields DEF LooseWrapper
<1>3. pending \in Int
  BY DEF LooseServer
<1>4. n = [m EXCEPT !.pending = pending, !.wrapper = wrapper]
  BY <1>1 DEF Completed
<1> HIDE DEF n, wrapper, pending
<1>5. n \in LooseServer
  BY <1>2, <1>3, <1>4, Zenon DEF LooseServer
<1>6. /\ n.session = m.session /\ n.wrapper = wrapper
      /\ SameManager(m, n) /\ SameLists(m, n) /\ n.badReset = m.badReset
      /\ n.pending = pending /\ n.unreported = m.unreported
      /\ n.startedLate = m.startedLate
  BY <1>4 DEF LooseServer, SameManager, SameLists
<1> QED BY <1>5, <1>6 DEF n, wrapper, pending

\* What reporting a session changes.
LEMMA ReportedFields ==
  ASSUME NEW m \in LooseServer
  PROVE  LET n == Reported(m)
         IN  /\ n \in LooseServer /\ SameManager(m, n) /\ SameLists(m, n)
             /\ n.badReset = m.badReset
             /\ n.pending = m.pending /\ n.unreported = m.unreported - 1
             /\ n.startedLate = m.startedLate
             /\ n.session = m.session /\ n.wrapper = m.wrapper
<1> DEFINE n == Reported(m)
           unreported == m.unreported - 1
<1>1. unreported \in Int
  BY DEF LooseServer
<1>2. n = [m EXCEPT !.unreported = unreported]
  BY DEF Reported
<1> HIDE DEF n, unreported
<1>3. n \in LooseServer
  BY <1>1, <1>2, Zenon DEF LooseServer
<1>4. /\ n.session = m.session /\ n.wrapper = m.wrapper
      /\ SameManager(m, n) /\ SameLists(m, n) /\ n.badReset = m.badReset
      /\ n.pending = m.pending /\ n.unreported = unreported
      /\ n.startedLate = m.startedLate
  BY <1>2 DEF LooseServer, SameManager, SameLists
<1> QED BY <1>3, <1>4 DEF n, unreported

\* A fresh session with another view.
LEMMA FreshWith ==
  ASSUME NEW view
  PROVE  [FreshSession EXCEPT !.view = view]
           = [view |-> view, requests |-> <<>>, replies |-> {}]
BY DEF FreshSession

(***************************************************************************)
(* recycle, for a session that is idle or still held.                      *)
(***************************************************************************)
LEMMA RecycleFields ==
  ASSUME NEW m \in LooseServer, NEW w \in Slot, m.wrapper[w].ops = 0,
         SessionShape(m.session[w]), Idle(m.session[w]),
         m.session[w].view.extern \in {"ready", "stopped"}
  PROVE  LET n == Recycle(m, w)
         IN  /\ n \in LooseServer /\ SameManager(m, n) /\ SameLists(m, n)
             /\ n.badReset = m.badReset /\ SameCounts(m, n)
             /\ Holds(m, n, w, FreshSession, "free", 0)
<1> DEFINE n == Recycle(m, w)
           s == m.session[w]
           recycled == IF m.recycled < RecycledSessionCount THEN m.recycled + 1
                                                            ELSE m.recycled
           wrapper == [m.wrapper EXCEPT ![w] = FreeWrapper]
           session == [m.session EXCEPT ![w] = FreshSession]
           bad == m.badReset \/ s # [FreshSession EXCEPT !.view = s.view]
                             \/ ~CanReset(s.view)
<1>1. s \in ManagedSession /\ s.requests = <<>> /\ s.replies = {}
      /\ ~s.view.waiting /\ ~s.view.stopping
  <2>1. s \in ManagedSession
    BY SlotFields
  <2>2. ~Awaits(s, "start") /\ ~Awaits(s, "wait") /\ ~Awaits(s, "stop")
    BY DEF Idle, Operation
  <2>3. ~s.view.waiting /\ ~s.view.stopping /\ s.requests = <<>>
    BY <2>2, AwaitsEach, QueueTells
  <2>4. \A r \in s.replies : r[1] \in Operation
    BY <2>1 DEF ManagedSession
  <2>5. \A r \in s.replies : r[1] = "start" \/ r[1] = "wait" \/ r[1] = "stop"
    BY <2>4 DEF Operation
  <2>6. s.replies = {}
    BY <2>2, <2>5, AwaitsEach DEF Replied
  <2> QED BY <2>1, <2>3, <2>6
<1>2. s = [FreshSession EXCEPT !.view = s.view] /\ CanReset(s.view)
  <2>1. s = [FreshSession EXCEPT !.view = s.view]
    <3> DEFINE fresh == [view |-> s.view, requests |-> <<>>, replies |-> {}]
    <3>1. [FreshSession EXCEPT !.view = s.view] = fresh
      BY FreshWith
    <3> HIDE DEF s
    <3>2. s = [view |-> s.view, requests |-> s.requests, replies |-> s.replies]
      BY <1>1 DEF ManagedSession
    <3>3. s = fresh
      BY <1>1, <3>2
    <3> QED BY <3>1, <3>3
  <2>2. CanReset(s.view)
    BY <1>1 DEF CanReset
  <2> QED BY <2>1, <2>2
<1>3. bad = m.badReset /\ m.badReset \in BOOLEAN
  BY <1>2 DEF LooseServer
<1>4. recycled \in 0 .. RecycledSessionCount
  <2>1. m.recycled \in 0 .. RecycledSessionCount
    BY DEF LooseServer
  <2> QED BY <2>1, SessionManagerAssumption
<1>5. wrapper \in [Slot -> LooseWrapper]
  BY SlotFields DEF LooseWrapper, FreeWrapper
<1>6. session \in [Slot -> ManagedSession]
  BY SlotFields, FreshShaped DEF SessionShape
<1>7. n = [m EXCEPT !.wrapper = wrapper, !.session = session,
                    !.recycled = recycled, !.badReset = bad]
  BY DEF Recycle
<1>8. FreeWrapper = [state |-> "free", ops |-> 0]
  BY DEF FreeWrapper
<1> HIDE DEF n, wrapper, session, recycled, bad
<1>9. n \in LooseServer
  BY <1>3, <1>4, <1>5, <1>6, <1>7, Zenon DEF LooseServer
<1>10. /\ n.session = session /\ n.wrapper = wrapper
       /\ SameManager(m, n) /\ SameLists(m, n) /\ SameCounts(m, n)
       /\ n.badReset = bad
  BY <1>7 DEF LooseServer, SameManager, SameLists, SameCounts
<1> QED BY <1>3, <1>8, <1>9, <1>10 DEF n, wrapper, session, Holds

\* A session that is still held is not given back.
LEMMA RecycleHeld ==
  ASSUME NEW m, NEW w, m.wrapper[w].ops # 0
  PROVE  Recycle(m, w) = m
BY DEF Recycle

\* What adding to the list of active sessions changes.
LEMMA AddFields ==
  ASSUME NEW m \in LooseServer, NEW w \in Slot, Distinct(m.active),
         w \notin ToSet(m.active)
  PROVE  LET n == AddToActive(m, w)
         IN  /\ n \in LooseServer /\ SameManager(m, n)
             /\ n.active = Cons(w, m.active) /\ n.stoppingEnd = m.stoppingEnd
             /\ n.badReset = m.badReset /\ SameCounts(m, n)
             /\ n.session = m.session /\ n.wrapper = m.wrapper
<1> DEFINE n == AddToActive(m, w)
           active == Cons(w, m.active)
<1>1. active \in Seq(Slot)
  BY SlotFields, FrontAdded
<1>2. n = [m EXCEPT !.active = active]
  BY DEF AddToActive
<1> HIDE DEF n, active
<1>3. n \in LooseServer
  BY <1>1, <1>2, Zenon DEF LooseServer
<1>4. /\ n.session = m.session /\ n.wrapper = m.wrapper
      /\ SameManager(m, n) /\ SameCounts(m, n) /\ n.badReset = m.badReset
      /\ n.active = active /\ n.stoppingEnd = m.stoppingEnd
  BY <1>2 DEF LooseServer, SameManager, SameCounts
<1> QED BY <1>3, <1>4 DEF n, active

\* What erasing from the list of active sessions changes.
LEMMA RemoveFields ==
  ASSUME NEW m \in LooseServer, NEW w \in Slot, Distinct(m.active),
         w \in ToSet(m.active)
  PROVE  LET n == RemoveFromActive(m, w)
             p == Position(m, w)
         IN  /\ n \in LooseServer /\ SameManager(m, n)
             /\ n.active = RemoveAt(m.active, p)
             /\ n.stoppingEnd = IF m.stoppingEnd = w THEN NextActive(m, w)
                                                     ELSE m.stoppingEnd
             /\ n.badReset = m.badReset /\ SameCounts(m, n)
             /\ n.session = m.session
             /\ n.wrapper = [m.wrapper EXCEPT ![w] =
                              [state |-> "stopped", ops |-> m.wrapper[w].ops]]
<1> DEFINE n == RemoveFromActive(m, w)
           p == Position(m, w)
           active == RemoveAt(m.active, p)
           end == IF m.stoppingEnd = w THEN NextActive(m, w) ELSE m.stoppingEnd
           wrapper == [m.wrapper EXCEPT ![w] = [state |-> "stopped",
                                                ops |-> m.wrapper[w].ops]]
<1>1. m.active \in Seq(Slot) /\ p \in 1 .. Len(m.active)
  BY SlotFields, PositionFound
<1>2. active \in Seq(Slot)
  BY <1>1, SlotErased
<1>3. end \in Slot \cup {None}
  <2>1. p + 1 \in 1 .. Len(m.active) => m.active[p + 1] \in Slot
    BY <1>1
  <2>2. p < Len(m.active) => p + 1 \in 1 .. Len(m.active)
    BY <1>1
  <2>3. m.stoppingEnd \in Slot \cup {None}
    BY DEF LooseServer
  <2> QED BY <2>1, <2>2, <2>3 DEF NextActive
<1>4. wrapper = [m.wrapper EXCEPT ![w].state = "stopped"]
  BY SlotFields DEF LooseWrapper
<1>5. wrapper \in [Slot -> LooseWrapper]
  BY SlotFields DEF LooseWrapper
<1>6. n = [m EXCEPT !.wrapper = wrapper, !.stoppingEnd = end, !.active = active]
  BY <1>4 DEF RemoveFromActive
<1> HIDE DEF n, active, end, wrapper
<1>7. n \in LooseServer
  BY <1>2, <1>3, <1>5, <1>6, Zenon DEF LooseServer
<1>8. /\ n.session = m.session /\ n.wrapper = wrapper
      /\ SameManager(m, n) /\ SameCounts(m, n) /\ n.badReset = m.badReset
      /\ n.active = active /\ n.stoppingEnd = end
  BY <1>6 DEF LooseServer, SameManager, SameCounts
<1> QED BY <1>7, <1>8 DEF n, active, end, wrapper

-----------------------------------------------------------------------------
(* What a change of one session does to the accounts.                      *)

\* What is awaited of all sessions, when one of them is replaced.
LEMMA AwaitedChanges ==
  ASSUME NEW session \in [Slot -> ManagedSession], NEW w \in Slot, NEW t
  PROVE  Cardinality(Awaited([session EXCEPT ![w] = t]))
           = Cardinality(Awaited(session)) - Cardinality(AwaitedOps(session[w]))
               + Cardinality(AwaitedOps(t))
<1> DEFINE after == [session EXCEPT ![w] = t]
           others == {x \in Slot \X Operation : x[1] # w /\ Awaits(session[x[1]], x[2])}
           mine(s) == {w} \X AwaitedOps(s)
<1>1. /\ Awaited(session) = others \cup mine(session[w])
      /\ others \cap mine(session[w]) = {}
  BY DEF Awaited, AwaitedOps
<1>2. /\ Awaited(after) = others \cup mine(t) /\ others \cap mine(t) = {}
  BY DEF Awaited, AwaitedOps
<1>3. IsFiniteSet(others) /\ Cardinality(others) \in Nat
  <2>1. others \in SUBSET Awaited(session)
    BY DEF Awaited
  <2> HIDE DEF others
  <2> QED BY <2>1, AwaitedFinite, FS_Subset, FS_CardinalityType
<1>4. \A s : /\ IsFiniteSet(mine(s)) /\ Cardinality(mine(s)) = Cardinality(AwaitedOps(s))
             /\ Cardinality(AwaitedOps(s)) \in Nat
  <2> TAKE s
  <2>1. IsFiniteSet({w}) /\ Cardinality({w}) = 1
    BY FS_Singleton
  <2>2. IsFiniteSet(AwaitedOps(s)) /\ Cardinality(AwaitedOps(s)) \in Nat
    BY AwaitedOpsFinite
  <2>3. IsFiniteSet(mine(s)) /\ Cardinality(mine(s)) = 1 * Cardinality(AwaitedOps(s))
    BY <2>1, <2>2, FS_Product
  <2> QED BY <2>2, <2>3
<1> HIDE DEF others, mine, after
<1>5. Cardinality({}) = 0
  BY FS_EmptySet
<1>6. Cardinality(Awaited(session)) = Cardinality(others) + Cardinality(AwaitedOps(session[w]))
  <2>1. Cardinality(others \cup mine(session[w]))
          = Cardinality(others) + Cardinality(mine(session[w])) - Cardinality({})
    BY <1>1, <1>3, <1>4, FS_Union
  <2> QED BY <1>1, <1>3, <1>4, <1>5, <2>1
<1>7. Cardinality(Awaited(after)) = Cardinality(others) + Cardinality(AwaitedOps(t))
  <2>1. Cardinality(others \cup mine(t))
          = Cardinality(others) + Cardinality(mine(t)) - Cardinality({})
    BY <1>2, <1>3, <1>4, FS_Union
  <2> QED BY <1>2, <1>3, <1>4, <1>5, <2>1
<1>8. Cardinality(AwaitedOps(session[w])) \in Nat /\ Cardinality(AwaitedOps(t)) \in Nat
  BY <1>4
<1> QED BY <1>3, <1>6, <1>7, <1>8 DEF after

\* One counts a condition as 0 or 1.
LEMMA CountsTyped ==
  ASSUME NEW b
  PROVE  One(b) \in {0, 1} /\ One(b) \in Nat /\ (b => One(b) = 1) /\ (~b => One(b) = 0)
BY DEF One

(***************************************************************************)
(* The accounts balance again when each counter has moved with the session *)
(* of w.                                                                   *)
(***************************************************************************)
LEMMA SlotAccounts ==
  ASSUME NEW m, Accounts(m), NEW n \in LooseServer, ~n.badReset, NEW w \in Slot,
         NEW t, NEW state, NEW k, Holds(m, n, w, t, state, k),
         SessionShape(t), k = Cardinality(AwaitedOps(t)),
         n.pending = m.pending - m.wrapper[w].ops + k
                       - One(m.accept = "in_progress") - One(m.stopScheduled)
                       + One(n.accept = "in_progress") + One(n.stopScheduled),
         n.unreported - n.startedLate =
           m.unreported - m.startedLate - One(w \in Unreported(m.session))
             + One(Awaits(t, "start") \/ Awaits(t, "wait"))
  PROVE  Accounts(n)
<1>1. /\ m \in LooseServer /\ m.session \in [Slot -> ManagedSession]
      /\ m.wrapper \in [Slot -> LooseWrapper]
  BY SlotFields DEF Accounts
<1>2. /\ n.session = [m.session EXCEPT ![w] = t]
      /\ n.wrapper = [m.wrapper EXCEPT ![w] = [state |-> state, ops |-> k]]
  BY DEF Holds
<1>3. Shaped(n.session)
  BY <1>1, <1>2 DEF Accounts, Shaped
<1>4. OpsCounted(n.wrapper, n.session)
  BY <1>1, <1>2 DEF Accounts, OpsCounted
<1>5. PendingCounted(n)
  <2> DEFINE a == One(m.accept = "in_progress")
             b == One(m.stopScheduled)
             c == One(n.accept = "in_progress")
             d == One(n.stopScheduled)
             x == Cardinality(Awaited(m.session))
             y == Cardinality(Awaited(n.session))
             l == Cardinality(AwaitedOps(m.session[w]))
  <2>1. a \in Nat /\ b \in Nat /\ c \in Nat /\ d \in Nat
    BY CountsTyped
  <2>2. x \in Nat /\ y \in Nat
    BY AwaitedFinite
  <2>3. l \in Nat /\ k \in Nat
    BY AwaitedOpsFinite
  <2>4. y = x - l + k
    BY <1>1, <1>2, AwaitedChanges
  <2>5. m.wrapper[w].ops = l
    BY DEF Accounts, OpsCounted
  <2>6. m.pending = a + b + x
    BY DEF Accounts, PendingCounted
  <2>7. n.pending = m.pending - m.wrapper[w].ops + k - a - b + c + d
    OBVIOUS
  <2> HIDE DEF a, b, c, d, x, y, l
  <2>8. n.pending = c + d + y
    BY <2>1, <2>2, <2>3, <2>4, <2>5, <2>6, <2>7
  <2> QED BY <2>8 DEF c, d, y, PendingCounted
<1>6. ReportsCounted(n)
  <2> DEFINE x == Cardinality(Unreported(m.session))
             y == Cardinality(Unreported(n.session))
             a == One(w \in Unreported(m.session))
             b == One(w \in Unreported(n.session))
             c == One(Awaits(t, "start") \/ Awaits(t, "wait"))
  <2>1. x \in Nat /\ y \in Nat
    BY AwaitedFinite
  <2>2. a \in Nat /\ b \in Nat /\ c \in Nat
    BY CountsTyped
  <2>3. y = x - a + b
    BY <1>1, <1>2, UnreportedChanges
  <2>4. b = c
    <3>1. w \in Unreported(n.session) <=> Awaits(t, "start") \/ Awaits(t, "wait")
      BY <1>1, <1>2, UnreportedChanges
    <3> QED BY <3>1 DEF One
  <2>5. m.unreported = x + m.startedLate
    BY DEF Accounts, ReportsCounted
  <2>6. m.startedLate \in Int /\ n.startedLate \in Int /\ n.unreported \in Int
        /\ m.unreported \in Int
    BY <1>1 DEF LooseServer
  <2>7. n.unreported - n.startedLate = m.unreported - m.startedLate - a + c
    OBVIOUS
  <2> HIDE DEF a, b, c, x, y
  <2>8. n.unreported = y + n.startedLate
    BY <2>1, <2>2, <2>3, <2>4, <2>5, <2>6, <2>7
  <2> QED BY <2>8 DEF y, ReportsCounted
<1> QED BY <1>3, <1>4, <1>5, <1>6 DEF Accounts

-----------------------------------------------------------------------------
(* What a change of one session does to the lists of the manager.          *)

InList(state) == state \in {"start", "work", "stop"}

(***************************************************************************)
(* n is m with the session of w replaced by t, which is counted.           *)
(***************************************************************************)
Changes(m, n, w, t, state, k) ==
  /\ n \in LooseServer /\ ~n.badReset /\ SameManager(m, n)
  /\ Holds(m, n, w, t, state, k)
  /\ SessionShape(t) /\ SlotShape(state, t) /\ k = Cardinality(AwaitedOps(t))
  /\ n.pending = m.pending - m.wrapper[w].ops + k
  /\ n.unreported - n.startedLate =
       m.unreported - m.startedLate - One(w \in Unreported(m.session))
         + One(Awaits(t, "start") \/ Awaits(t, "wait"))

(***************************************************************************)
(* A replaced session whose state fits it leaves all the others as they    *)
(* were.                                                                   *)
(***************************************************************************)
LEMMA SlotsHeld ==
  ASSUME NEW m \in LooseServer, NEW n, NEW w \in Slot, NEW t, NEW state, NEW k,
         Holds(m, n, w, t, state, k),
         SlotsShaped(m.wrapper, m.session), SlotShape(state, t)
  PROVE  /\ SlotsShaped(n.wrapper, n.session)
         /\ n.wrapper[w].state = state /\ n.wrapper[w].ops = k /\ n.session[w] = t
         /\ \A x \in Slot : x # w => /\ n.wrapper[x] = m.wrapper[x]
                                     /\ n.session[x] = m.session[x]
<1>1. /\ n.session = [m.session EXCEPT ![w] = t]
      /\ n.wrapper = [m.wrapper EXCEPT ![w] = [state |-> state, ops |-> k]]
      /\ m.session \in [Slot -> ManagedSession] /\ m.wrapper \in [Slot -> LooseWrapper]
  BY SlotFields DEF Holds
<1>2. /\ n.wrapper[w] = [state |-> state, ops |-> k] /\ n.session[w] = t
      /\ \A x \in Slot : x # w => /\ n.wrapper[x] = m.wrapper[x]
                                  /\ n.session[x] = m.session[x]
  BY <1>1
<1>3. n.wrapper[w].state = state /\ n.wrapper[w].ops = k
  BY <1>2
<1>4. SlotsShaped(n.wrapper, n.session)
  BY <1>2, <1>3 DEF SlotsShaped
<1> QED BY <1>2, <1>3, <1>4

\* Replacing a session in use does not use another slot.
LEMMA UsedNoMore ==
  ASSUME NEW wrapper, NEW after, NEW w \in Slot, wrapper[w].state # "free",
         \A x \in Slot : x # w => after[x] = wrapper[x],
         Cardinality(Used(wrapper)) <= MaxSessions
  PROVE  Cardinality(Used(after)) <= MaxSessions
<1>1. Used(after) \in SUBSET Used(wrapper)
  BY DEF Used
<1>2. Used(wrapper) \in SUBSET Slot
  BY DEF Used
<1>3. IsFiniteSet(Used(wrapper)) /\ Cardinality(Used(wrapper)) \in Nat
  BY <1>2, AwaitedFinite, FS_Subset, FS_CardinalityType
<1>4. Cardinality(Used(after)) <= Cardinality(Used(wrapper))
      /\ Cardinality(Used(after)) \in Nat
  BY <1>1, <1>3, FS_Subset, FS_CardinalityType
<1> QED BY <1>3, <1>4, SessionManagerAssumption

(***************************************************************************)
(* A session is at another point of its life, and as active as it was.     *)
(***************************************************************************)
LEMMA SessionHandled ==
  ASSUME NEW m, Working(m, FALSE), m.intern # "stopped", m.extern # "ready",
         NEW n, NEW w \in Slot, NEW t, NEW state, NEW k,
         Changes(m, n, w, t, state, k), SameLists(m, n),
         InList(state) <=> InList(m.wrapper[w].state),
         state # "ready", m.wrapper[w].state \notin {"free", "ready"},
         m.intern = "work" => /\ state # "stopped"
                              /\ state = "stop" => AwaitsOnly(t, "stop"),
         m.wrapper[w].state = "stop" => state = "stop"
  PROVE  Working(n, FALSE)
<1> SUFFICES
      ASSUME n \in LooseServer, ~n.badReset, SameManager(m, n),
             Holds(m, n, w, t, state, k),
             SessionShape(t), SlotShape(state, t), k = Cardinality(AwaitedOps(t)),
             n.pending = m.pending - m.wrapper[w].ops + k,
             n.unreported - n.startedLate =
               m.unreported - m.startedLate - One(w \in Unreported(m.session))
                 + One(Awaits(t, "start") \/ Awaits(t, "wait"))
      PROVE  Working(n, FALSE)
  BY DEF Changes
<1>1. /\ m \in LooseServer /\ m.session \in [Slot -> ManagedSession]
      /\ m.wrapper \in [Slot -> LooseWrapper] /\ m.active \in Seq(Slot)
      /\ m.wrapper[w].ops \in Int
  BY SlotFields DEF Working, Accounts
<1>2. /\ n.extern = m.extern /\ n.intern = m.intern
      /\ n.accept = m.accept /\ n.accepting = m.accepting
      /\ n.acceptorOpen = m.acceptorOpen /\ n.stopScheduled = m.stopScheduled
      /\ n.acceptError = m.acceptError /\ n.waitError = m.waitError
      /\ n.waitHandler = m.waitHandler /\ n.stopHandler = m.stopHandler
      /\ n.owed = m.owed /\ n.active = m.active /\ n.stoppingEnd = m.stoppingEnd
  BY DEF SameManager, SameLists
<1>3. Accounts(n)
  <2> DEFINE a == One(m.accept = "in_progress")
             b == One(m.stopScheduled)
             o == m.wrapper[w].ops
  <2>1. a \in Nat /\ b \in Nat /\ k \in Nat /\ o \in Int /\ m.pending \in Int
    BY <1>1, CountsTyped, AwaitedOpsFinite DEF LooseServer
  <2>2. n.pending = m.pending - o + k
    OBVIOUS
  <2> HIDE DEF a, b, o
  <2>3. n.pending = m.pending - o + k - a - b + a + b
    BY <2>1, <2>2
  <2>4. n.pending = m.pending - m.wrapper[w].ops + k
                      - One(m.accept = "in_progress") - One(m.stopScheduled)
                      + One(n.accept = "in_progress") + One(n.stopScheduled)
    BY <1>2, <2>3 DEF a, b, o
  <2>5. Accounts(m)
    BY DEF Working
  <2> QED BY <2>4, <2>5, SlotAccounts
<1>4. Slots(m)
  BY DEF Working
<1>5. /\ SlotsShaped(n.wrapper, n.session)
      /\ n.wrapper[w].state = state /\ n.session[w] = t
      /\ \A x \in Slot : x # w => /\ n.wrapper[x] = m.wrapper[x]
                                  /\ n.session[x] = m.session[x]
  <2>1. SlotsShaped(m.wrapper, m.session)
    BY <1>4 DEF Slots
  <2> QED BY <1>1, <2>1, SlotsHeld
<1>6. Listed(n.active, n.wrapper)
  BY <1>2, <1>4, <1>5 DEF Slots, Listed, InList
<1>7. AcceptingReady(n.accepting, n.wrapper)
  BY <1>2, <1>4, <1>5 DEF Slots, AcceptingReady
<1>8. Cardinality(Used(n.wrapper)) <= MaxSessions
  BY <1>4, <1>5, UsedNoMore DEF Slots
<1>9. Slots(n)
  BY <1>2, <1>4, <1>5, <1>6, <1>7, <1>8 DEF Slots
<1>10. Answers(n, FALSE)
  BY <1>2 DEF Working, Answers
<1>11. ASSUME n.intern = "work" PROVE AtWork(n)
  <2>1. AtWork(m)
    BY <1>2, <1>11 DEF Working
  <2>2. m.intern = "work"
    BY <1>2, <1>11
  <2>3. \A x \in Slot : /\ n.wrapper[x].state # "stopped"
                        /\ n.wrapper[x].state = "stop" => AwaitsOnly(n.session[x], "stop")
    <3> TAKE x \in Slot
    <3>1. CASE x = w
      BY <1>5, <2>2, <3>1
    <3>2. CASE x # w
      BY <1>5, <2>1, <3>2 DEF AtWork
    <3> QED BY <3>1, <3>2
  <2> QED BY <1>2, <2>1, <2>3 DEF AtWork
<1>12. ASSUME n.intern # "work" PROVE AtStop(n)
  <2>1. AtStop(m)
    BY <1>2, <1>12 DEF Working
  <2>2. Reached(n.stoppingEnd, n.active, n.wrapper)
    <3> SUFFICES ASSUME NEW i \in 1 .. Len(n.active),
                        \A j \in 1 .. i : n.active[j] # n.stoppingEnd
                 PROVE  n.wrapper[n.active[i]].state = "stop"
      BY DEF Reached
    <3>1. m.wrapper[m.active[i]].state = "stop" /\ m.active[i] \in Slot
      BY <1>1, <1>2, <2>1 DEF AtStop, Reached
    <3>2. CASE m.active[i] = w
      BY <1>2, <1>5, <3>1, <3>2
    <3>3. CASE m.active[i] # w
      BY <1>2, <1>5, <3>1, <3>3
    <3> QED BY <3>2, <3>3
  <2> QED BY <1>2, <2>1, <2>2 DEF AtStop
<1> QED BY <1>2, <1>3, <1>9, <1>10, <1>11, <1>12 DEF Working

(***************************************************************************)
(* The cursor of a stop, when a session is erased from the list.           *)
(***************************************************************************)
LEMMA CursorMoved ==
  ASSUME NEW m, m.active \in Seq(Slot), Distinct(m.active), NEW w \in ToSet(m.active),
         m.stoppingEnd \in {None} \cup ToSet(m.active),
         Reached(m.stoppingEnd, m.active, m.wrapper), NEW wrapper,
         \A x \in Slot : x # w => wrapper[x] = m.wrapper[x]
  PROVE  LET active == RemoveAt(m.active, Position(m, w))
             end == IF m.stoppingEnd = w THEN NextActive(m, w) ELSE m.stoppingEnd
         IN  /\ end \in {None} \cup ToSet(active)
             /\ end # None => m.stoppingEnd # None
             /\ Reached(end, active, wrapper)
<1> DEFINE p == Position(m, w)
           s == m.active
           t == RemoveAt(m.active, p)
           end == IF m.stoppingEnd = w THEN NextActive(m, w) ELSE m.stoppingEnd
<1>1. p \in 1 .. Len(s) /\ s[p] = w /\ Len(s) \in Nat
  BY PositionFound
<1>5. NextActive(m, w) = IF p < Len(s) THEN s[p + 1] ELSE None
  BY DEF NextActive
<1> HIDE DEF p
<1>2. /\ t \in Seq(Slot) /\ Len(t) = Len(s) - 1
      /\ \A i \in 1 .. Len(t) : t[i] = IF i < p THEN s[i] ELSE s[i + 1]
      /\ Distinct(t) /\ ToSet(t) = ToSet(s) \ {w}
  BY <1>1, SlotErased
<1>3. \A i, j \in 1 .. Len(s) : s[i] = s[j] => i = j
  BY DEF Distinct
<1>4. \A i \in 1 .. Len(s) : s[i] \in Slot
  OBVIOUS
<1>6. None \notin Slot
  BY SessionManagerAssumption DEF None, Slot
<1> HIDE DEF t
<1>7. CASE m.stoppingEnd = w
  <2>1. end = IF p < Len(s) THEN s[p + 1] ELSE None
    BY <1>5, <1>7
  <2>2. p < Len(s) => p \in 1 .. Len(t) /\ t[p] = s[p + 1]
    BY <1>1, <1>2
  <2>3. end \in {None} \cup ToSet(t)
    BY <1>2, <2>1, <2>2, ToSetElements
  <2>4. w # None
    BY <1>1, <1>4, <1>6
  <2>5. Reached(end, t, wrapper)
    <3> SUFFICES ASSUME NEW i \in 1 .. Len(t), \A j \in 1 .. i : t[j] # end
                 PROVE  wrapper[t[i]].state = "stop"
      BY DEF Reached
    <3>1. i < p
      <4> SUFFICES ASSUME ~(i < p) PROVE FALSE
        OBVIOUS
      <4>1. p < Len(s) /\ p \in 1 .. i
        BY <1>1, <1>2
      <4> QED BY <2>1, <2>2, <4>1
    <3>2. t[i] = s[i] /\ i \in 1 .. Len(s) /\ s[i] # w
      BY <1>1, <1>2, <1>3, <3>1
    <3>3. \A j \in 1 .. i : s[j] # m.stoppingEnd
      <4> TAKE j \in 1 .. i
      <4>1. j \in 1 .. Len(s) /\ j # p
        BY <1>1, <3>1, <3>2
      <4> QED BY <1>1, <1>3, <1>7, <4>1
    <3>4. m.wrapper[s[i]].state = "stop"
      BY <3>2, <3>3 DEF Reached
    <3> QED BY <1>4, <3>2, <3>4
  <2> HIDE DEF end
  <2> QED BY <1>7, <2>3, <2>4, <2>5 DEF end, t, p
<1>8. CASE m.stoppingEnd # w
  <2>1. end = m.stoppingEnd
    BY <1>8
  <2>2. end \in {None} \cup ToSet(t)
    BY <1>2, <1>8, <2>1
  <2>3. Reached(end, t, wrapper)
    <3> SUFFICES ASSUME NEW i \in 1 .. Len(t), \A j \in 1 .. i : t[j] # end
                 PROVE  wrapper[t[i]].state = "stop"
      BY DEF Reached
    <3> DEFINE at(j) == IF j < p THEN j ELSE j + 1
    <3>1. at(i) \in 1 .. Len(s) /\ t[i] = s[at(i)] /\ s[at(i)] # w
      BY <1>1, <1>2, <1>3
    <3>2. \A j \in 1 .. at(i) : s[j] # m.stoppingEnd
      <4> TAKE j \in 1 .. at(i)
      <4>1. CASE j < p
        <5>1. j \in 1 .. i /\ t[j] = s[j]
          BY <1>1, <1>2, <4>1
        <5> QED BY <2>1, <5>1
      <4>2. CASE j = p
        BY <1>1, <1>8, <4>2
      <4>3. CASE j > p
        <5>0. at(i) \in Int /\ at(i) <= i + 1 /\ j \in Int /\ j <= at(i)
          BY <3>1
        <5>1. j - 1 \in 1 .. i /\ (j - 1) + 1 = j /\ ~(j - 1 < p)
          BY <1>1, <4>3, <5>0
        <5>2. t[j - 1] = s[j]
          BY <1>2, <5>1
        <5> QED BY <2>1, <5>1, <5>2
      <4> QED BY <1>1, <3>1, <4>1, <4>2, <4>3
    <3> HIDE DEF at
    <3>3. m.wrapper[s[at(i)]].state = "stop"
      BY <3>1, <3>2 DEF Reached
    <3> QED BY <1>4, <3>1, <3>3
  <2> HIDE DEF end
  <2> QED BY <2>1, <2>2, <2>3 DEF end, t, p
<1> QED BY <1>7, <1>8

(***************************************************************************)
(* A session is done with: it leaves the list, and is free unless its last *)
(* handler is late.                                                        *)
(***************************************************************************)
LEMMA SessionRemoved ==
  ASSUME NEW m, Working(m, FALSE), m.intern # "stopped", m.extern # "ready",
         NEW n, NEW w \in Slot, NEW t, NEW state, NEW k,
         Changes(m, n, w, t, state, k), InList(m.wrapper[w].state),
         n.active = RemoveAt(m.active, Position(m, w)),
         n.stoppingEnd = IF m.stoppingEnd = w THEN NextActive(m, w) ELSE m.stoppingEnd,
         state \in {"free", "stopped"}, m.intern = "work" => state = "free"
  PROVE  Working(n, FALSE)
<1> SUFFICES
      ASSUME n \in LooseServer, ~n.badReset, SameManager(m, n),
             Holds(m, n, w, t, state, k),
             SessionShape(t), SlotShape(state, t), k = Cardinality(AwaitedOps(t)),
             n.pending = m.pending - m.wrapper[w].ops + k,
             n.unreported - n.startedLate =
               m.unreported - m.startedLate - One(w \in Unreported(m.session))
                 + One(Awaits(t, "start") \/ Awaits(t, "wait"))
      PROVE  Working(n, FALSE)
  BY DEF Changes
<1>1. /\ m \in LooseServer /\ m.session \in [Slot -> ManagedSession]
      /\ m.wrapper \in [Slot -> LooseWrapper] /\ m.active \in Seq(Slot)
      /\ m.wrapper[w].ops \in Int
  BY SlotFields DEF Working, Accounts
<1>2. /\ n.extern = m.extern /\ n.intern = m.intern
      /\ n.accept = m.accept /\ n.accepting = m.accepting
      /\ n.acceptorOpen = m.acceptorOpen /\ n.stopScheduled = m.stopScheduled
      /\ n.acceptError = m.acceptError /\ n.waitError = m.waitError
      /\ n.waitHandler = m.waitHandler /\ n.stopHandler = m.stopHandler
      /\ n.owed = m.owed
  BY DEF SameManager
<1>3. Accounts(n)
  <2> DEFINE a == One(m.accept = "in_progress")
             b == One(m.stopScheduled)
             o == m.wrapper[w].ops
  <2>1. a \in Nat /\ b \in Nat /\ k \in Nat /\ o \in Int /\ m.pending \in Int
    BY <1>1, CountsTyped, AwaitedOpsFinite DEF LooseServer
  <2>2. n.pending = m.pending - o + k
    OBVIOUS
  <2> HIDE DEF a, b, o
  <2>3. n.pending = m.pending - o + k - a - b + a + b
    BY <2>1, <2>2
  <2>4. n.pending = m.pending - m.wrapper[w].ops + k
                      - One(m.accept = "in_progress") - One(m.stopScheduled)
                      + One(n.accept = "in_progress") + One(n.stopScheduled)
    BY <1>2, <2>3 DEF a, b, o
  <2>5. Accounts(m)
    BY DEF Working
  <2> QED BY <2>4, <2>5, SlotAccounts
<1>4. Slots(m)
  BY DEF Working
<1>5. /\ SlotsShaped(n.wrapper, n.session)
      /\ n.wrapper[w].state = state /\ n.session[w] = t
      /\ \A x \in Slot : x # w => /\ n.wrapper[x] = m.wrapper[x]
                                  /\ n.session[x] = m.session[x]
  <2>1. SlotsShaped(m.wrapper, m.session)
    BY <1>4 DEF Slots
  <2> QED BY <1>1, <2>1, SlotsHeld
<1>6. Distinct(m.active) /\ w \in ToSet(m.active)
  BY <1>4 DEF Slots, Listed, InList
<1>7. /\ Distinct(n.active) /\ ToSet(n.active) = ToSet(m.active) \ {w}
      /\ Len(n.active) = Len(m.active) - 1
  <2> DEFINE p == Position(m, w)
  <2>1. p \in 1 .. Len(m.active) /\ m.active[p] = w
    BY <1>1, <1>6, PositionFound
  <2>2. n.active = RemoveAt(m.active, p)
    OBVIOUS
  <2> HIDE DEF p
  <2> QED BY <1>1, <1>6, <2>1, <2>2, SlotErased
<1>8. Listed(n.active, n.wrapper)
  BY <1>4, <1>5, <1>7 DEF Slots, Listed, InList
<1>9. AcceptingReady(n.accepting, n.wrapper)
  BY <1>2, <1>4, <1>5 DEF Slots, AcceptingReady, InList
<1>10. Cardinality(Used(n.wrapper)) <= MaxSessions
  BY <1>4, <1>5, UsedNoMore DEF Slots, InList
<1>11. Slots(n)
  BY <1>2, <1>4, <1>5, <1>8, <1>9, <1>10 DEF Slots
<1>12. Answers(n, FALSE)
  BY <1>2 DEF Working, Answers
<1>13. ASSUME n.intern = "work" PROVE AtWork(n)
  <2>1. AtWork(m)
    BY <1>2, <1>13 DEF Working
  <2>2. m.intern = "work"
    BY <1>2, <1>13
  <2>3. \A x \in Slot : /\ n.wrapper[x].state # "stopped"
                        /\ n.wrapper[x].state = "stop" => AwaitsOnly(n.session[x], "stop")
    <3> TAKE x \in Slot
    <3>1. CASE x = w
      BY <1>5, <2>2, <3>1
    <3>2. CASE x # w
      BY <1>5, <2>1, <3>2 DEF AtWork
    <3> QED BY <3>1, <3>2
  <2>4. n.stoppingEnd = None
    <3>1. m.stoppingEnd = None /\ None \notin Slot
      BY <2>1, SessionManagerAssumption DEF AtWork, None, Slot
    <3> QED BY <3>1
  <2>5. Len(m.active) \in Nat /\ Len(n.active) < Len(m.active)
    BY <1>1, <1>7
  <2>6. m.accept = "in_progress" => Len(m.active) < MaxSessions
    BY <2>1 DEF AtWork
  <2>7. m.accept = "in_progress" => Len(n.active) < MaxSessions
    BY <1>1, <1>7, <2>5, <2>6, SessionManagerAssumption
  <2> QED BY <1>2, <2>1, <2>3, <2>4, <2>7 DEF AtWork
<1>14. ASSUME n.intern # "work" PROVE AtStop(n)
  <2>1. AtStop(m)
    BY <1>2, <1>14 DEF Working
  <2>2. /\ n.stoppingEnd \in {None} \cup ToSet(n.active)
        /\ n.stoppingEnd # None => m.stoppingEnd # None
        /\ Reached(n.stoppingEnd, n.active, n.wrapper)
    <3>1. /\ m.stoppingEnd \in {None} \cup ToSet(m.active)
          /\ Reached(m.stoppingEnd, m.active, m.wrapper)
      BY <2>1 DEF AtStop
    <3>2. \A x \in Slot : x # w => n.wrapper[x] = m.wrapper[x]
      BY <1>5
    <3> QED BY <1>1, <1>6, <3>1, <3>2, CursorMoved
  <2> QED BY <1>2, <2>1, <2>2 DEF AtStop
<1> QED BY <1>2, <1>3, <1>11, <1>12, <1>13, <1>14 DEF Working

-----------------------------------------------------------------------------
(* The handlers of the sessions, up to where they go on.                   *)

(***************************************************************************)
(* The manager and the session w after a reply was taken and counted.      *)
(***************************************************************************)
Handled(m, n, w, reply) ==
  /\ n \in LooseServer /\ SameManager(m, n) /\ SameLists(m, n)
  /\ n.badReset = m.badReset
  /\ n.pending = m.pending - 1 /\ n.unreported = m.unreported
  /\ n.startedLate = m.startedLate
  /\ Holds(m, n, w, Unposted(m.session[w], reply), m.wrapper[w].state,
           m.wrapper[w].ops - 1)

\* What the three handlers of replies do first.
LEMMA ReplyHandled ==
  ASSUME NEW m \in LooseServer, NEW w \in Slot, NEW reply
  PROVE  LET taken == [m EXCEPT !.session[w].replies = @ \ {reply}]
         IN  /\ Handled(m, Completed(taken, w), w, reply)
             /\ taken.wrapper = m.wrapper /\ taken.intern = m.intern
<1> DEFINE taken == [m EXCEPT !.session[w].replies = @ \ {reply}]
           n == Completed(taken, w)
<1>1. /\ taken \in LooseServer /\ SameManager(m, taken) /\ SameLists(m, taken)
      /\ taken.badReset = m.badReset /\ SameCounts(m, taken)
      /\ taken.session = [m.session EXCEPT ![w] = Unposted(m.session[w], reply)]
      /\ taken.wrapper = m.wrapper
  BY UnpostedFields
<1> HIDE DEF taken
<1>2. /\ n \in LooseServer /\ SameManager(taken, n) /\ SameLists(taken, n)
      /\ n.badReset = taken.badReset
      /\ n.pending = taken.pending - 1 /\ n.unreported = taken.unreported
      /\ n.startedLate = taken.startedLate
      /\ n.session = taken.session
      /\ n.wrapper = [taken.wrapper EXCEPT ![w] =
                        [state |-> taken.wrapper[w].state,
                         ops |-> taken.wrapper[w].ops - 1]]
  BY <1>1, CompletedFields
<1> HIDE DEF n
<1>3. Handled(m, n, w, reply)
  BY <1>1, <1>2 DEF Handled, SameManager, SameLists, SameCounts, Holds
<1> QED BY <1>1, <1>3 DEF n, taken, SameManager

(***************************************************************************)
(* Where a reply finds its manager and its session.                        *)
(***************************************************************************)
LEMMA AwaitedMeans ==
  ASSUME NEW m, Accounts(m), NEW w \in Slot, NEW op \in Operation,
         Awaits(m.session[w], op)
  PROVE  m.pending > 0 /\ m.wrapper[w].ops > 0
<1>1. /\ m.session \in [Slot -> ManagedSession]
  BY SlotFields DEF Accounts
<1>2. Cardinality(AwaitedOps(m.session[w])) > 0
  <2>1. AwaitedOps(m.session[w]) # {}
    BY DEF AwaitedOps
  <2>2. Cardinality(AwaitedOps(m.session[w])) # 0
    BY <2>1, AwaitedOpsFinite, FS_EmptySet
  <2> QED BY <2>2, AwaitedOpsFinite
<1>3. Cardinality(Awaited(m.session)) > 0
  <2>1. <<w, op>> \in Awaited(m.session)
    BY DEF Awaited
  <2>2. Cardinality(Awaited(m.session)) # 0
    BY <2>1, AwaitedFinite, FS_EmptySet
  <2> QED BY <2>2, AwaitedFinite
<1>4. m.wrapper[w].ops = Cardinality(AwaitedOps(m.session[w]))
  BY DEF Accounts, OpsCounted
<1>5. m.pending > 0
  <2> DEFINE a == One(m.accept = "in_progress")
             b == One(m.stopScheduled)
             c == Cardinality(Awaited(m.session))
  <2>1. a \in Nat /\ b \in Nat /\ c \in Nat
    BY CountsTyped, AwaitedFinite
  <2>2. m.pending = a + b + c /\ c > 0
    BY <1>3 DEF Accounts, PendingCounted
  <2> HIDE DEF a, b, c
  <2> QED BY <2>1, <2>2
<1> QED BY <1>2, <1>4, <1>5

(***************************************************************************)
(* Where a reply finds its manager and its session, before and after it is *)
(* taken.                                                                  *)
(***************************************************************************)
LEMMA ReplyMeans ==
  ASSUME NEW m, Working(m, FALSE), NEW w \in Slot, NEW reply \in m.session[w].replies
  PROVE  LET s == m.session[w]
             t == Unposted(s, reply)
         IN  /\ m.intern # "stopped" /\ m.extern # "ready" /\ m.extern # "stopped"
             /\ m \in LooseServer /\ ~m.badReset
             /\ SessionShape(s) /\ SessionShape(t) /\ t.view = s.view
             /\ SlotShape(m.wrapper[w].state, s)
             /\ m.wrapper[w].state \notin {"free", "ready"}
             /\ reply[1] \in Operation /\ Awaits(s, reply[1])
             /\ \A o \in Operation : Awaits(t, o) <=> Awaits(s, o) /\ o # reply[1]
             /\ m.wrapper[w].ops = Cardinality(AwaitedOps(s))
             /\ Cardinality(AwaitedOps(t)) = m.wrapper[w].ops - 1
             /\ m.wrapper[w].ops > 0 /\ m.wrapper[w].ops \in Int
             /\ w \in Unreported(m.session) <=> Awaits(s, "start") \/ Awaits(s, "wait")
<1> DEFINE s == m.session[w]
           t == Unposted(s, reply)
<1>1. Accounts(m) /\ Slots(m) /\ m \in LooseServer /\ ~m.badReset
  BY DEF Working, Accounts
<1>2. /\ m.session \in [Slot -> ManagedSession] /\ m.wrapper[w].ops \in Int
  BY <1>1, SlotFields
<1>3. SessionShape(s) /\ SlotShape(m.wrapper[w].state, s)
      /\ m.wrapper[w].ops = Cardinality(AwaitedOps(s))
  BY <1>1 DEF Accounts, Shaped, OpsCounted, Slots, SlotsShaped
<1>4. /\ SessionShape(t) /\ t.view = s.view
      /\ reply[1] \in Operation /\ Awaits(s, reply[1])
      /\ \A o \in Operation : Awaits(t, o) <=> Awaits(s, o) /\ o # reply[1]
  BY <1>3, ReplyShaped
<1>5. m.wrapper[w].state \notin {"free", "ready"}
  BY <1>3, <1>4, FreshShaped DEF SlotShape, Idle
<1>6. m.pending > 0 /\ m.wrapper[w].ops > 0 /\ m.pending \in Int
  BY <1>1, <1>4, AwaitedMeans DEF LooseServer
<1>7. m.intern # "stopped" /\ m.extern # "ready" /\ m.extern # "stopped"
  BY <1>6 DEF Working
<1>8. Cardinality(AwaitedOps(t)) = m.wrapper[w].ops - 1
  <2>1. /\ AwaitedOps(t) = AwaitedOps(s) \ {reply[1]}
        /\ reply[1] \in AwaitedOps(s)
    BY <1>4 DEF AwaitedOps
  <2> HIDE DEF s, t
  <2>2. Cardinality(AwaitedOps(t)) = Cardinality(AwaitedOps(s)) - 1
    BY <2>1, AwaitedOpsFinite, FS_RemoveElement
  <2> QED BY <1>3, <2>2
<1>9. w \in Unreported(m.session) <=> Awaits(s, "start") \/ Awaits(s, "wait")
  BY DEF Unreported
<1> QED BY <1>1, <1>2, <1>3, <1>4, <1>5, <1>6, <1>7, <1>8, <1>9

\* A start and a wait are never awaited together.
LEMMA InTurn ==
  ASSUME NEW s, SessionShape(s)
  PROVE  ~(Awaits(s, "start") /\ Awaits(s, "wait"))
<1>1. \/ s.requests = <<>> \/ s.requests = <<"wait">> \/ s.requests = <<"stop">>
      \/ s.requests = <<"start">> \/ s.requests = <<"start", "stop">>
      \/ s.requests = <<"wait", "stop">>
  BY QueueTells
<1>2. ~(Contains(s.requests, "start") /\ Contains(s.requests, "wait"))
  BY <1>1, QueueTells, QueuesDiffer, QueueContents
<1>3. Contains(s.requests, "start") => ~s.view.waiting /\ ~Replied(s, "wait")
  BY PlainViews DEF SessionShape, Replied
<1>4. Contains(s.requests, "wait") => ~Replied(s, "start")
  BY DEF SessionShape, Replied
<1>5. /\ s.view.waiting => ~Replied(s, "start")
      /\ ~(Replied(s, "start") /\ Replied(s, "wait"))
  BY DEF SessionShape
<1> QED BY <1>2, <1>3, <1>4, <1>5, AwaitsEach

\* An idle session awaits nothing.
LEMMA IdleCounts ==
  ASSUME NEW s
  PROVE  /\ Idle(s) <=> Cardinality(AwaitedOps(s)) = 0
         /\ \A op \in Operation : Awaits(s, op) => Cardinality(AwaitedOps(s)) # 0
         /\ Idle(s) => ~Awaits(s, "start") /\ ~Awaits(s, "wait") /\ ~Awaits(s, "stop")
<1>1. Idle(s) <=> AwaitedOps(s) = {}
  BY DEF Idle, AwaitedOps
<1>2. AwaitedOps(s) = {} <=> Cardinality(AwaitedOps(s)) = 0
  BY AwaitedOpsFinite, FS_EmptySet
<1>3. Idle(s) => ~Awaits(s, "start") /\ ~Awaits(s, "wait") /\ ~Awaits(s, "stop")
  BY DEF Idle, Operation
<1> QED BY <1>1, <1>2, <1>3 DEF Idle

\* Two changes of one session are one.
LEMMA HoldsTwice ==
  ASSUME NEW m \in LooseServer, NEW n, NEW r, NEW w \in Slot,
         NEW t, NEW state, NEW k, Holds(m, n, w, t, state, k),
         NEW u, NEW state2, NEW k2, Holds(n, r, w, u, state2, k2)
  PROVE  /\ Holds(m, r, w, u, state2, k2)
         /\ n.session[w] = t /\ n.wrapper[w].state = state /\ n.wrapper[w].ops = k
<1>1. m.session \in [Slot -> ManagedSession] /\ m.wrapper \in [Slot -> LooseWrapper]
  BY SlotFields
<1> QED BY <1>1 DEF Holds

\* The changed session itself.
LEMMA HoldsAt ==
  ASSUME NEW m \in LooseServer, NEW n, NEW w \in Slot,
         NEW t, NEW state, NEW k, Holds(m, n, w, t, state, k)
  PROVE  n.session[w] = t /\ n.wrapper[w].state = state /\ n.wrapper[w].ops = k
<1>1. m.session \in [Slot -> ManagedSession] /\ m.wrapper \in [Slot -> LooseWrapper]
  BY SlotFields
<1> QED BY <1>1 DEF Holds

(***************************************************************************)
(* A late completion of a start or of a wait: the session is being stopped *)
(* or done with, and given back when nothing else holds it.                *)
(***************************************************************************)
LEMMA ReplyKept ==
  ASSUME NEW m, Working(m, FALSE), NEW w \in Slot, NEW reply \in m.session[w].replies,
         reply[1] \in {"start", "wait"}, m.wrapper[w].state \in {"stop", "stopped"},
         NEW n, Handled(m, n, w, reply)
  PROVE  LET r == Recycle(Reported(n), w)
         IN  Working(r, FALSE) /\ SameManager(m, r)
<1> DEFINE s == m.session[w]
           t == Unposted(s, reply)
           told == Reported(n)
           r == Recycle(told, w)
           k == m.wrapper[w].ops - 1
           state == m.wrapper[w].state
<1>1. /\ m.intern # "stopped" /\ m.extern # "ready" /\ m.extern # "stopped"
      /\ m \in LooseServer /\ ~m.badReset
      /\ SessionShape(s) /\ SessionShape(t) /\ t.view = s.view
      /\ SlotShape(m.wrapper[w].state, s)
      /\ reply[1] \in Operation /\ Awaits(s, reply[1])
      /\ \A o \in Operation : Awaits(t, o) <=> Awaits(s, o) /\ o # reply[1]
      /\ m.wrapper[w].ops = Cardinality(AwaitedOps(s))
      /\ Cardinality(AwaitedOps(t)) = m.wrapper[w].ops - 1
      /\ m.wrapper[w].ops > 0 /\ m.wrapper[w].ops \in Int
      /\ w \in Unreported(m.session) <=> Awaits(s, "start") \/ Awaits(s, "wait")
  BY ReplyMeans, ZenonT(60)
<1>2. /\ n \in LooseServer /\ SameManager(m, n) /\ SameLists(m, n)
      /\ n.badReset = m.badReset
      /\ n.pending = m.pending - 1 /\ n.unreported = m.unreported
      /\ n.startedLate = m.startedLate
      /\ Holds(m, n, w, t, state, k)
  BY DEF Handled
<1>3. /\ told \in LooseServer /\ SameManager(n, told) /\ SameLists(n, told)
      /\ told.badReset = n.badReset
      /\ told.pending = n.pending /\ told.unreported = n.unreported - 1
      /\ told.startedLate = n.startedLate
      /\ told.session = n.session /\ told.wrapper = n.wrapper
  BY <1>2, ReportedFields
<1> HIDE DEF told
<1>4. Awaits(s, "start") \/ Awaits(s, "wait")
  BY <1>1
<1>5. ~Awaits(t, "start") /\ ~Awaits(t, "wait")
  BY <1>1, InTurn DEF Operation
<1>6. /\ told \in LooseServer /\ SameManager(m, told) /\ SameLists(m, told)
      /\ ~told.badReset /\ told.pending = m.pending - 1
      /\ told.unreported = m.unreported - 1 /\ told.startedLate = m.startedLate
      /\ Holds(m, told, w, t, state, k)
      /\ told.session[w] = t /\ told.wrapper[w].state = state
      /\ told.wrapper[w].ops = k
  <2>1. Holds(m, told, w, t, state, k)
    BY <1>2, <1>3 DEF Holds
  <2>2. SameManager(m, told) /\ SameLists(m, told)
    BY <1>2, <1>3 DEF SameManager, SameLists
  <2> HIDE DEF t, state, k
  <2> QED BY <1>1, <1>2, <1>3, <2>1, <2>2, HoldsAt
<1>7. /\ m.pending \in Int /\ m.unreported \in Int /\ m.startedLate \in Int
  BY <1>1 DEF LooseServer
<1>8. One(w \in Unreported(m.session)) = 1
  BY <1>1, <1>4, CountsTyped
<1>9. CASE state = "stop"
  <2>1. Awaits(s, "stop") /\ "stop" \in Operation
    BY <1>1, <1>9 DEF SlotShape, Operation
  <2>2. Awaits(t, "stop")
    BY <1>1, <2>1
  <2>3. Cardinality(AwaitedOps(t)) # 0
    BY <2>1, <2>2, IdleCounts
  <2>4. r = told
    BY <1>1, <1>6, <2>3, RecycleHeld
  <2>5. SlotShape(state, t)
    BY <1>9, <2>2 DEF SlotShape
  <2>6. ~(Awaits(t, "start") \/ Awaits(t, "wait"))
    BY <1>5
  <2>7. One(Awaits(t, "start") \/ Awaits(t, "wait")) = 0
    BY <2>6, CountsTyped
  <2>8. m.intern # "work"
    <3>1. ~AwaitsOnly(s, "stop")
      BY <1>1 DEF AwaitsOnly
    <3> QED BY <1>9, <3>1 DEF Working, AtWork
  <2> HIDE DEF s, t, r, k, told
  <2>9. k = Cardinality(AwaitedOps(t))
    BY <1>1 DEF k
  <2>10. told.pending = m.pending - m.wrapper[w].ops + k
    BY <1>1, <1>6, <1>7 DEF k
  <2>11. told.unreported - told.startedLate =
           m.unreported - m.startedLate - One(w \in Unreported(m.session))
             + One(Awaits(t, "start") \/ Awaits(t, "wait"))
    BY <1>6, <1>7, <1>8, <2>7
  <2>12. state # "ready" /\ m.wrapper[w].state \notin {"free", "ready"}
         /\ (InList(state) <=> InList(m.wrapper[w].state))
         /\ (m.wrapper[w].state = "stop" => state = "stop")
    BY <1>9
  <2> HIDE DEF state
  <2>13. Changes(m, told, w, t, state, k)
    BY <1>1, <1>6, <2>5, <2>9, <2>10, <2>11 DEF Changes
  <2>14. Working(told, FALSE)
    BY <1>1, <1>6, <2>8, <2>12, <2>13, SessionHandled
  <2> QED BY <1>6, <2>4, <2>14 DEF r, told
<1>10. CASE state = "stopped"
  <2>1. /\ AwaitsOnly(s, "start") \/ AwaitsOnly(s, "wait")
        /\ s.view.extern = "stopped"
    BY <1>1, <1>10 DEF SlotShape
  <2>2. Idle(t) /\ k = 0
    <3>1. Idle(t)
      BY <1>1, <2>1 DEF Idle, AwaitsOnly
    <3> QED BY <1>1, <3>1, IdleCounts
  <2>3. /\ r \in LooseServer /\ SameManager(told, r) /\ SameLists(told, r)
        /\ r.badReset = told.badReset /\ SameCounts(told, r)
        /\ Holds(told, r, w, FreshSession, "free", 0)
    <3>1. told.wrapper[w].ops = 0
      BY <1>6, <2>2
    <3>2. SessionShape(told.session[w]) /\ Idle(told.session[w])
          /\ told.session[w].view.extern \in {"ready", "stopped"}
      BY <1>1, <1>6, <2>1, <2>2
    <3> HIDE DEF s, t, k, state
    <3> QED BY <1>6, <3>1, <3>2, RecycleFields
  <2> HIDE DEF s, t, r, k
  <2>4. Holds(m, r, w, FreshSession, "free", 0)
    BY <1>1, <1>6, <2>3, HoldsTwice
  <2>5. SameManager(m, r) /\ SameLists(m, r)
    BY <1>6, <2>3 DEF SameManager, SameLists
  <2>6. /\ SessionShape(FreshSession) /\ Idle(FreshSession)
        /\ SlotShape("free", FreshSession)
    BY FreshShaped DEF SlotShape
  <2>7. /\ 0 = Cardinality(AwaitedOps(FreshSession))
        /\ ~(Awaits(FreshSession, "start") \/ Awaits(FreshSession, "wait"))
    BY <2>6, IdleCounts
  <2>8. One(Awaits(FreshSession, "start") \/ Awaits(FreshSession, "wait")) = 0
    BY <2>7, CountsTyped
  <2>9. r.pending = m.pending - m.wrapper[w].ops + 0
    BY <1>1, <1>6, <1>7, <2>2, <2>3 DEF SameCounts, k
  <2>10. r.unreported - r.startedLate =
           m.unreported - m.startedLate - One(w \in Unreported(m.session))
             + One(Awaits(FreshSession, "start") \/ Awaits(FreshSession, "wait"))
    <3>1. r.unreported = m.unreported - 1 /\ r.startedLate = m.startedLate
      BY <1>6, <2>3 DEF SameCounts
    <3> QED BY <1>7, <1>8, <2>8, <3>1
  <2>11. m.wrapper[w].state \notin {"free", "ready"} /\ m.wrapper[w].state # "stop"
         /\ (InList("free") <=> InList(m.wrapper[w].state))
    BY <1>10 DEF InList
  <2>12. ~r.badReset
    BY <1>6, <2>3
  <2>13. Changes(m, r, w, FreshSession, "free", 0)
    BY <2>3, <2>4, <2>5, <2>6, <2>7, <2>9, <2>10, <2>12 DEF Changes
  <2>14. Working(r, FALSE)
    BY <1>1, <2>5, <2>6, <2>11, <2>13, SessionHandled
  <2> QED BY <2>5, <2>14 DEF r, told
<1> HIDE DEF r, s, t, k
<1> QED BY <1>9, <1>10 DEF r, told


\* Nothing of a list depends on the rest of the manager.
\* Positions depend on the list only.
LEMMA SamePosition ==
  ASSUME NEW m, NEW n, n.active = m.active, NEW w
  PROVE  Position(n, w) = Position(m, w) /\ NextActive(n, w) = NextActive(m, w)
<1>1. Position(n, w) = Position(m, w)
  BY DEF Position
<1> QED BY <1>1 DEF NextActive

\* A fresh session fits a free slot and counts for nothing.
LEMMA FreshCounts ==
  /\ SessionShape(FreshSession) /\ SlotShape("free", FreshSession)
  /\ 0 = Cardinality(AwaitedOps(FreshSession))
  /\ One(Awaits(FreshSession, "start") \/ Awaits(FreshSession, "wait")) = 0
<1>1. /\ SessionShape(FreshSession) /\ Idle(FreshSession)
      /\ SlotShape("free", FreshSession)
  BY FreshShaped DEF SlotShape
<1>2. /\ 0 = Cardinality(AwaitedOps(FreshSession))
      /\ ~(Awaits(FreshSession, "start") \/ Awaits(FreshSession, "wait"))
  BY <1>1, IdleCounts
<1>3. One(Awaits(FreshSession, "start") \/ Awaits(FreshSession, "wait")) = 0
  BY <1>2, CountsTyped
<1> QED BY <1>1, <1>2, <1>3

(***************************************************************************)
(* A manager that has taken a reply of the session w and counted it, with  *)
(* what it reports of the session.                                         *)
(***************************************************************************)
Taken(m, n, w, t, state) ==
  /\ n \in LooseServer /\ SameManager(m, n) /\ SameLists(m, n) /\ ~n.badReset
  /\ n.pending = m.pending - 1
  /\ Holds(m, n, w, t, state, m.wrapper[w].ops - 1)
  /\ SessionShape(t) /\ Cardinality(AwaitedOps(t)) = m.wrapper[w].ops - 1

(***************************************************************************)
(* A session that is done with leaves the list.                            *)
(***************************************************************************)
LEMMA ReplyRemoves ==
  ASSUME NEW m, Working(m, FALSE), m.intern # "stopped", m.extern # "ready",
         NEW w \in Slot, InList(m.wrapper[w].state), NEW n, NEW t,
         Taken(m, n, w, t, m.wrapper[w].state),
         n.unreported - n.startedLate =
           m.unreported - m.startedLate - One(w \in Unreported(m.session))
             + One(Awaits(t, "start") \/ Awaits(t, "wait")),
         t.view.extern = "stopped",
         \/ Idle(t)
         \/ m.intern # "work" /\ (AwaitsOnly(t, "start") \/ AwaitsOnly(t, "wait"))
  PROVE  LET r == Recycle(RemoveFromActive(n, w), w)
         IN  Working(r, FALSE) /\ SameManager(m, r)
<1> DEFINE removed == RemoveFromActive(n, w)
           r == Recycle(removed, w)
           k == m.wrapper[w].ops - 1
           state == m.wrapper[w].state
<1>1. /\ n \in LooseServer /\ SameManager(m, n) /\ SameLists(m, n) /\ ~n.badReset
      /\ n.pending = m.pending - 1 /\ Holds(m, n, w, t, state, k)
      /\ SessionShape(t) /\ Cardinality(AwaitedOps(t)) = k
  BY DEF Taken
<1>2. m \in LooseServer /\ Slots(m)
  BY DEF Working, Accounts
<1>3. m.active \in Seq(Slot) /\ m.wrapper[w].ops \in Int /\ m.pending \in Int
  BY <1>2, SlotFields DEF LooseServer
<1>4. Distinct(m.active) /\ w \in ToSet(m.active)
  BY <1>2 DEF Slots, Listed, InList
<1>5. /\ removed \in LooseServer /\ SameManager(n, removed)
      /\ removed.active = RemoveAt(n.active, Position(n, w))
      /\ removed.stoppingEnd = IF n.stoppingEnd = w THEN NextActive(n, w)
                                                    ELSE n.stoppingEnd
      /\ removed.badReset = n.badReset /\ SameCounts(n, removed)
      /\ removed.session = n.session
      /\ removed.wrapper = [n.wrapper EXCEPT ![w] =
                              [state |-> "stopped", ops |-> n.wrapper[w].ops]]
  <2>1. n.active = m.active
    BY <1>1 DEF SameLists
  <2> QED BY <1>1, <1>4, <2>1, RemoveFields
<1> HIDE DEF removed
<1>6. /\ removed.active = RemoveAt(m.active, Position(m, w))
      /\ removed.stoppingEnd = IF m.stoppingEnd = w THEN NextActive(m, w)
                                                    ELSE m.stoppingEnd
  <2>1. n.active = m.active /\ n.stoppingEnd = m.stoppingEnd
    BY <1>1 DEF SameLists
  <2>2. Position(n, w) = Position(m, w) /\ NextActive(n, w) = NextActive(m, w)
    BY <2>1, SamePosition
  <2> QED BY <1>5, <2>1, <2>2
<1>7. /\ Holds(m, removed, w, t, "stopped", k)
      /\ removed.session[w] = t /\ removed.wrapper[w].ops = k
  <2>1. n.session[w] = t /\ n.wrapper[w].ops = k
    BY <1>1, <1>2, HoldsAt
  <2>2. /\ n.session = [m.session EXCEPT ![w] = t]
        /\ n.wrapper = [m.wrapper EXCEPT ![w] = [state |-> state, ops |-> k]]
    BY <1>1 DEF Holds
  <2>3. m.session \in [Slot -> ManagedSession] /\ m.wrapper \in [Slot -> LooseWrapper]
    BY <1>2, SlotFields
  <2> HIDE DEF k, state
  <2>4. Holds(m, removed, w, t, "stopped", k)
    BY <1>5, <2>1, <2>2, <2>3 DEF Holds
  <2> QED BY <1>2, <2>4, HoldsAt
<1>8. SameManager(m, removed) /\ ~removed.badReset
  BY <1>1, <1>5 DEF SameManager
<1>9. /\ removed.pending = m.pending - m.wrapper[w].ops + k
      /\ removed.unreported - removed.startedLate =
           m.unreported - m.startedLate - One(w \in Unreported(m.session))
             + One(Awaits(t, "start") \/ Awaits(t, "wait"))
  <2>1. /\ removed.pending = n.pending /\ removed.unreported = n.unreported
        /\ removed.startedLate = n.startedLate
    BY <1>5 DEF SameCounts
  <2>2. removed.pending = m.pending - m.wrapper[w].ops + k
    BY <1>1, <1>3, <2>1
  <2> QED BY <2>1, <2>2
<1>10. CASE ~Idle(t)
  <2>1. r = removed
    <3>1. removed.wrapper[w].ops # 0
      BY <1>1, <1>7, <1>10, IdleCounts
    <3> QED BY <3>1, RecycleHeld
  <2>2. m.intern # "work" /\ (AwaitsOnly(t, "start") \/ AwaitsOnly(t, "wait"))
    BY <1>10
  <2>3. SlotShape("stopped", t)
    BY <2>2 DEF SlotShape
  <2>4. Changes(m, removed, w, t, "stopped", k)
    BY <1>1, <1>5, <1>7, <1>8, <1>9, <2>3 DEF Changes
  <2>5. Working(removed, FALSE)
    BY <1>6, <2>2, <2>4, SessionRemoved
  <2> QED BY <1>8, <2>1, <2>5 DEF removed
<1>11. CASE Idle(t)
  <2>1. k = 0
    BY <1>1, <1>11, IdleCounts
  <2>2. /\ r \in LooseServer /\ SameManager(removed, r) /\ SameLists(removed, r)
        /\ r.badReset = removed.badReset /\ SameCounts(removed, r)
        /\ Holds(removed, r, w, FreshSession, "free", 0)
    <3>1. removed.wrapper[w].ops = 0
      BY <1>7, <2>1
    <3>2. SessionShape(removed.session[w]) /\ Idle(removed.session[w])
          /\ removed.session[w].view.extern \in {"ready", "stopped"}
      BY <1>1, <1>7, <1>11
    <3> QED BY <1>5, <3>1, <3>2, RecycleFields
  <2> HIDE DEF r, k
  <2>3. Holds(m, r, w, FreshSession, "free", 0)
    BY <1>2, <1>7, <2>2, HoldsTwice
  <2>4. SameManager(m, r)
    BY <1>8, <2>2 DEF SameManager
  <2>5. One(Awaits(t, "start") \/ Awaits(t, "wait")) = 0
    <3>1. ~(Awaits(t, "start") \/ Awaits(t, "wait"))
      BY <1>11, IdleCounts
    <3> QED BY <3>1, CountsTyped
  <2>6. r.pending = m.pending - m.wrapper[w].ops + 0
    BY <1>3, <1>9, <2>1, <2>2 DEF SameCounts
  <2>7. r.unreported - r.startedLate =
           m.unreported - m.startedLate - One(w \in Unreported(m.session))
             + One(Awaits(FreshSession, "start") \/ Awaits(FreshSession, "wait"))
    <3>1. r.unreported = removed.unreported /\ r.startedLate = removed.startedLate
      BY <2>2 DEF SameCounts
    <3> QED BY <1>9, <2>5, <3>1, FreshCounts
  <2>8. Changes(m, r, w, FreshSession, "free", 0)
    BY <1>8, <2>2, <2>3, <2>4, <2>6, <2>7, FreshCounts DEF Changes
  <2>9. /\ r.active = RemoveAt(m.active, Position(m, w))
        /\ r.stoppingEnd = IF m.stoppingEnd = w THEN NextActive(m, w)
                                                ELSE m.stoppingEnd
    BY <1>6, <2>2 DEF SameLists
  <2>10. Working(r, FALSE)
    BY <2>8, <2>9, SessionRemoved
  <2> QED BY <2>4, <2>10 DEF r, removed
<1> QED BY <1>10, <1>11

(***************************************************************************)
(* A session that works, or that must stop, is asked for the next thing.   *)
(***************************************************************************)
LEMMA ReplyRequests ==
  ASSUME NEW m, Working(m, FALSE), m.intern # "stopped", m.extern # "ready",
         NEW w \in Slot, m.wrapper[w].state \in {"start", "work"},
         NEW n, NEW t, NEW state, Taken(m, n, w, t, state),
         w \in Unreported(m.session), Idle(t), t.view.extern = "work",
         NEW op \in {"wait", "stop"}, op = "wait" => state = "work",
         n.unreported - n.startedLate =
           m.unreported - m.startedLate - One(op = "stop")
  PROVE  LET r == Request(n, w, op)
         IN  Working(r, FALSE) /\ SameManager(m, r)
<1> DEFINE r == Request(n, w, op)
           u == Requested(t, op)
           k == m.wrapper[w].ops - 1
           l == n.wrapper[w].ops + 1
           next == IF op = "wait" THEN n.wrapper[w].state ELSE op
<1>1. /\ n \in LooseServer /\ SameManager(m, n) /\ SameLists(m, n) /\ ~n.badReset
      /\ n.pending = m.pending - 1 /\ Holds(m, n, w, t, state, k)
      /\ SessionShape(t) /\ Cardinality(AwaitedOps(t)) = k
  BY DEF Taken
<1>2. m \in LooseServer
  BY DEF Working, Accounts
<1>3. /\ m.wrapper[w].ops \in Int /\ m.pending \in Int
      /\ m.unreported \in Int /\ m.startedLate \in Int
      /\ n.unreported \in Int /\ n.startedLate \in Int
  <2>1. m.wrapper[w].ops \in Int
    BY <1>2, SlotFields
  <2> QED BY <1>1, <1>2, <2>1 DEF LooseServer
<1>4. op \in Operation /\ "start" \in Operation /\ "wait" \in Operation
      /\ "stop" \in Operation
  BY DEF Operation
<1>5. ~Awaits(t, "start") /\ ~Awaits(t, "wait") /\ ~Awaits(t, "stop")
  BY IdleCounts
<1>6. /\ r \in LooseServer /\ SameManager(n, r) /\ SameLists(n, r)
      /\ r.badReset = n.badReset
      /\ r.pending = n.pending + 1 /\ r.unreported = n.unreported
      /\ r.startedLate = n.startedLate
      /\ Holds(n, r, w, Requested(n.session[w], op), next, l)
  BY <1>1, <1>4, RequestFields
<1>7. n.session[w] = t /\ n.wrapper[w].state = state /\ n.wrapper[w].ops = k
  BY <1>1, <1>2, HoldsAt
<1>8. Requestable(t, op)
  BY <1>5 DEF Requestable
<1>9. /\ SessionShape(u) /\ u.view = t.view
      /\ \A o \in Operation : Awaits(u, o) <=> Awaits(t, o) \/ o = op
  BY <1>1, <1>4, <1>8, RequestShaped
<1>10. AwaitsOnly(u, op)
  BY <1>9 DEF AwaitsOnly, Idle
<1>11. next = IF op = "wait" THEN "work" ELSE "stop"
  BY <1>7
<1>12. SlotShape(next, u)
  <2>1. CASE op = "wait"
    BY <1>9, <1>10, <1>11, <2>1 DEF SlotShape
  <2>2. CASE op = "stop"
    <3>1. Awaits(u, "stop")
      BY <1>4, <1>10, <2>2 DEF AwaitsOnly
    <3> QED BY <1>11, <2>2, <3>1 DEF SlotShape
  <2> QED BY <2>1, <2>2
<1> HIDE DEF r, u, next, l, k
<1>13. l = Cardinality(AwaitedOps(u))
  <2>1. AwaitedOps(u) = AwaitedOps(t) \cup {op} /\ op \notin AwaitedOps(t)
    BY <1>4, <1>5, <1>9 DEF AwaitedOps
  <2>2. Cardinality(AwaitedOps(u)) = Cardinality(AwaitedOps(t)) + 1
    <3>1. IsFiniteSet(AwaitedOps(t))
      BY AwaitedOpsFinite
    <3>2. Cardinality(AwaitedOps(t) \cup {op}) = Cardinality(AwaitedOps(t)) + 1
      BY <2>1, <3>1, FS_AddElement
    <3> QED BY <2>1, <3>2
  <2> QED BY <1>1, <1>7, <2>2 DEF l
<1>14. Holds(m, r, w, u, next, l)
  <2>1. Holds(n, r, w, u, next, l)
    BY <1>6, <1>7 DEF u
  <2> QED BY <1>1, <1>2, <2>1, HoldsTwice
<1>15. SameManager(m, r) /\ SameLists(m, r) /\ ~r.badReset
  BY <1>1, <1>6 DEF SameManager, SameLists
<1>16. r.pending = m.pending - m.wrapper[w].ops + l
  BY <1>1, <1>3, <1>6, <1>7 DEF k, l
<1>17. r.unreported - r.startedLate =
         m.unreported - m.startedLate - One(w \in Unreported(m.session))
           + One(Awaits(u, "start") \/ Awaits(u, "wait"))
  <2>1. Awaits(u, "start") \/ Awaits(u, "wait") <=> op = "wait"
    BY <1>4, <1>10 DEF AwaitsOnly
  <2>2. One(w \in Unreported(m.session)) = 1
    BY CountsTyped
  <2>3. CASE op = "wait"
    <3>1. op # "stop"
      BY <2>3
    <3>2. One(Awaits(u, "start") \/ Awaits(u, "wait")) = 1
      BY <2>1, <2>3, CountsTyped
    <3>3. One(op = "stop") = 0
      BY <3>1, CountsTyped
    <3> QED BY <1>3, <1>6, <2>2, <3>2, <3>3
  <2>4. CASE op = "stop"
    <3>1. ~(Awaits(u, "start") \/ Awaits(u, "wait"))
      BY <2>1, <2>4
    <3>2. One(Awaits(u, "start") \/ Awaits(u, "wait")) = 0
      BY <3>1, CountsTyped
    <3>3. One(op = "stop") = 1
      BY <2>4, CountsTyped
    <3> QED BY <1>3, <1>6, <2>2, <3>2, <3>3
  <2> QED BY <2>3, <2>4
<1>18. Changes(m, r, w, u, next, l)
  BY <1>6, <1>9, <1>12, <1>13, <1>14, <1>15, <1>16, <1>17 DEF Changes
<1>19. /\ next # "ready" /\ m.wrapper[w].state \notin {"free", "ready"}
       /\ InList(next) <=> InList(m.wrapper[w].state)
       /\ m.wrapper[w].state # "stop" /\ next # "stopped"
       /\ next = "stop" => AwaitsOnly(u, "stop")
  BY <1>10, <1>11 DEF InList
<1>20. Working(r, FALSE)
  BY <1>15, <1>18, <1>19, SessionHandled
<1> QED BY <1>15, <1>20 DEF r

(***************************************************************************)
(* The state of a wrapper is set, or a late start counted.                 *)
(***************************************************************************)
LEMMA MarkedFields ==
  ASSUME NEW m \in LooseServer, NEW w \in Slot,
         NEW state \in {"free", "ready", "start", "work", "stop", "stopped"}
  PROVE  LET n == [m EXCEPT !.wrapper[w].state = state]
         IN  /\ n \in LooseServer /\ SameManager(m, n) /\ SameLists(m, n)
             /\ n.badReset = m.badReset /\ SameCounts(m, n)
             /\ Holds(m, n, w, m.session[w], state, m.wrapper[w].ops)
<1> DEFINE n == [m EXCEPT !.wrapper[w].state = state]
           wrapper == [m.wrapper EXCEPT ![w] = [state |-> state,
                                                ops |-> m.wrapper[w].ops]]
<1>1. wrapper = [m.wrapper EXCEPT ![w].state = state]
  BY SlotFields DEF LooseWrapper
<1>2. wrapper \in [Slot -> LooseWrapper]
  BY SlotFields DEF LooseWrapper
<1>3. n = [m EXCEPT !.wrapper = wrapper]
  BY <1>1
<1>4. m.session = [m.session EXCEPT ![w] = m.session[w]]
  BY SlotFields
<1> HIDE DEF n, wrapper
<1>5. n \in LooseServer
  BY <1>2, <1>3, Zenon DEF LooseServer
<1>6. /\ n.session = m.session /\ n.wrapper = wrapper
      /\ SameManager(m, n) /\ SameLists(m, n) /\ n.badReset = m.badReset
      /\ SameCounts(m, n)
  BY <1>3 DEF LooseServer, SameManager, SameLists, SameCounts
<1>7. Holds(m, n, w, m.session[w], state, m.wrapper[w].ops)
  BY <1>4, <1>6 DEF Holds, wrapper
<1> QED BY <1>5, <1>6, <1>7 DEF n

\* What forgetting to count a late start changes.
LEMMA LateFields ==
  ASSUME NEW m \in LooseServer
  PROVE  LET n == [m EXCEPT !.startedLate = @ + 1]
         IN  /\ n \in LooseServer /\ SameManager(m, n) /\ SameLists(m, n)
             /\ n.badReset = m.badReset
             /\ n.pending = m.pending /\ n.unreported = m.unreported
             /\ n.startedLate = m.startedLate + 1
             /\ n.session = m.session /\ n.wrapper = m.wrapper
<1> DEFINE n == [m EXCEPT !.startedLate = @ + 1]
           late == m.startedLate + 1
<1>1. late \in Nat
  BY DEF LooseServer
<1>2. n = [m EXCEPT !.startedLate = late]
  OBVIOUS
<1> HIDE DEF n, late
<1>3. n \in LooseServer
  BY <1>1, <1>2, Zenon DEF LooseServer
<1>4. /\ n.session = m.session /\ n.wrapper = m.wrapper
      /\ SameManager(m, n) /\ SameLists(m, n) /\ n.badReset = m.badReset
      /\ n.pending = m.pending /\ n.unreported = m.unreported
      /\ n.startedLate = late
  BY <1>2 DEF LooseServer, SameManager, SameLists
<1> QED BY <1>3, <1>4 DEF n, late

(***************************************************************************)
(* The end of a handler, with what its manager is when it goes on.         *)
(***************************************************************************)
Continued(m, next, fault) ==
  \E r : Working(r, FALSE) /\ SameManager(m, r) /\ next = Continue(r, fault)

\* What a reply means, of a session that awaits only that one.
\* A session whose only reply is taken is idle.
LEMMA LastReply ==
  ASSUME NEW m, Working(m, FALSE), NEW w \in Slot, NEW reply \in m.session[w].replies,
         AwaitsOnly(m.session[w], reply[1]), NEW n, Handled(m, n, w, reply)
  PROVE  LET t == Unposted(m.session[w], reply)
         IN  Idle(t) /\ Taken(m, n, w, t, m.wrapper[w].state)
<1> DEFINE t == Unposted(m.session[w], reply)
<1>1. /\ SessionShape(t) /\ ~m.badReset
      /\ \A o \in Operation : Awaits(t, o) <=> Awaits(m.session[w], o) /\ o # reply[1]
      /\ Cardinality(AwaitedOps(t)) = m.wrapper[w].ops - 1
  BY ReplyMeans, ZenonT(60)
<1>2. Idle(t)
  BY <1>1 DEF Idle, AwaitsOnly
<1>3. Taken(m, n, w, t, m.wrapper[w].state)
  BY <1>1 DEF Handled, Taken
<1> QED BY <1>2, <1>3

\* The handler of async_start of a session, in each state of the wrapper.
LEMMA StartReplied ==
  ASSUME NEW m, Working(m, FALSE), NEW w \in Slot, NEW reply \in m.session[w].replies,
         reply[1] = "start", NEW fault
  PROVE  LET taken == [m EXCEPT !.session[w].replies = @ \ {reply}]
         IN  Continued(m, HandleSessionStart(taken, w, reply[2], fault), fault)
<1> DEFINE s == m.session[w]
           t == Unposted(s, reply)
           taken == [m EXCEPT !.session[w].replies = @ \ {reply}]
           n == Completed(taken, w)
           next == HandleSessionStart(taken, w, reply[2], fault)
<1>1. /\ m.intern # "stopped" /\ m.extern # "ready" /\ m.extern # "stopped"
      /\ m \in LooseServer /\ ~m.badReset
      /\ SessionShape(s) /\ SessionShape(t) /\ t.view = s.view
      /\ SlotShape(m.wrapper[w].state, s)
      /\ m.wrapper[w].state \notin {"free", "ready"}
      /\ Awaits(s, "start")
      /\ \A o \in Operation : Awaits(t, o) <=> Awaits(s, o) /\ o # reply[1]
      /\ w \in Unreported(m.session)
  <2>1. /\ m.intern # "stopped" /\ m.extern # "ready" /\ m.extern # "stopped"
        /\ m \in LooseServer /\ ~m.badReset
        /\ SessionShape(s) /\ SessionShape(t) /\ t.view = s.view
        /\ SlotShape(m.wrapper[w].state, s)
        /\ m.wrapper[w].state \notin {"free", "ready"}
        /\ Awaits(s, reply[1])
        /\ \A o \in Operation : Awaits(t, o) <=> Awaits(s, o) /\ o # reply[1]
    BY ReplyMeans, ZenonT(60)
  <2>2. Awaits(s, "start") \/ Awaits(s, "wait") => w \in Unreported(m.session)
    BY DEF Unreported
  <2> HIDE DEF s, t
  <2> QED BY <2>1, <2>2
<1>2. Handled(m, n, w, reply) /\ taken.wrapper = m.wrapper /\ taken.intern = m.intern
  BY <1>1, ReplyHandled
<1>3. /\ m.wrapper[w].state \in {"start", "work", "stop", "stopped"}
      /\ m.unreported \in Int /\ m.startedLate \in Int
  <2>1. m.wrapper[w].state \in {"free", "ready", "start", "work", "stop", "stopped"}
    BY <1>1, SlotFields DEF LooseWrapper
  <2> QED BY <1>1, <2>1 DEF LooseServer
<1>4. m.wrapper[w].state # "work"
  <2>1. "start" \in Operation
    BY DEF Operation
  <2> QED BY <1>1, <2>1 DEF SlotShape, AwaitsOnly
<1> HIDE DEF n, taken
<1>5. /\ n \in LooseServer /\ SameManager(m, n) /\ SameLists(m, n)
      /\ n.unreported = m.unreported /\ n.startedLate = m.startedLate
      /\ ~n.badReset /\ n.pending = m.pending - 1
      /\ Holds(m, n, w, t, m.wrapper[w].state, m.wrapper[w].ops - 1)
      /\ n.wrapper[w].ops = m.wrapper[w].ops - 1 /\ n.session[w] = t
  <2>1. Holds(m, n, w, t, m.wrapper[w].state, m.wrapper[w].ops - 1)
    BY <1>2 DEF Handled
  <2> HIDE DEF t
  <2>2. n.wrapper[w].ops = m.wrapper[w].ops - 1 /\ n.session[w] = t
    BY <1>1, <2>1, HoldsAt
  <2> QED BY <1>1, <1>2, <2>1, <2>2 DEF Handled
<1>6. CASE m.wrapper[w].state # "start"
  <2> DEFINE r == Recycle(Reported(n), w)
  <2>1. next = Continue(r, fault)
    BY <1>2, <1>6 DEF HandleSessionStart, n
  <2>2. Working(r, FALSE) /\ SameManager(m, r)
    BY <1>2, <1>3, <1>4, <1>6, ReplyKept
  <2> HIDE DEF r, next
  <2> QED BY <2>1, <2>2 DEF Continued, next, taken
<1>7. CASE m.wrapper[w].state = "start"
  <2>1. AwaitsOnly(s, "start") /\ (s.view.extern = "stopped" => <<"start", "error">> \in s.replies)
    BY <1>1, <1>7 DEF SlotShape
  <2>2. Idle(t) /\ Taken(m, n, w, t, m.wrapper[w].state)
    BY <1>2, <2>1, LastReply
  <2>3. reply[2] \in {"none", "error"} /\ s.view.extern # "ready"
        /\ (reply[2] = "error" => s.view = Failed)
    BY <1>1 DEF SessionShape
  <2>4. One(w \in Unreported(m.session)) = 1
    BY <1>1, CountsTyped
  <2>5. One(Awaits(t, "start") \/ Awaits(t, "wait")) = 0
    <3>1. ~(Awaits(t, "start") \/ Awaits(t, "wait"))
      BY <2>2, IdleCounts
    <3> QED BY <3>1, CountsTyped
  <2>6. CASE reply[2] # "none"
    <3> DEFINE told == Reported(n)
               r == Recycle(RemoveFromActive(told, w), w)
    <3>1. next = Continue(r, fault)
      BY <1>2, <1>7, <2>6 DEF HandleSessionStart, n
    <3>2. t.view.extern = "stopped"
      BY <1>1, <2>3, <2>6, PlainViews
    <3>3. /\ told \in LooseServer /\ SameManager(n, told) /\ SameLists(n, told)
          /\ told.badReset = n.badReset
          /\ told.pending = n.pending /\ told.unreported = n.unreported - 1
          /\ told.startedLate = n.startedLate
          /\ told.session = n.session /\ told.wrapper = n.wrapper
      BY <1>5, ReportedFields
    <3> HIDE DEF told, t, s, next
    <3>4. Taken(m, told, w, t, m.wrapper[w].state)
      BY <1>5, <2>2, <3>3 DEF Taken, SameManager, SameLists, Holds
    <3>5. told.unreported - told.startedLate =
            m.unreported - m.startedLate - One(w \in Unreported(m.session))
              + One(Awaits(t, "start") \/ Awaits(t, "wait"))
      BY <1>3, <1>5, <2>4, <2>5, <3>3
    <3>6. InList(m.wrapper[w].state)
      BY <1>7 DEF InList
    <3>7. Working(r, FALSE) /\ SameManager(m, r)
      BY <1>1, <2>2, <3>2, <3>4, <3>5, <3>6, ReplyRemoves
    <3> HIDE DEF r
    <3> QED BY <3>1, <3>7 DEF Continued, next, taken
  <2>7. CASE reply[2] = "none"
    <3>1. s.view.extern = "work"
      <4>1. s.view.extern # "stopped"
        <5>1. SUFFICES ASSUME <<"start", "error">> \in s.replies PROVE FALSE
          BY <2>1
        <5>2. <<"start", "error">>[1] = reply[1] => <<"start", "error">> = reply
          BY <1>1, <5>1 DEF SessionShape
        <5>3. <<"start", "error">>[2] = "error"
          OBVIOUS
        <5> QED BY <2>7, <5>2, <5>3
      <4>2. s.view.extern # "stop"
        <5>1. ~Awaits(s, "stop")
          BY <2>1 DEF AwaitsOnly, Operation
        <5>2. ~s.view.stopping
          BY <5>1, AwaitsEach
        <5> QED BY <1>1, <5>2 DEF SessionShape, ViewShape
      <4>3. s.view.extern \in {"ready", "work", "stop", "stopped"}
        BY <1>1 DEF SessionShape, ViewShape, SessionView
      <4> QED BY <2>3, <4>1, <4>2, <4>3
    <3>2. t.view.extern = "work"
      BY <1>1, <3>1
    <3>3. m.wrapper[w].state \in {"start", "work"} /\ m.wrapper[w].ops - 1 = n.wrapper[w].ops
      BY <1>5, <1>7
    <3>4. CASE m.intern = "work"
      <4> DEFINE marked == [n EXCEPT !.wrapper[w].state = "work"]
                 r == Request(marked, w, "wait")
      <4>1. next = ContinueWork(r, fault)
        BY <1>2, <1>7, <2>7, <3>4 DEF HandleSessionStart, n
      <4>2. /\ marked \in LooseServer /\ SameManager(n, marked) /\ SameLists(n, marked)
            /\ marked.badReset = n.badReset /\ SameCounts(n, marked)
            /\ Holds(n, marked, w, n.session[w], "work", n.wrapper[w].ops)
        BY <1>5, MarkedFields
      <4> HIDE DEF marked, t, s, next
      <4>3. Holds(m, marked, w, t, "work", m.wrapper[w].ops - 1)
        BY <1>1, <1>5, <4>2, HoldsTwice
      <4>4. Taken(m, marked, w, t, "work")
        BY <1>5, <2>2, <4>2, <4>3 DEF Taken, SameManager, SameLists, SameCounts
      <4>5. One("wait" = "stop") = 0
        BY CountsTyped
      <4>6. marked.unreported - marked.startedLate =
              m.unreported - m.startedLate - One("wait" = "stop")
        BY <1>3, <1>5, <4>2, <4>5 DEF SameCounts
      <4>7. Working(r, FALSE) /\ SameManager(m, r)
        BY <1>1, <2>2, <3>2, <3>3, <4>4, <4>6, ReplyRequests
      <4> HIDE DEF r
      <4>8. next = Continue(r, fault)
        BY <3>4, <4>1, <4>7 DEF Continue, SameManager
      <4> QED BY <4>7, <4>8 DEF Continued, next, taken
    <3>5. CASE m.intern # "work"
      <4> DEFINE late == [n EXCEPT !.startedLate = @ + 1]
                 r == Request(late, w, "stop")
      <4>1. next = ContinueStop(r)
        BY <1>2, <1>7, <2>7, <3>5 DEF HandleSessionStart, n
      <4>2. /\ late \in LooseServer /\ SameManager(n, late) /\ SameLists(n, late)
            /\ late.badReset = n.badReset
            /\ late.pending = n.pending /\ late.unreported = n.unreported
            /\ late.startedLate = n.startedLate + 1
            /\ late.session = n.session /\ late.wrapper = n.wrapper
        BY <1>5, LateFields
      <4> HIDE DEF late, t, s, next
      <4>3. Taken(m, late, w, t, m.wrapper[w].state)
        BY <1>5, <2>2, <4>2 DEF Taken, SameManager, SameLists, Holds
      <4>4. One("stop" = "stop") = 1
        BY CountsTyped
      <4>5. late.unreported - late.startedLate =
              m.unreported - m.startedLate - One("stop" = "stop")
        BY <1>3, <1>5, <4>2, <4>4
      <4>6. Working(r, FALSE) /\ SameManager(m, r)
        BY <1>1, <2>2, <3>2, <3>3, <4>3, <4>5, ReplyRequests
      <4> HIDE DEF r
      <4>7. next = Continue(r, fault)
        BY <3>5, <4>1, <4>6 DEF Continue, SameManager
      <4> QED BY <4>6, <4>7 DEF Continued, next, taken
    <3> QED BY <3>4, <3>5
  <2> QED BY <2>6, <2>7
<1> QED BY <1>6, <1>7

\* The handler of async_wait of a session, in each state of the wrapper.
LEMMA WaitReplied ==
  ASSUME NEW m, Working(m, FALSE), NEW w \in Slot, NEW reply \in m.session[w].replies,
         reply[1] = "wait", NEW fault
  PROVE  LET taken == [m EXCEPT !.session[w].replies = @ \ {reply}]
         IN  Continued(m, HandleSessionWait(taken, w, fault), fault)
<1> DEFINE s == m.session[w]
           t == Unposted(s, reply)
           taken == [m EXCEPT !.session[w].replies = @ \ {reply}]
           n == Completed(taken, w)
           told == Reported(n)
           next == HandleSessionWait(taken, w, fault)
<1>1. /\ m.intern # "stopped" /\ m.extern # "ready" /\ m.extern # "stopped"
      /\ m \in LooseServer /\ ~m.badReset
      /\ SessionShape(s) /\ SessionShape(t) /\ t.view = s.view
      /\ SlotShape(m.wrapper[w].state, s)
      /\ m.wrapper[w].state \notin {"free", "ready"}
      /\ Awaits(s, "wait")
      /\ \A o \in Operation : Awaits(t, o) <=> Awaits(s, o) /\ o # reply[1]
      /\ w \in Unreported(m.session)
  <2>1. /\ m.intern # "stopped" /\ m.extern # "ready" /\ m.extern # "stopped"
        /\ m \in LooseServer /\ ~m.badReset
        /\ SessionShape(s) /\ SessionShape(t) /\ t.view = s.view
        /\ SlotShape(m.wrapper[w].state, s)
        /\ m.wrapper[w].state \notin {"free", "ready"}
        /\ Awaits(s, reply[1])
        /\ \A o \in Operation : Awaits(t, o) <=> Awaits(s, o) /\ o # reply[1]
    BY ReplyMeans, ZenonT(60)
  <2>2. Awaits(s, "start") \/ Awaits(s, "wait") => w \in Unreported(m.session)
    BY DEF Unreported
  <2> HIDE DEF s, t
  <2> QED BY <2>1, <2>2
<1>2. Handled(m, n, w, reply) /\ taken.wrapper = m.wrapper /\ taken.intern = m.intern
  BY <1>1, ReplyHandled
<1>3. /\ m.wrapper[w].state \in {"start", "work", "stop", "stopped"}
      /\ m.unreported \in Int /\ m.startedLate \in Int
  <2>1. m.wrapper[w].state \in {"free", "ready", "start", "work", "stop", "stopped"}
    BY <1>1, SlotFields DEF LooseWrapper
  <2> QED BY <1>1, <2>1 DEF LooseServer
<1>4. m.wrapper[w].state # "start"
  <2>1. "wait" \in Operation
    BY DEF Operation
  <2> QED BY <1>1, <2>1 DEF SlotShape, AwaitsOnly
<1> HIDE DEF n, taken
<1>5. /\ n \in LooseServer /\ SameManager(m, n) /\ SameLists(m, n)
      /\ n.unreported = m.unreported /\ n.startedLate = m.startedLate
      /\ ~n.badReset /\ n.pending = m.pending - 1
      /\ Holds(m, n, w, t, m.wrapper[w].state, m.wrapper[w].ops - 1)
  BY <1>1, <1>2 DEF Handled
<1>6. CASE m.wrapper[w].state # "work"
  <2> DEFINE r == Recycle(told, w)
  <2>1. next = Continue(r, fault)
    BY <1>2, <1>6 DEF HandleSessionWait, n
  <2>2. Working(r, FALSE) /\ SameManager(m, r)
    BY <1>2, <1>3, <1>4, <1>6, ReplyKept
  <2> HIDE DEF r, next
  <2> QED BY <2>1, <2>2 DEF Continued, next, taken
<1>7. CASE m.wrapper[w].state = "work"
  <2> DEFINE r == Request(told, w, "stop")
  <2>1. AwaitsOnly(s, "wait") /\ s.view.extern = "work"
    BY <1>1, <1>7 DEF SlotShape
  <2>2. Idle(t) /\ Taken(m, n, w, t, m.wrapper[w].state) /\ t.view.extern = "work"
    BY <1>1, <1>2, <2>1, LastReply
  <2>3. /\ told \in LooseServer /\ SameManager(n, told) /\ SameLists(n, told)
        /\ told.badReset = n.badReset
        /\ told.pending = n.pending /\ told.unreported = n.unreported - 1
        /\ told.startedLate = n.startedLate
        /\ told.session = n.session /\ told.wrapper = n.wrapper
    BY <1>5, ReportedFields
  <2>4. next = Continue(r, fault)
    BY <1>2, <1>7 DEF HandleSessionWait, n
  <2> HIDE DEF told, t, s, next
  <2>5. Taken(m, told, w, t, m.wrapper[w].state)
    BY <1>5, <2>2, <2>3 DEF Taken, SameManager, SameLists, Holds
  <2>6. One("stop" = "stop") = 1
    BY CountsTyped
  <2>7. told.unreported - told.startedLate =
          m.unreported - m.startedLate - One("stop" = "stop")
    BY <1>3, <1>5, <2>3, <2>6
  <2>8. m.wrapper[w].state \in {"start", "work"}
    BY <1>7
  <2>9. Working(r, FALSE) /\ SameManager(m, r)
    BY <1>1, <2>2, <2>5, <2>7, <2>8, ReplyRequests
  <2> HIDE DEF r
  <2> QED BY <2>4, <2>9 DEF Continued, next, taken
<1> QED BY <1>6, <1>7

\* The handler of async_stop of a session.
LEMMA StopReplied ==
  ASSUME NEW m, Working(m, FALSE), NEW w \in Slot, NEW reply \in m.session[w].replies,
         reply[1] = "stop", NEW fault
  PROVE  LET taken == [m EXCEPT !.session[w].replies = @ \ {reply}]
         IN  Continued(m, HandleSessionStop(taken, w, fault), fault)
<1> DEFINE s == m.session[w]
           t == Unposted(s, reply)
           taken == [m EXCEPT !.session[w].replies = @ \ {reply}]
           n == Completed(taken, w)
           r == Recycle(RemoveFromActive(n, w), w)
           next == HandleSessionStop(taken, w, fault)
<1>1. /\ m.intern # "stopped" /\ m.extern # "ready" /\ m.extern # "stopped"
      /\ m \in LooseServer /\ ~m.badReset
      /\ SessionShape(s) /\ SessionShape(t) /\ t.view = s.view
      /\ SlotShape(m.wrapper[w].state, s)
      /\ m.wrapper[w].state \notin {"free", "ready"}
      /\ Awaits(s, "stop")
      /\ \A o \in Operation : Awaits(t, o) <=> Awaits(s, o) /\ o # "stop"
      /\ w \in Unreported(m.session) <=> Awaits(s, "start") \/ Awaits(s, "wait")
      /\ Cardinality(AwaitedOps(t)) = m.wrapper[w].ops - 1
  <2>1. /\ m.intern # "stopped" /\ m.extern # "ready" /\ m.extern # "stopped"
        /\ m \in LooseServer /\ ~m.badReset
        /\ SessionShape(s) /\ SessionShape(t) /\ t.view = s.view
        /\ SlotShape(m.wrapper[w].state, s)
        /\ m.wrapper[w].state \notin {"free", "ready"}
        /\ Awaits(s, reply[1])
        /\ \A o \in Operation : Awaits(t, o) <=> Awaits(s, o) /\ o # reply[1]
        /\ Cardinality(AwaitedOps(t)) = m.wrapper[w].ops - 1
    BY ReplyMeans, ZenonT(60)
  <2>2. w \in Unreported(m.session) <=> Awaits(s, "start") \/ Awaits(s, "wait")
    BY DEF Unreported
  <2> HIDE DEF s, t
  <2> QED BY <2>1, <2>2
<1>2. Handled(m, n, w, reply) /\ taken.wrapper = m.wrapper /\ taken.intern = m.intern
  BY <1>1, ReplyHandled
<1>3. /\ "start" \in Operation /\ "wait" \in Operation /\ "stop" \in Operation
  BY DEF Operation
<1>4. m.wrapper[w].state = "stop"
  <2>1. m.wrapper[w].state \in {"free", "ready", "start", "work", "stop", "stopped"}
    BY <1>1, SlotFields DEF LooseWrapper
  <2> QED BY <1>1, <1>3, <2>1 DEF SlotShape, AwaitsOnly
<1>5. next = Continue(r, fault)
  BY <1>2, <1>4 DEF HandleSessionStop, n
<1> HIDE DEF n, taken
<1>6. Taken(m, n, w, t, m.wrapper[w].state)
      /\ n.unreported = m.unreported /\ n.startedLate = m.startedLate
  BY <1>1, <1>2 DEF Handled, Taken
<1>7. s.view.extern = "stopped"
  BY <1>1 DEF SessionShape
<1>8. (Awaits(t, "start") \/ Awaits(t, "wait")) <=> (Awaits(s, "start") \/ Awaits(s, "wait"))
  BY <1>1, <1>3
<1>9. Idle(t) \/ AwaitsOnly(t, "start") \/ AwaitsOnly(t, "wait")
  BY <1>1, InTurn DEF Idle, AwaitsOnly, Operation
<1>10. m.intern = "work" => Idle(t)
  <2>1. m.intern = "work" => AwaitsOnly(s, "stop")
    BY <1>4 DEF Working, AtWork
  <2> QED BY <1>1, <2>1 DEF AwaitsOnly, Idle
<1> HIDE DEF s, t
<1>11. One(w \in Unreported(m.session)) = One(Awaits(t, "start") \/ Awaits(t, "wait"))
  BY <1>1, <1>8 DEF One
<1>12. n.unreported - n.startedLate =
         m.unreported - m.startedLate - One(w \in Unreported(m.session))
           + One(Awaits(t, "start") \/ Awaits(t, "wait"))
  <2>1. m.unreported \in Int /\ m.startedLate \in Int
    BY <1>1 DEF LooseServer
  <2>2. One(w \in Unreported(m.session)) \in Int
    BY CountsTyped
  <2> QED BY <1>6, <1>11, <2>1, <2>2
<1>13. InList(m.wrapper[w].state)
  BY <1>4 DEF InList
<1>14. Working(r, FALSE) /\ SameManager(m, r)
  BY <1>1, <1>6, <1>7, <1>9, <1>10, <1>12, <1>13, ReplyRemoves
<1> HIDE DEF r, next
<1> QED BY <1>5, <1>14 DEF Continued, next, taken

-----------------------------------------------------------------------------
(* The stop of the manager. *)

\* What a change of the state of the manager leaves.
SameSessions(m, n) ==
  /\ n.session = m.session /\ n.wrapper = m.wrapper /\ n.active = m.active
  /\ n.accept = m.accept /\ n.accepting = m.accepting
  /\ n.stoppingEnd = m.stoppingEnd /\ n.stopScheduled = m.stopScheduled
  /\ SameCounts(m, n) /\ n.badReset = m.badReset

\* What does not touch the sessions keeps their accounts.
LEMMA SessionsKept ==
  ASSUME NEW m, NEW n \in LooseServer, SameSessions(m, n)
  PROVE  /\ Accounts(m) => Accounts(n)
         /\ Slots(m) => Slots(n)
         /\ m.pending = n.pending
<1>1. Accounts(m) => Accounts(n)
  BY DEF SameSessions, SameCounts, Accounts, PendingCounted, ReportsCounted
<1>2. Slots(m) => Slots(n)
  BY DEF SameSessions, Slots
<1> QED BY <1>1, <1>2 DEF SameSessions, SameCounts

(***************************************************************************)
(* The user is told of the end of the work, or of the stop.                *)
(***************************************************************************)
LEMMA ToldFields ==
  ASSUME NEW m \in LooseServer, NEW error \in {"none", "error", "operation_aborted"}
  PROVE  LET n == CompleteExternWait(m, error)
         IN  /\ n \in LooseServer /\ SameSessions(m, n)
             /\ n.extern = m.extern /\ n.intern = m.intern
             /\ n.acceptorOpen = m.acceptorOpen /\ n.acceptError = m.acceptError
             /\ n.stopHandler = m.stopHandler /\ ~n.waitHandler
             /\ n.waitError = IF m.waitError = "none" THEN error ELSE m.waitError
             /\ n.owed.stop = m.owed.stop
             /\ n.owed.wait = m.owed.wait - One(m.waitHandler)
<1> DEFINE n == CompleteExternWait(m, error)
           owed == [wait |-> m.owed.wait - One(m.waitHandler), stop |-> m.owed.stop]
           reason == IF m.waitError = "none" THEN error ELSE m.waitError
<1>1. m.owed \in [wait : Int, stop : Int] /\ m.waitHandler \in BOOLEAN
      /\ m.waitError \in {"none", "error", "operation_aborted"}
  BY DEF LooseServer
<1>2. m.owed.wait \in Int /\ m.owed.stop \in Int
      /\ m.owed = [wait |-> m.owed.wait, stop |-> m.owed.stop]
  BY <1>1
<1>3. owed = [m.owed EXCEPT !.wait = @ - (IF m.waitHandler THEN 1 ELSE 0)]
  BY <1>2 DEF One
<1>4. owed \in [wait : Int, stop : Int]
  BY <1>2 DEF One
<1>5. n = [m EXCEPT !.waitError = reason, !.waitHandler = FALSE, !.owed = owed]
  BY <1>3 DEF CompleteExternWait
<1>6. reason \in {"none", "error", "operation_aborted"}
  BY <1>1
<1>7. owed.wait = m.owed.wait - One(m.waitHandler) /\ owed.stop = m.owed.stop
  OBVIOUS
<1> HIDE DEF n, owed, reason
<1>8. n \in LooseServer
  BY <1>4, <1>5, <1>6, Zenon DEF LooseServer
<1>9. /\ SameSessions(m, n)
      /\ n.extern = m.extern /\ n.intern = m.intern
      /\ n.acceptorOpen = m.acceptorOpen /\ n.acceptError = m.acceptError
      /\ n.stopHandler = m.stopHandler /\ ~n.waitHandler
      /\ n.waitError = reason /\ n.owed = owed
  BY <1>5 DEF LooseServer, SameSessions, SameCounts
<1> QED BY <1>7, <1>8, <1>9 DEF n, reason

\* What answering the stop of the user changes.
LEMMA AnsweredFields ==
  ASSUME NEW m \in LooseServer
  PROVE  LET n == CompleteExternStop(m)
         IN  /\ n \in LooseServer /\ SameSessions(m, n)
             /\ n.extern = m.extern /\ n.intern = m.intern
             /\ n.acceptorOpen = m.acceptorOpen /\ n.acceptError = m.acceptError
             /\ n.waitHandler = m.waitHandler /\ ~n.stopHandler
             /\ n.waitError = m.waitError
             /\ n.owed.wait = m.owed.wait
             /\ n.owed.stop = m.owed.stop - One(m.stopHandler)
<1> DEFINE n == CompleteExternStop(m)
           owed == [wait |-> m.owed.wait, stop |-> m.owed.stop - One(m.stopHandler)]
<1>1. m.owed \in [wait : Int, stop : Int] /\ m.stopHandler \in BOOLEAN
  BY DEF LooseServer
<1>2. m.owed.wait \in Int /\ m.owed.stop \in Int
      /\ m.owed = [wait |-> m.owed.wait, stop |-> m.owed.stop]
  BY <1>1
<1>3. owed = [m.owed EXCEPT !.stop = @ - (IF m.stopHandler THEN 1 ELSE 0)]
  BY <1>2 DEF One
<1>4. owed \in [wait : Int, stop : Int]
  BY <1>2 DEF One
<1>5. n = [m EXCEPT !.stopHandler = FALSE, !.owed = owed]
  BY <1>3 DEF CompleteExternStop
<1>6. owed.stop = m.owed.stop - One(m.stopHandler) /\ owed.wait = m.owed.wait
  OBVIOUS
<1> HIDE DEF n, owed
<1>7. n \in LooseServer
  BY <1>4, <1>5, Zenon DEF LooseServer
<1>8. /\ SameSessions(m, n)
      /\ n.extern = m.extern /\ n.intern = m.intern
      /\ n.acceptorOpen = m.acceptorOpen /\ n.acceptError = m.acceptError
      /\ n.waitHandler = m.waitHandler /\ ~n.stopHandler
      /\ n.waitError = m.waitError /\ n.owed = owed
  BY <1>5 DEF LooseServer, SameSessions, SameCounts
<1> QED BY <1>6, <1>7, <1>8 DEF n

InStates(m, extern, intern) == [m EXCEPT !.intern = intern, !.extern = extern]

\* What setting the two states of the manager changes.
LEMMA StatesSet ==
  ASSUME NEW m \in LooseServer, NEW extern \in {"ready", "work", "stop", "stopped"},
         NEW intern \in {"work", "stop", "stopped"}
  PROVE  LET n == InStates(m, extern, intern)
         IN  /\ n \in LooseServer /\ SameSessions(m, n)
             /\ n.extern = extern /\ n.intern = intern
             /\ n.acceptorOpen = m.acceptorOpen /\ n.acceptError = m.acceptError
             /\ n.waitHandler = m.waitHandler /\ n.stopHandler = m.stopHandler
             /\ n.waitError = m.waitError /\ n.owed = m.owed
<1> DEFINE n == InStates(m, extern, intern)
<1>1. n \in LooseServer
  BY Zenon DEF LooseServer, InStates
<1>2. /\ SameSessions(m, n) /\ n.extern = extern /\ n.intern = intern
      /\ n.acceptorOpen = m.acceptorOpen /\ n.acceptError = m.acceptError
      /\ n.waitHandler = m.waitHandler /\ n.stopHandler = m.stopHandler
      /\ n.waitError = m.waitError /\ n.owed = m.owed
  BY DEF LooseServer, SameSessions, SameCounts, InStates
<1> QED BY <1>1, <1>2

(***************************************************************************)
(* continue_stop ends the stop when the last operation is over.            *)
(***************************************************************************)
LEMMA StopContinues ==
  ASSUME NEW stopping \in BOOLEAN, NEW m, Working(m, stopping), m.intern = "stop"
  PROVE  LET r == ContinueStop(m)
         IN  Working(r, stopping) /\ r.intern # "work"
             /\ r.extern \in {m.extern, "stopped"}
<1> DEFINE r == ContinueStop(m)
<1>1. /\ m \in LooseServer /\ Accounts(m) /\ Slots(m) /\ Answers(m, stopping)
      /\ AtStop(m) /\ m.extern # "ready" /\ m.extern # "stopped"
  BY DEF Working, Accounts
<1>2. m.extern \in {"ready", "work", "stop", "stopped"}
      /\ m.owed.wait \in Int /\ m.owed.stop \in Int
  BY <1>1 DEF LooseServer
<1>3. CASE m.pending # 0
  BY <1>1, <1>3 DEF ContinueStop
<1>4. CASE m.pending = 0 /\ m.extern = "stop"
  <2> DEFINE ended == InStates(m, "stopped", "stopped")
  <2>1. r = CompleteExternStop(ended)
    BY <1>4 DEF ContinueStop, InStates
  <2>2. /\ ended \in LooseServer /\ SameSessions(m, ended)
        /\ ended.extern = "stopped" /\ ended.intern = "stopped"
        /\ ended.acceptorOpen = m.acceptorOpen
        /\ ended.waitHandler = m.waitHandler /\ ended.stopHandler = m.stopHandler
        /\ ended.waitError = m.waitError /\ ended.owed = m.owed
    BY <1>1, StatesSet
  <2> HIDE DEF ended, r
  <2>3. /\ r \in LooseServer /\ SameSessions(ended, r)
        /\ r.extern = "stopped" /\ r.intern = "stopped"
        /\ r.acceptorOpen = m.acceptorOpen
        /\ r.waitHandler = m.waitHandler /\ ~r.stopHandler
        /\ r.waitError = m.waitError /\ r.owed.wait = m.owed.wait
        /\ r.owed.stop = m.owed.stop - One(m.stopHandler)
    BY <2>1, <2>2, AnsweredFields
  <2>4. SameSessions(m, r)
    BY <2>2, <2>3 DEF SameSessions, SameCounts
  <2>5. Accounts(r) /\ Slots(r) /\ r.pending = 0
    BY <1>1, <1>4, <2>3, <2>4, SessionsKept
  <2>6. AtStop(r)
    BY <1>1, <2>3, <2>4 DEF AtStop, SameSessions
  <2>7. Answers(r, stopping)
    <3>0. One(m.stopHandler) \in Int /\ m.owed.stop = One(m.stopHandler)
      BY <1>1, CountsTyped DEF Answers
    <3>1. r.owed.stop = 0
      BY <1>2, <2>3, <3>0
    <3>3. One(FALSE) = 0
      BY DEF One
    <3>2. r.stopHandler = FALSE
      BY <2>3 DEF LooseServer
    <3> QED BY <1>1, <1>4, <2>3, <3>1, <3>2, <3>3 DEF Answers
  <2> QED BY <2>3, <2>5, <2>6, <2>7 DEF Working, r
<1>5. CASE m.pending = 0 /\ m.extern # "stop"
  <2> DEFINE ended == InStates(m, m.extern, "stopped")
  <2>1. r = ended
    BY <1>1, <1>5 DEF ContinueStop, LooseServer, InStates
  <2>2. /\ ended \in LooseServer /\ SameSessions(m, ended)
        /\ ended.extern = m.extern /\ ended.intern = "stopped"
        /\ ended.acceptorOpen = m.acceptorOpen
        /\ ended.waitHandler = m.waitHandler /\ ended.stopHandler = m.stopHandler
        /\ ended.waitError = m.waitError /\ ended.owed = m.owed
    BY <1>1, <1>2, StatesSet
  <2> HIDE DEF ended, r
  <2>3. Accounts(ended) /\ Slots(ended) /\ ended.pending = 0
    BY <1>1, <1>5, <2>2, SessionsKept
  <2>4. AtStop(ended)
    BY <1>1, <2>2 DEF AtStop, SameSessions
  <2>5. Answers(ended, stopping)
    BY <1>1, <1>5, <2>2 DEF Answers
  <2>6. Working(ended, stopping)
    BY <1>1, <1>5, <2>2, <2>3, <2>4, <2>5 DEF Working
  <2> QED BY <2>1, <2>2, <2>6 DEF r
<1> QED BY <1>3, <1>4, <1>5

(***************************************************************************)
(* A batch of the stop: where it starts, whom it asks, and whether there   *)
(* is another one.                                                         *)
(***************************************************************************)
First(m, begin) == IF begin = None THEN Len(m.active) + 1 ELSE Position(m, begin)

Batch(m, begin) ==
  {w \in Slot : \E i \in First(m, begin) .. Len(m.active) :
     i < First(m, begin) + MaxStopping /\ m.active[i] = w /\ m.wrapper[w].state # "stop"}

More(m, begin) == First(m, begin) + MaxStopping <= Len(m.active)

(***************************************************************************)
(* A manager about to stop a batch: the handler that does so is no longer  *)
(* posted.                                                                 *)
(***************************************************************************)
Halting(m, stopping, begin) ==
  /\ m \in LooseServer /\ ~m.badReset
  /\ Shaped(m.session) /\ OpsCounted(m.wrapper, m.session) /\ ReportsCounted(m)
  /\ m.pending = One(m.accept = "in_progress") + Cardinality(Awaited(m.session))
  /\ Slots(m) /\ Answers(m, stopping)
  /\ m.intern = "stop" /\ m.extern \in {"work", "stop"}
  /\ ~m.acceptorOpen /\ m.accept # "ready"
  /\ begin \in {None} \cup ToSet(m.active) /\ Reached(begin, m.active, m.wrapper)

\* The end of the list is no session.
LEMMA NoneElsewhere ==
  None \notin Slot
BY SessionManagerAssumption DEF None, Slot

\* The states of a wrapper.
LEMMA SlotStates ==
  ASSUME NEW m \in LooseServer, NEW w \in Slot
  PROVE  m.wrapper[w].state \in {"free", "ready", "start", "work", "stop", "stopped"}
BY SlotFields DEF LooseWrapper

\* Any active session that was not asked to stop can be.
\* An active session that was not asked to stop may be.
LEMMA StopRequestable ==
  ASSUME NEW s, SessionShape(s), NEW state \in {"start", "work"}, SlotShape(state, s)
  PROVE  Requestable(s, "stop")
<1>1. "start" \in Operation /\ "wait" \in Operation /\ "stop" \in Operation
  BY DEF Operation
<1>2. ~Awaits(s, "stop")
  BY <1>1 DEF SlotShape, AwaitsOnly
<1>3. CASE state = "work"
  BY <1>2, <1>3 DEF SlotShape, Requestable
<1>4. CASE state = "start"
  <2>1. AwaitsOnly(s, "start") /\ (s.view.extern = "stopped" => <<"start", "error">> \in s.replies)
    BY <1>4 DEF SlotShape
  <2>2. CASE Contains(s.requests, "start")
    BY <1>2, <2>2 DEF Requestable
  <2>3. CASE ~Contains(s.requests, "start")
    <3>1. Replied(s, "start")
      BY <1>1, <2>1, <2>3, AwaitsEach DEF AwaitsOnly
    <3>2. s.view.extern # "ready"
      BY <3>1 DEF SessionShape, Replied
    <3>3. s.view.extern # "stop"
      BY <1>2, AwaitsEach DEF SessionShape, ViewShape
    <3>4. s.view.extern \in {"ready", "work", "stop", "stopped"}
      BY DEF SessionShape, ViewShape, SessionView
    <3>5. s.view.extern = "stopped" => s.view = Failed
      <4>1. SUFFICES ASSUME <<"start", "error">> \in s.replies PROVE s.view = Failed
        BY <2>1
      <4>2. <<"start", "error">>[1] = "start" /\ <<"start", "error">>[2] = "error"
        OBVIOUS
      <4> QED BY <4>1, <4>2 DEF SessionShape
    <3> QED BY <1>2, <3>2, <3>3, <3>4, <3>5 DEF Requestable
  <2> QED BY <2>2, <2>3
<1> QED BY <1>3, <1>4

\* What one batch of the stop changes.
LEMMA BatchFields ==
  ASSUME NEW m \in LooseServer, NEW begin
  PROVE  LET r == StopBatch(m, begin)
             batch == Batch(m, begin)
         IN  /\ r.session = [w \in Slot |-> IF w \in batch
                               THEN Requested(m.session[w], "stop") ELSE m.session[w]]
             /\ r.wrapper = [w \in Slot |-> IF w \in batch
                               THEN [state |-> "stop", ops |-> m.wrapper[w].ops + 1]
                               ELSE m.wrapper[w]]
             /\ r.stoppingEnd = IF More(m, begin)
                                  THEN m.active[First(m, begin) + MaxStopping] ELSE None
             /\ r.stopScheduled = More(m, begin)
             /\ r.pending = m.pending + Cardinality(batch) + One(More(m, begin))
             /\ r.extern = m.extern /\ r.intern = m.intern /\ r.accept = m.accept
             /\ r.accepting = m.accepting /\ r.acceptorOpen = m.acceptorOpen
             /\ r.acceptError = m.acceptError /\ r.waitError = m.waitError
             /\ r.waitHandler = m.waitHandler /\ r.stopHandler = m.stopHandler
             /\ r.owed = m.owed /\ r.active = m.active /\ r.badReset = m.badReset
             /\ r.unreported = m.unreported /\ r.startedLate = m.startedLate
             /\ (First(m, begin) \in Nat \ {0} => r \in LooseServer)
<1> DEFINE r == StopBatch(m, begin)
           batch == Batch(m, begin)
           more == More(m, begin)
           session == [w \in Slot |-> IF w \in batch
                         THEN Requested(m.session[w], "stop") ELSE m.session[w]]
           wrapper == [w \in Slot |-> IF w \in batch
                         THEN [state |-> "stop", ops |-> m.wrapper[w].ops + 1]
                         ELSE m.wrapper[w]]
           session0 == [w \in Slot |-> IF w \in batch
                         THEN Request(m, w, "stop").session[w] ELSE m.session[w]]
           wrapper0 == [w \in Slot |-> IF w \in batch
                         THEN Request(m, w, "stop").wrapper[w] ELSE m.wrapper[w]]
           end == IF more THEN m.active[First(m, begin) + MaxStopping] ELSE None
           pending == m.pending + Cardinality(batch) + One(more)
<1>1. r = [m EXCEPT !.wrapper = wrapper0, !.session = session0, !.stoppingEnd = end,
                    !.stopScheduled = more, !.pending = pending]
  BY DEF StopBatch, First, Batch, More, One
<1>2. "stop" \in Operation
  BY DEF Operation
<1>3. ASSUME NEW w \in Slot
      PROVE  /\ Request(m, w, "stop").session[w] = Requested(m.session[w], "stop")
             /\ Request(m, w, "stop").wrapper[w]
                  = [state |-> "stop", ops |-> m.wrapper[w].ops + 1]
  <2>1. Holds(m, Request(m, w, "stop"), w, Requested(m.session[w], "stop"),
              IF "stop" = "wait" THEN m.wrapper[w].state ELSE "stop",
              m.wrapper[w].ops + 1)
    BY <1>2, RequestFields
  <2>2. Holds(m, Request(m, w, "stop"), w, Requested(m.session[w], "stop"), "stop",
              m.wrapper[w].ops + 1)
    BY <2>1
  <2>3. m.session \in [Slot -> ManagedSession] /\ m.wrapper \in [Slot -> LooseWrapper]
    BY SlotFields
  <2> QED BY <2>2, <2>3 DEF Holds
<1> HIDE DEF batch, more
<1>4. session0 = session /\ wrapper0 = wrapper
  BY <1>3
<1>5. session \in [Slot -> ManagedSession]
  BY <1>2, SlotFields, ManagedFields
<1>6. wrapper \in [Slot -> LooseWrapper]
  <2>1. \A w \in Slot : m.wrapper[w] \in LooseWrapper /\ m.wrapper[w].ops \in Int
    BY SlotFields
  <2>2. \A w \in Slot : m.wrapper[w].ops + 1 \in Int
    BY <2>1
  <2> QED BY <2>1, <2>2 DEF LooseWrapper
<1>7. more \in BOOLEAN
  BY DEF more, More
<1>8. m.active \in Seq(Slot) /\ MaxStopping \in Nat \ {0} /\ m.pending \in Int
  BY SessionManagerAssumption DEF LooseServer
<1>9. pending \in Int
  <2>1. IsFiniteSet(batch) /\ Cardinality(batch) \in Nat
    <3>1. batch \in SUBSET Slot
      BY DEF batch, Batch
    <3> QED BY <3>1, AwaitedFinite, FS_Subset, FS_CardinalityType
  <2>2. One(more) \in Nat
    BY CountsTyped
  <2> QED BY <1>8, <2>1, <2>2
<1>10. First(m, begin) \in Nat \ {0} => end \in Slot \cup {None}
  BY <1>8 DEF more, More
<1>11. r = [m EXCEPT !.wrapper = wrapper, !.session = session, !.stoppingEnd = end,
                     !.stopScheduled = more, !.pending = pending]
  BY <1>1, <1>4
<1> HIDE DEF r, wrapper, session, end, pending, wrapper0, session0
<1>12. First(m, begin) \in Nat \ {0} => r \in LooseServer
  <2>1. SUFFICES ASSUME First(m, begin) \in Nat \ {0} PROVE r \in LooseServer
    OBVIOUS
  <2>2. end \in Slot \cup {None}
    BY <1>10, <2>1
  <2> QED BY <1>5, <1>6, <1>7, <1>9, <1>11, <2>2, Zenon DEF LooseServer
<1>13. /\ r.session = session /\ r.wrapper = wrapper /\ r.stoppingEnd = end
       /\ r.stopScheduled = more /\ r.pending = pending
       /\ r.extern = m.extern /\ r.intern = m.intern /\ r.accept = m.accept
       /\ r.accepting = m.accepting /\ r.acceptorOpen = m.acceptorOpen
       /\ r.acceptError = m.acceptError /\ r.waitError = m.waitError
       /\ r.waitHandler = m.waitHandler /\ r.stopHandler = m.stopHandler
       /\ r.owed = m.owed /\ r.active = m.active /\ r.badReset = m.badReset
       /\ r.unreported = m.unreported /\ r.startedLate = m.startedLate
  BY <1>11 DEF LooseServer
<1> QED BY <1>12, <1>13 DEF r, session, wrapper, end, more, pending, batch

\* Where a batch starts: all sessions before it are being stopped.
\* All sessions in front of a batch are being stopped.
LEMMA BatchStarts ==
  ASSUME NEW m, m.active \in Seq(Slot), Distinct(m.active), NEW begin,
         begin \in {None} \cup ToSet(m.active), Reached(begin, m.active, m.wrapper)
  PROVE  /\ First(m, begin) \in 1 .. Len(m.active) + 1
         /\ \A i \in 1 .. Len(m.active) :
              i < First(m, begin) => m.wrapper[m.active[i]].state = "stop"
<1> DEFINE s == m.active
           f == First(m, begin)
<1>1. Len(s) \in Nat /\ \A i \in 1 .. Len(s) : s[i] \in Slot
  OBVIOUS
<1>2. CASE begin = None
  <2>1. f = Len(s) + 1
    BY <1>2 DEF First
  <2>2. ASSUME NEW i \in 1 .. Len(s) PROVE m.wrapper[s[i]].state = "stop"
    <3>1. \A j \in 1 .. i : j \in 1 .. Len(s)
      BY <1>1
    <3>2. \A j \in 1 .. i : s[j] # begin
      BY <1>1, <1>2, <3>1, NoneElsewhere
    <3> QED BY <3>2 DEF Reached
  <2> QED BY <1>1, <2>1, <2>2
<1>3. CASE begin # None
  <2>1. begin \in ToSet(s) /\ f = Position(m, begin)
    BY <1>3 DEF First
  <2>2. f \in 1 .. Len(s) /\ s[f] = begin
    BY <2>1, PositionFound
  <2> HIDE DEF f
  <2>3. ASSUME NEW i \in 1 .. Len(s), i < f PROVE m.wrapper[s[i]].state = "stop"
    <3>1. \A j \in 1 .. i : s[j] # begin
      <4> TAKE j \in 1 .. i
      <4>1. j \in 1 .. Len(s) /\ j # f
        BY <1>1, <2>2, <2>3
      <4> QED BY <2>2, <4>1 DEF Distinct
    <3> QED BY <3>1 DEF Reached
  <2>4. f \in 1 .. Len(s) + 1
    BY <1>1, <2>2
  <2> QED BY <2>3, <2>4 DEF f
<1> QED BY <1>2, <1>3

\* A batch awaits one reply more of each of its sessions.
LEMMA BatchCounts ==
  ASSUME NEW session, NEW after, NEW batch \in SUBSET Slot,
         \A w \in batch : /\ ~Awaits(session[w], "stop")
                          /\ \A o \in Operation : Awaits(after[w], o)
                               <=> Awaits(session[w], o) \/ o = "stop",
         \A w \in Slot : w \notin batch => after[w] = session[w]
  PROVE  /\ Cardinality(Awaited(after)) = Cardinality(Awaited(session)) + Cardinality(batch)
         /\ Cardinality(batch) \in Nat
         /\ Unreported(after) = Unreported(session)
<1> DEFINE asked == batch \X {"stop"}
<1>1. "stop" \in Operation /\ "start" \in Operation /\ "wait" \in Operation
  BY DEF Operation
<1>2. IsFiniteSet(batch) /\ Cardinality(batch) \in Nat
  BY AwaitedFinite, FS_Subset, FS_CardinalityType
<1>3. IsFiniteSet({"stop"}) /\ Cardinality({"stop"}) = 1
  BY FS_Singleton
<1>4. IsFiniteSet(asked) /\ Cardinality(asked) = Cardinality(batch)
  <2>1. IsFiniteSet(asked) /\ Cardinality(asked) = Cardinality(batch) * 1
    BY <1>2, <1>3, FS_Product
  <2> QED BY <1>2, <2>1
<1>5. Awaited(after) = Awaited(session) \cup asked
  <2>1. ASSUME NEW x \in Slot \X Operation
        PROVE  Awaits(after[x[1]], x[2]) <=> Awaits(session[x[1]], x[2]) \/ x \in asked
    <3>1. x \in asked <=> x[1] \in batch /\ x[2] = "stop"
      OBVIOUS
    <3> HIDE DEF asked
    <3>2. CASE x[1] \in batch
      BY <3>1, <3>2
    <3>3. CASE x[1] \notin batch
      BY <3>1, <3>3
    <3> QED BY <3>2, <3>3
  <2>2. asked \in SUBSET (Slot \X Operation)
    BY <1>1
  <2> HIDE DEF asked
  <2> QED BY <2>1, <2>2 DEF Awaited
<1>6. Awaited(session) \cap asked = {}
  BY DEF Awaited
<1> HIDE DEF asked
<1>7. Cardinality(Awaited(session) \cup asked)
        = Cardinality(Awaited(session)) + Cardinality(asked) - Cardinality({})
  <2>1. IsFiniteSet(Awaited(session))
    BY AwaitedFinite
  <2> QED BY <1>4, <1>6, <2>1, FS_Union
<1>8. Cardinality({}) = 0 /\ Cardinality(Awaited(session)) \in Nat
  BY FS_EmptySet, AwaitedFinite
<1>9. Unreported(after) = Unreported(session)
  <2>1. \A w \in Slot : /\ Awaits(after[w], "start") <=> Awaits(session[w], "start")
                        /\ Awaits(after[w], "wait") <=> Awaits(session[w], "wait")
    BY <1>1
  <2> QED BY <2>1 DEF Unreported
<1> QED BY <1>2, <1>4, <1>5, <1>7, <1>8, <1>9

(***************************************************************************)
(* start_active_session_stop asks each session of its batch once, and      *)
(* leaves the cursor where the next one starts.                            *)
(***************************************************************************)
LEMMA BatchStops ==
  ASSUME NEW stopping \in BOOLEAN, NEW m, NEW begin, Halting(m, stopping, begin)
  PROVE  LET r == StopBatch(m, begin)
         IN  Working(r, stopping) /\ r.intern = "stop" /\ r.extern = m.extern
<1> DEFINE r == StopBatch(m, begin)
           batch == Batch(m, begin)
           f == First(m, begin)
           s == m.active
<1>1. /\ m \in LooseServer /\ ~m.badReset
      /\ Shaped(m.session) /\ OpsCounted(m.wrapper, m.session) /\ ReportsCounted(m)
      /\ m.pending = One(m.accept = "in_progress") + Cardinality(Awaited(m.session))
      /\ Slots(m) /\ Answers(m, stopping)
      /\ m.intern = "stop" /\ m.extern \in {"work", "stop"}
      /\ ~m.acceptorOpen /\ m.accept # "ready"
      /\ begin \in {None} \cup ToSet(m.active) /\ Reached(begin, m.active, m.wrapper)
  BY DEF Halting
<1>2. /\ s \in Seq(Slot) /\ Len(s) \in Nat /\ \A i \in 1 .. Len(s) : s[i] \in Slot
      /\ MaxStopping \in Nat \ {0} /\ m.pending \in Int
  BY <1>1, SessionManagerAssumption DEF LooseServer
<1>3. SlotsShaped(m.wrapper, m.session) /\ Listed(s, m.wrapper) /\ Distinct(s)
      /\ AcceptingReady(m.accepting, m.wrapper)
      /\ (m.accept = "in_progress" <=> m.accepting # None)
      /\ Cardinality(Used(m.wrapper)) <= MaxSessions
  BY <1>1 DEF Slots, Listed
<1>4. /\ f \in 1 .. Len(s) + 1
      /\ \A i \in 1 .. Len(s) : i < f => m.wrapper[s[i]].state = "stop"
  BY <1>1, <1>2, <1>3, BatchStarts
<1>5. f \in Nat \ {0}
  BY <1>2, <1>4
<1>6. /\ r.session = [w \in Slot |-> IF w \in batch
                        THEN Requested(m.session[w], "stop") ELSE m.session[w]]
      /\ r.wrapper = [w \in Slot |-> IF w \in batch
                        THEN [state |-> "stop", ops |-> m.wrapper[w].ops + 1]
                        ELSE m.wrapper[w]]
      /\ r.stoppingEnd = IF More(m, begin) THEN s[f + MaxStopping] ELSE None
      /\ r.stopScheduled = More(m, begin)
      /\ r.pending = m.pending + Cardinality(batch) + One(More(m, begin))
      /\ r.extern = m.extern /\ r.intern = m.intern /\ r.accept = m.accept
      /\ r.accepting = m.accepting /\ r.acceptorOpen = m.acceptorOpen
      /\ r.acceptError = m.acceptError /\ r.waitError = m.waitError
      /\ r.waitHandler = m.waitHandler /\ r.stopHandler = m.stopHandler
      /\ r.owed = m.owed /\ r.active = s /\ r.badReset = m.badReset
      /\ r.unreported = m.unreported /\ r.startedLate = m.startedLate
      /\ r \in LooseServer
  BY <1>1, <1>5, BatchFields
<1>7. \A w \in batch : /\ w \in Slot /\ m.wrapper[w].state \in {"start", "work"}
                       /\ w \in ToSet(s)
  <2> TAKE w \in batch
  <2>1. PICK i \in f .. Len(s) : s[i] = w /\ m.wrapper[w].state # "stop"
    BY DEF Batch
  <2>2. i \in 1 .. Len(s)
    BY <1>2, <1>5, <2>1
  <2>3. w \in ToSet(s) /\ w \in Slot
    BY <1>2, <2>1, <2>2, ToSetElements
  <2>4. m.wrapper[w].state \in {"start", "work", "stop"}
    BY <1>3, <2>3 DEF Listed
  <2> QED BY <2>1, <2>3, <2>4
<1>8. \A i \in f .. Len(s) : i < f + MaxStopping =>
        m.wrapper[s[i]].state = "stop" \/ s[i] \in batch
  <2>1. \A i \in f .. Len(s) : i \in 1 .. Len(s)
    BY <1>2, <1>5
  <2> QED BY <1>2, <2>1 DEF Batch
<1>9. batch \in SUBSET Slot /\ "stop" \in Operation
  BY <1>7 DEF Operation
<1> HIDE DEF r, batch, f, s
<1>10. ASSUME NEW w \in batch
       PROVE  LET u == Requested(m.session[w], "stop")
              IN  /\ SessionShape(u) /\ SlotShape("stop", u) /\ ~Awaits(m.session[w], "stop")
                  /\ \A o \in Operation : Awaits(u, o)
                       <=> Awaits(m.session[w], o) \/ o = "stop"
                  /\ Cardinality(AwaitedOps(u)) = m.wrapper[w].ops + 1
  <2> DEFINE x == m.session[w]
             u == Requested(x, "stop")
  <2>1. w \in Slot /\ m.wrapper[w].state \in {"start", "work"}
    BY <1>7
  <2>2. SessionShape(x) /\ SlotShape(m.wrapper[w].state, x)
        /\ m.wrapper[w].ops = Cardinality(AwaitedOps(x))
    BY <1>1, <1>3, <2>1 DEF Shaped, SlotsShaped, OpsCounted
  <2>3. Requestable(x, "stop")
    BY <2>1, <2>2, StopRequestable
  <2>4. /\ SessionShape(u) /\ ~Awaits(x, "stop")
        /\ \A o \in Operation : Awaits(u, o) <=> Awaits(x, o) \/ o = "stop"
    BY <1>9, <2>2, <2>3, RequestShaped
  <2>5. SlotShape("stop", u)
    BY <1>9, <2>4 DEF SlotShape
  <2> HIDE DEF x, u
  <2>6. AwaitedOps(u) = AwaitedOps(x) \cup {"stop"} /\ "stop" \notin AwaitedOps(x)
    BY <1>9, <2>4 DEF AwaitedOps
  <2>7. IsFiniteSet(AwaitedOps(x))
    BY AwaitedOpsFinite
  <2>8. Cardinality(AwaitedOps(x) \cup {"stop"}) = Cardinality(AwaitedOps(x)) + 1
    BY <2>6, <2>7, FS_AddElement
  <2>9. Cardinality(AwaitedOps(u)) = m.wrapper[w].ops + 1
    BY <2>2, <2>6, <2>8
  <2> QED BY <2>4, <2>5, <2>9 DEF x, u
<1>11. ASSUME NEW w \in Slot
       PROVE  /\ w \in batch =>
                   /\ r.session[w] = Requested(m.session[w], "stop")
                   /\ r.wrapper[w] = [state |-> "stop", ops |-> m.wrapper[w].ops + 1]
                   /\ r.wrapper[w].state = "stop" /\ r.wrapper[w].ops = m.wrapper[w].ops + 1
              /\ w \notin batch => r.session[w] = m.session[w] /\ r.wrapper[w] = m.wrapper[w]
  BY <1>6
<1>12. Shaped(r.session)
  BY <1>1, <1>10, <1>11 DEF Shaped
<1>13. OpsCounted(r.wrapper, r.session)
  <2>1. ASSUME NEW w \in Slot
        PROVE  r.wrapper[w].ops = Cardinality(AwaitedOps(r.session[w]))
    <3>1. CASE w \in batch
      BY <1>10, <1>11, <3>1
    <3>2. CASE w \notin batch
      BY <1>1, <1>11, <3>2 DEF OpsCounted
    <3> QED BY <3>1, <3>2
  <2> QED BY <2>1 DEF OpsCounted
<1>14. SlotsShaped(r.wrapper, r.session)
  <2>1. ASSUME NEW w \in Slot PROVE SlotShape(r.wrapper[w].state, r.session[w])
    <3>1. CASE w \in batch
      BY <1>10, <1>11, <3>1
    <3>2. CASE w \notin batch
      BY <1>3, <1>11, <3>2 DEF SlotsShaped
    <3> QED BY <3>1, <3>2
  <2> QED BY <2>1 DEF SlotsShaped
<1>15. /\ Cardinality(Awaited(r.session)) = Cardinality(Awaited(m.session)) + Cardinality(batch)
       /\ Cardinality(batch) \in Nat
       /\ Unreported(r.session) = Unreported(m.session)
  <2>1. \A w \in batch : /\ ~Awaits(m.session[w], "stop")
                         /\ \A o \in Operation : Awaits(r.session[w], o)
                               <=> Awaits(m.session[w], o) \/ o = "stop"
    BY <1>9, <1>10, <1>11
  <2>2. \A w \in Slot : w \notin batch => r.session[w] = m.session[w]
    BY <1>11
  <2> QED BY <1>9, <2>1, <2>2, BatchCounts
<1>16. Accounts(r)
  <2>1. PendingCounted(r)
    <3> DEFINE a == One(m.accept = "in_progress")
               b == One(More(m, begin))
               x == Cardinality(Awaited(m.session))
    <3>1. a \in Nat /\ b \in Nat /\ x \in Nat
      BY CountsTyped, AwaitedFinite
    <3>2. m.pending = a + x /\ r.pending = m.pending + Cardinality(batch) + b
      BY <1>1, <1>6
    <3> HIDE DEF a, b, x
    <3>3. r.pending = a + b + (x + Cardinality(batch))
      BY <1>15, <3>1, <3>2
    <3> QED BY <1>6, <1>15, <3>3 DEF a, b, x, PendingCounted
  <2>2. ReportsCounted(r)
    BY <1>1, <1>6, <1>15 DEF ReportsCounted
  <2> QED BY <1>1, <1>6, <1>12, <1>13, <2>1, <2>2 DEF Accounts
<1>17. Slots(r)
  <2>1. \A w \in Slot :
          /\ r.wrapper[w].state \in {"start", "work", "stop"}
               <=> m.wrapper[w].state \in {"start", "work", "stop"}
          /\ r.wrapper[w].state = "ready" <=> m.wrapper[w].state = "ready"
          /\ r.wrapper[w].state = "free" <=> m.wrapper[w].state = "free"
    BY <1>7, <1>11
  <2>2. Listed(r.active, r.wrapper)
    BY <1>3, <1>6, <2>1 DEF Listed
  <2>3. AcceptingReady(r.accepting, r.wrapper)
    BY <1>3, <1>6, <2>1 DEF AcceptingReady
  <2>4. Used(r.wrapper) = Used(m.wrapper)
    BY <2>1 DEF Used
  <2> QED BY <1>3, <1>6, <1>14, <2>2, <2>3, <2>4 DEF Slots
<1>18. AtStop(r)
  <2>1. \A i \in 1 .. Len(s) : i < f + MaxStopping => r.wrapper[s[i]].state = "stop"
    <3> TAKE i \in 1 .. Len(s)
    <3>1. SUFFICES ASSUME i < f + MaxStopping PROVE r.wrapper[s[i]].state = "stop"
      OBVIOUS
    <3>2. s[i] \in Slot
      BY <1>2
    <3>3. m.wrapper[s[i]].state = "stop" \/ s[i] \in batch
      <4>1. CASE i < f
        BY <1>4, <4>1
      <4>2. CASE ~(i < f)
        <5>1. i \in f .. Len(s)
          BY <1>2, <1>5, <4>2
        <5> QED BY <1>8, <3>1, <5>1
      <4> QED BY <4>1, <4>2
    <3> QED BY <1>11, <3>2, <3>3
  <2>2. CASE More(m, begin)
    <3> DEFINE p == f + MaxStopping
    <3>1. p \in 1 .. Len(s)
      BY <1>2, <1>5, <2>2 DEF More, f, s
    <3>2. r.stoppingEnd = s[p] /\ r.stopScheduled
      BY <1>6, <2>2
    <3>3. r.stoppingEnd \in ToSet(r.active)
      BY <1>2, <1>6, <3>1, <3>2, ToSetElements
    <3>4. Reached(r.stoppingEnd, r.active, r.wrapper)
      <4> SUFFICES ASSUME NEW i \in 1 .. Len(s), \A j \in 1 .. i : s[j] # s[p]
                   PROVE  r.wrapper[s[i]].state = "stop"
        BY <1>6, <3>2 DEF Reached
      <4>1. ~(p \in 1 .. i)
        OBVIOUS
      <4>2. i < p
        BY <1>2, <3>1, <4>1
      <4> QED BY <2>1, <4>2
    <3> QED BY <1>1, <1>6, <3>2, <3>3, <3>4 DEF AtStop
  <2>3. CASE ~More(m, begin)
    <3>1. Len(s) < f + MaxStopping
      BY <1>2, <1>5, <2>3 DEF More, f, s
    <3>2. r.stoppingEnd = None
      BY <1>6, <2>3
    <3>3. \A i \in 1 .. Len(s) : i < f + MaxStopping
      BY <1>2, <1>5, <3>1
    <3>4. Reached(r.stoppingEnd, r.active, r.wrapper)
      BY <1>6, <2>1, <3>3 DEF Reached
    <3> QED BY <1>1, <1>6, <3>2, <3>4 DEF AtStop
  <2> QED BY <2>2, <2>3
<1>19. Answers(r, stopping)
  BY <1>1, <1>6 DEF Answers
<1>20. Working(r, stopping)
  BY <1>1, <1>6, <1>16, <1>17, <1>18, <1>19 DEF Working
<1> QED BY <1>1, <1>6, <1>20 DEF r

\* What setting the number of pending operations changes.
LEMMA PendingSet ==
  ASSUME NEW m \in LooseServer, NEW pending \in Int
  PROVE  LET n == [m EXCEPT !.pending = pending]
         IN  /\ n \in LooseServer /\ n.pending = pending
             /\ n.session = m.session /\ n.wrapper = m.wrapper /\ n.active = m.active
             /\ n.accept = m.accept /\ n.accepting = m.accepting
             /\ n.stoppingEnd = m.stoppingEnd
             /\ n.unreported = m.unreported /\ n.startedLate = m.startedLate
             /\ n.badReset = m.badReset
             /\ n.extern = m.extern /\ n.intern = m.intern
             /\ n.acceptorOpen = m.acceptorOpen
             /\ n.waitHandler = m.waitHandler /\ n.stopHandler = m.stopHandler
             /\ n.waitError = m.waitError /\ n.owed = m.owed
<1> DEFINE n == [m EXCEPT !.pending = pending]
<1>1. n \in LooseServer
  BY Zenon DEF LooseServer
<1> QED BY <1>1 DEF LooseServer

(***************************************************************************)
(* The handler of schedule_active_session_stop.                            *)
(***************************************************************************)
LEMMA ScheduledStops ==
  ASSUME NEW m, Working(m, FALSE), m.stopScheduled
  PROVE  LET r == HandleScheduledActiveSessionStop(m)
         IN  Working(r, FALSE) /\ r.intern # "work"
<1> DEFINE pending == m.pending - 1
           n == [m EXCEPT !.pending = pending]
           r == StopBatch(n, m.stoppingEnd)
<1>1. m \in LooseServer /\ Accounts(m) /\ Slots(m) /\ Answers(m, FALSE)
  BY DEF Working, Accounts
<1>2. m.intern # "work"
  BY DEF Working, AtWork
<1>3. AtStop(m)
  BY <1>2 DEF Working
<1>4. pending = One(m.accept = "in_progress") + Cardinality(Awaited(m.session))
      /\ pending >= 0 /\ pending \in Int /\ m.pending \in Int
  <2> DEFINE a == One(m.accept = "in_progress")
             x == Cardinality(Awaited(m.session))
  <2>1. One(m.stopScheduled) = 1
    BY CountsTyped
  <2>2. a \in Nat /\ x \in Nat /\ m.pending \in Int
    BY <1>1, CountsTyped, AwaitedFinite DEF LooseServer
  <2>3. m.pending = a + One(m.stopScheduled) + x
    BY <1>1 DEF Accounts, PendingCounted
  <2> HIDE DEF a, x
  <2>4. m.pending - 1 = a + x /\ m.pending - 1 >= 0 /\ m.pending - 1 \in Int
    BY <2>1, <2>2, <2>3
  <2> QED BY <2>2, <2>4 DEF a, x
<1>5. m.pending # 0
  BY <1>4
<1>6. m.intern = "stop" /\ m.extern \in {"work", "stop"}
  BY <1>1, <1>2, <1>5 DEF Working, LooseServer
<1> HIDE DEF pending
<1>7. /\ n \in LooseServer /\ n.pending = pending
      /\ n.session = m.session /\ n.wrapper = m.wrapper /\ n.active = m.active
      /\ n.accept = m.accept /\ n.accepting = m.accepting
      /\ n.stoppingEnd = m.stoppingEnd
      /\ n.unreported = m.unreported /\ n.startedLate = m.startedLate
      /\ n.badReset = m.badReset
      /\ n.extern = m.extern /\ n.intern = m.intern
      /\ n.acceptorOpen = m.acceptorOpen
      /\ n.waitHandler = m.waitHandler /\ n.stopHandler = m.stopHandler
      /\ n.waitError = m.waitError /\ n.owed = m.owed
  BY <1>1, <1>4, PendingSet
<1> HIDE DEF n
<1>8. ~n.badReset /\ Shaped(n.session) /\ OpsCounted(n.wrapper, n.session)
      /\ ReportsCounted(n)
  BY <1>1, <1>7 DEF Accounts, ReportsCounted
<1>9. Slots(n) /\ Answers(n, FALSE)
  BY <1>1, <1>7 DEF Slots, Answers
<1>10. Halting(n, FALSE, m.stoppingEnd)
  BY <1>3, <1>4, <1>6, <1>7, <1>8, <1>9 DEF Halting, AtStop
<1>11. Working(r, FALSE) /\ r.intern = "stop"
  BY <1>10, BatchStops
<1>12. Working(ContinueStop(r), FALSE) /\ ContinueStop(r).intern # "work"
  BY <1>11, StopContinues
<1> QED BY <1>12 DEF HandleScheduledActiveSessionStop, n, pending

(***************************************************************************)
(* start_stop, when the work is over or the user asks for it.              *)
(***************************************************************************)
LEMMA Closes ==
  ASSUME NEW m \in LooseServer
  PROVE  LET n == [m EXCEPT !.intern = "stop", !.acceptorOpen = FALSE,
                            !.accept = IF @ = "ready" THEN "stopped" ELSE @]
         IN  /\ n \in LooseServer /\ n.intern = "stop" /\ ~n.acceptorOpen
             /\ n.accept = IF m.accept = "ready" THEN "stopped" ELSE m.accept
             /\ n.session = m.session /\ n.wrapper = m.wrapper /\ n.active = m.active
             /\ n.accepting = m.accepting
             /\ n.stoppingEnd = m.stoppingEnd /\ n.stopScheduled = m.stopScheduled
             /\ SameCounts(m, n) /\ n.badReset = m.badReset
             /\ n.extern = m.extern
             /\ n.waitHandler = m.waitHandler /\ n.stopHandler = m.stopHandler
             /\ n.waitError = m.waitError /\ n.owed = m.owed
<1> DEFINE accept == IF m.accept = "ready" THEN "stopped" ELSE m.accept
           n == [m EXCEPT !.intern = "stop", !.acceptorOpen = FALSE, !.accept = accept]
<1>1. accept \in {"ready", "in_progress", "stopped"}
  BY DEF LooseServer
<1> HIDE DEF accept
<1>2. n \in LooseServer
  BY <1>1, Zenon DEF LooseServer
<1>3. /\ n.intern = "stop" /\ ~n.acceptorOpen /\ n.accept = accept
      /\ n.session = m.session /\ n.wrapper = m.wrapper /\ n.active = m.active
      /\ n.accepting = m.accepting
      /\ n.stoppingEnd = m.stoppingEnd /\ n.stopScheduled = m.stopScheduled
      /\ SameCounts(m, n) /\ n.badReset = m.badReset
      /\ n.extern = m.extern
      /\ n.waitHandler = m.waitHandler /\ n.stopHandler = m.stopHandler
      /\ n.waitError = m.waitError /\ n.owed = m.owed
  BY DEF LooseServer, SameCounts
<1> QED BY <1>2, <1>3 DEF accept

\* start_stop, when the work is over or the user asks for it.
LEMMA StopStarts ==
  ASSUME NEW stopping \in BOOLEAN, NEW m, Working(m, stopping),
         m.intern = "work", m.extern \in {"work", "stop"},
         NEW error \in {"error", "operation_aborted"},
         m.extern = "stop" => ~m.waitHandler
  PROVE  LET r == StartStop(m, error)
         IN  Working(r, stopping) /\ r.intern # "work"
             /\ r.extern \in {m.extern, "stopped"}
<1> DEFINE closed == [m EXCEPT !.intern = "stop", !.acceptorOpen = FALSE,
                               !.accept = IF @ = "ready" THEN "stopped" ELSE @]
           told == IF m.extern = "work" THEN CompleteExternWait(closed, error)
                                        ELSE closed
           begin == FrontActive(told)
           r == StopBatch(told, begin)
<1>1. m \in LooseServer /\ Accounts(m) /\ Slots(m) /\ Answers(m, stopping) /\ AtWork(m)
  BY DEF Working, Accounts
<1>2. /\ closed \in LooseServer /\ closed.intern = "stop" /\ ~closed.acceptorOpen
      /\ closed.accept = IF m.accept = "ready" THEN "stopped" ELSE m.accept
      /\ closed.session = m.session /\ closed.wrapper = m.wrapper
      /\ closed.active = m.active /\ closed.accepting = m.accepting
      /\ closed.stoppingEnd = m.stoppingEnd /\ closed.stopScheduled = m.stopScheduled
      /\ SameCounts(m, closed) /\ closed.badReset = m.badReset
      /\ closed.extern = m.extern
      /\ closed.waitHandler = m.waitHandler /\ closed.stopHandler = m.stopHandler
      /\ closed.waitError = m.waitError /\ closed.owed = m.owed
  BY <1>1, Closes
<1> HIDE DEF closed
<1>3. /\ told \in LooseServer /\ SameSessions(closed, told)
      /\ told.extern = m.extern /\ told.intern = "stop" /\ ~told.acceptorOpen
      /\ told.stopHandler = m.stopHandler /\ ~told.waitHandler
      /\ m.extern = "work" => told.waitError # "none"
      /\ told.owed.stop = m.owed.stop
      /\ told.owed.wait = 0
  <2>1. m.owed.wait = One(m.waitHandler) /\ m.owed.wait \in Int
    BY <1>1, CountsTyped DEF Answers
  <2>2. CASE m.extern = "work"
    <3>1. told = CompleteExternWait(closed, error)
      BY <2>2
    <3>2. error \in {"none", "error", "operation_aborted"} /\ error # "none"
      OBVIOUS
    <3> HIDE DEF told
    <3>3. /\ told \in LooseServer /\ SameSessions(closed, told)
          /\ told.extern = closed.extern /\ told.intern = closed.intern
          /\ told.acceptorOpen = closed.acceptorOpen
          /\ told.stopHandler = closed.stopHandler /\ ~told.waitHandler
          /\ told.waitError = IF closed.waitError = "none" THEN error
                                                           ELSE closed.waitError
          /\ told.owed.stop = closed.owed.stop
          /\ told.owed.wait = closed.owed.wait - One(closed.waitHandler)
      BY <1>2, <3>1, <3>2, ToldFields
    <3>4. told.owed.wait = 0
      <4>1. told.owed.wait = m.owed.wait - One(m.waitHandler)
        BY <1>2, <3>3
      <4> QED BY <2>1, <4>1
    <3> QED BY <1>2, <3>2, <3>3, <3>4
  <2>3. CASE m.extern # "work"
    <3>1. told = closed /\ ~m.waitHandler
      BY <2>3
    <3>2. One(m.waitHandler) = 0
      BY <3>1, CountsTyped
    <3> HIDE DEF told
    <3>3. SameSessions(closed, told)
      BY <3>1 DEF SameSessions, SameCounts
    <3> QED BY <1>2, <2>1, <2>3, <3>1, <3>2, <3>3
  <2> QED BY <2>2, <2>3
<1> HIDE DEF told
<1>4. /\ told.session = m.session /\ told.wrapper = m.wrapper /\ told.active = m.active
      /\ told.accepting = m.accepting /\ told.badReset = m.badReset
      /\ told.accept = IF m.accept = "ready" THEN "stopped" ELSE m.accept
      /\ told.pending = m.pending /\ told.unreported = m.unreported
      /\ told.startedLate = m.startedLate
  BY <1>2, <1>3 DEF SameSessions, SameCounts
<1>5. /\ told.accept # "ready"
      /\ told.accept = "in_progress" <=> m.accept = "in_progress"
  BY <1>4
<1>6. told.pending = One(told.accept = "in_progress") + Cardinality(Awaited(told.session))
  <2> DEFINE a == One(m.accept = "in_progress")
             x == Cardinality(Awaited(m.session))
  <2>1. One(m.stopScheduled) = 0
    BY <1>1, CountsTyped DEF AtWork
  <2>2. a \in Nat /\ x \in Nat
    BY CountsTyped, AwaitedFinite
  <2>3. m.pending = a + One(m.stopScheduled) + x
    BY <1>1 DEF Accounts, PendingCounted
  <2>4. One(told.accept = "in_progress") = a
    BY <1>5 DEF One
  <2> HIDE DEF a, x
  <2>5. m.pending = a + x
    BY <2>1, <2>2, <2>3
  <2> QED BY <1>4, <2>4, <2>5 DEF x
<1>7. ~told.badReset /\ Shaped(told.session) /\ OpsCounted(told.wrapper, told.session)
      /\ ReportsCounted(told)
  BY <1>1, <1>4 DEF Accounts, ReportsCounted
<1>8. Slots(told)
  BY <1>1, <1>4, <1>5 DEF Slots
<1>9. Answers(told, stopping)
  <2>1. One(told.waitHandler) = 0
    BY <1>3, CountsTyped
  <2>2. told.owed.stop = One(told.stopHandler)
    BY <1>1, <1>3 DEF Answers
  <2> QED BY <1>1, <1>3, <2>1, <2>2 DEF Answers
<1>10. begin \in {None} \cup ToSet(told.active) /\ Reached(begin, told.active, told.wrapper)
  <2>1. told.active \in Seq(Slot) /\ Len(told.active) \in Nat
    BY <1>3 DEF LooseServer
  <2>2. CASE told.active = <<>>
    <3>1. begin = None /\ Len(told.active) = 0
      BY <2>2 DEF FrontActive
    <3>2. Reached(begin, told.active, told.wrapper)
      BY <3>1 DEF Reached
    <3> QED BY <3>1, <3>2
  <2>3. CASE told.active # <<>>
    <3>1. begin = told.active[1] /\ 1 \in 1 .. Len(told.active)
      BY <2>1, <2>3 DEF FrontActive
    <3>2. \A i \in 1 .. Len(told.active) : 1 \in 1 .. i
      BY <2>1
    <3> HIDE DEF begin
    <3>3. Reached(begin, told.active, told.wrapper)
      BY <3>1, <3>2 DEF Reached
    <3> QED BY <2>1, <3>1, <3>3, ToSetElements
  <2> QED BY <2>2, <2>3
<1> HIDE DEF begin
<1>11. Halting(told, stopping, begin)
  BY <1>3, <1>4, <1>5, <1>6, <1>7, <1>8, <1>9, <1>10 DEF Halting
<1>12. Working(r, stopping) /\ r.intern = "stop" /\ r.extern = m.extern
  BY <1>3, <1>11, BatchStops
<1>13. /\ Working(ContinueStop(r), stopping) /\ ContinueStop(r).intern # "work"
       /\ ContinueStop(r).extern \in {m.extern, "stopped"}
  BY <1>12, StopContinues
<1>14. StartStop(m, error) = ContinueStop(r)
  BY DEF StartStop, r, begin, told, closed
<1> QED BY <1>13, <1>14

-----------------------------------------------------------------------------
(* Normal work. *)

\* The acceptor and the state of the accept.
Accepting(m, open, error, accept) ==
  [m EXCEPT !.acceptorOpen = open, !.acceptError = error, !.accept = accept]

Accepts(m, n) ==
  \E open \in BOOLEAN, error \in {"none", "error"}, accept \in {"ready", "stopped"} :
    /\ n = Accepting(m, open, error, accept)
    /\ accept = "stopped" => error # "none"

\* An accept that was begun is the work of a manager.
LEMMA AcceptingFields ==
  ASSUME NEW m, Working(m, FALSE), m.intern = "work", m.extern = "work",
         m.accept = "ready",
         NEW n, Accepts(m, n)
  PROVE  /\ Working(n, FALSE) /\ n.intern = "work" /\ n.extern = "work"
         /\ n.active = m.active
<1>1. m \in LooseServer /\ Accounts(m) /\ Slots(m) /\ Answers(m, FALSE) /\ AtWork(m)
  BY DEF Working, Accounts
<1>a. PICK open \in BOOLEAN, error \in {"none", "error"}, accept \in {"ready", "stopped"} :
        /\ n = Accepting(m, open, error, accept)
        /\ accept = "stopped" => error # "none"
  BY DEF Accepts
<1>0. /\ n = Accepting(m, open, error, accept)
      /\ open \in BOOLEAN /\ error \in {"none", "error"}
      /\ accept \in {"ready", "in_progress", "stopped"} /\ accept # "in_progress"
      /\ accept = "stopped" => error # "none"
  BY <1>a
<1>2. n \in LooseServer
  BY <1>0, <1>1, Zenon DEF LooseServer, Accepting
<1>3. /\ n.intern = "work" /\ n.extern = "work" /\ n.accept = accept
      /\ n.acceptorOpen = open /\ n.acceptError = error /\ n.active = m.active
      /\ n.session = m.session /\ n.wrapper = m.wrapper /\ n.badReset = m.badReset
      /\ n.accepting = m.accepting /\ n.stoppingEnd = m.stoppingEnd
      /\ n.stopScheduled = m.stopScheduled /\ n.pending = m.pending
      /\ n.unreported = m.unreported /\ n.startedLate = m.startedLate
      /\ n.waitHandler = m.waitHandler /\ n.stopHandler = m.stopHandler
      /\ n.waitError = m.waitError /\ n.owed = m.owed
  BY <1>0, <1>1 DEF LooseServer, Accepting
<1>4. n.accept # "in_progress" /\ m.accept # "in_progress"
  BY <1>0, <1>3
<1>5. PendingCounted(n)
  <2>1. One(n.accept = "in_progress") = One(m.accept = "in_progress")
    BY <1>4 DEF One
  <2>2. m.pending = One(m.accept = "in_progress") + One(m.stopScheduled)
                      + Cardinality(Awaited(m.session))
    BY <1>1 DEF Accounts, PendingCounted
  <2> QED BY <1>3, <2>1, <2>2 DEF PendingCounted
<1>6. Accounts(n)
  BY <1>1, <1>2, <1>3, <1>5 DEF Accounts, ReportsCounted
<1>7. Slots(n)
  BY <1>1, <1>3, <1>4 DEF Slots
<1>8. Answers(n, FALSE)
  BY <1>1, <1>3 DEF Answers
<1>9. AtWork(n)
  BY <1>0, <1>1, <1>3, <1>4 DEF AtWork
<1>10. Working(n, FALSE)
  BY <1>3, <1>6, <1>7, <1>8, <1>9 DEF Working
<1> QED BY <1>3, <1>10

\* How a handler of a server that works leaves it.
Left(r) ==
  Working(r, FALSE) /\ RoomUsed(r) /\ r.extern \in {"work", "stopped"}

\* Work that ends with an error leaves the manager stopping, or stopped.
LEMMA WorkEnds ==
  ASSUME NEW m, Working(m, FALSE), m.intern = "work", m.extern = "work"
  PROVE  Left(StartStop(m, "error"))
<1>1. /\ Working(StartStop(m, "error"), FALSE) /\ StartStop(m, "error").intern # "work"
      /\ StartStop(m, "error").extern \in {m.extern, "stopped"}
  BY StopStarts
<1> QED BY <1>1 DEF Left, RoomUsed

(***************************************************************************)
(* An accept that can not be started ends the work when no session is      *)
(* left.                                                                   *)
(***************************************************************************)
LEMMA StopAccepts ==
  ASSUME NEW m, Working(m, FALSE), m.intern = "work", m.extern = "work",
         m.accept = "ready"
  PROVE  Left(StopAccepting(m))
<1> DEFINE given == [m EXCEPT !.accept = "stopped", !.acceptError = "error"]
           n == Accepting(m, m.acceptorOpen, "error", "stopped")
<1>1. m \in LooseServer /\ m.acceptorOpen \in BOOLEAN /\ m.active \in Seq(Slot)
  BY DEF Working, Accounts, LooseServer
<1>2. given = n
  BY <1>1 DEF Accepting, LooseServer
<1>3. /\ Working(n, FALSE) /\ n.intern = "work" /\ n.extern = "work"
      /\ n.accept = "stopped" /\ n.acceptError = "error" /\ n.active = m.active
  <2>1. Accepts(m, n)
    BY <1>1 DEF Accepts
  <2>2. n.accept = "stopped" /\ n.acceptError = "error"
    BY <1>1 DEF Accepting, LooseServer
  <2> HIDE DEF n
  <2> QED BY <2>1, <2>2, AcceptingFields
<1>4. StopAccepting(m) = IF m.active = <<>> THEN StartStop(n, "error") ELSE n
  BY <1>2 DEF StopAccepting
<1> HIDE DEF n, given
<1>5. CASE m.active = <<>>
  BY <1>3, <1>4, <1>5, WorkEnds
<1>6. CASE m.active # <<>>
  <2>1. Len(n.active) > 0
    BY <1>1, <1>3, <1>6
  <2>2. RoomUsed(n)
    BY <1>3, <2>1 DEF RoomUsed
  <2> QED BY <1>3, <1>4, <1>6, <2>2 DEF Left
<1> QED BY <1>5, <1>6

(***************************************************************************)
(* An accept is started only if there is room for another session.         *)
(***************************************************************************)
LEMMA AcceptStarts ==
  ASSUME NEW m, Working(m, FALSE), m.intern = "work", m.extern = "work",
         m.accept = "ready", Len(m.active) < MaxSessions
  PROVE  Left(StartAccept(m))
<1> DEFINE n == StartAccept(m)
           w == CHOOSE x \in Slot : m.wrapper[x].state = "free"
           wrapper == [m.wrapper EXCEPT ![w] = [state |-> "ready",
                                                ops |-> m.wrapper[w].ops]]
           recycled == IF m.recycled > 0 THEN m.recycled - 1 ELSE 0
           pending == m.pending + 1
<1>1. m \in LooseServer /\ Accounts(m) /\ Slots(m) /\ Answers(m, FALSE) /\ AtWork(m)
  BY DEF Working, Accounts
<1>2. w \in Slot /\ m.wrapper[w].state = "free"
  <2>1. \E x \in Slot : m.wrapper[x].state = "free"
    BY <1>1, RoomLeft DEF Slots
  <2> QED BY <2>1
<1> HIDE DEF w
<1>3. wrapper = [m.wrapper EXCEPT ![w].state = "ready"] /\ wrapper \in [Slot -> LooseWrapper]
  BY <1>1, <1>2, SlotFields DEF LooseWrapper
<1>4. recycled \in 0 .. RecycledSessionCount /\ pending \in Int
  <2>1. m.recycled \in 0 .. RecycledSessionCount /\ m.pending \in Int
    BY <1>1 DEF LooseServer
  <2> QED BY <2>1, SessionManagerAssumption
<1>5. n = [m EXCEPT !.wrapper = wrapper, !.recycled = recycled,
                    !.acceptorOpen = TRUE, !.acceptError = "none",
                    !.accept = "in_progress", !.accepting = w, !.pending = pending]
  BY <1>3 DEF StartAccept, w
<1> HIDE DEF n, wrapper, recycled, pending
<1>6. n \in LooseServer
  <2>1. w \in Slot \cup {None}
    BY <1>2
  <2> QED BY <1>1, <1>3, <1>4, <1>5, <2>1, Zenon DEF LooseServer
<1>7. /\ n.intern = "work" /\ n.extern = "work" /\ n.accept = "in_progress"
      /\ n.acceptorOpen /\ n.acceptError = "none" /\ n.active = m.active
      /\ n.session = m.session /\ n.wrapper = wrapper /\ n.badReset = m.badReset
      /\ n.accepting = w /\ n.stoppingEnd = m.stoppingEnd
      /\ n.stopScheduled = m.stopScheduled /\ n.pending = pending
      /\ n.unreported = m.unreported /\ n.startedLate = m.startedLate
      /\ n.waitHandler = m.waitHandler /\ n.stopHandler = m.stopHandler
      /\ n.waitError = m.waitError /\ n.owed = m.owed
  BY <1>1, <1>5 DEF LooseServer
<1>8. /\ n.wrapper[w].state = "ready" /\ n.wrapper[w].ops = m.wrapper[w].ops
      /\ \A x \in Slot : x # w => n.wrapper[x] = m.wrapper[x]
  <2>1. m.wrapper \in [Slot -> LooseWrapper]
    BY <1>1 DEF LooseServer
  <2>2. n.wrapper = [m.wrapper EXCEPT ![w] = [state |-> "ready", ops |-> m.wrapper[w].ops]]
    BY <1>7 DEF wrapper
  <2>3. n.wrapper[w] = [state |-> "ready", ops |-> m.wrapper[w].ops]
    BY <1>2, <2>1, <2>2
  <2>4. \A x \in Slot : x # w => n.wrapper[x] = m.wrapper[x]
    BY <1>2, <2>1, <2>2
  <2> QED BY <2>3, <2>4
<1>9. Accounts(n)
  <2>1. OpsCounted(n.wrapper, n.session)
    <3>1. ASSUME NEW x \in Slot
          PROVE  n.wrapper[x].ops = Cardinality(AwaitedOps(n.session[x]))
      <4>1. n.wrapper[x].ops = m.wrapper[x].ops
        BY <1>8
      <4> QED BY <1>1, <1>7, <4>1 DEF Accounts, OpsCounted
    <3> QED BY <3>1 DEF OpsCounted
  <2>2. PendingCounted(n)
    <3> DEFINE b == One(m.stopScheduled)
               y == Cardinality(Awaited(m.session))
    <3>1. m.accept # "in_progress"
      OBVIOUS
    <3>2. One(m.accept = "in_progress") = 0 /\ One(n.accept = "in_progress") = 1
      BY <1>7, <3>1 DEF One
    <3>3. b \in Nat /\ y \in Nat /\ m.pending \in Int
      BY <1>1, CountsTyped, AwaitedFinite DEF LooseServer
    <3>4. m.pending = One(m.accept = "in_progress") + b + y
      BY <1>1 DEF Accounts, PendingCounted
    <3> HIDE DEF b, y
    <3>5. n.pending = One(n.accept = "in_progress") + b + y
      BY <1>7, <3>2, <3>3, <3>4 DEF pending
    <3> QED BY <1>7, <3>5 DEF b, y, PendingCounted
  <2> QED BY <1>1, <1>6, <1>7, <2>1, <2>2 DEF Accounts, ReportsCounted
<1>10. m.accepting = None
  BY <1>1 DEF Slots
<1>11. \A x \in Slot : m.wrapper[x].state \in {"free", "start", "work", "stop"}
  <2> TAKE x \in Slot
  <2>1. m.wrapper[x].state # "ready"
    BY <1>1, <1>10, NoneElsewhere DEF Slots, AcceptingReady
  <2>2. m.wrapper[x].state # "stopped"
    BY <1>1 DEF AtWork
  <2> QED BY <1>1, <2>1, <2>2, SlotStates
<1>12. Cardinality(Used(n.wrapper)) <= MaxSessions
  <2>1. Used(n.wrapper) = Used(m.wrapper) \cup {w} /\ w \notin Used(m.wrapper)
    BY <1>2, <1>8 DEF Used
  <2>2. /\ IsFiniteSet(Used(m.wrapper)) /\ Cardinality(Used(m.wrapper)) \in Nat
        /\ Len(m.active) = Cardinality(Used(m.wrapper))
    <3>1. m.active \in Seq(Slot) /\ Listed(m.active, m.wrapper)
      BY <1>1 DEF LooseServer, Slots
    <3> QED BY <1>11, <3>1, ActiveUsed
  <2>3. Cardinality(Used(m.wrapper) \cup {w}) = Cardinality(Used(m.wrapper)) + 1
    BY <2>1, <2>2, FS_AddElement
  <2> QED BY <2>1, <2>2, <2>3, SessionManagerAssumption
<1>13. Slots(n)
  <2>1. SlotsShaped(n.wrapper, n.session)
    <3>1. ASSUME NEW x \in Slot PROVE SlotShape(n.wrapper[x].state, n.session[x])
      <4>1. SlotShape(m.wrapper[x].state, m.session[x])
        BY <1>1 DEF Slots, SlotsShaped
      <4>2. CASE x = w
        BY <1>2, <1>7, <1>8, <4>1, <4>2 DEF SlotShape
      <4>3. CASE x # w
        BY <1>7, <1>8, <4>1, <4>3
      <4> QED BY <4>2, <4>3
    <3> QED BY <3>1 DEF SlotsShaped
  <2>2. Listed(n.active, n.wrapper)
    <3>1. Listed(m.active, m.wrapper)
      BY <1>1 DEF Slots
    <3> QED BY <1>2, <1>7, <1>8, <3>1 DEF Listed
  <2>3. AcceptingReady(n.accepting, n.wrapper)
    BY <1>7, <1>8, <1>11 DEF AcceptingReady
  <2>4. n.accept = "in_progress" <=> n.accepting # None
    BY <1>2, <1>7, NoneElsewhere
  <2> QED BY <1>12, <2>1, <2>2, <2>3, <2>4 DEF Slots
<1>14. Answers(n, FALSE)
  BY <1>1, <1>7 DEF Answers
<1>15. AtWork(n)
  <2>1. \A x \in Slot : /\ n.wrapper[x].state # "stopped"
                        /\ n.wrapper[x].state = "stop" => AwaitsOnly(n.session[x], "stop")
    <3> TAKE x \in Slot
    <3>1. CASE x = w
      BY <1>8, <3>1
    <3>2. CASE x # w
      BY <1>1, <1>7, <1>8, <3>2 DEF AtWork
    <3> QED BY <3>1, <3>2
  <2>2. n.stoppingEnd = None /\ ~n.stopScheduled
    BY <1>1, <1>7 DEF AtWork
  <2> QED BY <1>7, <2>1, <2>2 DEF AtWork
<1>16. Working(n, FALSE)
  BY <1>7, <1>9, <1>13, <1>14, <1>15 DEF Working
<1>17. RoomUsed(n)
  BY <1>7 DEF RoomUsed
<1> QED BY <1>7, <1>16, <1>17 DEF n, Left

\* continue_work accepts, or has a reason not to, or stops.
LEMMA WorkContinues ==
  ASSUME NEW m, Working(m, FALSE), m.intern = "work", m.extern = "work", NEW fault
  PROVE  Left(ContinueWork(m, fault))
<1>1. m \in LooseServer /\ Slots(m) /\ AtWork(m)
  BY DEF Working, Accounts
<1>2. /\ m.active \in Seq(Slot) /\ Len(m.active) \in Nat /\ MaxSessions \in Nat
      /\ m.acceptError \in {"none", "error"} /\ m.acceptorOpen \in BOOLEAN
      /\ m.accept \in {"ready", "in_progress", "stopped"}
  BY <1>1, SessionManagerAssumption DEF LooseServer
<1>3. CASE m.active = <<>> /\ m.accept = "stopped"
  <2>1. ContinueWork(m, fault) = StartStop(m, "error")
    BY <1>1, <1>2, <1>3 DEF ContinueWork, AtWork
  <2> QED BY <2>1, WorkEnds
<1>4. CASE ~(m.active = <<>> /\ m.accept = "stopped") /\ m.accept # "ready"
  <2>1. ContinueWork(m, fault) = m
    BY <1>4 DEF ContinueWork
  <2>2. m.accept = "stopped" => Len(m.active) > 0
    BY <1>2, <1>4
  <2>3. RoomUsed(m)
    BY <1>2, <1>4, <2>2 DEF RoomUsed
  <2> QED BY <2>1, <2>3 DEF Left
<1>5. CASE m.accept = "ready" /\ Len(m.active) >= MaxSessions
  <2> DEFINE n == Accepting(m, FALSE, m.acceptError, "ready")
  <2>1. [m EXCEPT !.acceptorOpen = FALSE] = n
    BY <1>1, <1>5 DEF Accepting, LooseServer
  <2>2. ContinueWork(m, fault) = n
    BY <1>5, <2>1 DEF ContinueWork
  <2>3. /\ Working(n, FALSE) /\ n.intern = "work" /\ n.extern = "work"
        /\ n.accept = "ready" /\ n.acceptorOpen = FALSE /\ n.active = m.active
    <3>1. Accepts(m, n)
      BY <1>2 DEF Accepts
    <3>2. n.accept = "ready" /\ n.acceptorOpen = FALSE
      BY <1>1 DEF Accepting, LooseServer
    <3> HIDE DEF n
    <3> QED BY <1>5, <3>1, <3>2, AcceptingFields
  <2> HIDE DEF n
  <2>4. Len(m.active) <= MaxSessions
    <3>1. Listed(m.active, m.wrapper) /\ Cardinality(Used(m.wrapper)) <= MaxSessions
      BY <1>1 DEF Slots
    <3>2. Cardinality(Used(m.wrapper)) \in Nat /\ Len(m.active) <= Cardinality(Used(m.wrapper))
      BY <1>2, <3>1, ActiveUsed
    <3> QED BY <1>2, <3>1, <3>2
  <2>5. Len(n.active) = MaxSessions
    BY <1>2, <1>5, <2>3, <2>4
  <2>6. RoomUsed(n)
    BY <2>3, <2>5 DEF RoomUsed
  <2> QED BY <2>2, <2>3, <2>6 DEF Left
<1>6. CASE m.accept = "ready" /\ Len(m.active) < MaxSessions
  <2>1. ~(Len(m.active) >= MaxSessions)
    BY <1>2, <1>6
  <2>2. CASE ~m.acceptorOpen /\ "open" \in fault
    <3>1. ContinueWork(m, fault) = StopAccepting(m)
      BY <1>6, <2>1, <2>2 DEF ContinueWork
    <3> QED BY <1>6, <3>1, StopAccepts
  <2>3. CASE ~(~m.acceptorOpen /\ "open" \in fault) /\ "create" \in fault /\ m.active # <<>>
    <3> DEFINE n == Accepting(m, TRUE, "error", "ready")
    <3>1. [m EXCEPT !.acceptorOpen = TRUE, !.acceptError = "error"] = n
      BY <1>1, <1>6 DEF Accepting, LooseServer
    <3>2. ContinueWork(m, fault) = n
      BY <1>6, <2>1, <2>3, <3>1 DEF ContinueWork
    <3>3. /\ Working(n, FALSE) /\ n.intern = "work" /\ n.extern = "work"
          /\ n.accept = "ready" /\ n.acceptError = "error" /\ n.active = m.active
      <4>1. Accepts(m, n)
        BY DEF Accepts
      <4>2. n.accept = "ready" /\ n.acceptError = "error"
        BY <1>1 DEF Accepting, LooseServer
      <4> HIDE DEF n
      <4> QED BY <1>6, <4>1, <4>2, AcceptingFields
    <3> HIDE DEF n
    <3>4. Len(n.active) > 0
      BY <1>2, <2>3, <3>3
    <3>5. RoomUsed(n)
      BY <3>3, <3>4 DEF RoomUsed
    <3> QED BY <3>2, <3>3, <3>5 DEF Left
  <2>4. CASE ~(~m.acceptorOpen /\ "open" \in fault) /\ "create" \in fault /\ m.active = <<>>
    <3> DEFINE n == Accepting(m, TRUE, m.acceptError, "ready")
    <3>1. [m EXCEPT !.acceptorOpen = TRUE] = n
      BY <1>1, <1>6 DEF Accepting, LooseServer
    <3>2. ContinueWork(m, fault) = StopAccepting(n)
      BY <1>6, <2>1, <2>4, <3>1 DEF ContinueWork
    <3>3. /\ Working(n, FALSE) /\ n.intern = "work" /\ n.extern = "work"
          /\ n.accept = "ready"
      <4>1. Accepts(m, n)
        BY <1>2 DEF Accepts
      <4>2. n.accept = "ready"
        BY <1>1 DEF Accepting, LooseServer
      <4> HIDE DEF n
      <4> QED BY <1>6, <4>1, <4>2, AcceptingFields
    <3> HIDE DEF n
    <3> QED BY <3>2, <3>3, StopAccepts
  <2>5. CASE ~(~m.acceptorOpen /\ "open" \in fault) /\ "create" \notin fault
    <3>1. ContinueWork(m, fault) = StartAccept(m)
      BY <1>6, <2>1, <2>5 DEF ContinueWork
    <3> QED BY <1>6, <3>1, AcceptStarts
  <2> QED BY <2>2, <2>3, <2>4, <2>5
<1> QED BY <1>2, <1>3, <1>4, <1>5, <1>6

(***************************************************************************)
(* Every handler of a session ends in the invariant.                       *)
(***************************************************************************)
LEMMA Continues ==
  ASSUME NEW m, Working(m, FALSE), m.intern # "stopped", m.extern # "ready",
         NEW next, NEW fault, Continued(m, next, fault)
  PROVE  Working(next, FALSE) /\ RoomUsed(next)
<1>1. PICK r : Working(r, FALSE) /\ SameManager(m, r) /\ next = Continue(r, fault)
  BY DEF Continued
<1>2. r.intern = m.intern /\ r.extern = m.extern
  BY <1>1 DEF SameManager
<1>3. m.intern \in {"work", "stop", "stopped"} /\ m.extern \in {"ready", "work", "stop", "stopped"}
  BY DEF Working, Accounts, LooseServer
<1>4. CASE m.intern = "work"
  <2>1. r.extern = "work"
    BY <1>2, <1>3, <1>4 DEF Working
  <2>2. next = ContinueWork(r, fault)
    BY <1>1, <1>2, <1>4 DEF Continue
  <2>3. Left(ContinueWork(r, fault))
    BY <1>1, <1>2, <1>4, <2>1, WorkContinues
  <2> QED BY <2>2, <2>3 DEF Left
<1>5. CASE m.intern = "stop"
  <2>1. next = ContinueStop(r)
    BY <1>1, <1>2, <1>5 DEF Continue
  <2>2. Working(ContinueStop(r), FALSE) /\ ContinueStop(r).intern # "work"
    BY <1>1, <1>2, <1>5, StopContinues
  <2> QED BY <2>1, <2>2 DEF RoomUsed
<1> QED BY <1>3, <1>4, <1>5

-----------------------------------------------------------------------------
(* The accept completes. *)

(***************************************************************************)
(* While an accept is in progress, its session is fresh.                   *)
(***************************************************************************)
LEMMA AcceptMeans ==
  ASSUME NEW m, Working(m, FALSE), m.accept = "in_progress"
  PROVE  LET w == m.accepting
         IN  /\ w \in Slot /\ m.wrapper[w].state = "ready" /\ m.wrapper[w].ops = 0
             /\ m.session[w] = FreshSession /\ w \notin Unreported(m.session)
             /\ w \notin ToSet(m.active)
             /\ m \in LooseServer /\ m.intern # "stopped" /\ m.extern # "ready"
             /\ m.extern # "stopped"
             /\ m.pending \in Int /\ m.unreported \in Int /\ m.startedLate \in Int
             /\ \A x \in Slot : x # w => m.wrapper[x].state # "ready"
<1> DEFINE w == m.accepting
<1>1. m \in LooseServer /\ Accounts(m) /\ Slots(m)
  BY DEF Working, Accounts
<1>2. w \in Slot
  BY <1>1 DEF LooseServer, Slots
<1>3. m.wrapper[w].state = "ready" /\ \A x \in Slot : x # w => m.wrapper[x].state # "ready"
  BY <1>1, <1>2 DEF Slots, AcceptingReady
<1>4. m.session[w] = FreshSession
  BY <1>1, <1>2, <1>3 DEF Slots, SlotsShaped, SlotShape
<1>5. m.wrapper[w].ops = 0
  BY <1>1, <1>2, <1>4, FreshCounts DEF Accounts, OpsCounted
<1>6. w \notin Unreported(m.session)
  BY <1>4, FreshShaped, IdleCounts DEF Unreported
<1>7. w \notin ToSet(m.active)
  BY <1>1, <1>2, <1>3 DEF Slots, Listed
<1>8. m.pending \in Int /\ m.unreported \in Int /\ m.startedLate \in Int
  BY <1>1 DEF LooseServer
<1>9. m.pending # 0
  <2> DEFINE b == One(m.stopScheduled)
             y == Cardinality(Awaited(m.session))
  <2>1. One(m.accept = "in_progress") = 1 /\ b \in Nat /\ y \in Nat
    BY <1>1, CountsTyped, AwaitedFinite
  <2>2. m.pending = One(m.accept = "in_progress") + b + y
    BY <1>1 DEF Accounts, PendingCounted
  <2> HIDE DEF b, y
  <2> QED BY <2>1, <2>2
<1>10. m.intern # "stopped" /\ m.extern # "ready" /\ m.extern # "stopped"
  BY <1>9 DEF Working
<1> QED BY <1>1, <1>2, <1>3, <1>4, <1>5, <1>6, <1>7, <1>8, <1>10

\* The accept handler has been called: the counts and the state of the accept.
AcceptOver(m, phase, error) ==
  [m EXCEPT !.pending = m.pending - 1, !.accept = phase, !.accepting = None,
            !.acceptError = error]

\* What the end of an accept changes.
LEMMA OverFields ==
  ASSUME NEW m \in LooseServer, NEW phase \in {"ready", "stopped"},
         NEW error \in {"none", "error"}
  PROVE  LET n == AcceptOver(m, phase, error)
         IN  /\ n \in LooseServer /\ SameLists(m, n)
             /\ n.badReset = m.badReset
             /\ n.pending = m.pending - 1 /\ n.unreported = m.unreported
             /\ n.startedLate = m.startedLate
             /\ n.session = m.session /\ n.wrapper = m.wrapper
             /\ n.extern = m.extern /\ n.intern = m.intern
             /\ n.accept = phase /\ n.accepting = None
             /\ n.acceptorOpen = m.acceptorOpen /\ n.stopScheduled = m.stopScheduled
             /\ n.acceptError = error /\ n.waitError = m.waitError
             /\ n.waitHandler = m.waitHandler /\ n.stopHandler = m.stopHandler
             /\ n.owed = m.owed
<1> DEFINE n == AcceptOver(m, phase, error)
           pending == m.pending - 1
<1>1. n = [m EXCEPT !.pending = pending, !.accept = phase, !.accepting = None,
                    !.acceptError = error]
  BY DEF AcceptOver
<1>2. pending \in Int
  BY DEF LooseServer
<1> HIDE DEF n
<1>3. n \in LooseServer
  <2>1. phase \in {"ready", "in_progress", "stopped"} /\ None \in Slot \cup {None}
    OBVIOUS
  <2> HIDE DEF pending
  <2> QED BY <1>1, <1>2, <2>1, Zenon DEF LooseServer
<1>4. /\ SameLists(m, n)
      /\ n.badReset = m.badReset
      /\ n.pending = m.pending - 1 /\ n.unreported = m.unreported
      /\ n.startedLate = m.startedLate
      /\ n.session = m.session /\ n.wrapper = m.wrapper
      /\ n.extern = m.extern /\ n.intern = m.intern
      /\ n.accept = phase /\ n.accepting = None
      /\ n.acceptorOpen = m.acceptorOpen /\ n.stopScheduled = m.stopScheduled
      /\ n.acceptError = error /\ n.waitError = m.waitError
      /\ n.waitHandler = m.waitHandler /\ n.stopHandler = m.stopHandler
      /\ n.owed = m.owed
  BY <1>1 DEF LooseServer, SameLists
<1> QED BY <1>3, <1>4 DEF n

\* What counting an accepted session changes.
LEMMA CountedFields ==
  ASSUME NEW m \in LooseServer
  PROVE  LET n == [m EXCEPT !.unreported = @ + 1]
         IN  /\ n \in LooseServer /\ SameManager(m, n) /\ SameLists(m, n)
             /\ n.badReset = m.badReset
             /\ n.pending = m.pending /\ n.unreported = m.unreported + 1
             /\ n.startedLate = m.startedLate
             /\ n.session = m.session /\ n.wrapper = m.wrapper
<1> DEFINE unreported == m.unreported + 1
           n == [m EXCEPT !.unreported = @ + 1]
<1>1. n = [m EXCEPT !.unreported = unreported]
  OBVIOUS
<1>2. unreported \in Int
  BY DEF LooseServer
<1> HIDE DEF n
<1>3. n \in LooseServer
  <2> HIDE DEF unreported
  <2> QED BY <1>1, <1>2, Zenon DEF LooseServer
<1>4. /\ SameManager(m, n) /\ SameLists(m, n) /\ n.badReset = m.badReset
      /\ n.pending = m.pending /\ n.unreported = m.unreported + 1
      /\ n.startedLate = m.startedLate
      /\ n.session = m.session /\ n.wrapper = m.wrapper
  BY <1>1 DEF LooseServer, SameManager, SameLists
<1> QED BY <1>3, <1>4 DEF n

(***************************************************************************)
(* What the user of the server sees of it has not changed.                 *)
(***************************************************************************)
Keeps(m, n) ==
  /\ n.extern = m.extern /\ n.intern = m.intern /\ n.waitError = m.waitError
  /\ n.waitHandler = m.waitHandler /\ n.stopHandler = m.stopHandler

(***************************************************************************)
(* What an accept handler leaves before it goes on: the slot w holds t,    *)
(* and no accept is in progress.                                           *)
(***************************************************************************)
Accepted(m, n, t, state, k) ==
  /\ n \in LooseServer /\ ~n.badReset
  /\ Holds(m, n, m.accepting, t, state, k)
  /\ SessionShape(t) /\ SlotShape(state, t) /\ k = Cardinality(AwaitedOps(t))
  /\ n.pending = m.pending - 1 + k
  /\ n.unreported - n.startedLate =
       m.unreported - m.startedLate + One(Awaits(t, "start") \/ Awaits(t, "wait"))
  /\ n.stoppingEnd = m.stoppingEnd
  /\ n.extern = m.extern /\ n.intern = m.intern
  /\ n.accept # "in_progress" /\ n.accepting = None
  /\ n.acceptorOpen = m.acceptorOpen /\ n.stopScheduled = m.stopScheduled
  /\ n.waitError = m.waitError
  /\ n.waitHandler = m.waitHandler /\ n.stopHandler = m.stopHandler
  /\ n.owed = m.owed
  /\ m.intern = "work" /\ n.accept = "stopped" => n.acceptError # "none"
  /\ m.intern # "work" => n.accept = "stopped"

\* After an accept the manager is back at work.
LEMMA AcceptLeaves ==
  ASSUME NEW m, Working(m, FALSE), m.accept = "in_progress",
         NEW n, NEW t, NEW state, NEW k, Accepted(m, n, t, state, k),
         \/ state = "free" /\ n.active = m.active
         \/ state = "start" /\ n.active = Cons(m.accepting, m.active) /\ m.intern = "work"
  PROVE  Working(n, FALSE)
<1> DEFINE w == m.accepting
<1>1. m \in LooseServer /\ Accounts(m) /\ Slots(m) /\ Answers(m, FALSE)
  BY DEF Working, Accounts
<1>2. /\ w \in Slot /\ m.wrapper[w].state = "ready" /\ m.wrapper[w].ops = 0
      /\ w \notin Unreported(m.session) /\ w \notin ToSet(m.active)
      /\ m.intern # "stopped" /\ m.extern # "ready" /\ m.extern # "stopped"
      /\ m.pending \in Int /\ m.unreported \in Int /\ m.startedLate \in Int
      /\ \A x \in Slot : x # w => m.wrapper[x].state # "ready"
  BY AcceptMeans
<1>3. /\ n \in LooseServer /\ ~n.badReset /\ Holds(m, n, w, t, state, k)
      /\ SessionShape(t) /\ SlotShape(state, t) /\ k = Cardinality(AwaitedOps(t))
      /\ n.pending = m.pending - 1 + k
      /\ n.unreported - n.startedLate =
           m.unreported - m.startedLate + One(Awaits(t, "start") \/ Awaits(t, "wait"))
      /\ n.stoppingEnd = m.stoppingEnd
      /\ n.extern = m.extern /\ n.intern = m.intern
      /\ n.accept # "in_progress" /\ n.accepting = None
      /\ n.acceptorOpen = m.acceptorOpen /\ n.stopScheduled = m.stopScheduled
      /\ n.waitError = m.waitError
      /\ n.waitHandler = m.waitHandler /\ n.stopHandler = m.stopHandler
      /\ n.owed = m.owed
      /\ m.intern = "work" /\ n.accept = "stopped" => n.acceptError # "none"
      /\ m.intern # "work" => n.accept = "stopped"
  BY DEF Accepted
<1>4. m.active \in Seq(Slot) /\ Listed(m.active, m.wrapper) /\ Len(m.active) \in Nat
  BY <1>1 DEF LooseServer, Slots
<1> HIDE DEF w
<1>5. Accounts(n)
  <2> DEFINE a == One(m.stopScheduled)
             c == One(w \in Unreported(m.session))
  <2>1. One(m.accept = "in_progress") = 1 /\ One(n.accept = "in_progress") = 0
    BY <1>3 DEF One
  <2>2. c = 0 /\ a \in Int /\ One(n.stopScheduled) = a
    BY <1>2, <1>3 DEF One
  <2>3. k \in Int /\ One(Awaits(t, "start") \/ Awaits(t, "wait")) \in Int
    BY <1>3, AwaitedOpsFinite, CountsTyped
  <2> HIDE DEF a, c
  <2>4. n.pending = m.pending - m.wrapper[w].ops + k
                      - One(m.accept = "in_progress") - a
                      + One(n.accept = "in_progress") + One(n.stopScheduled)
    BY <1>2, <1>3, <2>1, <2>2, <2>3
  <2>5. n.unreported - n.startedLate =
          m.unreported - m.startedLate - c
            + One(Awaits(t, "start") \/ Awaits(t, "wait"))
    BY <1>2, <1>3, <2>2, <2>3
  <2> QED BY <1>1, <1>2, <1>3, <2>4, <2>5, SlotAccounts DEF a, c
<1>6. /\ SlotsShaped(n.wrapper, n.session)
      /\ n.wrapper[w].state = state
      /\ \A x \in Slot : x # w => /\ n.wrapper[x] = m.wrapper[x]
                                  /\ n.session[x] = m.session[x]
  <2>1. SlotsShaped(m.wrapper, m.session) /\ SlotShape(state, t)
    BY <1>1, <1>3 DEF Slots
  <2>2. m \in LooseServer /\ w \in Slot /\ Holds(m, n, w, t, state, k)
    BY <1>1, <1>2, <1>3
  <2> QED BY <2>1, <2>2, SlotsHeld
<1>7. n.active \in Seq(Slot) /\ n.session[w] = t
  <2>1. m \in LooseServer /\ w \in Slot /\ Holds(m, n, w, t, state, k)
    BY <1>1, <1>2, <1>3
  <2>2. n.session[w] = t
    BY <2>1, HoldsAt
  <2> QED BY <1>3, <2>2 DEF LooseServer
<1>8. Listed(n.active, n.wrapper)
  <2>1. CASE state = "free" /\ n.active = m.active
    BY <1>2, <1>4, <1>6, <2>1 DEF Listed
  <2>2. CASE state = "start" /\ n.active = Cons(w, m.active)
    <3>1. Distinct(n.active) /\ ToSet(n.active) = ToSet(m.active) \cup {w}
      BY <1>2, <1>4, <2>2, FrontAdded DEF Listed
    <3> QED BY <1>2, <1>4, <1>6, <2>2, <3>1 DEF Listed
  <2> QED BY <2>1, <2>2 DEF w
<1>9. Slots(n)
  <2>1. AcceptingReady(n.accepting, n.wrapper)
    <3>1. state # "ready"
      OBVIOUS
    <3> QED BY <1>2, <1>3, <1>6, <3>1, NoneElsewhere DEF AcceptingReady
  <2>2. Cardinality(Used(n.wrapper)) <= MaxSessions
    <3>1. Cardinality(Used(m.wrapper)) <= MaxSessions
      BY <1>1 DEF Slots
    <3>2. \A x \in Slot : x # w => n.wrapper[x] = m.wrapper[x]
      BY <1>6
    <3>3. w \in Slot /\ m.wrapper[w].state # "free"
      BY <1>2
    <3> QED BY <3>1, <3>2, <3>3, UsedNoMore
  <2> QED BY <1>3, <1>6, <1>8, <2>1, <2>2 DEF Slots
<1>10. Answers(n, FALSE)
  BY <1>1, <1>3 DEF Answers
<1>11. ASSUME m.intern = "work" PROVE AtWork(n)
  <2>1. AtWork(m)
    BY <1>11 DEF Working
  <2>2. \A x \in Slot : /\ n.wrapper[x].state # "stopped"
                        /\ n.wrapper[x].state = "stop" => AwaitsOnly(n.session[x], "stop")
    <3> TAKE x \in Slot
    <3>1. CASE x = w
      BY <1>6, <3>1
    <3>2. CASE x # w
      BY <1>6, <2>1, <3>2 DEF AtWork
    <3> QED BY <3>1, <3>2
  <2> QED BY <1>3, <1>11, <2>1, <2>2 DEF AtWork
<1>12. ASSUME m.intern # "work" PROVE AtStop(n)
  <2>1. AtStop(m) /\ n.active = m.active
    BY <1>12 DEF Working
  <2>2. \A i \in 1 .. Len(m.active) : m.active[i] \in Slot /\ m.active[i] # w
    BY <1>2, <1>4, ToSetElements
  <2>3. Reached(n.stoppingEnd, n.active, n.wrapper)
    BY <1>3, <1>6, <2>1, <2>2 DEF AtStop, Reached
  <2> QED BY <1>3, <1>12, <2>1, <2>3 DEF AtStop
<1> QED BY <1>2, <1>3, <1>5, <1>9, <1>10, <1>11, <1>12 DEF Working

(***************************************************************************)
(* A session whose accept has failed, or came too late, is given back.     *)
(***************************************************************************)
LEMMA AcceptRecycles ==
  ASSUME NEW m, Working(m, FALSE), m.accept = "in_progress",
         NEW error \in {"none", "error"}, m.intern = "work" => error # "none"
  PROVE  LET r == Recycle(AcceptOver(m, "stopped", error), m.accepting)
         IN  Working(r, FALSE) /\ Keeps(m, r)
<1> DEFINE w == m.accepting
           n == AcceptOver(m, "stopped", error)
           r == Recycle(n, w)
<1>1. /\ w \in Slot /\ m.wrapper[w].state = "ready" /\ m.wrapper[w].ops = 0
      /\ m.session[w] = FreshSession /\ m \in LooseServer /\ ~m.badReset
      /\ m.pending \in Int /\ m.unreported \in Int /\ m.startedLate \in Int
  BY AcceptMeans DEF Working, Accounts
<1>2. /\ n \in LooseServer /\ SameLists(m, n)
      /\ n.badReset = m.badReset
      /\ n.pending = m.pending - 1 /\ n.unreported = m.unreported
      /\ n.startedLate = m.startedLate
      /\ n.session = m.session /\ n.wrapper = m.wrapper
      /\ n.extern = m.extern /\ n.intern = m.intern
      /\ n.accept = "stopped" /\ n.accepting = None
      /\ n.acceptorOpen = m.acceptorOpen /\ n.stopScheduled = m.stopScheduled
      /\ n.acceptError = error /\ n.waitError = m.waitError
      /\ n.waitHandler = m.waitHandler /\ n.stopHandler = m.stopHandler
      /\ n.owed = m.owed
  BY <1>1, OverFields
<1> HIDE DEF w, n
<1>3. /\ r \in LooseServer /\ SameManager(n, r) /\ SameLists(n, r)
      /\ r.badReset = n.badReset /\ SameCounts(n, r)
      /\ Holds(n, r, w, FreshSession, "free", 0)
  <2>1. n.wrapper[w].ops = 0 /\ n.session[w] = FreshSession
    BY <1>1, <1>2
  <2>2. /\ SessionShape(FreshSession) /\ Idle(FreshSession)
        /\ FreshSession.view.extern \in {"ready", "stopped"}
    BY FreshShaped, PlainViews
  <2> QED BY <1>1, <1>2, <2>1, <2>2, RecycleFields
<1> HIDE DEF r
<1>4. Accepted(m, r, FreshSession, "free", 0)
  <2>1. Holds(m, r, w, FreshSession, "free", 0)
    BY <1>2, <1>3 DEF Holds
  <2>2. r.pending = m.pending - 1 + 0 /\ r.unreported - r.startedLate =
          m.unreported - m.startedLate
            + One(Awaits(FreshSession, "start") \/ Awaits(FreshSession, "wait"))
    BY <1>1, <1>2, <1>3, FreshCounts DEF SameCounts
  <2>3. /\ r.accept = "stopped" /\ r.accepting = None /\ r.acceptError = error
        /\ r.extern = m.extern /\ r.intern = m.intern
        /\ r.acceptorOpen = m.acceptorOpen /\ r.stopScheduled = m.stopScheduled
        /\ r.waitError = m.waitError
        /\ r.waitHandler = m.waitHandler /\ r.stopHandler = m.stopHandler
        /\ r.owed = m.owed /\ r.stoppingEnd = m.stoppingEnd
    BY <1>2, <1>3 DEF SameManager, SameLists
  <2> QED BY <1>1, <1>2, <1>3, <2>1, <2>2, <2>3, FreshCounts DEF Accepted, w
<1>5. r.active = m.active
  BY <1>2, <1>3 DEF SameLists
<1>6. Working(r, FALSE)
  BY <1>4, <1>5, AcceptLeaves
<1>7. Keeps(m, r)
  BY <1>2, <1>3 DEF SameManager, Keeps
<1> QED BY <1>6, <1>7 DEF r, n, w

(***************************************************************************)
(* A session that was accepted is added to the list and started.           *)
(***************************************************************************)
LEMMA AcceptBegins ==
  ASSUME NEW m, Working(m, FALSE), m.accept = "in_progress", m.intern = "work"
  PROVE  LET w == m.accepting
             over == AcceptOver(m, "ready", m.acceptError)
             got == [over EXCEPT !.unreported = @ + 1]
             r == Request(AddToActive(got, w), w, "start")
         IN  Working(r, FALSE) /\ Keeps(m, r)
<1> DEFINE w == m.accepting
           over == AcceptOver(m, "ready", m.acceptError)
           n == [over EXCEPT !.unreported = @ + 1]
           l == AddToActive(n, w)
           t == Requested(FreshSession, "start")
           r == Request(l, w, "start")
<1>1. /\ w \in Slot /\ m.wrapper[w].state = "ready" /\ m.wrapper[w].ops = 0
      /\ m.session[w] = FreshSession /\ m \in LooseServer /\ ~m.badReset
      /\ m.pending \in Int /\ m.unreported \in Int /\ m.startedLate \in Int
      /\ w \notin ToSet(m.active)
  BY AcceptMeans DEF Working, Accounts
<1>2. Distinct(m.active) /\ m.acceptError \in {"none", "error"} /\ m.unreported + 1 \in Int
  BY <1>1 DEF Working, Slots, Listed, LooseServer
<1>3. /\ n \in LooseServer /\ SameLists(m, n)
      /\ n.badReset = m.badReset
      /\ n.pending = m.pending - 1 /\ n.unreported = m.unreported + 1
      /\ n.startedLate = m.startedLate
      /\ n.session = m.session /\ n.wrapper = m.wrapper
      /\ n.extern = m.extern /\ n.intern = m.intern
      /\ n.accept = "ready" /\ n.accepting = None
      /\ n.acceptorOpen = m.acceptorOpen /\ n.stopScheduled = m.stopScheduled
      /\ n.waitError = m.waitError
      /\ n.waitHandler = m.waitHandler /\ n.stopHandler = m.stopHandler
      /\ n.owed = m.owed
  <2>1. /\ over \in LooseServer /\ SameLists(m, over)
        /\ over.badReset = m.badReset
        /\ over.pending = m.pending - 1 /\ over.unreported = m.unreported
        /\ over.startedLate = m.startedLate
        /\ over.session = m.session /\ over.wrapper = m.wrapper
        /\ over.extern = m.extern /\ over.intern = m.intern
        /\ over.accept = "ready" /\ over.accepting = None
        /\ over.acceptorOpen = m.acceptorOpen /\ over.stopScheduled = m.stopScheduled
        /\ over.waitError = m.waitError
        /\ over.waitHandler = m.waitHandler /\ over.stopHandler = m.stopHandler
        /\ over.owed = m.owed
    BY <1>1, <1>2, OverFields
  <2> HIDE DEF over
  <2>2. /\ n \in LooseServer /\ SameManager(over, n) /\ SameLists(over, n)
        /\ n.badReset = over.badReset
        /\ n.pending = over.pending /\ n.unreported = over.unreported + 1
        /\ n.startedLate = over.startedLate
        /\ n.session = over.session /\ n.wrapper = over.wrapper
    BY <2>1, CountedFields
  <2> HIDE DEF n
  <2> QED BY <2>1, <2>2 DEF SameManager, SameLists
<1> HIDE DEF w, n, over
<1>4. /\ l \in LooseServer /\ SameManager(n, l)
      /\ l.active = Cons(w, m.active) /\ l.stoppingEnd = m.stoppingEnd
      /\ l.badReset = n.badReset /\ SameCounts(n, l)
      /\ l.session = n.session /\ l.wrapper = n.wrapper
  <2>1. n.active = m.active /\ n.stoppingEnd = m.stoppingEnd
    BY <1>3 DEF SameLists
  <2>2. Distinct(n.active) /\ w \notin ToSet(n.active)
    BY <1>1, <1>2, <2>1
  <2> QED BY <1>1, <1>3, <2>1, <2>2, AddFields
<1> HIDE DEF l
<1>5. /\ r \in LooseServer /\ SameManager(l, r) /\ SameLists(l, r)
      /\ r.badReset = l.badReset
      /\ r.pending = l.pending + 1 /\ r.unreported = l.unreported
      /\ r.startedLate = l.startedLate
      /\ Holds(l, r, w, t, "start", 1)
  <2>1. "start" \in Operation /\ "start" # "wait"
    BY DEF Operation
  <2>2. l.session[w] = FreshSession /\ l.wrapper[w].ops + 1 = 1
    BY <1>1, <1>3, <1>4
  <2>3. /\ r \in LooseServer /\ SameManager(l, r) /\ SameLists(l, r)
        /\ r.badReset = l.badReset
        /\ r.pending = l.pending + 1 /\ r.unreported = l.unreported
        /\ r.startedLate = l.startedLate
        /\ Holds(l, r, w, Requested(l.session[w], "start"),
                 IF "start" = "wait" THEN l.wrapper[w].state ELSE "start",
                 l.wrapper[w].ops + 1)
    BY <1>1, <1>4, <2>1, RequestFields
  <2> HIDE DEF r
  <2> QED BY <2>2, <2>3
<1>6. /\ SessionShape(t) /\ SlotShape("start", t) /\ 1 = Cardinality(AwaitedOps(t))
      /\ One(Awaits(t, "start") \/ Awaits(t, "wait")) = 1
  <2>1. "start" \in Operation /\ Requestable(FreshSession, "start")
    BY PlainViews, QueueContents DEF Operation, Requestable
  <2>2. /\ SessionShape(t) /\ t.view = FreshView
        /\ \A o \in Operation : Awaits(t, o) <=> Awaits(FreshSession, o) \/ o = "start"
    BY <2>1, FreshShaped, RequestShaped
  <2> HIDE DEF t
  <2>3. AwaitsOnly(t, "start") /\ Awaits(t, "start")
    BY <2>1, <2>2, FreshShaped DEF AwaitsOnly, Idle
  <2>4. AwaitedOps(t) = {"start"}
    BY <2>1, <2>3 DEF AwaitsOnly, AwaitedOps
  <2>5. Cardinality(AwaitedOps(t)) = 1
    BY <2>4, FS_Singleton
  <2>6. SlotShape("start", t)
    BY <2>2, <2>3, PlainViews DEF SlotShape
  <2> QED BY <2>2, <2>3, <2>5, <2>6, CountsTyped
<1> HIDE DEF r, t
<1>7. Accepted(m, r, t, "start", 1)
  <2>1. Holds(m, r, w, t, "start", 1)
    BY <1>3, <1>4, <1>5 DEF Holds
  <2>2. r.pending = m.pending - 1 + 1 /\ r.unreported - r.startedLate =
          m.unreported - m.startedLate + One(Awaits(t, "start") \/ Awaits(t, "wait"))
    BY <1>1, <1>3, <1>4, <1>5, <1>6 DEF SameCounts
  <2>3. /\ r.accept = "ready" /\ r.accepting = None
        /\ r.extern = m.extern /\ r.intern = m.intern
        /\ r.acceptorOpen = m.acceptorOpen /\ r.stopScheduled = m.stopScheduled
        /\ r.waitError = m.waitError
        /\ r.waitHandler = m.waitHandler /\ r.stopHandler = m.stopHandler
        /\ r.owed = m.owed /\ r.stoppingEnd = m.stoppingEnd
        /\ r \in LooseServer /\ ~r.badReset
    BY <1>1, <1>3, <1>4, <1>5 DEF SameManager, SameLists
  <2> QED BY <1>6, <2>1, <2>2, <2>3 DEF Accepted, w
<1>8. r.active = Cons(m.accepting, m.active)
  BY <1>4, <1>5 DEF SameLists, w
<1>9. Working(r, FALSE)
  BY <1>7, <1>8, AcceptLeaves
<1>10. Keeps(m, r)
  BY <1>3, <1>4, <1>5 DEF SameManager, Keeps
<1> QED BY <1>9, <1>10 DEF r, l, n, w, over

\* The handler of an accept, at work.
LEMMA AcceptHandledAtWork ==
  ASSUME NEW m, Working(m, FALSE), m.accept = "in_progress", m.intern = "work",
         NEW error \in {"none", "error"}, NEW fault
  PROVE  Left(HandleAcceptAtWork(m, error, fault))
<1>1. m \in LooseServer /\ m.extern = "work" /\ Len(m.active) < MaxSessions
      /\ m.active \in Seq(Slot)
  <2>1. /\ m \in LooseServer /\ m.extern # "ready" /\ m.extern # "stopped"
    BY AcceptMeans
  <2>2. m.extern \in {"ready", "work", "stop", "stopped"} /\ m.active \in Seq(Slot)
    BY <2>1 DEF LooseServer
  <2> QED BY <2>1, <2>2 DEF Working, AtWork
<1>2. CASE error # "none"
  <2> DEFINE done == [m EXCEPT !.pending = @ - 1, !.accept = "ready", !.accepting = None]
             over == AcceptOver(m, "stopped", error)
             r == Recycle(over, m.accepting)
  <2>1. [done EXCEPT !.accept = "stopped", !.acceptError = error] = over
    BY <1>1 DEF LooseServer, AcceptOver
  <2>2. HandleAcceptAtWork(m, error, fault) = ContinueWork(r, fault)
    BY <1>2, <2>1 DEF HandleAcceptAtWork
  <2>3. Working(r, FALSE) /\ r.intern = m.intern /\ r.extern = m.extern
    BY <1>2, AcceptRecycles DEF Keeps
  <2> HIDE DEF r
  <2> QED BY <1>1, <2>2, <2>3, WorkContinues
<1>3. CASE error = "none"
  <2> DEFINE w == m.accepting
             done == [m EXCEPT !.pending = @ - 1, !.accept = "ready", !.accepting = None]
             over == AcceptOver(m, "ready", m.acceptError)
             got == [over EXCEPT !.unreported = @ + 1]
             r == Request(AddToActive(got, w), w, "start")
  <2>1. done = over
    BY <1>1 DEF LooseServer, AcceptOver
  <2>2. ~(Len(m.active) >= MaxSessions)
    BY <1>1, SessionManagerAssumption
  <2>3. HandleAcceptAtWork(m, error, fault) = ContinueWork(r, fault)
    BY <1>3, <2>1, <2>2 DEF HandleAcceptAtWork
  <2>4. Working(r, FALSE) /\ r.intern = m.intern /\ r.extern = m.extern
    BY AcceptBegins DEF Keeps
  <2> HIDE DEF r
  <2> QED BY <1>1, <2>3, <2>4, WorkContinues
<1> QED BY <1>2, <1>3

\* The handler of an accept that comes after the stop.
LEMMA AcceptHandledAtStop ==
  ASSUME NEW m, Working(m, FALSE), m.accept = "in_progress", m.intern # "work"
  PROVE  LET r == HandleAcceptAtStop(m)
         IN  Working(r, FALSE) /\ r.intern # "work"
<1> DEFINE over == AcceptOver(m, "stopped", m.acceptError)
           r == Recycle(over, m.accepting)
<1>1. m \in LooseServer /\ m.intern = "stop" /\ m.acceptError \in {"none", "error"}
  <2>1. m \in LooseServer /\ m.intern # "stopped"
    BY AcceptMeans
  <2> QED BY <2>1 DEF LooseServer
<1>2. [m EXCEPT !.pending = @ - 1, !.accept = "stopped", !.accepting = None] = over
  BY <1>1 DEF LooseServer, AcceptOver
<1>3. HandleAcceptAtStop(m) = ContinueStop(r)
  BY <1>2 DEF HandleAcceptAtStop
<1>4. Working(r, FALSE) /\ r.intern = m.intern /\ r.extern = m.extern
  BY <1>1, AcceptRecycles DEF Keeps
<1> HIDE DEF r
<1>5. Working(ContinueStop(r), FALSE) /\ ContinueStop(r).intern # "work"
  BY <1>1, <1>4, StopContinues
<1> QED BY <1>3, <1>5

-----------------------------------------------------------------------------
(* What the user asks for. *)

(***************************************************************************)
(* A manager that is stopped inside may be stopped outside.                *)
(***************************************************************************)
LEMMA Halts ==
  ASSUME NEW stopping \in BOOLEAN, NEW m, Working(m, stopping), m.intern = "stopped"
  PROVE  LET n == [m EXCEPT !.extern = "stopped"]
         IN  Working(n, FALSE) /\ n.intern = "stopped" /\ n.extern = "stopped"
<1> DEFINE n == [m EXCEPT !.extern = "stopped"]
           x == InStates(m, "stopped", "stopped")
<1>1. m \in LooseServer /\ Accounts(m) /\ Slots(m) /\ Answers(m, stopping) /\ AtStop(m)
  BY DEF Working, Accounts
<1>2. n = x
  BY <1>1 DEF LooseServer, InStates
<1>3. /\ x \in LooseServer /\ SameSessions(m, x)
      /\ x.extern = "stopped" /\ x.intern = "stopped"
      /\ x.acceptorOpen = m.acceptorOpen /\ x.acceptError = m.acceptError
      /\ x.waitHandler = m.waitHandler /\ x.stopHandler = m.stopHandler
      /\ x.waitError = m.waitError /\ x.owed = m.owed
  BY <1>1, StatesSet
<1> HIDE DEF x, n
<1>4. Accounts(x) /\ Slots(x) /\ x.pending = m.pending
  BY <1>1, <1>3, SessionsKept
<1>5. m.pending = 0 /\ ~m.stopHandler /\ ~m.waitHandler
  BY <1>1 DEF Working, Answers
<1>6. Answers(x, FALSE)
  BY <1>1, <1>3, <1>5 DEF Answers
<1>7. AtStop(x)
  BY <1>1, <1>3 DEF AtStop, SameSessions
<1>8. Working(x, FALSE)
  BY <1>3, <1>4, <1>5, <1>6, <1>7 DEF Working
<1> QED BY <1>2, <1>3, <1>8 DEF n

\* The user starts the manager.
LEMMA Started ==
  ASSUME NEW m, Working(m, FALSE), m.extern = "ready", NEW fault
  PROVE  LET next == DoStartExternStart(m, fault)
         IN  Working(next, FALSE) /\ RoomUsed(next)
<1> DEFINE n == InStates(m, "work", "work")
           worked == ContinueWork(n, fault)
           next == DoStartExternStart(m, fault)
<1>1. /\ m \in LooseServer /\ Accounts(m) /\ Slots(m) /\ Answers(m, FALSE)
      /\ m.intern = "work" /\ AtWork(m)
  BY DEF Working, Accounts
<1>2. [m EXCEPT !.extern = "work"] = n
  BY <1>1 DEF LooseServer, InStates
<1>3. /\ n \in LooseServer /\ SameSessions(m, n)
      /\ n.extern = "work" /\ n.intern = "work"
      /\ n.acceptorOpen = m.acceptorOpen /\ n.acceptError = m.acceptError
      /\ n.waitHandler = m.waitHandler /\ n.stopHandler = m.stopHandler
      /\ n.waitError = m.waitError /\ n.owed = m.owed
  BY <1>1, StatesSet
<1>4. next = IF worked.intern = "stopped" THEN [worked EXCEPT !.extern = "stopped"]
                                          ELSE worked
  BY <1>2, Zenon DEF DoStartExternStart
<1> HIDE DEF n
<1>5. Working(n, FALSE)
  <2>1. Accounts(n) /\ Slots(n)
    BY <1>1, <1>3, SessionsKept
  <2>2. Answers(n, FALSE)
    BY <1>1, <1>3 DEF Answers
  <2>3. AtWork(n)
    BY <1>1, <1>3 DEF AtWork, SameSessions
  <2> QED BY <1>3, <2>1, <2>2, <2>3 DEF Working
<1>6. Left(worked)
  BY <1>3, <1>5, WorkContinues
<1> HIDE DEF worked, next
<1>7. CASE worked.intern = "stopped"
  <2> DEFINE x == [worked EXCEPT !.extern = "stopped"]
  <2>1. Working(worked, FALSE)
    BY <1>6 DEF Left
  <2>2. Working(x, FALSE) /\ x.intern = "stopped" /\ x.extern = "stopped"
    BY <1>7, <2>1, Halts
  <2>3. next = x
    BY <1>4, <1>7
  <2> HIDE DEF x
  <2> QED BY <2>2, <2>3 DEF RoomUsed, next
<1>8. CASE worked.intern # "stopped"
  BY <1>4, <1>6, <1>8 DEF Left, next
<1> QED BY <1>7, <1>8

(***************************************************************************)
(* The handlers of the user, as they are parked.                           *)
(***************************************************************************)
WaitParked(m) == [m EXCEPT !.waitHandler = TRUE, !.owed.wait = @ + 1]
StopParked(m) == [m EXCEPT !.stopHandler = TRUE, !.owed.stop = @ + 1]

\* What parking a handler of the user changes.
LEMMA ParkedFields ==
  ASSUME NEW m \in LooseServer
  PROVE  /\ LET n == WaitParked(m)
            IN  /\ n \in LooseServer /\ SameSessions(m, n)
                /\ n.extern = m.extern /\ n.intern = m.intern
                /\ n.acceptorOpen = m.acceptorOpen /\ n.acceptError = m.acceptError
                /\ n.stopHandler = m.stopHandler /\ n.waitHandler
                /\ n.waitError = m.waitError
                /\ n.owed.wait = m.owed.wait + 1 /\ n.owed.stop = m.owed.stop
         /\ LET n == StopParked(m)
            IN  /\ n \in LooseServer /\ SameSessions(m, n)
                /\ n.extern = m.extern /\ n.intern = m.intern
                /\ n.acceptorOpen = m.acceptorOpen /\ n.acceptError = m.acceptError
                /\ n.waitHandler = m.waitHandler /\ n.stopHandler
                /\ n.waitError = m.waitError
                /\ n.owed.wait = m.owed.wait /\ n.owed.stop = m.owed.stop + 1
<1>1. m.owed \in [wait : Int, stop : Int]
  BY DEF LooseServer
<1> DEFINE waits == [m.owed EXCEPT !.wait = @ + 1]
           stops == [m.owed EXCEPT !.stop = @ + 1]
<1>2. /\ waits \in [wait : Int, stop : Int] /\ waits.wait = m.owed.wait + 1
      /\ waits.stop = m.owed.stop
      /\ stops \in [wait : Int, stop : Int] /\ stops.stop = m.owed.stop + 1
      /\ stops.wait = m.owed.wait
  BY <1>1
<1>3. /\ WaitParked(m) = [m EXCEPT !.waitHandler = TRUE, !.owed = waits]
      /\ StopParked(m) = [m EXCEPT !.stopHandler = TRUE, !.owed = stops]
  BY DEF LooseServer, WaitParked, StopParked
<1> HIDE DEF waits, stops
<1> DEFINE n == WaitParked(m)
           r == StopParked(m)
<1>4. n = [m EXCEPT !.waitHandler = TRUE, !.owed = waits]
  BY <1>3
<1>5. r = [m EXCEPT !.stopHandler = TRUE, !.owed = stops]
  BY <1>3
<1> HIDE DEF n, r
<1>6. n \in LooseServer /\ r \in LooseServer
  <2>1. n \in LooseServer
    BY <1>2, <1>4, Zenon DEF LooseServer
  <2>2. r \in LooseServer
    BY <1>2, <1>5, Zenon DEF LooseServer
  <2> QED BY <2>1, <2>2
<1>7. /\ SameSessions(m, n)
      /\ n.extern = m.extern /\ n.intern = m.intern
      /\ n.acceptorOpen = m.acceptorOpen /\ n.acceptError = m.acceptError
      /\ n.stopHandler = m.stopHandler /\ n.waitHandler
      /\ n.waitError = m.waitError /\ n.owed = waits
  BY <1>4 DEF LooseServer, SameSessions, SameCounts
<1>8. /\ SameSessions(m, r)
      /\ r.extern = m.extern /\ r.intern = m.intern
      /\ r.acceptorOpen = m.acceptorOpen /\ r.acceptError = m.acceptError
      /\ r.waitHandler = m.waitHandler /\ r.stopHandler
      /\ r.waitError = m.waitError /\ r.owed = stops
  BY <1>5 DEF LooseServer, SameSessions, SameCounts
<1> QED BY <1>2, <1>6, <1>7, <1>8 DEF n, r

\* The user waits for the end of the work.
LEMMA Waited ==
  ASSUME NEW m, Working(m, FALSE), RoomUsed(m), CanParkWait(m)
  PROVE  Working(WaitParked(m), FALSE) /\ RoomUsed(WaitParked(m))
<1> DEFINE n == WaitParked(m)
<1>1. /\ m \in LooseServer /\ Accounts(m) /\ Slots(m) /\ Answers(m, FALSE)
      /\ m.extern = "work" /\ m.intern = "work" /\ ~m.waitHandler /\ AtWork(m)
  BY DEF Working, Accounts, CanParkWait
<1>2. /\ n \in LooseServer /\ SameSessions(m, n)
      /\ n.extern = m.extern /\ n.intern = m.intern
      /\ n.acceptorOpen = m.acceptorOpen /\ n.acceptError = m.acceptError
      /\ n.stopHandler = m.stopHandler /\ n.waitHandler
      /\ n.waitError = m.waitError
      /\ n.owed.wait = m.owed.wait + 1 /\ n.owed.stop = m.owed.stop
  BY <1>1, ParkedFields
<1> HIDE DEF n
<1>3. Accounts(n) /\ Slots(n)
  BY <1>1, <1>2, SessionsKept
<1>4. Answers(n, FALSE)
  <2>1. One(m.waitHandler) = 0 /\ One(n.waitHandler) = 1
    BY <1>1, <1>2 DEF One
  <2>2. n.owed.wait = One(n.waitHandler)
    <3>1. m.owed.wait = One(m.waitHandler)
      BY <1>1 DEF Answers
    <3>2. n.owed.wait = m.owed.wait + 1
      BY <1>2
    <3> QED BY <2>1, <3>1, <3>2
  <2> QED BY <1>1, <1>2, <2>2 DEF Answers
<1>5. AtWork(n)
  BY <1>1, <1>2 DEF AtWork, SameSessions
<1>6. Working(n, FALSE)
  BY <1>1, <1>2, <1>3, <1>4, <1>5 DEF Working
<1>7. RoomUsed(n)
  BY <1>2 DEF RoomUsed, SameSessions
<1> QED BY <1>6, <1>7 DEF n

\* do_start_extern_stop, before the manager looks at its own state.
\* The user asks for the stop: the wait is answered first.
LEMMA Asked ==
  ASSUME NEW m, Working(m, FALSE), m.extern \in {"ready", "work"}
  PROVE  LET told == CompleteExternWait([m EXCEPT !.extern = "stop"], "operation_aborted")
         IN  /\ Working(told, TRUE) /\ told.extern = "stop" /\ told.intern = m.intern
             /\ ~told.waitHandler
<1> DEFINE n == InStates(m, "stop", m.intern)
           told == CompleteExternWait(n, "operation_aborted")
<1>1. /\ m \in LooseServer /\ Accounts(m) /\ Slots(m) /\ Answers(m, FALSE)
      /\ m.intern \in {"work", "stop", "stopped"}
  BY DEF Working, Accounts, LooseServer
<1>2. [m EXCEPT !.extern = "stop"] = n
  BY <1>1 DEF LooseServer, InStates
<1>3. /\ n \in LooseServer /\ SameSessions(m, n)
      /\ n.extern = "stop" /\ n.intern = m.intern
      /\ n.acceptorOpen = m.acceptorOpen /\ n.acceptError = m.acceptError
      /\ n.waitHandler = m.waitHandler /\ n.stopHandler = m.stopHandler
      /\ n.waitError = m.waitError /\ n.owed = m.owed
  BY <1>1, StatesSet
<1> HIDE DEF n
<1>4. /\ told \in LooseServer /\ SameSessions(n, told)
      /\ told.extern = n.extern /\ told.intern = n.intern
      /\ told.acceptorOpen = n.acceptorOpen /\ told.acceptError = n.acceptError
      /\ told.stopHandler = n.stopHandler /\ ~told.waitHandler
      /\ told.owed.stop = n.owed.stop
      /\ told.owed.wait = n.owed.wait - One(n.waitHandler)
  BY <1>3, ToldFields
<1> HIDE DEF told
<1>5. Accounts(told) /\ Slots(told) /\ told.pending = m.pending
  BY <1>1, <1>3, <1>4, SessionsKept
<1>6. Answers(told, TRUE)
  <2>1. One(told.waitHandler) = 0
    BY <1>4 DEF One
  <2>2. m.owed.wait = One(m.waitHandler) /\ One(m.waitHandler) \in Nat
    BY <1>1, CountsTyped DEF Answers
  <2>3. told.owed.wait = One(told.waitHandler)
    BY <1>3, <1>4, <2>1, <2>2
  <2>4. ~told.stopHandler /\ told.owed.stop = One(told.stopHandler)
    BY <1>1, <1>3, <1>4 DEF Answers
  <2> QED BY <1>3, <1>4, <2>3, <2>4 DEF Answers
<1>7. ASSUME m.intern = "work" PROVE AtWork(told)
  <2>1. AtWork(m)
    BY <1>7 DEF Working
  <2> QED BY <1>3, <1>4, <2>1 DEF AtWork, SameSessions
<1>8. ASSUME m.intern # "work" PROVE AtStop(told)
  <2>1. AtStop(m)
    BY <1>8 DEF Working
  <2> QED BY <1>3, <1>4, <2>1 DEF AtStop, SameSessions
<1>9. m.intern = "stopped" => told.pending = 0
  BY <1>5 DEF Working
<1>10. Working(told, TRUE)
  BY <1>3, <1>4, <1>5, <1>6, <1>7, <1>8, <1>9 DEF Working
<1> QED BY <1>2, <1>3, <1>4, <1>10 DEF told

\* The user stops the manager.
LEMMA Stopped ==
  ASSUME NEW m, Working(m, FALSE), m.extern \in {"ready", "work"}
  PROVE  LET next == DoStartExternStop(m)
         IN  Working(next, FALSE) /\ RoomUsed(next)
<1> DEFINE told == CompleteExternWait([m EXCEPT !.extern = "stop"], "operation_aborted")
           stopped == IF m.intern = "work"
                        THEN StartStop(told, "operation_aborted") ELSE told
           next == DoStartExternStop(m)
<1>1. next = IF stopped.intern = "stopped" THEN [stopped EXCEPT !.extern = "stopped"]
                                           ELSE StopParked(stopped)
  BY Zenon DEF DoStartExternStop, StopParked
<1>2. /\ Working(told, TRUE) /\ told.extern = "stop" /\ told.intern = m.intern
      /\ ~told.waitHandler
  BY Asked
<1> HIDE DEF told
<1>3. Working(stopped, TRUE) /\ stopped.intern # "work"
      /\ stopped.extern \in {"stop", "stopped"}
  <2>1. CASE m.intern = "work"
    <3> DEFINE r == StartStop(told, "operation_aborted")
    <3>1. Working(r, TRUE) /\ r.intern # "work" /\ r.extern \in {told.extern, "stopped"}
      BY <1>2, <2>1, StopStarts
    <3>2. stopped = r
      BY <2>1
    <3> HIDE DEF r
    <3> QED BY <1>2, <3>1, <3>2
  <2>2. CASE m.intern # "work"
    BY <1>2, <2>2
  <2> QED BY <2>1, <2>2
<1> HIDE DEF stopped
<1>4. CASE stopped.intern = "stopped"
  <2> DEFINE x == [stopped EXCEPT !.extern = "stopped"]
  <2>1. Working(x, FALSE) /\ x.intern = "stopped" /\ x.extern = "stopped"
    BY <1>3, <1>4, Halts
  <2>2. next = x
    BY <1>1, <1>4
  <2> HIDE DEF x, next
  <2> QED BY <2>1, <2>2 DEF RoomUsed, next
<1>5. CASE stopped.intern # "stopped"
  <2> DEFINE n == StopParked(stopped)
  <2>1. /\ stopped \in LooseServer /\ Accounts(stopped) /\ Slots(stopped)
        /\ Answers(stopped, TRUE) /\ AtStop(stopped) /\ stopped.extern = "stop"
        /\ stopped.intern = "stop"
    <3>1. stopped \in LooseServer
      BY <1>3 DEF Working, Accounts
    <3>2. stopped.intern \in {"work", "stop", "stopped"}
      BY <3>1 DEF LooseServer
    <3> QED BY <1>3, <1>5, <3>1, <3>2 DEF Working
  <2>2. /\ n \in LooseServer /\ SameSessions(stopped, n)
        /\ n.extern = stopped.extern /\ n.intern = stopped.intern
        /\ n.acceptorOpen = stopped.acceptorOpen /\ n.acceptError = stopped.acceptError
        /\ n.waitHandler = stopped.waitHandler /\ n.stopHandler
        /\ n.waitError = stopped.waitError
        /\ n.owed.wait = stopped.owed.wait /\ n.owed.stop = stopped.owed.stop + 1
    BY <2>1, ParkedFields
  <2> HIDE DEF n
  <2>3. Accounts(n) /\ Slots(n)
    BY <2>1, <2>2, SessionsKept
  <2>4. Answers(n, FALSE)
    <3>1. ~stopped.stopHandler
      BY <2>1 DEF Answers
    <3>2. One(stopped.stopHandler) = 0 /\ One(n.stopHandler) = 1
      BY <2>2, <3>1 DEF One
    <3>3. n.owed.stop = One(n.stopHandler)
      <4>1. stopped.owed.stop = One(stopped.stopHandler)
        BY <2>1 DEF Answers
      <4>2. n.owed.stop = stopped.owed.stop + 1
        BY <2>2
      <4> QED BY <3>2, <4>1, <4>2
    <3> QED BY <2>1, <2>2, <3>3 DEF Answers
  <2>5. AtStop(n)
    BY <2>1, <2>2 DEF AtStop, SameSessions
  <2>6. Working(n, FALSE) /\ n.intern # "work"
    BY <2>1, <2>2, <2>3, <2>4, <2>5 DEF Working
  <2>7. next = n
    BY <1>1, <1>5 DEF n
  <2> QED BY <2>6, <2>7 DEF RoomUsed
<1> QED BY <1>4, <1>5

(***************************************************************************)
(* A manager that has stopped holds nothing.                               *)
(***************************************************************************)
LEMMA Rests ==
  ASSUME NEW stopping \in BOOLEAN, NEW m, Working(m, stopping), m.intern = "stopped"
  PROVE  /\ m.accept = "stopped" /\ m.accepting = None /\ ~m.acceptorOpen
         /\ m.active = <<>> /\ ~m.stopScheduled /\ m.stoppingEnd = None
         /\ \A w \in Slot : /\ m.wrapper[w] = FreeWrapper
                            /\ m.session[w] = FreshSession
         /\ Awaited(m.session) = {} /\ Unreported(m.session) = {}
<1>1. /\ m \in LooseServer /\ Accounts(m) /\ Slots(m) /\ AtStop(m) /\ m.pending = 0
  BY DEF Working, Accounts
<1>2. m.accept # "in_progress" /\ ~m.stopScheduled /\ Cardinality(Awaited(m.session)) = 0
  <2> DEFINE a == One(m.accept = "in_progress")
             b == One(m.stopScheduled)
             y == Cardinality(Awaited(m.session))
  <2>1. a \in Nat /\ b \in Nat /\ y \in Nat
    BY CountsTyped, AwaitedFinite
  <2>2. m.pending = a + b + y
    BY <1>1 DEF Accounts, PendingCounted
  <2>3. m.accept = "in_progress" => a = 1
    BY DEF One
  <2>4. m.stopScheduled => b = 1
    BY DEF One
  <2> HIDE DEF a, b, y
  <2>5. a = 0 /\ b = 0 /\ y = 0
    BY <1>1, <2>1, <2>2
  <2> QED BY <2>3, <2>4, <2>5 DEF y
<1>3. Awaited(m.session) = {}
  BY <1>2, AwaitedFinite, FS_EmptySet
<1>4. \A w \in Slot : Idle(m.session[w])
  <2> TAKE w \in Slot
  <2>1. \A op \in Operation : Awaits(m.session[w], op) => <<w, op>> \in Awaited(m.session)
    BY DEF Awaited
  <2> QED BY <1>3, <2>1 DEF Idle
<1>5. m.accept = "stopped" /\ m.accepting = None /\ ~m.acceptorOpen /\ m.stoppingEnd = None
  BY <1>1, <1>2 DEF Slots, AtStop, LooseServer
<1>6. ASSUME NEW w \in Slot
      PROVE  /\ m.wrapper[w] = FreeWrapper /\ m.session[w] = FreshSession
             /\ w \notin ToSet(m.active)
  <2>1. m.wrapper[w].state \in {"free", "ready", "start", "work", "stop", "stopped"}
    BY <1>1, SlotStates
  <2>2. m.wrapper[w].state # "ready"
    BY <1>1, <1>5, NoneElsewhere DEF Slots, AcceptingReady
  <2>3. SlotShape(m.wrapper[w].state, m.session[w])
    BY <1>1 DEF Slots, SlotsShaped
  <2>4. "start" \in Operation /\ "wait" \in Operation /\ "stop" \in Operation
    BY DEF Operation
  <2>5. m.wrapper[w].state \notin {"start", "work", "stop", "stopped"}
    BY <1>4, <2>3, <2>4 DEF SlotShape, AwaitsOnly, Idle
  <2>6. m.wrapper[w].state = "free"
    BY <2>1, <2>2, <2>5
  <2>7. m.session[w] = FreshSession
    BY <2>3, <2>6 DEF SlotShape
  <2>8. m.wrapper[w].ops = 0
    BY <1>1, <2>7, FreshCounts DEF Accounts, OpsCounted
  <2>9. m.wrapper[w] = FreeWrapper
    BY <1>1, <2>6, <2>8, SlotFields DEF FreeWrapper
  <2>10. w \notin ToSet(m.active)
    BY <1>1, <2>6 DEF Slots, Listed
  <2> QED BY <2>7, <2>9, <2>10
<1>7. m.active = <<>>
  <2>1. m.active \in Seq(Slot)
    BY <1>1 DEF LooseServer
  <2>2. Len(m.active) # 0 => m.active[1] \in Slot /\ m.active[1] \in ToSet(m.active)
    BY <2>1, ToSetElements
  <2> QED BY <1>6, <2>1, <2>2, ToSetElements
<1>8. Unreported(m.session) = {}
  BY <1>4, IdleCounts DEF Unreported
<1> QED BY <1>2, <1>3, <1>5, <1>6, <1>7, <1>8

\* The user resets a stopped manager.
LEMMA WasReset ==
  ASSUME NEW m, Working(m, FALSE), m.extern = "stopped", NEW freeRecycled
  PROVE  LET next == DoReset(m, freeRecycled)
         IN  Working(next, FALSE) /\ RoomUsed(next)
<1> DEFINE n == DoReset(m, freeRecycled)
           recycled == IF freeRecycled THEN 0 ELSE m.recycled
<1>1. /\ m \in LooseServer /\ Accounts(m) /\ Slots(m) /\ Answers(m, FALSE)
      /\ m.intern = "stopped" /\ m.pending = 0
  BY DEF Working, Accounts
<1>2. /\ m.accept = "stopped" /\ m.accepting = None /\ ~m.acceptorOpen
      /\ m.active = <<>> /\ ~m.stopScheduled /\ m.stoppingEnd = None
      /\ \A w \in Slot : /\ m.wrapper[w] = FreeWrapper
                         /\ m.session[w] = FreshSession
      /\ Awaited(m.session) = {} /\ Unreported(m.session) = {}
  BY <1>1, Rests
<1>3. recycled \in 0 .. RecycledSessionCount
  BY <1>1, SessionManagerAssumption DEF LooseServer
<1>4. n = [m EXCEPT !.extern = "ready", !.intern = "work", !.accept = "ready",
                    !.pending = 0, !.acceptorOpen = FALSE, !.active = <<>>,
                    !.recycled = recycled,
                    !.waitError = "none", !.unreported = 0, !.startedLate = 0]
  BY DEF DoReset
<1> HIDE DEF n, recycled
<1>5. n \in LooseServer
  <2>1. <<>> \in Seq(Slot) /\ 0 \in Int /\ 0 \in Nat
    OBVIOUS
  <2> QED BY <1>1, <1>3, <1>4, <2>1, ZenonT(60) DEF LooseServer
<1>6. /\ n.extern = "ready" /\ n.intern = "work" /\ n.accept = "ready" /\ n.pending = 0
      /\ n.active = <<>> /\ n.waitError = "none" /\ n.unreported = 0 /\ n.startedLate = 0
      /\ n.session = m.session /\ n.wrapper = m.wrapper /\ n.accepting = m.accepting
      /\ n.stoppingEnd = m.stoppingEnd /\ n.stopScheduled = m.stopScheduled
      /\ n.waitHandler = m.waitHandler /\ n.stopHandler = m.stopHandler
      /\ n.owed = m.owed /\ n.badReset = m.badReset
  BY <1>1, <1>4 DEF LooseServer
<1>7. Accounts(n)
  <2>1. PendingCounted(n)
    <3>1. One(n.accept = "in_progress") = 0
      BY <1>6 DEF One
    <3>2. One(n.stopScheduled) = 0
      BY <1>2, <1>6 DEF One
    <3>3. Cardinality(Awaited(n.session)) = 0
      BY <1>2, <1>6, FS_EmptySet
    <3> QED BY <1>6, <3>1, <3>2, <3>3 DEF PendingCounted
  <2>2. ReportsCounted(n)
    <3>1. Cardinality(Unreported(n.session)) = 0
      BY <1>2, <1>6, FS_EmptySet
    <3> QED BY <1>6, <3>1 DEF ReportsCounted
  <2> QED BY <1>1, <1>5, <1>6, <2>1, <2>2 DEF Accounts
<1>8. Slots(n)
  <2>1. n.accept # "in_progress" /\ n.accepting = None /\ n.active = m.active
    BY <1>2, <1>6
  <2> QED BY <1>1, <1>2, <1>6, <2>1 DEF Slots
<1>9. Answers(n, FALSE)
  BY <1>1, <1>6 DEF Answers
<1>10. AtWork(n)
  <2>1. FreeWrapper.state = "free"
    BY DEF FreeWrapper
  <2> QED BY <1>2, <1>6, <2>1 DEF AtWork
<1>11. Working(n, FALSE)
  BY <1>6, <1>7, <1>8, <1>9, <1>10 DEF Working
<1> QED BY <1>6, <1>11 DEF n, RoomUsed

-----------------------------------------------------------------------------
(* A session moves by itself. *)

SessionSet(m, w, t) == [m EXCEPT !.session[w] = t]

\* What a step of a session changes.
LEMMA SessionSetFields ==
  ASSUME NEW m \in LooseServer, NEW w \in Slot, NEW t \in ManagedSession
  PROVE  LET n == SessionSet(m, w, t)
         IN  /\ n \in LooseServer /\ SameManager(m, n) /\ SameLists(m, n)
             /\ SameCounts(m, n) /\ n.badReset = m.badReset
             /\ n.wrapper = m.wrapper
             /\ n.session = [m.session EXCEPT ![w] = t]
<1> DEFINE sessions == [m.session EXCEPT ![w] = t]
           n == SessionSet(m, w, t)
<1>1. sessions \in [Slot -> ManagedSession]
  BY DEF LooseServer
<1>2. n = [m EXCEPT !.session = sessions]
  BY DEF SessionSet
<1> HIDE DEF n, sessions
<1>3. n \in LooseServer
  BY <1>1, <1>2, Zenon DEF LooseServer
<1>4. /\ SameManager(m, n) /\ SameLists(m, n) /\ SameCounts(m, n)
      /\ n.badReset = m.badReset /\ n.wrapper = m.wrapper /\ n.session = sessions
  BY <1>2 DEF LooseServer, SameManager, SameLists, SameCounts
<1> QED BY <1>3, <1>4 DEF n, sessions

(***************************************************************************)
(* Whatever a session does, the manager awaits the same replies of it.     *)
(***************************************************************************)
LEMMA SessionMoved ==
  ASSUME NEW m, Working(m, FALSE), RoomUsed(m), NEW w \in Slot, NEW t,
         Kept(m.session[w], t)
  PROVE  Working(SessionSet(m, w, t), FALSE) /\ RoomUsed(SessionSet(m, w, t))
<1> DEFINE n == SessionSet(m, w, t)
<1>1. m \in LooseServer /\ Accounts(m) /\ Slots(m) /\ Answers(m, FALSE)
  BY DEF Working, Accounts
<1>2. /\ SessionShape(t) /\ t \in ManagedSession
      /\ \A op \in Operation : Awaits(t, op) <=> Awaits(m.session[w], op)
      /\ \A state : SlotShape(state, m.session[w]) => SlotShape(state, t)
  BY DEF Kept, SessionShape
<1>3. /\ n \in LooseServer /\ SameManager(m, n) /\ SameLists(m, n)
      /\ SameCounts(m, n) /\ n.badReset = m.badReset
      /\ n.wrapper = m.wrapper /\ n.session = [m.session EXCEPT ![w] = t]
  BY <1>1, <1>2, SessionSetFields
<1> HIDE DEF n
<1>4. m.session \in [Slot -> ManagedSession]
  BY <1>1 DEF LooseServer
<1>5. n.session[w] = t /\ \A x \in Slot : x # w => n.session[x] = m.session[x]
  BY <1>3, <1>4
<1>6. /\ Awaited(n.session) = Awaited(m.session)
      /\ Unreported(n.session) = Unreported(m.session)
      /\ AwaitedOps(t) = AwaitedOps(m.session[w])
  BY <1>2, <1>3, <1>4, AwaitsSame
<1>7. Accounts(n)
  <2>1. Shaped(n.session)
    BY <1>1, <1>2, <1>5 DEF Accounts, Shaped
  <2>2. OpsCounted(n.wrapper, n.session)
    <3>1. ASSUME NEW x \in Slot
          PROVE  n.wrapper[x].ops = Cardinality(AwaitedOps(n.session[x]))
      <4>1. m.wrapper[x].ops = Cardinality(AwaitedOps(m.session[x]))
        BY <1>1 DEF Accounts, OpsCounted
      <4>2. AwaitedOps(n.session[x]) = AwaitedOps(m.session[x])
        BY <1>5, <1>6
      <4> QED BY <1>3, <4>1, <4>2
    <3> QED BY <3>1 DEF OpsCounted
  <2>3. PendingCounted(n)
    <3>1. n.accept = m.accept /\ n.stopScheduled = m.stopScheduled /\ n.pending = m.pending
      BY <1>3 DEF SameManager, SameCounts
    <3>2. m.pending = One(m.accept = "in_progress") + One(m.stopScheduled)
                        + Cardinality(Awaited(m.session))
      BY <1>1 DEF Accounts, PendingCounted
    <3> QED BY <1>6, <3>1, <3>2 DEF PendingCounted
  <2>4. ReportsCounted(n)
    <3>1. n.unreported = m.unreported /\ n.startedLate = m.startedLate
      BY <1>3 DEF SameCounts
    <3>2. m.unreported = Cardinality(Unreported(m.session)) + m.startedLate
      BY <1>1 DEF Accounts, ReportsCounted
    <3> QED BY <1>6, <3>1, <3>2 DEF ReportsCounted
  <2> QED BY <1>1, <1>3, <2>1, <2>2, <2>3, <2>4 DEF Accounts
<1>8. Slots(n)
  <2>1. SlotsShaped(n.wrapper, n.session)
    <3>1. ASSUME NEW x \in Slot PROVE SlotShape(n.wrapper[x].state, n.session[x])
      <4>1. SlotShape(m.wrapper[x].state, m.session[x])
        BY <1>1 DEF Slots, SlotsShaped
      <4> QED BY <1>2, <1>3, <1>5, <4>1
    <3> QED BY <3>1 DEF SlotsShaped
  <2> QED BY <1>1, <1>3, <2>1 DEF Slots, SameManager, SameLists
<1>9. Answers(n, FALSE)
  BY <1>1, <1>3 DEF Answers, SameManager
<1>10. ASSUME m.intern = "work" PROVE AtWork(n)
  <2>1. AtWork(m)
    BY <1>10 DEF Working
  <2>2. \A x \in Slot : /\ n.wrapper[x].state # "stopped"
                        /\ n.wrapper[x].state = "stop" => AwaitsOnly(n.session[x], "stop")
    <3> TAKE x \in Slot
    <3>1. AwaitsOnly(m.session[x], "stop") => AwaitsOnly(n.session[x], "stop")
      BY <1>2, <1>5 DEF AwaitsOnly
    <3> QED BY <1>3, <2>1, <3>1 DEF AtWork
  <2> QED BY <1>3, <2>1, <2>2 DEF AtWork, SameManager, SameLists
<1>11. ASSUME m.intern # "work" PROVE AtStop(n)
  <2>1. AtStop(m)
    BY <1>11 DEF Working
  <2> QED BY <1>3, <2>1 DEF AtStop, SameManager, SameLists
<1>12. Working(n, FALSE)
  BY <1>3, <1>7, <1>8, <1>9, <1>10, <1>11 DEF Working, SameManager, SameCounts
<1>13. RoomUsed(n)
  BY <1>3 DEF RoomUsed, SameManager, SameLists
<1> QED BY <1>12, <1>13 DEF n

-----------------------------------------------------------------------------
(* The invariant. *)

\* A new manager.
LEMMA InitHolds ==
  ASSUME Init
  PROVE  IInv
<1> DEFINE m == NewServer
<1>1. /\ m.extern = "ready" /\ m.intern = "work" /\ m.accept = "ready" /\ m.accepting = None
      /\ m.pending = 0 /\ m.acceptorOpen = FALSE /\ m.active = <<>>
      /\ m.stoppingEnd = None /\ m.stopScheduled = FALSE
      /\ m.acceptError = "none" /\ m.waitError = "none"
      /\ m.waitHandler = FALSE /\ m.stopHandler = FALSE
      /\ m.wrapper = [w \in Slot |-> FreeWrapper]
      /\ m.session = [w \in Slot |-> FreshSession]
      /\ m.owed.wait = 0 /\ m.owed.stop = 0
      /\ m.unreported = 0 /\ m.startedLate = 0 /\ m.badReset = FALSE
  BY DEF NewServer
<1>2. /\ SessionShape(FreshSession) /\ Idle(FreshSession)
      /\ 0 = Cardinality(AwaitedOps(FreshSession)) /\ SlotShape("free", FreshSession)
  BY FreshShaped, FreshCounts
<1>3. FreshSession \in ManagedSession /\ FreeWrapper \in LooseWrapper
      /\ FreeWrapper.state = "free" /\ FreeWrapper.ops = 0
  BY <1>2 DEF SessionShape, FreeWrapper, LooseWrapper
<1>4. m \in LooseServer
  <2>1. m.wrapper \in [Slot -> LooseWrapper] /\ m.session \in [Slot -> ManagedSession]
    BY <1>1, <1>3
  <2>2. 0 \in 0 .. RecycledSessionCount /\ <<>> \in Seq(Slot)
    BY SessionManagerAssumption
  <2> QED BY <1>1, <2>1, <2>2 DEF LooseServer, NewServer
<1> HIDE DEF m
<1>5. \A w \in Slot : m.wrapper[w] = FreeWrapper /\ m.session[w] = FreshSession
  BY <1>1
<1>6. Awaited(m.session) = {} /\ Unreported(m.session) = {} /\ Used(m.wrapper) = {}
  <2>1. Awaited(m.session) = {}
    BY <1>2, <1>5 DEF Awaited, Idle
  <2>2. Unreported(m.session) = {}
    BY <1>2, <1>5, IdleCounts DEF Unreported
  <2>3. Used(m.wrapper) = {}
    BY <1>3, <1>5 DEF Used
  <2> QED BY <2>1, <2>2, <2>3
<1>7. Cardinality({}) = 0
  BY FS_EmptySet
<1>8. Accounts(m)
  <2>1. Shaped(m.session) /\ OpsCounted(m.wrapper, m.session)
    BY <1>2, <1>3, <1>5 DEF Shaped, OpsCounted
  <2>2. PendingCounted(m)
    <3>1. One(m.accept = "in_progress") = 0
      BY <1>1 DEF One
    <3>2. One(m.stopScheduled) = 0
      BY <1>1 DEF One
    <3>3. Cardinality(Awaited(m.session)) = 0 /\ m.pending = 0
      BY <1>1, <1>6, <1>7
    <3>4. m.pending = One(m.accept = "in_progress") + One(m.stopScheduled)
                        + Cardinality(Awaited(m.session))
      BY <3>1, <3>2, <3>3
    <3> QED BY <3>4 DEF PendingCounted
  <2>3. ReportsCounted(m)
    <3>1. Cardinality(Unreported(m.session)) = 0
      BY <1>6, <1>7
    <3> QED BY <1>1, <3>1 DEF ReportsCounted
  <2> QED BY <1>1, <1>4, <2>1, <2>2, <2>3 DEF Accounts
<1>9. Slots(m)
  <2>1. SlotsShaped(m.wrapper, m.session)
    BY <1>2, <1>3, <1>5 DEF SlotsShaped
  <2>2. Listed(m.active, m.wrapper)
    <3>1. ToSet(m.active) = {}
      BY <1>1 DEF ToSet
    <3> QED BY <1>1, <1>3, <1>5, <3>1 DEF Listed, Distinct
  <2>3. AcceptingReady(m.accepting, m.wrapper)
    BY <1>1, <1>3, <1>5, NoneElsewhere DEF AcceptingReady
  <2>4. Cardinality(Used(m.wrapper)) <= MaxSessions
    <3>1. Cardinality(Used(m.wrapper)) = 0
      BY <1>6, <1>7
    <3> QED BY <3>1, SessionManagerAssumption
  <2>5. m.accept # "in_progress" /\ m.accepting = None
    BY <1>1
  <2> QED BY <2>1, <2>2, <2>3, <2>4, <2>5 DEF Slots
<1>10. Answers(m, FALSE)
  <2>1. One(m.waitHandler) = 0
    BY <1>1 DEF One
  <2>2. One(m.stopHandler) = 0
    BY <1>1 DEF One
  <2> QED BY <1>1, <2>1, <2>2 DEF Answers
<1>11. AtWork(m)
  BY <1>1, <1>3, <1>5 DEF AtWork
<1>12. Working(m, FALSE)
  BY <1>1, <1>8, <1>9, <1>10, <1>11 DEF Working
<1>13. RoomUsed(m)
  BY <1>1 DEF RoomUsed
<1> QED BY <1>12, <1>13 DEF Init, IInv, m

\* Every step of the manager, of its user and of its sessions.
LEMMA NextHolds ==
  ASSUME IInv, [Next]_server
  PROVE  IInv'
<1> SUFFICES Working(server', FALSE) /\ RoomUsed(server')
  BY DEF IInv, Working, RoomUsed, Accounts, Slots, Answers, AtWork, AtStop
<1>0. Working(server, FALSE) /\ RoomUsed(server)
  BY DEF IInv
<1> DEFINE m == server
<1>1. CASE ExternStart
  BY <1>0, <1>1, Started DEF ExternStart
<1>2. CASE ExternStop
  BY <1>0, <1>2, Stopped DEF ExternStop
<1>3. CASE ExternWait
  BY <1>0, <1>3, Waited DEF ExternWait, WaitParked
<1>4. CASE Reset
  BY <1>0, <1>4, WasReset DEF Reset
<1>5. CASE HandleAccept
  <2>1. m.accept = "in_progress"
    BY <1>5 DEF HandleAccept
  <2>2. PICK error \in {"none", "error"}, fault \in Faults :
          server' = IF m.intern = "work" THEN HandleAcceptAtWork(m, error, fault)
                                         ELSE HandleAcceptAtStop(m)
    BY <1>5 DEF HandleAccept
  <2>3. CASE m.intern = "work"
    <3>1. Left(HandleAcceptAtWork(m, error, fault))
      BY <1>0, <2>1, <2>3, AcceptHandledAtWork
    <3> QED BY <2>2, <2>3, <3>1 DEF Left
  <2>4. CASE m.intern # "work"
    <3>1. Working(HandleAcceptAtStop(m), FALSE) /\ HandleAcceptAtStop(m).intern # "work"
      BY <1>0, <2>1, <2>4, AcceptHandledAtStop
    <3> QED BY <2>2, <2>4, <3>1 DEF RoomUsed
  <2> QED BY <2>3, <2>4
<1>6. CASE HandleScheduledStop
  <2>1. m.stopScheduled /\ server' = HandleScheduledActiveSessionStop(m)
    BY <1>6 DEF HandleScheduledStop
  <2> DEFINE r == HandleScheduledActiveSessionStop(m)
  <2>2. Working(r, FALSE) /\ r.intern # "work"
    BY <1>0, <2>1, ScheduledStops
  <2> HIDE DEF r
  <2> QED BY <2>1, <2>2 DEF RoomUsed, r
<1>7. ASSUME NEW w \in Slot, Deliver(w) PROVE Working(server', FALSE) /\ RoomUsed(server')
  <2>1. PICK reply \in m.session[w].replies, fault \in Faults :
          LET taken == [m EXCEPT !.session[w].replies = @ \ {reply}]
          IN  server' = CASE reply[1] = "start" ->
                               HandleSessionStart(taken, w, reply[2], fault)
                          [] reply[1] = "wait" -> HandleSessionWait(taken, w, fault)
                          [] reply[1] = "stop" -> HandleSessionStop(taken, w, fault)
    BY <1>7 DEF Deliver
  <2> DEFINE taken == [m EXCEPT !.session[w].replies = @ \ {reply}]
  <2>2. reply[1] \in Operation /\ m.intern # "stopped" /\ m.extern # "ready"
    BY <1>0, ReplyMeans
  <2> HIDE DEF taken
  <2>3. Continued(m, server', fault)
    <3>1. CASE reply[1] = "start"
      <4>1. Continued(m, HandleSessionStart(taken, w, reply[2], fault), fault)
        BY <1>0, <3>1, StartReplied DEF taken
      <4> QED BY <2>1, <3>1, <4>1 DEF taken
    <3>2. CASE reply[1] = "wait"
      <4>1. Continued(m, HandleSessionWait(taken, w, fault), fault)
        BY <1>0, <3>2, WaitReplied DEF taken
      <4> QED BY <2>1, <3>2, <4>1 DEF taken
    <3>3. CASE reply[1] = "stop"
      <4>1. Continued(m, HandleSessionStop(taken, w, fault), fault)
        BY <1>0, <3>3, StopReplied DEF taken
      <4> QED BY <2>1, <3>3, <4>1 DEF taken
    <3> QED BY <2>2, <3>1, <3>2, <3>3 DEF Operation
  <2> QED BY <1>0, <2>2, <2>3, Continues
<1>8. ASSUME NEW w \in Slot, SessionRuns(w) PROVE Working(server', FALSE) /\ RoomUsed(server')
  <2> DEFINE s == m.session[w]
             outcomes == CASE Head(s.requests) = "start" -> StartOutcomes(s.view)
                           [] Head(s.requests) = "wait"  -> WaitOutcomes(s.view)
                           [] Head(s.requests) = "stop"  -> StopOutcomes(s.view)
  <2>1. PICK o \in outcomes : server' = SessionSet(m, w, Ran(s, o))
    BY <1>8 DEF SessionRuns, SessionSet, Ran
  <2>2. s.requests # <<>>
    BY <1>8 DEF SessionRuns
  <2>3. SessionShape(s)
    BY <1>0 DEF Working, Accounts, Shaped
  <2> HIDE DEF s
  <2>4. Kept(s, Ran(s, o))
    BY <2>2, <2>3, RunShaped
  <2> QED BY <1>0, <2>1, <2>4, SessionMoved DEF s
<1>9. ASSUME NEW w \in Slot, SessionInternal(w) PROVE Working(server', FALSE) /\ RoomUsed(server')
  <2> DEFINE s == m.session[w]
  <2>a. PICK o \in InternalOutcomes(s.view, {"eof"}) :
          server' = [server EXCEPT !.session[w] = Moved(@, o)]
    BY <1>9 DEF SessionInternal, SessionMoves
  <2>1. server' = SessionSet(m, w, Moved(s, o))
    BY <2>a DEF SessionSet
  <2>2. SessionShape(s)
    BY <1>0 DEF Working, Accounts, Shaped
  <2>4. {"eof"} \in SUBSET Cause
    BY DEF Cause, EndCause
  <2> HIDE DEF s
  <2>5. Kept(s, Moved(s, o))
    BY <2>1, <2>2, <2>4, InternalShaped
  <2> QED BY <1>0, <2>1, <2>5, SessionMoved DEF s
<1>10. CASE UNCHANGED server
  BY <1>0, <1>10
<1> QED BY <1>1, <1>2, <1>3, <1>4, <1>5, <1>6, <1>7, <1>8, <1>9, <1>10 DEF Next

(***************************************************************************)
(* Every state of the manager, between two handlers, satisfies IInv: what  *)
(* it counts is what its sessions still owe it, the state of each wrapper  *)
(* tells what its session was asked for, the list of active sessions holds *)
(* those that are neither free nor accepted nor done with, and the work,   *)
(* or the stop, has a reason to go on.                                     *)
(***************************************************************************)
THEOREM Invariant == Spec => []IInv
<1>1. Init => IInv
  BY InitHolds
<1>2. IInv /\ [Next]_server => IInv'
  BY NextHolds
<1> QED BY <1>1, <1>2, PTL DEF Spec

-----------------------------------------------------------------------------
(* The safety properties. *)

\* What the counters count is not negative: the manager has its type.
LEMMA CountersNatural ==
  ASSUME NEW m, Accounts(m), Answers(m, FALSE)
  PROVE  m \in Server
<1>1. m \in LooseServer
  BY DEF Accounts
<1>2. m.wrapper \in [Slot -> Wrapper]
  <2>1. ASSUME NEW w \in Slot PROVE m.wrapper[w] \in Wrapper
    <3>1. m.wrapper[w].ops = Cardinality(AwaitedOps(m.session[w]))
      BY DEF Accounts, OpsCounted
    <3>2. m.wrapper[w].ops \in Nat
      BY <3>1, AwaitedOpsFinite
    <3>3. /\ m.wrapper[w] \in LooseWrapper
          /\ m.wrapper[w] = [state |-> m.wrapper[w].state, ops |-> m.wrapper[w].ops]
      BY <1>1, SlotFields
    <3>4. m.wrapper[w].state \in {"free", "ready", "start", "work", "stop", "stopped"}
      BY <1>1, SlotStates
    <3> QED BY <3>2, <3>3, <3>4 DEF Wrapper
  <2>2. m.wrapper \in [Slot -> LooseWrapper]
    BY <1>1 DEF LooseServer
  <2> QED BY <2>1, <2>2
<1>3. m.pending \in Nat
  <2> DEFINE a == One(m.accept = "in_progress")
             b == One(m.stopScheduled)
             y == Cardinality(Awaited(m.session))
  <2>1. a \in Nat /\ b \in Nat /\ y \in Nat
    BY CountsTyped, AwaitedFinite
  <2>2. m.pending = a + b + y
    BY DEF Accounts, PendingCounted
  <2> HIDE DEF a, b, y
  <2> QED BY <2>1, <2>2
<1>4. m.unreported \in Nat
  <2> DEFINE y == Cardinality(Unreported(m.session))
  <2>1. y \in Nat
    BY AwaitedFinite, FS_CardinalityType
  <2>2. m.startedLate \in Nat
    BY <1>1 DEF LooseServer
  <2>3. m.unreported = y + m.startedLate
    BY DEF Accounts, ReportsCounted
  <2> HIDE DEF y
  <2> QED BY <2>1, <2>2, <2>3
<1>5. m.owed \in [wait : Nat, stop : Nat]
  <2>1. m.owed \in [wait : Int, stop : Int]
    BY <1>1 DEF LooseServer
  <2>2. m.owed.wait = One(m.waitHandler) /\ m.owed.stop = One(m.stopHandler)
    BY DEF Answers
  <2>3. One(m.waitHandler) \in Nat /\ One(m.stopHandler) \in Nat
    BY CountsTyped
  <2>4. m.owed.wait \in Nat /\ m.owed.stop \in Nat
    BY <2>2, <2>3
  <2> QED BY <2>1, <2>4
<1> QED BY <1>1, <1>2, <1>3, <1>4, <1>5, Zenon DEF LooseServer, Server

\* A condition is counted as the set of what meets it.
LEMMA CountedOne ==
  ASSUME NEW e, NEW b
  PROVE  Cardinality({x \in {e} : b}) = One(b)
<1>1. CASE b
  <2>1. {x \in {e} : b} = {e}
    BY <1>1
  <2>2. Cardinality({x \in {e} : b}) = 1
    BY <2>1, FS_Singleton
  <2>3. One(b) = 1
    BY <1>1 DEF One
  <2> QED BY <2>2, <2>3
<1>2. CASE ~b
  <2>1. {x \in {e} : b} = {}
    BY <1>2
  <2>2. Cardinality({x \in {e} : b}) = 0
    BY <2>1, FS_EmptySet
  <2>3. One(b) = 0
    BY <1>2 DEF One
  <2> QED BY <2>2, <2>3
<1> QED BY <1>1, <1>2

\* IInv is at least as strong as each of the safety properties.
LEMMA IInvAccounts ==
  ASSUME IInv
  PROVE  PendingAccounted
<1>1. /\ Working(server, FALSE) /\ Accounts(server) /\ Slots(server)
      /\ Answers(server, FALSE)
  BY DEF IInv, Working
<1>2. TypeOK
  BY <1>1, CountersNatural DEF TypeOK
<1>3. ~server.badReset
  BY <1>1 DEF Accounts
<1>4. server.pending =
        Cardinality({x \in {"accept"} : server.accept = "in_progress"})
        + Cardinality({x \in {"scheduled"} : server.stopScheduled})
        + Cardinality({x \in Slot \X Operation : Outstanding(x[1], x[2])})
  <2>1. {x \in Slot \X Operation : Outstanding(x[1], x[2])} = Awaited(server.session)
    BY DEF Outstanding, Awaited
  <2>2. Cardinality({x \in {"accept"} : server.accept = "in_progress"})
          = One(server.accept = "in_progress")
    BY CountedOne, Zenon
  <2>3. Cardinality({x \in {"scheduled"} : server.stopScheduled})
          = One(server.stopScheduled)
    BY CountedOne, Zenon
  <2>4. server.pending = One(server.accept = "in_progress") + One(server.stopScheduled)
                           + Cardinality(Awaited(server.session))
    BY <1>1 DEF Accounts, PendingCounted
  <2> QED BY <2>1, <2>2, <2>3, <2>4
<1>5. \A w \in Slot :
        server.wrapper[w].ops = Cardinality({op \in Operation : Outstanding(w, op)})
  <2> TAKE w \in Slot
  <2>1. {op \in Operation : Outstanding(w, op)} = AwaitedOps(server.session[w])
    BY DEF Outstanding, AwaitedOps
  <2>2. server.wrapper[w].ops = Cardinality(AwaitedOps(server.session[w]))
    BY <1>1 DEF Accounts, OpsCounted
  <2> QED BY <2>1, <2>2
<1>6. server.intern = "stopped" =>
        /\ server.accept = "stopped" /\ ~server.acceptorOpen
        /\ server.active = <<>> /\ ~server.stopScheduled
        /\ \A w \in Slot : /\ server.wrapper[w] = FreeWrapper
                           /\ server.session[w] = FreshSession
  BY <1>1, Rests
<1>7. /\ server.owed.wait = IF server.waitHandler THEN 1 ELSE 0
      /\ server.owed.stop = IF server.stopHandler THEN 1 ELSE 0
  <2>1. server.owed.wait = One(server.waitHandler)
    BY <1>1 DEF Answers
  <2>2. server.owed.stop = One(server.stopHandler)
    BY <1>1 DEF Answers
  <2> QED BY <2>1, <2>2 DEF One
<1>8. /\ server.waitHandler => server.extern = "work" /\ server.intern = "work"
      /\ server.stopHandler <=> server.extern = "stop"
      /\ server.extern = "work" /\ server.intern # "work" => server.waitError # "none"
  BY <1>1 DEF Answers
<1>9. /\ server.extern = "stop" => server.intern = "stop"
      /\ server.extern = "stopped" => server.intern = "stopped"
  <2>1. server.intern \in {"work", "stop", "stopped"}
    BY <1>1 DEF Accounts, LooseServer
  <2> QED BY <1>1, <2>1 DEF Working
<1> QED BY <1>2, <1>3, <1>4, <1>5, <1>6, <1>7, <1>8, <1>9, Zenon DEF PendingAccounted

\* The room of a working manager is used.
LEMMA IInvAccepts ==
  ASSUME IInv
  PROVE  AcceptsWhileRoom
<1>1. /\ Working(server, FALSE) /\ RoomUsed(server) /\ Slots(server)
      /\ server \in LooseServer
  BY DEF IInv, Working, Accounts
<1>2. Cardinality({w \in Slot : server.wrapper[w].state # "free"}) <= MaxSessions
  BY <1>1 DEF Slots, Used
<1>3. ASSUME server.extern = "work", server.intern = "work"
      PROVE  /\ server.accept = "in_progress" =>
                  Len(server.active) < MaxSessions /\ server.acceptorOpen
             /\ server.accept = "ready" =>
                  \/ Len(server.active) = MaxSessions /\ ~server.acceptorOpen
                  \/ Len(server.active) > 0 /\ server.acceptError # "none"
             /\ server.accept = "stopped" =>
                  Len(server.active) > 0 /\ server.acceptError # "none"
  <2>1. AtWork(server)
    BY <1>1, <1>3 DEF Working
  <2> QED BY <1>1, <1>3, <2>1 DEF AtWork, RoomUsed
<1>4. server.accept \in {"ready", "in_progress", "stopped"}
  BY <1>1 DEF LooseServer
<1> QED BY <1>2, <1>3, <1>4 DEF AcceptsWhileRoom

\* The shapes of the slots say what drives each session on.
LEMMA IInvAttends ==
  ASSUME IInv
  PROVE  SessionsAttended
<1>1. /\ Working(server, FALSE) /\ Accounts(server) /\ Slots(server)
      /\ server \in LooseServer /\ server.active \in Seq(Slot)
      /\ Listed(server.active, server.wrapper)
  BY DEF IInv, Working, Accounts, Slots, LooseServer
<1>2. Cardinality(ToSet(server.active)) = Len(server.active)
  BY <1>1, ActiveCounted DEF Listed
<1>3. ASSUME NEW w \in Slot
      PROVE  LET state == server.wrapper[w].state
             IN  /\ w \in ToSet(server.active) <=> state \in {"start", "work", "stop"}
                 /\ state = "ready" <=> server.accepting = w
                 /\ state = "start" => Outstanding(w, "start")
                 /\ state = "work" => Outstanding(w, "wait")
                 /\ state = "stop" => Outstanding(w, "stop")
                 /\ state = "stopped" => server.wrapper[w].ops > 0
  <2> DEFINE state == server.wrapper[w].state
             s == server.session[w]
  <2>1. w \in ToSet(server.active) <=> state \in {"start", "work", "stop"}
    BY <1>1 DEF Listed
  <2>2. state = "ready" <=> server.accepting = w
    BY <1>1 DEF Slots, AcceptingReady
  <2>3. SlotShape(state, s)
    BY <1>1 DEF Slots, SlotsShaped
  <2>4. "start" \in Operation /\ "wait" \in Operation /\ "stop" \in Operation
    BY DEF Operation
  <2>5. /\ state = "start" => Awaits(s, "start")
        /\ state = "work" => Awaits(s, "wait")
        /\ state = "stop" => Awaits(s, "stop")
        /\ state = "stopped" => Awaits(s, "start") \/ Awaits(s, "wait")
    BY <2>3, <2>4 DEF SlotShape, AwaitsOnly
  <2>6. state = "stopped" => server.wrapper[w].ops > 0
    BY <1>1, <2>4, <2>5, AwaitedMeans
  <2> QED BY <2>1, <2>2, <2>5, <2>6 DEF Outstanding
<1> QED BY <1>2, <1>3 DEF SessionsAttended

\* AtStop says how far the stop has come.
LEMMA IInvReaches ==
  ASSUME IInv
  PROVE  StopReachesEverySession
<1>1. SUFFICES ASSUME server.intern = "stop" PROVE StopReachesEverySession
  BY DEF StopReachesEverySession
<1>2. AtStop(server)
  BY <1>1 DEF IInv, Working
<1> QED BY <1>2 DEF AtStop, Reached, StopReachesEverySession

\* The shapes of the sessions say which requests they may meet.
LEMMA IInvInTurn ==
  ASSUME IInv
  PROVE  RequestsInTurn
<1>1. ASSUME NEW w \in Slot
      PROVE  LET s == server.session[w]
             IN  /\ ~(Outstanding(w, "start") /\ Outstanding(w, "wait"))
                 /\ <<"start", "invalid_state">> \notin s.replies
                 /\ <<"wait", "invalid_state">> \notin s.replies
                 /\ <<"stop", "invalid_state">> \in s.replies => s.view = Failed
  <2> DEFINE s == server.session[w]
  <2>1. SessionShape(s)
    BY DEF IInv, Working, Accounts, Shaped
  <2> HIDE DEF s
  <2>2. ~(Awaits(s, "start") /\ Awaits(s, "wait"))
    BY <2>1, InTurn
  <2>3. \A r \in s.replies :
          /\ r[1] = "start" => r[2] \in {"none", "error"}
          /\ r[1] = "wait" => r[2] # "invalid_state"
          /\ r[1] = "stop" => (r[2] = "invalid_state" => s.view = Failed)
    BY <2>1 DEF SessionShape
  <2>4. \A a, b : <<a, b>>[1] = a /\ <<a, b>>[2] = b
    OBVIOUS
  <2>5. /\ <<"start", "invalid_state">> \notin s.replies
        /\ <<"wait", "invalid_state">> \notin s.replies
        /\ <<"stop", "invalid_state">> \in s.replies => s.view = Failed
    BY <2>3, <2>4
  <2> QED BY <2>2, <2>5 DEF Outstanding, s
<1> QED BY <1>1 DEF RequestsInTurn, Failed

\* ReportsCounted, in the words of the property.
LEMMA IInvReports ==
  ASSUME IInv
  PROVE  ReportedOnce
<1>1. {w \in Slot : Outstanding(w, "start") \/ Outstanding(w, "wait")}
        = Unreported(server.session)
  BY DEF Outstanding, Unreported
<1>2. server.unreported = Cardinality(Unreported(server.session)) + server.startedLate
  BY DEF IInv, Working, Accounts, ReportsCounted
<1> QED BY <1>1, <1>2 DEF ReportedOnce

(***************************************************************************)
(* pending_operations_ counts the replies, the accept and the posted       *)
(* handler that are still to come, never one more or one less, so that the *)
(* manager stops when the last of them is over and nothing calls into it   *)
(* afterwards; and the counters of the wrappers never let a session be     *)
(* reset too early.                                                        *)
(***************************************************************************)
THEOREM PendingIsAccounted == Spec => []PendingAccounted
<1>1. IInv => PendingAccounted
  BY IInvAccounts
<1> QED BY <1>1, Invariant, PTL

(***************************************************************************)
(* For every max_session_count, a manager that works accepts while it has  *)
(* room, or waits for a session whose end makes it try again; and it never *)
(* holds more sessions than the limit.                                     *)
(***************************************************************************)
THEOREM AlwaysAccepts == Spec => []AcceptsWhileRoom
<1>1. IInv => AcceptsWhileRoom
  BY IInvAccepts
<1> QED BY <1>1, Invariant, PTL

(***************************************************************************)
(* For every number of sessions, the list of active sessions misses none   *)
(* and repeats none, and each of them owes the manager a reply.            *)
(***************************************************************************)
THEOREM NoSessionForgotten == Spec => []SessionsAttended
<1>1. IInv => SessionsAttended
  BY IInvAttends
<1> QED BY <1>1, Invariant, PTL

(***************************************************************************)
(* For every number of sessions and every size of the batches of           *)
(* schedule_active_session_stop, sessions that leave the list between two  *)
(* batches do not make the stop skip another one.                          *)
(***************************************************************************)
THEOREM StopReaches == Spec => []StopReachesEverySession
<1>1. IInv => StopReachesEverySession
  BY IInvReaches
<1> QED BY <1>1, Invariant, PTL

(***************************************************************************)
(* A start and a wait of one session are never outstanding together, so    *)
(* the allocator their handlers share is used by one at a time; and no     *)
(* session is asked for what its state refuses.                            *)
(***************************************************************************)
THEOREM InTurnAlways == Spec => []RequestsInTurn
<1>1. IInv => RequestsInTurn
  BY IInvInTurn
<1> QED BY <1>1, Invariant, PTL

(***************************************************************************)
(* The statistics count the end of each accepted session once, except for  *)
(* those that handle_session_start_at_stop forgets.                        *)
(***************************************************************************)
THEOREM EndsReported == Spec => []ReportedOnce
<1>1. IInv => ReportedOnce
  BY IInvReports
<1> QED BY <1>1, Invariant, PTL

-----------------------------------------------------------------------------
(***************************************************************************)
(* The manager implements its contract with the application.  A handler    *)
(* leaves what the user sees as it is (Keeps), ends a stop (Ends), or      *)
(* leaves the work for lack of an acceptor (Leaves): each of them is a     *)
(* step of the contract.                                                   *)
(***************************************************************************)
Ends(m, r) ==
  /\ m.intern = "stop" /\ r.intern = "stopped"
  /\ r.waitError = m.waitError /\ r.waitHandler = m.waitHandler
  /\ \/ m.extern = "work" /\ r.extern = "work" /\ r.stopHandler = m.stopHandler
     \/ m.extern = "stop" /\ r.extern = "stopped" /\ r.stopHandler = FALSE

Leaves(m, r) ==
  /\ m.intern = "work" /\ r.intern \in {"stop", "stopped"}
  /\ m.extern = "work" /\ r.extern = "work"
  /\ r.waitError = "error" /\ r.waitHandler = FALSE
  /\ r.stopHandler = m.stopHandler

Moves(m, r) == Keeps(m, r) \/ Ends(m, r) \/ Leaves(m, r)

\* What follows a handler that kept the sight of the manager moves it as if
\* the handler had not been.
LEMMA MovesAfter ==
  ASSUME NEW m, NEW n, NEW r, Keeps(m, n), Moves(n, r)
  PROVE  /\ Keeps(n, r) => Keeps(m, r)
         /\ Leaves(n, r) => Leaves(m, r)
         /\ Moves(m, r)
BY DEF Moves, Keeps, Ends, Leaves

\* continue_stop, as the user sees it.
LEMMA StopContinuesSeen ==
  ASSUME NEW m \in LooseServer, m.intern = "stop", m.extern \in {"work", "stop"}
  PROVE  LET r == ContinueStop(m)
         IN  /\ Keeps(m, r) \/ Ends(m, r)
             /\ m.pending = 0 => Ends(m, r)
<1> DEFINE r == ContinueStop(m)
<1>1. CASE m.pending # 0
  BY <1>1 DEF ContinueStop, Keeps
<1>2. CASE m.pending = 0 /\ m.extern = "stop"
  <2> DEFINE ended == InStates(m, "stopped", "stopped")
  <2>1. r = CompleteExternStop(ended)
    BY <1>2 DEF ContinueStop, InStates
  <2>2. /\ ended \in LooseServer
        /\ ended.extern = "stopped" /\ ended.intern = "stopped"
        /\ ended.waitHandler = m.waitHandler /\ ended.waitError = m.waitError
    BY StatesSet
  <2> HIDE DEF ended, r
  <2>3. /\ r \in LooseServer /\ r.extern = "stopped" /\ r.intern = "stopped"
        /\ r.waitHandler = m.waitHandler /\ ~r.stopHandler
        /\ r.waitError = m.waitError
    BY <2>1, <2>2, AnsweredFields
  <2>4. r.stopHandler = FALSE
    BY <2>3 DEF LooseServer
  <2> QED BY <1>2, <2>3, <2>4 DEF Ends, r
<1>3. CASE m.pending = 0 /\ m.extern = "work"
  <2> DEFINE ended == InStates(m, m.extern, "stopped")
  <2>1. r = ended
    BY <1>3 DEF ContinueStop, LooseServer, InStates
  <2>2. /\ ended.extern = m.extern /\ ended.intern = "stopped"
        /\ ended.waitHandler = m.waitHandler /\ ended.stopHandler = m.stopHandler
        /\ ended.waitError = m.waitError
    BY <1>3, StatesSet
  <2> HIDE DEF ended, r
  <2> QED BY <1>3, <2>1, <2>2 DEF Ends, r
<1> QED BY <1>1, <1>2, <1>3

\* start_stop, as the user sees it.
LEMMA StopStartsSeen ==
  ASSUME NEW m \in LooseServer, m.intern = "work", m.extern \in {"work", "stop"},
         NEW error \in {"error", "operation_aborted"}
  PROVE  LET r == StartStop(m, error)
         IN  /\ m.extern = "work" =>
                  /\ r.waitError = IF m.waitError = "none" THEN error ELSE m.waitError
                  /\ r.waitHandler = FALSE /\ r.stopHandler = m.stopHandler
                  /\ r.extern = "work"
             /\ m.extern = "stop" =>
                  r.waitError = m.waitError /\ r.waitHandler = m.waitHandler
             /\ r.intern \in {"stop", "stopped"}
             /\ m.active = <<>> /\ m.pending = 0 => r.intern = "stopped"
<1> DEFINE closed == [m EXCEPT !.intern = "stop", !.acceptorOpen = FALSE,
                               !.accept = IF @ = "ready" THEN "stopped" ELSE @]
           told == IF m.extern = "work" THEN CompleteExternWait(closed, error)
                                        ELSE closed
           begin == FrontActive(told)
           x == StopBatch(told, begin)
           r == ContinueStop(x)
<1>1. /\ closed \in LooseServer /\ closed.intern = "stop"
      /\ closed.active = m.active /\ closed.pending = m.pending
      /\ closed.extern = m.extern
      /\ closed.waitHandler = m.waitHandler /\ closed.stopHandler = m.stopHandler
      /\ closed.waitError = m.waitError
  BY Closes DEF SameCounts
<1>2. StartStop(m, error) = r
  <2>1. closed.extern = m.extern
    BY <1>1
  <2> QED BY <2>1 DEF StartStop
<1> HIDE DEF closed
<1>3. /\ told \in LooseServer /\ told.intern = "stop" /\ told.extern = m.extern
      /\ told.active = m.active /\ told.pending = m.pending
      /\ told.stopHandler = m.stopHandler
      /\ m.extern = "work" =>
           /\ told.waitHandler = FALSE
           /\ told.waitError = IF m.waitError = "none" THEN error ELSE m.waitError
      /\ m.extern = "stop" =>
           told.waitError = m.waitError /\ told.waitHandler = m.waitHandler
  <2>1. CASE m.extern = "work"
    <3>1. told = CompleteExternWait(closed, error)
      BY <2>1
    <3>2. error \in {"none", "error", "operation_aborted"}
      OBVIOUS
    <3> HIDE DEF told
    <3>3. /\ told \in LooseServer /\ SameSessions(closed, told)
          /\ told.extern = closed.extern /\ told.intern = closed.intern
          /\ told.stopHandler = closed.stopHandler /\ ~told.waitHandler
          /\ told.waitError = IF closed.waitError = "none" THEN error
                                                           ELSE closed.waitError
      BY <1>1, <3>1, <3>2, ToldFields
    <3>4. told.waitHandler = FALSE
      BY <3>3 DEF LooseServer
    <3>5. told.active = m.active /\ told.pending = m.pending
      BY <1>1, <3>3 DEF SameSessions, SameCounts
    <3> QED BY <1>1, <2>1, <3>3, <3>4, <3>5
  <2>2. CASE m.extern # "work"
    BY <1>1, <2>2
  <2> QED BY <2>1, <2>2
<1> HIDE DEF told
<1> HIDE DEF begin
<1>4. /\ x.extern = told.extern /\ x.intern = told.intern
      /\ x.waitError = told.waitError
      /\ x.waitHandler = told.waitHandler /\ x.stopHandler = told.stopHandler
      /\ x.pending = told.pending + Cardinality(Batch(told, begin))
                       + One(More(told, begin))
      /\ First(told, begin) \in Nat \ {0} => x \in LooseServer
  <2>1. told \in LooseServer
    BY <1>3
  <2> QED BY <2>1, BatchFields
<1>5. told.active \in Seq(Slot) /\ MaxStopping \in Nat \ {0} /\ told.pending \in Int
  BY <1>3, SessionManagerAssumption DEF LooseServer
<1>6. First(told, begin) \in Nat \ {0}
  <2>1. CASE told.active = <<>>
    BY <1>5, <2>1 DEF First, FrontActive, begin
  <2>2. CASE told.active # <<>>
    <3>1. begin = told.active[1] /\ 1 \in DOMAIN told.active /\ begin \in Slot
      BY <1>5, <2>2 DEF FrontActive, begin
    <3>2. begin # None
      BY <3>1, NoneElsewhere
    <3>3. Position(told, begin) \in DOMAIN told.active
      BY <3>1 DEF Position
    <3>4. First(told, begin) = Position(told, begin)
      BY <3>2 DEF First
    <3> QED BY <1>5, <3>3, <3>4
  <2> QED BY <2>1, <2>2
<1>7. x \in LooseServer
  BY <1>4, <1>6
<1>8. m.active = <<>> /\ m.pending = 0 => x.pending = 0
  <2> SUFFICES ASSUME m.active = <<>>, m.pending = 0 PROVE x.pending = 0
    OBVIOUS
  <2>1. told.active = <<>> /\ told.pending = 0
    BY <1>3
  <2>2. First(told, begin) = 1
    BY <2>1 DEF First, FrontActive, begin
  <2>3. Len(told.active) = 0
    BY <2>1
  <2>4. Batch(told, begin) = {} /\ ~More(told, begin)
    BY <1>5, <2>2, <2>3 DEF Batch, More
  <2>5. Cardinality(Batch(told, begin)) = 0 /\ One(More(told, begin)) = 0
    BY <2>4, FS_EmptySet DEF One
  <2> QED BY <1>4, <2>1, <2>5
<1> HIDE DEF x
<1>9. /\ Keeps(x, r) \/ Ends(x, r)
      /\ x.pending = 0 => Ends(x, r)
  BY <1>3, <1>4, <1>7, StopContinuesSeen
<1> HIDE DEF r
<1>10. /\ r.intern \in {"stop", "stopped"}
       /\ r.waitError = told.waitError /\ r.waitHandler = told.waitHandler
       /\ m.extern = "work" => r.extern = "work" /\ r.stopHandler = m.stopHandler
       /\ x.pending = 0 => r.intern = "stopped"
  BY <1>3, <1>4, <1>9 DEF Keeps, Ends
<1> QED BY <1>2, <1>3, <1>8, <1>10

\* The work of a manager ends with an error: at once if it holds nothing.
LEMMA WorkEndsSeen ==
  ASSUME NEW m, Working(m, FALSE), m.intern = "work", m.extern = "work"
  PROVE  LET r == StartStop(m, "error")
         IN  /\ Leaves(m, r)
             /\ m.active = <<>> /\ m.pending = 0 => r.intern = "stopped"
<1>1. m \in LooseServer /\ m.waitError = "none"
  BY DEF Working, Accounts, Answers
<1> DEFINE r == StartStop(m, "error")
<1>2. /\ r.waitError = "error" /\ r.waitHandler = FALSE
      /\ r.stopHandler = m.stopHandler /\ r.extern = "work"
      /\ r.intern \in {"stop", "stopped"}
      /\ m.active = <<>> /\ m.pending = 0 => r.intern = "stopped"
  BY <1>1, StopStartsSeen
<1> HIDE DEF r
<1> QED BY <1>2 DEF Leaves, r

\* Giving up the accept, as the user sees it.
LEMMA StopAcceptsSeen ==
  ASSUME NEW m, Working(m, FALSE), m.intern = "work", m.extern = "work",
         m.accept = "ready"
  PROVE  LET r == StopAccepting(m)
         IN  /\ Keeps(m, r) \/ Leaves(m, r)
             /\ m.active = <<>> /\ m.pending = 0 /\ Leaves(m, r) =>
                  r.intern = "stopped"
<1> DEFINE given == [m EXCEPT !.accept = "stopped", !.acceptError = "error"]
           n == Accepting(m, m.acceptorOpen, "error", "stopped")
           r == StopAccepting(m)
<1>1. m \in LooseServer /\ m.acceptorOpen \in BOOLEAN
  BY DEF Working, Accounts, LooseServer
<1>2. given = n
  BY <1>1 DEF Accepting, LooseServer
<1>3. r = IF m.active = <<>> THEN StartStop(n, "error") ELSE n
  BY <1>2 DEF StopAccepting
<1>4. /\ Keeps(m, n) /\ n.active = m.active /\ n.pending = m.pending
  BY <1>1 DEF Accepting, LooseServer, Keeps
<1>5. Working(n, FALSE) /\ n.intern = "work" /\ n.extern = "work"
  <2>1. Accepts(m, n)
    BY <1>1 DEF Accepts
  <2> HIDE DEF n
  <2> QED BY <2>1, AcceptingFields
<1> HIDE DEF n, given, r
<1>6. CASE m.active = <<>>
  <2> DEFINE x == StartStop(n, "error")
  <2>1. Leaves(n, x) /\ (n.active = <<>> /\ n.pending = 0 => x.intern = "stopped")
    BY <1>5, WorkEndsSeen
  <2>2. r = x
    BY <1>3, <1>6
  <2> HIDE DEF x
  <2>3. Leaves(m, x)
    BY <1>4, <2>1 DEF Keeps, Leaves
  <2> QED BY <1>4, <1>6, <2>1, <2>2, <2>3 DEF r
<1>7. CASE m.active # <<>>
  BY <1>3, <1>4, <1>7 DEF r
<1> QED BY <1>6, <1>7

\* continue_work, as the user sees it.
LEMMA WorkContinuesSeen ==
  ASSUME NEW m, Working(m, FALSE), m.intern = "work", m.extern = "work", NEW fault
  PROVE  LET r == ContinueWork(m, fault)
         IN  /\ Keeps(m, r) \/ Leaves(m, r)
             /\ m.active = <<>> /\ m.pending = 0 /\ Leaves(m, r) =>
                  r.intern = "stopped"
<1> DEFINE r == ContinueWork(m, fault)
<1>1. m \in LooseServer /\ AtWork(m)
  BY DEF Working, Accounts
<1>2. /\ m.acceptError \in {"none", "error"} /\ m.acceptorOpen \in BOOLEAN
      /\ m.accept \in {"ready", "in_progress", "stopped"}
  BY <1>1 DEF LooseServer
<1>0. ASSUME r = m PROVE Keeps(m, r)
  BY <1>0 DEF Keeps
<1>a. ASSUME Keeps(m, r) PROVE ~Leaves(m, r)
  BY <1>a DEF Keeps, Leaves
<1> HIDE DEF r
<1>3. CASE m.active = <<>> /\ m.accept = "stopped"
  <2>1. r = StartStop(m, "error")
    BY <1>1, <1>2, <1>3 DEF ContinueWork, AtWork, r
  <2> QED BY <2>1, WorkEndsSeen DEF r
<1>4. CASE ~(m.active = <<>> /\ m.accept = "stopped") /\ m.accept # "ready"
  <2>1. r = m
    BY <1>4 DEF ContinueWork, r
  <2> QED BY <1>0, <1>a, <2>1 DEF r
<1>5. CASE m.accept = "ready" /\ Len(m.active) >= MaxSessions
  <2>1. r = [m EXCEPT !.acceptorOpen = FALSE]
    BY <1>5 DEF ContinueWork, r
  <2>2. Keeps(m, r)
    BY <1>1, <2>1 DEF Keeps, LooseServer
  <2> QED BY <1>a, <2>2 DEF r
<1>6. CASE m.accept = "ready" /\ ~(Len(m.active) >= MaxSessions)
  <2>2. CASE ~m.acceptorOpen /\ "open" \in fault
    <3>1. r = StopAccepting(m)
      BY <1>6, <2>2 DEF ContinueWork, r
    <3> QED BY <1>6, <3>1, StopAcceptsSeen DEF r
  <2>3. CASE ~(~m.acceptorOpen /\ "open" \in fault) /\ "create" \in fault /\ m.active # <<>>
    <3>1. r = [m EXCEPT !.acceptorOpen = TRUE, !.acceptError = "error"]
      BY <1>6, <2>3 DEF ContinueWork, r
    <3>2. Keeps(m, r)
      BY <1>1, <3>1 DEF Keeps, LooseServer
    <3> QED BY <1>a, <3>2 DEF r
  <2>4. CASE ~(~m.acceptorOpen /\ "open" \in fault) /\ "create" \in fault /\ m.active = <<>>
    <3> DEFINE n == Accepting(m, TRUE, m.acceptError, "ready")
    <3>1. [m EXCEPT !.acceptorOpen = TRUE] = n
      BY <1>1, <1>6 DEF Accepting, LooseServer
    <3>2. r = StopAccepting(n)
      BY <1>6, <2>4, <3>1 DEF ContinueWork, r
    <3>3. /\ Working(n, FALSE) /\ n.intern = "work" /\ n.extern = "work"
          /\ n.accept = "ready"
      <4>1. Accepts(m, n)
        BY <1>2 DEF Accepts
      <4>2. n.accept = "ready"
        BY <1>1 DEF Accepting, LooseServer
      <4> HIDE DEF n
      <4> QED BY <1>6, <4>1, <4>2, AcceptingFields
    <3>4. Keeps(m, n) /\ n.active = m.active /\ n.pending = m.pending
      BY <1>1 DEF Accepting, LooseServer, Keeps
    <3> HIDE DEF n
    <3>5. /\ Keeps(n, r) \/ Leaves(n, r)
          /\ n.active = <<>> /\ n.pending = 0 /\ Leaves(n, r) => r.intern = "stopped"
      BY <3>2, <3>3, StopAcceptsSeen
    <3>6. (Keeps(n, r) => Keeps(m, r)) /\ (Leaves(n, r) <=> Leaves(m, r))
      BY <3>4 DEF Keeps, Leaves
    <3> QED BY <3>4, <3>5, <3>6 DEF r
  <2>5. CASE ~(~m.acceptorOpen /\ "open" \in fault) /\ "create" \notin fault
    <3>1. r = StartAccept(m)
      BY <1>6, <2>5 DEF ContinueWork, r
    <3>2. Keeps(m, r)
      BY <1>1, <3>1 DEF StartAccept, Keeps, LooseServer
    <3> QED BY <1>a, <3>2 DEF r
  <2> QED BY <2>2, <2>3, <2>4, <2>5
<1> QED BY <1>2, <1>3, <1>4, <1>5, <1>6

-----------------------------------------------------------------------------
(* What the user sees of the manager. *)

LifeOf(intern) == IF intern = "work" THEN "running"
                  ELSE IF intern = "stop" THEN "ending" ELSE "ended"

ViewOf(m) == [extern |-> m.extern, life |-> LifeOf(m.intern),
              cause |-> m.waitError, waiting |-> m.waitHandler,
              stopping |-> m.stopHandler]

\* The view of a manager is one of the contract.
LEMMA ViewTyped ==
  ASSUME NEW m \in LooseServer
  PROVE  /\ ViewOf(m) \in Contract!SessionView
         /\ ViewOf(m).extern = m.extern /\ ViewOf(m).life = LifeOf(m.intern)
         /\ ViewOf(m).cause = m.waitError /\ ViewOf(m).waiting = m.waitHandler
         /\ ViewOf(m).stopping = m.stopHandler
<1>1. m.waitError \in Contract!Cause
  BY DEF LooseServer, Contract!Cause, Contract!EndCause
<1>2. LifeOf(m.intern) \in {"running", "ending", "ended"}
  BY DEF LifeOf
<1>3. m.extern \in {"ready", "work", "stop", "stopped"}
      /\ m.waitHandler \in BOOLEAN /\ m.stopHandler \in BOOLEAN
  BY DEF LooseServer
<1> HIDE DEF LifeOf
<1> QED BY <1>1, <1>2, <1>3 DEF Contract!SessionView, ViewOf

\* It is the view the refinement maps the manager to.
LEMMA Viewed ==
  ASSUME NEW m \in LooseServer
  PROVE  ViewOf(m) = [extern |-> m.extern,
                      life |-> CASE m.intern = "work" -> "running"
                                 [] m.intern = "stop" -> "ending"
                                 [] m.intern = "stopped" -> "ended",
                      cause |-> m.waitError,
                      waiting |-> m.waitHandler, stopping |-> m.stopHandler]
<1>1. m.intern \in {"work", "stop", "stopped"}
  BY DEF LooseServer
<1>2. LifeOf(m.intern) = CASE m.intern = "work" -> "running"
                           [] m.intern = "stop" -> "ending"
                           [] m.intern = "stopped" -> "ended"
  BY <1>1 DEF LifeOf
<1> QED BY <1>2, Zenon DEF ViewOf

\* The view of an outcome.
LEMMA ViewIn ==
  ASSUME NEW w, NEW replies
  PROVE  Contract!Outcome(w, replies).view = w
BY DEF Contract!Outcome

\* Views with the same members are the same.
LEMMA SameView ==
  ASSUME NEW v \in Contract!SessionView, NEW w \in Contract!SessionView,
         w.extern = v.extern, w.life = v.life, w.cause = v.cause,
         w.waiting = v.waiting, w.stopping = v.stopping
  PROVE  w = v
BY DEF Contract!SessionView

-----------------------------------------------------------------------------
(* Outcomes of the contract, recognised by their members. *)

GoneFor(v, life, cause) ==
  [v EXCEPT !.life = life, !.cause = cause, !.waiting = FALSE]

\* A manager that leaves its work.
LEMMA LeavingOutcome ==
  ASSUME NEW v \in Contract!SessionView, NEW w \in Contract!SessionView,
         v.extern = "work", v.life = "running",
         w.extern = "work", w.life \in {"ending", "ended"}, w.cause = "error",
         w.waiting = FALSE, w.stopping = v.stopping
  PROVE  \E o \in Contract!ServerInternalOutcomes(v) : w = o.view
<1> DEFINE leaving == {Contract!Outcome(GoneFor(v, life, cause),
                                        Contract!WaitReply(v, cause))
                       : life \in {"ending", "ended"}, cause \in {"error"}}
           o == Contract!Outcome(w, Contract!WaitReply(v, "error"))
<1>1. w = GoneFor(v, w.life, "error")
  BY DEF Contract!SessionView, GoneFor
<1>2. o \in leaving
  BY <1>1
<1>3. Contract!ServerInternalOutcomes(v) = leaving
  BY DEF GoneFor, Contract!InternalOutcomes, Contract!ServerInternalOutcomes
<1>4. w = o.view
  BY ViewIn
<1> QED BY <1>2, <1>3, <1>4

\* A manager whose stop is complete, without one of its user.
LEMMA EndingOutcome ==
  ASSUME NEW v \in Contract!SessionView, NEW w \in Contract!SessionView,
         v.extern = "work", v.life = "ending", w.extern = "work", w.life = "ended",
         w.cause = v.cause, w.waiting = v.waiting, w.stopping = v.stopping
  PROVE  \E o \in Contract!ServerInternalOutcomes(v) : w = o.view
<1>1. w = [v EXCEPT !.life = "ended"]
  BY DEF Contract!SessionView
<1>2. Contract!ServerInternalOutcomes(v) = {Contract!Outcome(w, {})}
  BY <1>1 DEF Contract!InternalOutcomes, Contract!ServerInternalOutcomes
<1>3. w = Contract!Outcome(w, {}).view
  BY ViewIn
<1> QED BY <1>2, <1>3

\* A manager whose stop is complete, and was asked for.
LEMMA StoppedOutcome ==
  ASSUME NEW v \in Contract!SessionView, NEW w \in Contract!SessionView,
         v.extern = "stop", v.life = "ending", w.extern = "stopped", w.life = "ended",
         w.cause = v.cause, w.waiting = v.waiting, w.stopping = FALSE
  PROVE  \E o \in Contract!ServerInternalOutcomes(v) : w = o.view
<1> DEFINE u == [v EXCEPT !.life = "ended"]
           o == Contract!Outcome(w, {<<"stop", "none">>})
<1>1. u = [v EXCEPT !.life = "ended"]
  OBVIOUS
<1> HIDE DEF u
<1>2. w = [u EXCEPT !.extern = "stopped", !.stopping = FALSE]
  BY <1>1 DEF Contract!SessionView
<1>3. Contract!ServerInternalOutcomes(v) = {o}
  BY <1>1, <1>2 DEF Contract!InternalOutcomes, Contract!ServerInternalOutcomes
<1>4. w = o.view
  BY ViewIn
<1> QED BY <1>3, <1>4

\* A start that succeeds, or fails at once.
LEMMA StartOutcome ==
  ASSUME NEW v \in Contract!SessionView, NEW w \in Contract!SessionView,
         v.extern = "ready", w.waiting = v.waiting, w.stopping = v.stopping,
         \/ w.extern = "work" /\ w.life = v.life /\ w.cause = v.cause
         \/ w.extern = "stopped" /\ w.life = "ended" /\ w.cause = "error"
  PROVE  \E o \in Contract!ServerStartOutcomes(v) : w = o.view
<1>1. CASE w.extern = "work" /\ w.life = v.life /\ w.cause = v.cause
  <2> DEFINE o == Contract!Outcome(w, {<<"start", "none">>})
  <2>1. w = [v EXCEPT !.extern = "work"]
    BY <1>1 DEF Contract!SessionView
  <2>2. o \in Contract!ServerStartOutcomes(v)
    BY <2>1 DEF Contract!ServerStartOutcomes
  <2>3. w = o.view
    BY ViewIn
  <2> QED BY <2>2, <2>3
<1>2. CASE w.extern = "stopped" /\ w.life = "ended" /\ w.cause = "error"
  <2> DEFINE o == Contract!Outcome(w, {<<"start", "error">>})
  <2>1. w = [v EXCEPT !.extern = "stopped", !.life = "ended", !.cause = "error"]
    BY <1>2 DEF Contract!SessionView
  <2>2. o \in Contract!ServerStartOutcomes(v)
    BY <2>1 DEF Contract!ServerStartOutcomes
  <2>3. w = o.view
    BY ViewIn
  <2> QED BY <2>2, <2>3
<1> QED BY <1>1, <1>2

\* A wait that is parked.
LEMMA WaitOutcome ==
  ASSUME NEW v \in Contract!SessionView, NEW w \in Contract!SessionView,
         v.extern = "work", v.life = "running", v.waiting = FALSE,
         w.extern = v.extern, w.life = v.life, w.cause = v.cause,
         w.waiting = TRUE, w.stopping = v.stopping
  PROVE  \E o \in Contract!WaitOutcomes(v) : w = o.view
<1>1. w = [v EXCEPT !.waiting = TRUE]
  BY DEF Contract!SessionView
<1>2. Contract!WaitOutcomes(v) = {Contract!Outcome(w, {})}
  BY <1>1 DEF Contract!WaitOutcomes
<1>3. w = Contract!Outcome(w, {}).view
  BY ViewIn
<1> QED BY <1>2, <1>3

StopCause(v) == IF v.cause = "none" THEN "operation_aborted" ELSE v.cause

StopLeft(v) == [v EXCEPT !.waiting = FALSE, !.cause = StopCause(v)]

StopOutcomeOf(v, life) ==
  IF life = "ended"
    THEN Contract!Outcome([StopLeft(v) EXCEPT !.extern = "stopped", !.life = life],
                          Contract!WaitReply(v, StopCause(v))
                            \cup {<<"stop", "none">>})
    ELSE Contract!Outcome([StopLeft(v) EXCEPT !.extern = "stop", !.life = life,
                                              !.stopping = TRUE],
                          Contract!WaitReply(v, StopCause(v)))

\* A stop that is complete at once, or is parked.
LEMMA StopOutcome ==
  ASSUME NEW v \in Contract!SessionView, NEW w \in Contract!SessionView,
         v.extern \in {"ready", "work"}, w.cause = StopCause(v), w.waiting = FALSE,
         w.life \in IF v.life = "running" THEN {"ending", "ended"} ELSE {v.life},
         \/ w.life = "ended" /\ w.extern = "stopped" /\ w.stopping = v.stopping
         \/ w.life # "ended" /\ w.extern = "stop" /\ w.stopping = TRUE
  PROVE  \E o \in Contract!StopOutcomes(v) : w = o.view
<1> DEFINE left  == StopLeft(v)
           lives == IF v.life = "running" THEN {"ending", "ended"} ELSE {v.life}
<1>1. left = [v EXCEPT !.waiting = FALSE, !.cause = w.cause]
  BY DEF StopLeft
<1>2. Contract!StopOutcomes(v) = {StopOutcomeOf(v, life) : life \in lives}
  BY DEF Contract!StopOutcomes, StopOutcomeOf, StopLeft, StopCause
<1>3. StopOutcomeOf(v, w.life) \in Contract!StopOutcomes(v)
  BY <1>2
<1>4. CASE w.life = "ended"
  <2> HIDE DEF left
  <2>1. w = [left EXCEPT !.extern = "stopped", !.life = w.life]
    BY <1>1, <1>4 DEF Contract!SessionView
  <2>2. StopOutcomeOf(v, w.life).view = [left EXCEPT !.extern = "stopped", !.life = w.life]
    BY <1>4, ViewIn DEF StopOutcomeOf, left
  <2> QED BY <1>3, <2>1, <2>2
<1>5. CASE w.life # "ended"
  <2> HIDE DEF left
  <2>1. w = [left EXCEPT !.extern = "stop", !.life = w.life, !.stopping = TRUE]
    BY <1>1, <1>5 DEF Contract!SessionView
  <2>2. StopOutcomeOf(v, w.life).view =
          [left EXCEPT !.extern = "stop", !.life = w.life, !.stopping = TRUE]
    BY <1>5, ViewIn DEF StopOutcomeOf, left
  <2> QED BY <1>3, <2>1, <2>2
<1> QED BY <1>4, <1>5

-----------------------------------------------------------------------------
(* Every step of the manager, seen by its user. *)

\* A handler that moves the manager is a step of the contract, or none.
LEMMA MovesFollow ==
  ASSUME NEW m \in LooseServer, NEW r \in LooseServer, Moves(m, r)
  PROVE  \/ ViewOf(r) = ViewOf(m)
         \/ \E o \in Contract!ServerInternalOutcomes(ViewOf(m)) : ViewOf(r) = o.view
<1> DEFINE v == ViewOf(m)
           w == ViewOf(r)
<1>1. /\ v \in Contract!SessionView /\ v.extern = m.extern
      /\ v.life = LifeOf(m.intern) /\ v.cause = m.waitError
      /\ v.waiting = m.waitHandler /\ v.stopping = m.stopHandler
  BY ViewTyped
<1>2. /\ w \in Contract!SessionView /\ w.extern = r.extern
      /\ w.life = LifeOf(r.intern) /\ w.cause = r.waitError
      /\ w.waiting = r.waitHandler /\ w.stopping = r.stopHandler
  BY ViewTyped
<1> HIDE DEF v, w
<1>3. CASE Keeps(m, r)
  <2>1. w = v
    BY <1>1, <1>2, <1>3, SameView DEF Keeps
  <2> QED BY <2>1 DEF v, w
<1>4. CASE Ends(m, r)
  <2>1. v.life = "ending" /\ w.life = "ended"
    BY <1>1, <1>2, <1>4 DEF Ends, LifeOf
  <2>2. w.cause = v.cause /\ w.waiting = v.waiting
    BY <1>1, <1>2, <1>4 DEF Ends
  <2>3. \/ v.extern = "work" /\ w.extern = "work" /\ w.stopping = v.stopping
        \/ v.extern = "stop" /\ w.extern = "stopped" /\ w.stopping = FALSE
    BY <1>1, <1>2, <1>4 DEF Ends
  <2> v \in Contract!SessionView /\ w \in Contract!SessionView
    BY <1>1, <1>2, Zenon
  <2>4. \E o \in Contract!ServerInternalOutcomes(v) : w = o.view
    <3>1. CASE v.extern = "work" /\ w.extern = "work" /\ w.stopping = v.stopping
      BY <2>1, <2>2, <3>1, EndingOutcome, Zenon
    <3>2. CASE v.extern = "stop" /\ w.extern = "stopped" /\ w.stopping = FALSE
      BY <2>1, <2>2, <3>2, StoppedOutcome, Zenon
    <3> QED BY <2>3, <3>1, <3>2, Zenon
  <2> QED BY <2>4 DEF v, w
<1>5. CASE Leaves(m, r)
  <2>1. v.life = "running" /\ w.life \in {"ending", "ended"}
    BY <1>1, <1>2, <1>5 DEF Leaves, LifeOf
  <2>2. /\ v.extern = "work" /\ w.extern = "work" /\ w.cause = "error"
        /\ w.waiting = FALSE /\ w.stopping = v.stopping
    BY <1>1, <1>2, <1>5 DEF Leaves
  <2> v \in Contract!SessionView /\ w \in Contract!SessionView
    BY <1>1, <1>2, Zenon
  <2>3. \E o \in Contract!ServerInternalOutcomes(v) : w = o.view
    BY <2>1, <2>2, LeavingOutcome, Zenon
  <2> QED BY <2>3 DEF v, w
<1> QED BY <1>3, <1>4, <1>5 DEF Moves

\* continue_work or continue_stop at the end of a handler.
LEMMA ContinuedMoves ==
  ASSUME NEW m, Working(m, FALSE), m.intern # "stopped", m.extern # "ready",
         NEW next, NEW fault, Continued(m, next, fault)
  PROVE  Moves(m, next)
<1>1. PICK r : Working(r, FALSE) /\ SameManager(m, r) /\ next = Continue(r, fault)
  BY DEF Continued
<1>2. Keeps(m, r)
  BY <1>1 DEF SameManager, Keeps
<1>3. /\ m.intern \in {"work", "stop", "stopped"}
      /\ m.extern \in {"ready", "work", "stop", "stopped"} /\ r \in LooseServer
  BY <1>1 DEF Working, Accounts, LooseServer
<1>4. m.extern \in {"work", "stop"} /\ (m.intern = "work" => m.extern = "work")
  BY <1>3 DEF Working
<1>5. r.intern = m.intern /\ r.extern = m.extern
  BY <1>2 DEF Keeps
<1>6. CASE m.intern = "work"
  <2>1. next = ContinueWork(r, fault)
    BY <1>1, <1>5, <1>6 DEF Continue
  <2>2. Keeps(r, next) \/ Leaves(r, next)
    BY <1>1, <1>4, <1>5, <1>6, <2>1, WorkContinuesSeen
  <2> QED BY <1>2, <2>2, MovesAfter DEF Moves
<1>7. CASE m.intern = "stop"
  <2>1. next = ContinueStop(r)
    BY <1>1, <1>5, <1>7 DEF Continue
  <2>2. Keeps(r, next) \/ Ends(r, next)
    BY <1>3, <1>4, <1>5, <1>7, <2>1, StopContinuesSeen
  <2> QED BY <1>2, <2>2, MovesAfter DEF Moves
<1> QED BY <1>3, <1>6, <1>7

\* The accept handler.
LEMMA AcceptMoves ==
  ASSUME NEW m, Working(m, FALSE), m.accept = "in_progress",
         NEW error \in {"none", "error"}, NEW fault
  PROVE  /\ m.intern = "work" => Moves(m, HandleAcceptAtWork(m, error, fault))
         /\ m.intern # "work" => Moves(m, HandleAcceptAtStop(m))
<1>1. /\ m \in LooseServer /\ m.intern # "stopped" /\ m.extern # "ready"
      /\ m.extern # "stopped"
  BY AcceptMeans
<1>2. /\ m.intern \in {"work", "stop"} /\ m.extern \in {"work", "stop"}
      /\ m.intern = "work" => m.extern = "work" /\ Len(m.active) < MaxSessions
      /\ m.active \in Seq(Slot) /\ m.acceptError \in {"none", "error"}
  BY <1>1 DEF LooseServer, Working, AtWork
<1>3. ASSUME m.intern = "work" PROVE Moves(m, HandleAcceptAtWork(m, error, fault))
  <2> DEFINE done == [m EXCEPT !.pending = @ - 1, !.accept = "ready", !.accepting = None]
             next == HandleAcceptAtWork(m, error, fault)
  <2>1. PICK r : Working(r, FALSE) /\ Keeps(m, r) /\ next = ContinueWork(r, fault)
    <3>1. CASE error # "none"
      <4> DEFINE over == AcceptOver(m, "stopped", error)
                 r == Recycle(over, m.accepting)
      <4>1. [done EXCEPT !.accept = "stopped", !.acceptError = error] = over
        BY <1>1 DEF LooseServer, AcceptOver
      <4>2. next = ContinueWork(r, fault)
        BY <3>1, <4>1 DEF HandleAcceptAtWork
      <4>3. Working(r, FALSE) /\ Keeps(m, r)
        BY <3>1, AcceptRecycles
      <4> HIDE DEF r, next
      <4> QED BY <4>2, <4>3
    <3>2. CASE error = "none"
      <4> DEFINE w == m.accepting
                 over == AcceptOver(m, "ready", m.acceptError)
                 got == [over EXCEPT !.unreported = @ + 1]
                 r == Request(AddToActive(got, w), w, "start")
      <4>1. done = over
        BY <1>1 DEF LooseServer, AcceptOver
      <4>2. ~(Len(m.active) >= MaxSessions)
        BY <1>2, <1>3, SessionManagerAssumption
      <4>3. next = ContinueWork(r, fault)
        BY <3>2, <4>1, <4>2 DEF HandleAcceptAtWork
      <4>4. Working(r, FALSE) /\ Keeps(m, r)
        BY <1>3, AcceptBegins
      <4> HIDE DEF r, next
      <4> QED BY <4>3, <4>4
    <3> QED BY <3>1, <3>2
  <2> HIDE DEF next
  <2>2. r.intern = "work" /\ r.extern = "work"
    BY <1>2, <1>3, <2>1 DEF Keeps
  <2>3. Keeps(r, next) \/ Leaves(r, next)
    BY <2>1, <2>2, WorkContinuesSeen
  <2>4. Moves(m, next)
    BY <2>1, <2>3, MovesAfter DEF Moves
  <2> QED BY <2>4 DEF next
<1>4. ASSUME m.intern # "work" PROVE Moves(m, HandleAcceptAtStop(m))
  <2> DEFINE over == AcceptOver(m, "stopped", m.acceptError)
             r == Recycle(over, m.accepting)
             next == ContinueStop(r)
  <2>1. [m EXCEPT !.pending = @ - 1, !.accept = "stopped", !.accepting = None] = over
    BY <1>1 DEF LooseServer, AcceptOver
  <2>2. HandleAcceptAtStop(m) = next
    BY <2>1 DEF HandleAcceptAtStop
  <2>3. Working(r, FALSE) /\ Keeps(m, r)
    BY <1>2, <1>4, AcceptRecycles
  <2> HIDE DEF r
  <2>4. r \in LooseServer /\ r.intern = "stop" /\ r.extern \in {"work", "stop"}
    BY <1>2, <1>4, <2>3 DEF Keeps, Working, Accounts
  <2>5. Keeps(r, next) \/ Ends(r, next)
    BY <2>4, StopContinuesSeen
  <2> HIDE DEF next
  <2> QED BY <2>2, <2>3, <2>5, MovesAfter DEF Moves
<1> QED BY <1>3, <1>4

\* The handler of schedule_active_session_stop.
LEMMA ScheduledMoves ==
  ASSUME NEW m, Working(m, FALSE), m.stopScheduled
  PROVE  Moves(m, HandleScheduledActiveSessionStop(m))
<1> DEFINE n == [m EXCEPT !.pending = @ - 1]
           x == StopBatch(n, m.stoppingEnd)
           r == ContinueStop(x)
<1>1. m \in LooseServer /\ m.intern # "work" /\ AtStop(m) /\ Slots(m)
  BY DEF Working, Accounts, AtWork
<1>2. m.pending # 0
  <2> DEFINE a == One(m.accept = "in_progress")
             y == Cardinality(Awaited(m.session))
  <2>1. One(m.stopScheduled) = 1 /\ a \in Nat /\ y \in Nat
    BY <1>1, CountsTyped, AwaitedFinite
  <2>2. m.pending = a + One(m.stopScheduled) + y
    BY DEF Working, Accounts, PendingCounted
  <2> HIDE DEF a, y
  <2> QED BY <2>1, <2>2
<1>3. m.intern = "stop" /\ m.extern \in {"work", "stop"}
  BY <1>1, <1>2 DEF Working, LooseServer
<1>4. m.pending \in Int /\ m.pending - 1 \in Int
  BY <1>1 DEF LooseServer
<1>5. /\ n \in LooseServer /\ n.active = m.active
      /\ n.extern = m.extern /\ n.intern = m.intern
      /\ n.waitHandler = m.waitHandler /\ n.stopHandler = m.stopHandler
      /\ n.waitError = m.waitError
  BY <1>1, <1>4, PendingSet
<1>6. HandleScheduledActiveSessionStop(m) = r
  BY DEF HandleScheduledActiveSessionStop
<1> HIDE DEF n
<1>7. /\ x.extern = n.extern /\ x.intern = n.intern
      /\ x.waitError = n.waitError
      /\ x.waitHandler = n.waitHandler /\ x.stopHandler = n.stopHandler
      /\ First(n, m.stoppingEnd) \in Nat \ {0} => x \in LooseServer
  BY <1>5, BatchFields
<1>8. First(n, m.stoppingEnd) \in Nat \ {0}
  <2>1. /\ m.active \in Seq(Slot) /\ Distinct(m.active)
        /\ m.stoppingEnd \in {None} \cup ToSet(m.active)
        /\ Reached(m.stoppingEnd, m.active, m.wrapper)
    BY <1>1 DEF AtStop, Slots, Listed, LooseServer
  <2>2. First(m, m.stoppingEnd) \in 1 .. Len(m.active) + 1 /\ Len(m.active) \in Nat
    BY <2>1, BatchStarts
  <2>3. First(n, m.stoppingEnd) = First(m, m.stoppingEnd)
    BY <1>5, SamePosition DEF First
  <2> QED BY <2>2, <2>3
<1> HIDE DEF x
<1>9. Keeps(x, r) \/ Ends(x, r)
  BY <1>3, <1>5, <1>7, <1>8, StopContinuesSeen
<1>10. Keeps(m, x)
  BY <1>5, <1>7 DEF Keeps
<1> HIDE DEF r
<1> QED BY <1>6, <1>9, <1>10, MovesAfter DEF Moves

\* The reply of a session.
LEMMA DeliverMoves ==
  ASSUME Working(server, FALSE), NEW w \in Slot, Deliver(w)
  PROVE  Moves(server, server')
<1> DEFINE m == server
<1>1. PICK reply \in m.session[w].replies, fault \in Faults :
        LET taken == [m EXCEPT !.session[w].replies = @ \ {reply}]
        IN  server' = CASE reply[1] = "start" ->
                             HandleSessionStart(taken, w, reply[2], fault)
                        [] reply[1] = "wait" -> HandleSessionWait(taken, w, fault)
                        [] reply[1] = "stop" -> HandleSessionStop(taken, w, fault)
  BY DEF Deliver
<1> DEFINE taken == [m EXCEPT !.session[w].replies = @ \ {reply}]
<1>2. reply[1] \in Operation /\ m.intern # "stopped" /\ m.extern # "ready"
  BY ReplyMeans
<1> HIDE DEF taken
<1>3. Continued(m, server', fault)
  <2>1. CASE reply[1] = "start"
    <3>1. Continued(m, HandleSessionStart(taken, w, reply[2], fault), fault)
      BY <2>1, StartReplied DEF taken
    <3> QED BY <1>1, <2>1, <3>1 DEF taken
  <2>2. CASE reply[1] = "wait"
    <3>1. Continued(m, HandleSessionWait(taken, w, fault), fault)
      BY <2>2, WaitReplied DEF taken
    <3> QED BY <1>1, <2>2, <3>1 DEF taken
  <2>3. CASE reply[1] = "stop"
    <3>1. Continued(m, HandleSessionStop(taken, w, fault), fault)
      BY <2>3, StopReplied DEF taken
    <3> QED BY <1>1, <2>3, <3>1 DEF taken
  <2> QED BY <1>2, <2>1, <2>2, <2>3 DEF Operation
<1> QED BY <1>2, <1>3, ContinuedMoves

\* async_start: a manager that holds nothing and cannot accept stops at once.
LEMMA StartFollows ==
  ASSUME NEW m, Working(m, FALSE), m.extern = "ready", NEW fault,
         NEW r \in LooseServer, r = DoStartExternStart(m, fault)
  PROVE  \E o \in Contract!ServerStartOutcomes(ViewOf(m)) : ViewOf(r) = o.view
<1> DEFINE n == InStates(m, "work", "work")
           worked == ContinueWork(n, fault)
           v == ViewOf(m)
           w == ViewOf(r)
<1>1. /\ m \in LooseServer /\ m.intern = "work" /\ m.accept = "ready"
      /\ m.pending = 0 /\ m.waitError = "none" /\ ~m.waitHandler /\ ~m.stopHandler
      /\ Accounts(m) /\ Slots(m) /\ Answers(m, FALSE) /\ AtWork(m)
  BY DEF Working, Accounts, Answers
<1>2. [m EXCEPT !.extern = "work"] = n
  BY <1>1 DEF LooseServer, InStates
<1>3. /\ n \in LooseServer /\ SameSessions(m, n)
      /\ n.extern = "work" /\ n.intern = "work"
      /\ n.acceptorOpen = m.acceptorOpen /\ n.acceptError = m.acceptError
      /\ n.waitHandler = m.waitHandler /\ n.stopHandler = m.stopHandler
      /\ n.waitError = m.waitError /\ n.owed = m.owed
  BY <1>1, StatesSet
<1>4. r = IF worked.intern = "stopped" THEN [worked EXCEPT !.extern = "stopped"]
                                       ELSE worked
  BY <1>2, Zenon DEF DoStartExternStart
<1> HIDE DEF n
<1>5. Working(n, FALSE)
  <2>1. Accounts(n) /\ Slots(n)
    BY <1>1, <1>3, SessionsKept
  <2>2. Answers(n, FALSE)
    BY <1>1, <1>3 DEF Answers
  <2>3. AtWork(n)
    BY <1>1, <1>3 DEF AtWork, SameSessions
  <2> QED BY <1>3, <2>1, <2>2, <2>3 DEF Working
<1>6. n.active = <<>> /\ n.pending = 0
  <2>1. n.pending = 0 /\ n.active = m.active
    BY <1>1, <1>3 DEF SameSessions, SameCounts
  <2>2. ASSUME NEW x \in Slot PROVE x \notin ToSet(m.active)
    <3>1. SUFFICES ASSUME x \in ToSet(m.active) PROVE FALSE
      OBVIOUS
    <3>2. m.wrapper[x].state \in {"start", "work", "stop"}
      BY <1>1, <3>1 DEF Slots, Listed
    <3>3. SlotShape(m.wrapper[x].state, m.session[x])
      BY <1>1 DEF Slots, SlotsShaped
    <3>4. \E op \in Operation : Awaits(m.session[x], op)
      BY <3>2, <3>3 DEF SlotShape, AwaitsOnly, Operation
    <3>5. m.pending > 0
      BY <1>1, <3>4, AwaitedMeans
    <3> QED BY <1>1, <3>5
  <2>3. m.active \in Seq(Slot)
    BY <1>1 DEF LooseServer
  <2>4. Len(m.active) # 0 => m.active[1] \in Slot /\ m.active[1] \in ToSet(m.active)
    BY <2>3, ToSetElements
  <2> QED BY <2>1, <2>2, <2>3, <2>4, ToSetElements
<1>7. /\ Keeps(n, worked) \/ Leaves(n, worked)
      /\ Leaves(n, worked) => worked.intern = "stopped"
  BY <1>3, <1>5, <1>6, WorkContinuesSeen
<1>8. worked \in LooseServer
  <2>1. Left(worked)
    BY <1>3, <1>5, WorkContinues
  <2> QED BY <2>1 DEF Left, Working, Accounts
<1> HIDE DEF worked
<1>9. /\ v \in Contract!SessionView /\ v.extern = "ready"
      /\ v.life = "running" /\ v.cause = "none"
      /\ v.waiting = m.waitHandler /\ v.stopping = m.stopHandler
  BY <1>1, ViewTyped DEF LifeOf
<1>10. /\ w \in Contract!SessionView /\ w.extern = r.extern
       /\ w.life = LifeOf(r.intern) /\ w.cause = r.waitError
       /\ w.waiting = r.waitHandler /\ w.stopping = r.stopHandler
  BY ViewTyped
<1> HIDE DEF v, w
<1>11. m.waitHandler = FALSE
  BY <1>1 DEF LooseServer
<1>12. CASE Keeps(n, worked)
  <2>1. /\ worked.extern = "work" /\ worked.intern = "work" /\ worked.waitError = "none"
        /\ worked.waitHandler = m.waitHandler /\ worked.stopHandler = m.stopHandler
    BY <1>1, <1>3, <1>12 DEF Keeps
  <2>2. r = worked
    BY <1>4, <2>1
  <2>3. /\ w.extern = "work" /\ w.life = v.life /\ w.cause = v.cause
        /\ w.waiting = v.waiting /\ w.stopping = v.stopping
    BY <1>9, <1>10, <2>1, <2>2 DEF LifeOf
  <2>4. \E o \in Contract!ServerStartOutcomes(v) : w = o.view
    BY <1>9, <1>10, <2>3, StartOutcome
  <2> QED BY <2>4 DEF v, w
<1>13. CASE Leaves(n, worked)
  <2>1. /\ worked.intern = "stopped" /\ worked.waitError = "error"
        /\ worked.waitHandler = FALSE /\ worked.stopHandler = m.stopHandler
    BY <1>3, <1>7, <1>13 DEF Leaves
  <2>2. r = [worked EXCEPT !.extern = "stopped"]
    BY <1>4, <2>1
  <2>3. /\ r.extern = "stopped" /\ r.intern = "stopped" /\ r.waitError = "error"
        /\ r.waitHandler = FALSE /\ r.stopHandler = m.stopHandler
    BY <1>8, <2>1, <2>2 DEF LooseServer
  <2>4. /\ w.extern = "stopped" /\ w.life = "ended" /\ w.cause = "error"
        /\ w.waiting = v.waiting /\ w.stopping = v.stopping
    BY <1>9, <1>10, <1>11, <2>3 DEF LifeOf
  <2>5. \E o \in Contract!ServerStartOutcomes(v) : w = o.view
    BY <1>9, <1>10, <2>4, StartOutcome
  <2> QED BY <2>5 DEF v, w
<1> QED BY <1>7, <1>12, <1>13

\* async_stop.
LEMMA StopFollows ==
  ASSUME NEW m, Working(m, FALSE), m.extern \in {"ready", "work"},
         NEW r \in LooseServer, r = DoStartExternStop(m)
  PROVE  \E o \in Contract!StopOutcomes(ViewOf(m)) : ViewOf(r) = o.view
<1> DEFINE asked == [m EXCEPT !.extern = "stop"]
           n == InStates(m, "stop", m.intern)
           told == CompleteExternWait(asked, "operation_aborted")
           stopped == IF m.intern = "work"
                        THEN StartStop(told, "operation_aborted") ELSE told
           v == ViewOf(m)
           w == ViewOf(r)
<1>1. /\ m \in LooseServer /\ m.intern \in {"work", "stop", "stopped"}
      /\ m.waitError \in {"none", "error", "operation_aborted"}
      /\ m.stopHandler = FALSE
  <2>1. m \in LooseServer /\ ~m.stopHandler
    BY DEF Working, Accounts, Answers
  <2> QED BY <2>1 DEF LooseServer
<1>2. asked = n
  BY <1>1 DEF LooseServer, InStates
<1>3. /\ n \in LooseServer /\ n.extern = "stop" /\ n.intern = m.intern
      /\ n.waitError = m.waitError
  BY <1>1, StatesSet
<1>4. r = IF stopped.intern = "stopped" THEN [stopped EXCEPT !.extern = "stopped"]
                                        ELSE StopParked(stopped)
  BY Zenon DEF DoStartExternStop, StopParked
<1>5. /\ Working(told, TRUE) /\ told.extern = "stop" /\ told.intern = m.intern
      /\ ~told.waitHandler
  BY Asked
<1> HIDE DEF n, asked
<1>6. /\ told \in LooseServer /\ ~told.waitHandler
      /\ told.waitError = IF m.waitError = "none" THEN "operation_aborted"
                                                  ELSE m.waitError
  <2>1. told = CompleteExternWait(n, "operation_aborted")
    BY <1>2
  <2> HIDE DEF told
  <2> QED BY <1>3, <2>1, ToldFields
<1>7. told.waitHandler = FALSE
  BY <1>6 DEF LooseServer
<1> HIDE DEF told
<1>8. /\ Working(stopped, TRUE) /\ stopped.extern \in {"stop", "stopped"}
      /\ stopped.waitError = told.waitError /\ stopped.waitHandler = FALSE
      /\ m.intern = "work" => stopped.intern \in {"stop", "stopped"}
      /\ m.intern # "work" => stopped.intern = m.intern
  <2>1. CASE m.intern = "work"
    <3> DEFINE x == StartStop(told, "operation_aborted")
    <3>1. Working(x, TRUE) /\ x.extern \in {told.extern, "stopped"}
      BY <1>5, <2>1, StopStarts
    <3>2. /\ x.waitError = told.waitError /\ x.waitHandler = told.waitHandler
          /\ x.intern \in {"stop", "stopped"}
      BY <1>5, <1>6, <2>1, StopStartsSeen
    <3>3. stopped = x
      BY <2>1
    <3> HIDE DEF x
    <3> QED BY <1>5, <1>7, <2>1, <3>1, <3>2, <3>3
  <2>2. CASE m.intern # "work"
    BY <1>5, <1>7, <2>2
  <2> QED BY <2>1, <2>2
<1> HIDE DEF stopped
<1>9. stopped \in LooseServer /\ stopped.stopHandler = FALSE
  <2>1. stopped \in LooseServer /\ ~stopped.stopHandler
    BY <1>8 DEF Working, Accounts, Answers
  <2> QED BY <2>1 DEF LooseServer
<1>10. stopped.extern = "stopped" => stopped.intern = "stopped"
  BY <1>8 DEF Working
<1>11. /\ r.waitError = told.waitError /\ r.waitHandler = FALSE
       /\ r.intern = stopped.intern
       /\ stopped.intern = "stopped" => r.extern = "stopped" /\ r.stopHandler = FALSE
       /\ stopped.intern # "stopped" => r.extern = "stop" /\ r.stopHandler = TRUE
  <2>1. CASE stopped.intern = "stopped"
    <3>1. r = [stopped EXCEPT !.extern = "stopped"]
      BY <1>4, <2>1
    <3> QED BY <1>8, <1>9, <2>1, <3>1 DEF LooseServer
  <2>2. CASE stopped.intern # "stopped"
    <3>1. r = StopParked(stopped)
      BY <1>4, <2>2
    <3>2. /\ r.extern = stopped.extern /\ r.intern = stopped.intern
          /\ r.waitHandler = stopped.waitHandler /\ r.stopHandler
          /\ r.waitError = stopped.waitError
      BY <1>9, <3>1, ParkedFields
    <3>3. r.stopHandler = TRUE
      BY <3>2 DEF LooseServer
    <3> QED BY <1>8, <1>10, <2>2, <3>2, <3>3
  <2> QED BY <2>1, <2>2
<1>12. /\ v \in Contract!SessionView /\ v.extern = m.extern
       /\ v.life = LifeOf(m.intern) /\ v.cause = m.waitError
       /\ v.stopping = FALSE
  BY <1>1, ViewTyped
<1>13. /\ w \in Contract!SessionView /\ w.extern = r.extern
       /\ w.life = LifeOf(r.intern) /\ w.cause = r.waitError
       /\ w.waiting = FALSE /\ w.stopping = r.stopHandler
  BY <1>11, ViewTyped
<1> HIDE DEF v, w
<1>14. w.cause = StopCause(v)
  BY <1>6, <1>11, <1>12, <1>13 DEF StopCause
<1>15. stopped.intern \in {"stop", "stopped"}
  BY <1>1, <1>8
<1>16. /\ w.life \in IF v.life = "running" THEN {"ending", "ended"} ELSE {v.life}
       /\ \/ w.life = "ended" /\ w.extern = "stopped" /\ w.stopping = v.stopping
          \/ w.life # "ended" /\ w.extern = "stop" /\ w.stopping = TRUE
  <2>1. LifeOf("work") = "running" /\ LifeOf("stop") = "ending"
        /\ LifeOf("stopped") = "ended"
    BY DEF LifeOf
  <2>2. w.life \in IF v.life = "running" THEN {"ending", "ended"} ELSE {v.life}
    BY <1>1, <1>8, <1>11, <1>12, <1>13, <1>15, <2>1
  <2>3. CASE stopped.intern = "stopped"
    BY <1>11, <1>12, <1>13, <2>1, <2>2, <2>3
  <2>4. CASE stopped.intern = "stop"
    BY <1>11, <1>12, <1>13, <2>1, <2>2, <2>4
  <2> QED BY <1>15, <2>3, <2>4
<1>17. v.extern \in {"ready", "work"}
  BY <1>12
<1>18. \E o \in Contract!StopOutcomes(v) : w = o.view
  BY <1>12, <1>13, <1>14, <1>16, <1>17, StopOutcome
<1> QED BY <1>18 DEF v, w

\* async_wait.
LEMMA WaitFollows ==
  ASSUME NEW m, Working(m, FALSE), CanParkWait(m),
         NEW r \in LooseServer, r = WaitParked(m)
  PROVE  \E o \in Contract!WaitOutcomes(ViewOf(m)) : ViewOf(r) = o.view
<1> DEFINE v == ViewOf(m)
           w == ViewOf(r)
<1>1. m \in LooseServer /\ m.extern = "work" /\ m.intern = "work" /\ ~m.waitHandler
  BY DEF Working, Accounts, CanParkWait
<1>2. m.waitHandler = FALSE
  BY <1>1 DEF LooseServer
<1>3. /\ r.extern = m.extern /\ r.intern = m.intern
      /\ r.stopHandler = m.stopHandler /\ r.waitHandler
      /\ r.waitError = m.waitError
  BY <1>1, ParkedFields
<1>4. r.waitHandler = TRUE
  BY <1>3 DEF LooseServer
<1>5. /\ v \in Contract!SessionView /\ v.extern = "work"
      /\ v.life = "running" /\ v.cause = m.waitError
      /\ v.waiting = FALSE /\ v.stopping = m.stopHandler
  BY <1>1, <1>2, ViewTyped DEF LifeOf
<1>6. /\ w \in Contract!SessionView /\ w.extern = v.extern
      /\ w.life = v.life /\ w.cause = v.cause
      /\ w.waiting = TRUE /\ w.stopping = v.stopping
  BY <1>1, <1>3, <1>4, <1>5, ViewTyped DEF LifeOf
<1> HIDE DEF v, w
<1>7. \E o \in Contract!WaitOutcomes(v) : w = o.view
  BY <1>5, <1>6, WaitOutcome
<1> QED BY <1>7 DEF v, w

\* The view that the contract begins with.
LEMMA FreshViewTyped ==
  /\ Contract!FreshView \in Contract!SessionView
  /\ Contract!FreshView.extern = "ready" /\ Contract!FreshView.life = "running"
  /\ Contract!FreshView.cause = "none" /\ Contract!FreshView.waiting = FALSE
  /\ Contract!FreshView.stopping = FALSE
BY DEF Contract!FreshView, Contract!SessionView, Contract!Cause

\* A manager that is ready, whether new or reset, is seen as a fresh one.
LEMMA ReadyIsFresh ==
  ASSUME NEW m, Working(m, FALSE), m.extern = "ready"
  PROVE  ViewOf(m) = Contract!FreshView
<1> DEFINE v == ViewOf(m)
<1>1. /\ m \in LooseServer /\ m.intern = "work" /\ m.waitError = "none"
      /\ ~m.waitHandler /\ ~m.stopHandler
  BY DEF Working, Accounts, Answers
<1>2. m.waitHandler = FALSE /\ m.stopHandler = FALSE
  BY <1>1 DEF LooseServer
<1>3. /\ v \in Contract!SessionView /\ v.extern = "ready"
      /\ v.life = "running" /\ v.cause = "none"
      /\ v.waiting = FALSE /\ v.stopping = FALSE
  BY <1>1, <1>2, ViewTyped DEF LifeOf
<1> HIDE DEF v
<1>4. v = Contract!FreshView
  BY <1>3, FreshViewTyped, SameView
<1> QED BY <1>4 DEF v

\* Every step of the manager is one of its contract, or none.
LEMMA StepFollows ==
  ASSUME IInv, [Next]_server
  PROVE  [Contract!Next]_ServerView
<1>1. Working(server, FALSE)
  BY DEF IInv
<1>2. Working(server', FALSE)
  BY NextHolds DEF IInv, Working, Accounts, Slots, Answers, AtWork, AtStop
<1>3. server \in LooseServer /\ server' \in LooseServer
  BY <1>1, <1>2 DEF Working, Accounts
<1>4. ServerView = ViewOf(server) /\ ServerView' = ViewOf(server')
  <2>1. ServerView = ViewOf(server)
    BY <1>3, Viewed DEF ServerView
  <2>2. ServerView' = ViewOf(server')
    BY <1>3, Viewed DEF ServerView
  <2> QED BY <2>1, <2>2
<1>5. CASE ExternStart
  <2>1. PICK fault \in Faults : server' = DoStartExternStart(server, fault)
    BY <1>5 DEF ExternStart
  <2>2. server.extern = "ready" /\ ServerView.extern = "ready"
    BY <1>3, <1>4, <1>5, ViewTyped DEF ExternStart
  <2>3. \E o \in Contract!ServerStartOutcomes(ServerView) : ServerView' = o.view
    BY <1>1, <1>3, <1>4, <2>1, <2>2, StartFollows
  <2>4. Contract!Start
    BY <2>2, <2>3 DEF Contract!Start, Contract!MovesTo
  <2> QED BY <2>4 DEF Contract!Next
<1>6. CASE ExternStop
  <2>1. \E o \in Contract!StopOutcomes(ServerView) : ServerView' = o.view
    BY <1>1, <1>3, <1>4, <1>6, StopFollows DEF ExternStop
  <2>2. Contract!Stop
    BY <2>1 DEF Contract!Stop, Contract!MovesTo
  <2> QED BY <2>2 DEF Contract!Next
<1>7. CASE ExternWait
  <2>1. \E o \in Contract!WaitOutcomes(ServerView) : ServerView' = o.view
    BY <1>1, <1>3, <1>4, <1>7, WaitFollows DEF ExternWait, WaitParked
  <2>2. Contract!Wait
    BY <2>1 DEF Contract!Wait, Contract!MovesTo
  <2> QED BY <2>2 DEF Contract!Next
<1>8. CASE Reset
  <2>1. server.extern = "stopped" /\ server'.extern = "ready"
    <3>1. PICK freeRecycled \in BOOLEAN : server' = DoReset(server, freeRecycled)
      BY <1>8 DEF Reset
    <3>2. "extern" \in DOMAIN server
      BY <1>3 DEF LooseServer
    <3>3. server'.extern = "ready"
      BY <3>1, <3>2 DEF DoReset
    <3> QED BY <1>8, <3>3 DEF Reset
  <2>2. ServerView' = Contract!FreshView
    BY <1>2, <1>4, <2>1, ReadyIsFresh
  <2>3. ~server.waitHandler /\ ~server.stopHandler
    BY <1>1, <2>1 DEF Working, Answers
  <2>4. /\ ServerView.extern = server.extern
        /\ ServerView.waiting = server.waitHandler
        /\ ServerView.stopping = server.stopHandler
    BY <1>3, <1>4, ViewTyped
  <2>5. Contract!CanReset(ServerView)
    BY <2>1, <2>3, <2>4 DEF Contract!CanReset
  <2>6. Contract!Reset
    BY <2>2, <2>5 DEF Contract!Reset
  <2> QED BY <2>6 DEF Contract!Next
<1>9. ASSUME Moves(server, server') PROVE [Contract!Next]_ServerView
  <2>1. \/ ServerView' = ServerView
        \/ \E o \in Contract!ServerInternalOutcomes(ServerView) : ServerView' = o.view
    BY <1>3, <1>4, <1>9, MovesFollow
  <2>2. ServerView' = ServerView \/ Contract!Internal
    BY <2>1 DEF Contract!Internal, Contract!MovesTo
  <2> QED BY <2>2 DEF Contract!Next
<1>10. CASE HandleAccept
  <2>1. PICK error \in {"none", "error"}, fault \in Faults :
          server' = IF server.intern = "work"
                      THEN HandleAcceptAtWork(server, error, fault)
                      ELSE HandleAcceptAtStop(server)
    BY <1>10 DEF HandleAccept
  <2>2. server.accept = "in_progress"
    BY <1>10 DEF HandleAccept
  <2>3. Moves(server, server')
    BY <1>1, <2>1, <2>2, AcceptMoves
  <2> QED BY <1>9, <2>3
<1>11. CASE HandleScheduledStop
  <2>1. Moves(server, server')
    BY <1>1, <1>11, ScheduledMoves DEF HandleScheduledStop
  <2> QED BY <1>9, <2>1
<1>12. ASSUME NEW w \in Slot, Deliver(w) PROVE [Contract!Next]_ServerView
  <2>1. Moves(server, server')
    BY <1>1, <1>12, DeliverMoves
  <2> QED BY <1>9, <2>1
<1>13. ASSUME NEW w \in Slot, SessionRuns(w) \/ SessionInternal(w)
       PROVE  [Contract!Next]_ServerView
  <2>1. \E t : server' = SessionSet(server, w, t)
    BY <1>13 DEF SessionRuns, SessionInternal, SessionMoves, SessionSet
  <2>2. Keeps(server, server')
    BY <1>3, <2>1 DEF SessionSet, Keeps, LooseServer
  <2> QED BY <1>9, <2>2 DEF Moves
<1>14. CASE UNCHANGED server
  BY <1>4, <1>14
<1> QED BY <1>5, <1>6, <1>7, <1>8, <1>10, <1>11, <1>12, <1>13, <1>14 DEF Next

(***************************************************************************)
(* The manager implements its contract: whatever its acceptor and its      *)
(* sessions do, and in whatever order their completions reach it, what the *)
(* application sees of it moves only by the outcomes of SessionContract.   *)
(***************************************************************************)
THEOREM ImplementsServer == Spec => ImplementsContract
<1>1. Init => Contract!Init
  <2> SUFFICES ASSUME Init PROVE Contract!Init
    OBVIOUS
  <2>1. Working(server, FALSE) /\ server.extern = "ready"
    <3>1. Working(server, FALSE)
      BY InitHolds DEF IInv
    <3> QED BY <3>1 DEF Init, NewServer
  <2>2. server \in LooseServer
    BY <2>1 DEF Working, Accounts
  <2>3. ServerView = Contract!FreshView
    BY <2>1, <2>2, Viewed, ReadyIsFresh DEF ServerView
  <2> QED BY <2>3 DEF Contract!Init
<1>2. IInv /\ [Next]_server => [Contract!Next]_ServerView
  BY StepFollows
<1> QED BY <1>1, <1>2, Invariant, PTL DEF Spec, ImplementsContract, Contract!Spec

=============================================================================
