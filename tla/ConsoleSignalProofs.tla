------------------------ MODULE ConsoleSignalProofs ------------------------
(***************************************************************************)
(* The singleton of the console signals has one instance, the walk over    *)
(* the subscribers meets living services only, and no signal is lost       *)
(* before the function of a guard is called: for every number of threads,  *)
(* services, objects and handlers.                                         *)
(***************************************************************************)
EXTENDS ConsoleSignal, FiniteSetTheorems, TLAPS

(***************************************************************************)
(* The object of the singleton does not exist; or threads hold it, or the  *)
(* last one that did is in its destructor; or that thread is about to drop *)
(* the guard, with the object gone.                                        *)
(***************************************************************************)
Absent ==
  /\ guards = 0 /\ alive = {}
  /\ \A t \in Threads : pc[t] \notin {"holding", "destroying", "dropping"}

Held ==
  /\ \E t \in Threads : pc[t] = "holding"
  /\ \A t \in Threads : pc[t] # "destroying"

LastDestroys ==
  /\ \E d \in Threads : pc[d] = "destroying"
  /\ \A t \in Threads : pc[t] # "holding"
  /\ \A t, u \in Threads : pc[t] = "destroying" /\ pc[u] = "destroying" => t = u

Present ==
  /\ guards = 1 /\ weak \in Values /\ alive = {weak}
  /\ \A t \in Threads : pc[t] # "dropping"
  /\ \A t \in Threads : pc[t] \in {"holding", "destroying"} => ref[t] = weak
  /\ Held \/ LastDestroys

Departing ==
  /\ guards = 1 /\ alive = {}
  /\ \E d \in Threads : pc[d] = "dropping"
  /\ \A t \in Threads : pc[t] \notin {"holding", "destroying"}
  /\ \A t, u \in Threads : pc[t] = "dropping" /\ pc[u] = "dropping" => t = u

(***************************************************************************)
(* OneInstance is not inductive: that a new object finds no old one, and   *)
(* that the last guard is dropped once, follow from the phase; and that    *)
(* nobody takes the mutex from a thread that waits for the end of the      *)
(* destructor, from the mutex telling who waits.                           *)
(***************************************************************************)
SingletonInv ==
  /\ SingletonTypeOK
  /\ \A t \in Threads : pc[t] \in {"waiting", "blocked"} <=> mutex = t
  /\ \A t \in Threads : pc[t] = "blocked" => guards > 0
  /\ Absent \/ Present \/ Departing

SingletonStep(t) ==
  \/ GetExisting(t) \/ GetNew(t) \/ Blocks(t) \/ Create(t) \/ CreateFails(t)
  \/ GetNullable(t) \/ Release(t) \/ Destroy(t) \/ DropGuard(t)

\* Each operation on the singleton keeps its invariant, whoever calls it.
LEMMA SingletonKept ==
  ASSUME SingletonInv, NEW t \in Threads, SingletonStep(t)
  PROVE  SingletonInv'
<1> USE SingletonAssumption
<1>1. /\ mutex \in Threads \cup {None} /\ weak \in Values \cup {None}
      /\ guards \in Nat /\ alive \subseteq Values
      /\ ref \in [Threads -> Values \cup {None}]
      /\ pc \in [Threads -> {"idle", "waiting", "blocked", "holding",
                             "destroying", "dropping"}]
      /\ \A u \in Threads : pc[u] \in {"waiting", "blocked"} <=> mutex = u
      /\ \A u \in Threads : pc[u] = "blocked" => guards > 0
      /\ Absent \/ Present \/ Departing
  BY DEF SingletonInv, SingletonTypeOK
<1>2. ASSUME Locks, pc[t] = "idle", mutex = None, Take(t, weak),
             UNCHANGED <<mutex, weak, guards, alive>>
      PROVE  SingletonInv'
  <2>1. Present /\ Held
    BY <1>1, <1>2 DEF Locks, Holders, Absent, Present, Departing, LastDestroys
  <2>2. Present' /\ SingletonTypeOK'
    BY <1>1, <1>2, <2>1 DEF Take, Present, Held, SingletonTypeOK
  <2> QED BY <1>1, <1>2, <2>1, <2>2 DEF Take, SingletonInv
<1>3. CASE GetExisting(t)
  BY <1>2, <1>3 DEF GetExisting
<1>4. CASE GetNew(t)
  <2>1. SingletonTypeOK'
    BY <1>1, <1>4 DEF GetNew, SingletonTypeOK
  <2>2. (Absent => Absent') /\ (Departing => Departing')
    BY <1>1, <1>4 DEF GetNew, Absent, Departing
  <2>3. Present => Present'
    BY <1>1, <1>4 DEF GetNew, Present, Held, LastDestroys
  <2>4. \A u \in Threads : (pc[u] \in {"waiting", "blocked"} <=> mutex = u)'
    BY <1>1, <1>4 DEF GetNew
  <2>5. \A u \in Threads : (pc[u] = "blocked" => guards > 0)'
    BY <1>1, <1>4 DEF GetNew
  <2> QED BY <1>1, <2>1, <2>2, <2>3, <2>4, <2>5 DEF SingletonInv
<1>5. CASE Blocks(t)
  <2>1. SingletonTypeOK'
    BY <1>1, <1>5 DEF Blocks, SingletonTypeOK
  <2>2. (Absent => Absent') /\ (Departing => Departing')
    BY <1>1, <1>5 DEF Blocks, Absent, Departing
  <2>3. Present => Present'
    BY <1>1, <1>5 DEF Blocks, Present, Held, LastDestroys
  <2>4. \A u \in Threads : (pc[u] \in {"waiting", "blocked"} <=> mutex = u)'
    BY <1>1, <1>5 DEF Blocks
  <2>5. \A u \in Threads : (pc[u] = "blocked" => guards > 0)'
    BY <1>1, <1>5 DEF Blocks
  <2> QED BY <1>1, <2>1, <2>2, <2>3, <2>4, <2>5 DEF SingletonInv
<1>6. CASE Create(t)
  <2> DEFINE v == CHOOSE u \in Values : u \notin alive
  <2>1. Absent
    BY <1>1, <1>6 DEF Create, Present, Departing
  <2>2. v \in Values
    BY <2>1 DEF Absent
  <2>3. /\ pc[t] = "waiting" /\ mutex' = None /\ guards' = 1
        /\ pc' = [pc EXCEPT ![t] = "holding"] /\ ref' = [ref EXCEPT ![t] = v]
        /\ alive' = {v} /\ weak' = v
    BY <1>6, <2>1 DEF Create, Take, Absent
  <2> HIDE DEF v
  <2>4. SingletonTypeOK'
    BY <1>1, <2>2, <2>3 DEF SingletonTypeOK
  <2>5. Present'
    BY <1>1, <2>1, <2>2, <2>3 DEF Absent, Present, Held
  <2>6. \A u \in Threads : (pc[u] \in {"waiting", "blocked"} <=> mutex = u)'
    BY <1>1, <2>3
  <2> QED BY <2>3, <2>4, <2>5, <2>6 DEF SingletonInv
<1>7. CASE CreateFails(t)
  <2>1. SingletonTypeOK'
    BY <1>1, <1>7 DEF CreateFails, SingletonTypeOK
  <2>2. Absent
    BY <1>1, <1>7 DEF CreateFails, Present, Departing
  <2>3. Absent'
    BY <1>1, <1>7, <2>2 DEF CreateFails, Absent
  <2>4. \A u \in Threads : (pc[u] \in {"waiting", "blocked"} <=> mutex = u)'
    BY <1>1, <1>7 DEF CreateFails
  <2>5. \A u \in Threads : (pc[u] = "blocked" => guards > 0)'
    BY <1>1, <1>7 DEF CreateFails
  <2> QED BY <2>1, <2>3, <2>4, <2>5 DEF SingletonInv
<1>8. CASE GetNullable(t)
  <2>1. CASE Locks
    BY <1>2, <1>8, <2>1 DEF GetNullable
  <2>2. CASE ~Locks
    BY <1>1, <1>8, <2>2
    DEF GetNullable, SingletonInv, SingletonTypeOK, Absent, Present, Departing,
        Held, LastDestroys
  <2> QED BY <2>1, <2>2
<1>9. CASE Release(t)
  <2>1. Present /\ Held /\ ref[t] = weak /\ pc[t] = "holding"
    BY <1>1, <1>9 DEF Release, Absent, Departing, Present, LastDestroys
  <2>2. CASE Holders(ref[t]) = {t}
    <3>1. \A u \in Threads : pc[u] = "holding" => u = t
      BY <1>1, <2>1, <2>2 DEF Present, Holders
    <3>2. pc' = [pc EXCEPT ![t] = "destroying"] /\ UNCHANGED <<mutex, weak, guards, alive, ref>>
      BY <1>9, <2>2 DEF Release
    <3>3. LastDestroys'
      BY <1>1, <2>1, <3>1, <3>2 DEF LastDestroys, Held
    <3>4. Present'
      BY <1>1, <2>1, <3>2, <3>3 DEF Present
    <3>5. SingletonTypeOK'
      BY <1>1, <3>2 DEF SingletonTypeOK
    <3> QED BY <1>1, <2>1, <3>2, <3>4, <3>5 DEF SingletonInv
  <2>3. CASE Holders(ref[t]) # {t}
    <3>1. pc' = [pc EXCEPT ![t] = "idle"] /\ ref' = [ref EXCEPT ![t] = None]
          /\ UNCHANGED <<mutex, weak, guards, alive>>
      BY <1>9, <2>3 DEF Release
    <3>2. PICK u \in Threads : u # t /\ pc[u] = "holding"
      BY <2>1, <2>3 DEF Holders
    <3>3. Held'
      BY <1>1, <2>1, <3>1, <3>2 DEF Held
    <3>4. Present'
      BY <1>1, <2>1, <3>1, <3>3 DEF Present
    <3>5. SingletonTypeOK'
      BY <1>1, <3>1 DEF SingletonTypeOK
    <3> QED BY <1>1, <2>1, <3>1, <3>4, <3>5 DEF SingletonInv
  <2> QED BY <2>2, <2>3
<1>10. CASE Destroy(t)
  <2>1. Present /\ LastDestroys /\ ref[t] = weak /\ pc[t] = "destroying"
    BY <1>1, <1>10 DEF Destroy, Absent, Departing, Present, Held
  <2>2. alive' = {} /\ pc' = [pc EXCEPT ![t] = "dropping"]
        /\ UNCHANGED <<mutex, weak, guards, ref>>
    BY <1>10, <2>1 DEF Destroy, Present
  <2>3. Departing'
    BY <1>1, <2>1, <2>2 DEF Departing, Present, LastDestroys
  <2>4. SingletonTypeOK'
    BY <1>1, <2>2 DEF SingletonTypeOK
  <2> QED BY <1>1, <2>1, <2>2, <2>3, <2>4 DEF SingletonInv
<1>11. CASE DropGuard(t)
  <2>1. Departing /\ pc[t] = "dropping"
    BY <1>1, <1>11 DEF DropGuard, Absent, Present
  <2>2. /\ guards' = 0 /\ ref' = [ref EXCEPT ![t] = None]
        /\ pc' = [u \in Threads |->
                    IF u = t THEN "idle"
                    ELSE IF pc[u] = "blocked" THEN "waiting" ELSE pc[u]]
        /\ UNCHANGED <<mutex, weak, alive>>
    BY <1>11, <2>1 DEF DropGuard, Departing
  <2>3. Absent'
    BY <1>1, <2>1, <2>2 DEF Departing, Absent
  <2>4. SingletonTypeOK'
    BY <1>1, <2>2 DEF SingletonTypeOK
  <2>5. \A u \in Threads : (pc[u] \in {"waiting", "blocked"} <=> mutex = u)'
    BY <1>1, <2>1, <2>2
  <2>6. \A u \in Threads : (pc[u] = "blocked" => guards > 0)'
    BY <1>1, <2>2
  <2> QED BY <2>3, <2>4, <2>5, <2>6 DEF SingletonInv
<1> QED BY <1>3, <1>4, <1>5, <1>6, <1>7, <1>8, <1>9, <1>10, <1>11 DEF SingletonStep

\* So does a step that leaves the singleton alone.
LEMMA SingletonUnchanged ==
  ASSUME SingletonInv, UNCHANGED singletonVars
  PROVE  SingletonInv'
BY DEF SingletonInv, SingletonTypeOK, Absent, Present, Departing, Held,
       LastDestroys, singletonVars

\* No object at first.
LEMMA SingletonStarts ==
  ASSUME SingletonInit PROVE SingletonInv
BY SingletonAssumption
   DEF SingletonInit, SingletonInv, SingletonTypeOK, Absent

\* In each of the three phases there is one object at most.
LEMMA SingleInstance ==
  ASSUME SingletonInv PROVE OneInstance
<1> DEFINE D == {u \in Threads : pc[u] = "dropping"}
           R == {ref[t] : t \in D}
<1>1. \A t \in Threads : pc[t] = "blocked" => mutex = t /\ guards > 0
  BY DEF SingletonInv
<1>2. CASE Absent
  <2>1. alive \cup R = {} /\ alive = {}
    BY <1>2 DEF Absent
  <2>2. guards = Cardinality(alive \cup R) /\ Cardinality(alive) <= 1
    BY <1>2, <2>1, FS_EmptySet DEF Absent
  <2> QED BY <1>1, <1>2, <2>2 DEF OneInstance, SingletonInv, Absent
<1>3. CASE Present
  <2>1. alive \cup R = {weak} /\ alive = {weak}
    BY <1>3 DEF Present
  <2>0. Cardinality({weak}) = 1
    BY FS_Singleton
  <2>2. guards = Cardinality(alive \cup R) /\ Cardinality(alive) <= 1
    <3> HIDE DEF R
    <3> QED BY <1>3, <2>1, <2>0 DEF Present
  <2> QED BY <1>1, <1>3, <2>2 DEF OneInstance, SingletonInv, Present
<1>4. CASE Departing
  <2>1. PICK d \in Threads : pc[d] = "dropping"
    BY <1>4 DEF Departing
  <2>2. D = {d}
    BY <1>4, <2>1 DEF Departing
  <2>3. alive \cup R = {ref[d]} /\ alive = {}
    BY <1>4, <2>2 DEF Departing
  <2>0. Cardinality({ref[d]}) = 1 /\ Cardinality({}) = 0
    BY FS_Singleton, FS_EmptySet
  <2>4. guards = Cardinality(alive \cup R) /\ Cardinality(alive) <= 1
    <3> HIDE DEF R
    <3> QED BY <1>4, <2>3, <2>0 DEF Departing
  <2> QED BY <1>1, <1>4, <2>4 DEF OneInstance, SingletonInv, Departing
<1> QED BY <1>2, <1>3, <1>4 DEF SingletonInv

\* What a step of one thread leaves of the others.
LEMMA OthersHold ==
  ASSUME SingletonInv, NEW t \in Threads, SingletonStep(t)
  PROVE  \A u \in Threads \ {t} : pc[u] = "holding" => pc'[u] = "holding"
<1>1. pc \in [Threads -> {"idle", "waiting", "blocked", "holding",
                          "destroying", "dropping"}]
  BY DEF SingletonInv, SingletonTypeOK
<1>2. CASE DropGuard(t)
  BY <1>1, <1>2 DEF DropGuard
<1>3. CASE ~DropGuard(t)
  BY <1>1, <1>3 DEF SingletonStep, GetExisting, GetNew, Blocks, Create,
                    CreateFails, GetNullable, Release, Destroy, Take
<1> QED BY <1>2, <1>3

-----------------------------------------------------------------------------
(* The life of the services.                                               *)

\* Service, without the claim that owed is never negative.
Entry ==
  [at : Stage, objects : SUBSET AnyObject, queued : 0..MaxQueued,
   taken : SUBSET AnyHandler, posted : SUBSET (AnyHandler \X Error),
   owed : Int]

ServiceTypeOK ==
  /\ service \in [Services -> Entry]
  /\ parked \in [AnyObject -> SUBSET AnyHandler]

SystemTypeOK ==
  /\ subscribers \subseteq Services /\ lock \in Signals \cup {None}
  /\ signal \in [Signals -> {"none", "called", "delivering"}]
  /\ todo \in [Signals -> SUBSET Services]

Subscribed == {"subscribed", "built", "running", "stopped", "shut"}

(***************************************************************************)
(* The subscribers are the services between add_subscriber and             *)
(* remove_subscriber, which hold the system_service all the time and       *)
(* longer; and the walk of a signal is over subscribers, who cannot go     *)
(* while it has the lock.                                                  *)
(***************************************************************************)
Attended ==
  /\ \A s \in Services : s \in subscribers <=> service[s].at \in Subscribed
  /\ \A s \in Services :
       service[s].at \in Subscribed \cup {"removed"} => pc[s] = "holding"
  /\ \A t \in Signals : signal[t] = "delivering" => lock = t
  /\ \A t \in Signals : todo[t] # {} => signal[t] = "delivering"
  /\ \A t \in Signals : todo[t] \subseteq subscribers

ConsoleInv == SingletonInv /\ ServiceTypeOK /\ SystemTypeOK /\ Attended

\* The service of s comes to stage a, and no other service moves.
Comes(s, a) ==
  /\ ServiceTypeOK'
  /\ service'[s].at = a
  /\ \A u \in Services \ {s} : service'[u].at = service[u].at

\* A thread of a signal is not one of an io_service.
LEMMA Threading ==
  /\ Services \subseteq Threads /\ Signals \subseteq Threads
  /\ Services \cap Signals = {}
  /\ None \notin Signals
BY ConsoleAssumption, SingletonAssumption DEF Services

\* A service that becomes v comes to the stage of v.
LEMMA Becoming ==
  ASSUME ServiceTypeOK, NEW s \in Services, NEW v \in Entry, Becomes(s, v),
         parked' \in [AnyObject -> SUBSET AnyHandler]
  PROVE  Comes(s, v.at)
BY DEF ServiceTypeOK, Becomes, Comes

\* A new service is not yet there.
LEMMA NewIsEntry == NewService \in Entry /\ NewService.at = "absent"
BY ConsoleAssumption DEF NewService, Entry, Stage

\* async_wait leaves the stage of the service alone.
LEMMA Parking ==
  ASSUME ServiceTypeOK, NEW s \in Services, NEW v \in Entry,
         NEW o \in AnyObject, NEW h \in AnyHandler, Park(s, v, o, h)
  PROVE  Comes(s, v.at)
<1>1. CASE v.at = "shut"
  <2> DEFINE w == [v EXCEPT !.posted = @ \cup {<<h, "aborted">>}]
  <2>1. w \in Entry /\ w.at = v.at
    BY DEF Entry, Error
  <2>2. Becomes(s, w) /\ parked' \in [AnyObject -> SUBSET AnyHandler]
    BY <1>1 DEF Park, ServiceTypeOK
  <2> HIDE DEF w
  <2> QED BY <2>1, <2>2, Becoming
<1>2. CASE v.at # "shut" /\ v.queued > 0
  <2> DEFINE w == [v EXCEPT !.queued = @ - 1,
                            !.posted = @ \cup {<<h, "success">>}]
  <2>0. /\ v.queued - 1 \in 0..MaxQueued
        /\ v.posted \cup {<<h, "success">>} \in SUBSET (AnyHandler \X Error)
    BY <1>2, ConsoleAssumption DEF Entry, Error
  <2>1. w \in Entry /\ w.at = v.at
    BY <2>0 DEF Entry
  <2>2. Becomes(s, w) /\ parked' \in [AnyObject -> SUBSET AnyHandler]
    BY <1>2 DEF Park, ServiceTypeOK
  <2> HIDE DEF w
  <2> QED BY <2>1, <2>2, Becoming
<1>3. CASE v.at # "shut" /\ ~(v.queued > 0)
  <2>1. Becomes(s, v) /\ parked' \in [AnyObject -> SUBSET AnyHandler]
    BY <1>3 DEF Park, ServiceTypeOK
  <2> QED BY <2>1, Becoming
<1> QED BY <1>1, <1>2, <1>3

\* So do destroy and cancel.
LEMMA Aborting ==
  ASSUME ServiceTypeOK, NEW s \in Services, NEW v \in Entry,
         NEW o \in AnyObject, Abort(s, v, o)
  PROVE  Comes(s, v.at)
<1> DEFINE w == [v EXCEPT !.posted = @ \cup (parked[o] \X {"aborted"})]
<1>1. parked[o] \X {"aborted"} \in SUBSET (AnyHandler \X Error)
  BY DEF ServiceTypeOK, Error
<1>2. w \in Entry /\ w.at = v.at
  BY <1>1 DEF Entry
<1>3. Becomes(s, w) /\ parked' \in [AnyObject -> SUBSET AnyHandler]
  BY DEF Abort, ServiceTypeOK
<1> HIDE DEF w
<1> QED BY <1>2, <1>3, Becoming

\* So does deliver_signal of the service.
LEMMA Delivering ==
  ASSUME ServiceTypeOK, NEW s \in Services, Deliver(s)
  PROVE  Comes(s, service[s].at)
<1> DEFINE v == service[s]
           more == IF s \in Guards THEN v.owed + 1 ELSE 0
           taking == [v EXCEPT !.taken = @ \cup Parked(s), !.owed = more]
           queueing == [v EXCEPT !.queued = @ + 1, !.owed = more]
<1>1. v \in Entry /\ more \in Int
  BY DEF ServiceTypeOK, Entry
<1>2. CASE UNCHANGED serviceVars
  BY <1>2 DEF serviceVars, ServiceTypeOK, Comes
<1>3. CASE Becomes(s, taking) /\ parked' = [o \in AnyObject |->
             IF o \in v.objects THEN {} ELSE parked[o]]
  <2>1. Parked(s) \subseteq AnyHandler
    BY <1>1 DEF Parked, ServiceTypeOK, Entry
  <2>2. taking \in Entry /\ taking.at = v.at
    <3> HIDE DEF v, more
    <3> QED BY <1>1, <2>1 DEF Entry
  <2>3. parked' \in [AnyObject -> SUBSET AnyHandler]
    BY <1>3 DEF ServiceTypeOK
  <2> HIDE DEF taking
  <2> QED BY <1>3, <2>2, <2>3, Becoming
<1>4. CASE Becomes(s, v) /\ UNCHANGED parked
  BY <1>1, <1>4, Becoming DEF ServiceTypeOK
<1>5. CASE v.queued # MaxQueued /\ Becomes(s, queueing) /\ UNCHANGED parked
  <2>0. v.queued + 1 \in 0..MaxQueued
    <3> HIDE DEF v
    <3> QED BY <1>1, <1>5, ConsoleAssumption DEF Entry
  <2>1. queueing \in Entry /\ queueing.at = v.at
    <3> HIDE DEF v, more
    <3> QED BY <1>1, <2>0 DEF Entry
  <2> HIDE DEF queueing
  <2> QED BY <1>5, <2>1, Becoming DEF ServiceTypeOK
<1> QED BY <1>2, <1>3, <1>4, <1>5 DEF Deliver
\* A step of a service makes at most one step of the singleton, in its own
\* thread, moves no other service, and keeps the list of the subscribers in
\* agreement with its stage; it leaves the list only while no signal has the
\* lock.
LEMMA ServiceStep ==
  ASSUME ConsoleInv, NEW s \in Services, ServiceNext(s)
  PROVE  /\ SingletonStep(s) \/ UNCHANGED singletonVars
         /\ UNCHANGED signalVars /\ UNCHANGED lock
         /\ \E a \in Stage :
              /\ Comes(s, a)
              /\ a \in Subscribed \cup {"removed"} => pc'[s] = "holding"
              /\ \/ /\ UNCHANGED subscribers
                    /\ a \in Subscribed <=> service[s].at \in Subscribed
                 \/ subscribers' = subscribers \cup {s} /\ a \in Subscribed
                 \/ /\ subscribers' = subscribers \ {s} /\ a \notin Subscribed
                    /\ lock = None
<1> DEFINE at == service[s].at
<1>1. /\ ServiceTypeOK /\ service[s] \in Entry /\ at \in Stage
      /\ at \in Subscribed \cup {"removed"} => pc[s] = "holding"
  BY DEF ConsoleInv, ServiceTypeOK, Attended, Entry
<1>2. s \in Threads
  BY Threading
<1>3. pc \in [Threads -> {"idle", "waiting", "blocked", "holding",
                          "destroying", "dropping"}]
  BY DEF ConsoleInv, SingletonInv, SingletonTypeOK
<1>4. ASSUME UNCHANGED <<singletonVars, systemVars, signalVars>>, Comes(s, at)
      PROVE  /\ SingletonStep(s) \/ UNCHANGED singletonVars
             /\ UNCHANGED signalVars /\ UNCHANGED lock /\ UNCHANGED subscribers
             /\ Comes(s, at)
             /\ at \in Subscribed \cup {"removed"} => pc'[s] = "holding"
  BY <1>1, <1>4 DEF singletonVars, systemVars
<1>5. CASE Construct(s)
  <2> DEFINE v == [NewService EXCEPT !.at = "constructing"]
  <2>1. v \in Entry /\ v.at = "constructing"
    BY NewIsEntry DEF Entry, Stage
  <2>2. Becomes(s, v) /\ parked' = parked
    BY <1>5 DEF Construct
  <2> HIDE DEF v
  <2>3. Comes(s, "constructing")
    BY <1>1, <2>1, <2>2, Becoming DEF ServiceTypeOK
  <2> QED BY <1>1, <1>5, <2>3 DEF Construct, Stage, Subscribed, signalVars
<1>6. CASE Asks(s)
  <2>1. Comes(s, "constructing") /\ at = "constructing"
    BY <1>1, <1>6 DEF Asks, Comes, ServiceTypeOK
  <2>2. SingletonStep(s)
    BY <1>6 DEF Asks, SingletonStep
  <2> QED BY <1>1, <1>6, <2>1, <2>2 DEF Asks, Stage, Subscribed, signalVars
<1>7. CASE Singleton(s)
  <2>1. pc[s] # "holding" /\ SingletonStep(s)
    BY <1>7 DEF Singleton, SingletonStep, Blocks, Create, Destroy, DropGuard,
                CreateFails
  <2>2. CASE CreateFails(s) /\ Becomes(s, NewService)
             /\ UNCHANGED <<parked, subscribers, lock, signal, todo>>
    <3>1. Comes(s, "absent")
      BY <1>1, <2>2, NewIsEntry, Becoming DEF ServiceTypeOK
    <3> QED BY <1>1, <2>1, <2>2, <3>1 DEF Stage, Subscribed, signalVars
  <2>3. CASE UNCHANGED <<service, parked, subscribers, lock, signal, todo>>
    <3>1. Comes(s, at)
      BY <1>1, <2>3 DEF Comes, ServiceTypeOK
    <3> QED BY <1>1, <2>1, <2>3, <3>1 DEF signalVars
  <2> QED BY <1>7, <2>2, <2>3 DEF Singleton
<1>8. CASE Subscribe(s)
  <2> DEFINE a == IF s \in Guards THEN "subscribed" ELSE "running"
             v == [service[s] EXCEPT !.at = a]
  <2>1. a \in Stage /\ a \in Subscribed
    BY DEF Stage, Subscribed
  <2>2. Becomes(s, v) /\ parked' = parked
    BY <1>8 DEF Subscribe
  <2> HIDE DEF a
  <2>3. v \in Entry /\ v.at = a
    BY <1>1, <2>1 DEF Entry
  <2> HIDE DEF v
  <2>4. Comes(s, a)
    BY <1>1, <2>2, <2>3, Becoming DEF ServiceTypeOK
  <2> QED BY <1>8, <2>1, <2>4 DEF Subscribe, signalVars, singletonVars
<1>9. CASE BuildAlerter(s)
  <2> DEFINE v == [service[s] EXCEPT !.at = "built", !.objects = {s}]
  <2>1. s \in AnyObject /\ at = "subscribed"
    BY <1>9 DEF BuildAlerter, AnyObject
  <2>2. v \in Entry /\ v.at = "built"
    BY <1>1, <2>1 DEF Entry, Stage
  <2>3. Becomes(s, v) /\ parked' = parked
    BY <1>9 DEF BuildAlerter
  <2> HIDE DEF v
  <2>4. Comes(s, "built")
    BY <1>1, <2>2, <2>3, Becoming DEF ServiceTypeOK
  <2> QED BY <1>1, <1>9, <2>1, <2>4
          DEF BuildAlerter, Stage, Subscribed, signalVars, systemVars, singletonVars
<1>10. CASE StartWait(s)
  <2> DEFINE v == [service[s] EXCEPT !.at = "running"]
  <2>1. v \in Entry /\ v.at = "running"
    BY <1>1 DEF Entry, Stage
  <2>2. Park(s, v, s, s) /\ s \in AnyObject /\ s \in AnyHandler /\ at = "built"
    BY <1>10 DEF StartWait, AnyObject, AnyHandler
  <2> HIDE DEF v
  <2>3. Comes(s, "running")
    BY <1>1, <2>1, <2>2, Parking
  <2> QED BY <1>1, <1>10, <2>2, <2>3
          DEF StartWait, Stage, Subscribed, signalVars, systemVars, singletonVars
<1>11. CASE StopThreads(s)
  <2> DEFINE v == [service[s] EXCEPT !.at = "stopped"]
  <2>1. v \in Entry /\ v.at = "stopped"
    BY <1>1 DEF Entry, Stage
  <2>2. Becomes(s, v) /\ parked' = parked /\ at = "running"
    BY <1>11 DEF StopThreads
  <2> HIDE DEF v
  <2>3. Comes(s, "stopped")
    BY <1>1, <2>1, <2>2, Becoming DEF ServiceTypeOK
  <2> QED BY <1>1, <1>11, <2>2, <2>3
          DEF StopThreads, Stage, Subscribed, signalVars, systemVars, singletonVars
<1>12. CASE Shutdown(s)
  <2> DEFINE v == [service[s] EXCEPT !.at = "shut"]
  <2>1. v \in Entry /\ v.at = "shut"
    BY <1>1 DEF Entry, Stage
  <2>2. Becomes(s, v) /\ at = "stopped"
    BY <1>12 DEF Shutdown
  <2>3. parked' \in [AnyObject -> SUBSET AnyHandler]
    BY <1>1, <1>12 DEF Shutdown, ServiceTypeOK
  <2> HIDE DEF v
  <2>4. Comes(s, "shut")
    BY <1>1, <2>1, <2>2, <2>3, Becoming
  <2> QED BY <1>1, <1>12, <2>2, <2>4
          DEF Shutdown, Stage, Subscribed, signalVars, systemVars, singletonVars
<1>13. CASE Discard(s)
  <2> DEFINE v == [service[s] EXCEPT !.objects = {}, !.taken = {}, !.posted = {}]
  <2>1. v \in Entry /\ v.at = at
    BY <1>1 DEF Entry
  <2>2. Becomes(s, v) /\ parked' = parked
    BY <1>13 DEF Discard
  <2> HIDE DEF v
  <2>3. Comes(s, at)
    BY <1>1, <2>1, <2>2, Becoming DEF ServiceTypeOK
  <2> QED BY <1>1, <1>4, <1>13, <2>3 DEF Discard
<1>14. CASE Unsubscribe(s)
  <2> DEFINE v == [service[s] EXCEPT !.at = "removed"]
  <2>1. v \in Entry /\ v.at = "removed"
    BY <1>1 DEF Entry, Stage
  <2>2. Becomes(s, v) /\ parked' = parked /\ at = "shut"
    BY <1>14 DEF Unsubscribe
  <2> HIDE DEF v
  <2>3. Comes(s, "removed")
    BY <1>1, <2>1, <2>2, Becoming DEF ServiceTypeOK
  <2> QED BY <1>1, <1>14, <2>2, <2>3
          DEF Unsubscribe, Stage, Subscribed, signalVars, singletonVars
<1>15. CASE LetGo(s)
  <2>1. Becomes(s, NewService) /\ parked' = parked /\ at = "removed"
    BY <1>15 DEF LetGo
  <2>2. Comes(s, "absent")
    BY <1>1, <2>1, NewIsEntry, Becoming DEF ServiceTypeOK
  <2>3. SingletonStep(s)
    BY <1>15 DEF LetGo, SingletonStep
  <2> QED BY <1>1, <1>15, <2>1, <2>2, <2>3
          DEF LetGo, Stage, Subscribed, signalVars, systemVars
<1>16. ASSUME NEW o \in Objects, NewObject(s, o)
       PROVE  Comes(s, at) /\ UNCHANGED <<singletonVars, systemVars, signalVars>>
  <2> DEFINE v == [service[s] EXCEPT !.objects = @ \cup {o}]
  <2>1. v \in Entry /\ v.at = at
    BY <1>1 DEF Entry, AnyObject
  <2>2. Becomes(s, v) /\ parked' = parked
    BY <1>16 DEF NewObject
  <2> HIDE DEF v
  <2> QED BY <1>1, <1>16, <2>1, <2>2, Becoming DEF ServiceTypeOK, NewObject
<1>17. ASSUME NEW o \in Objects, Cancel(s, o)
       PROVE  Comes(s, at) /\ UNCHANGED <<singletonVars, systemVars, signalVars>>
  BY <1>1, <1>17, Aborting DEF Cancel, AnyObject
<1>18. ASSUME NEW o \in AnyObject, DestroyObject(s, o)
       PROVE  Comes(s, at) /\ UNCHANGED <<singletonVars, systemVars, signalVars>>
  <2> DEFINE v == [service[s] EXCEPT !.objects = @ \ {o}]
  <2>1. v \in Entry /\ v.at = at
    BY <1>1 DEF Entry
  <2>2. Abort(s, v, o)
    BY <1>18 DEF DestroyObject
  <2> HIDE DEF v
  <2> QED BY <1>1, <1>18, <2>1, <2>2, Aborting DEF DestroyObject
<1>19. ASSUME NEW o \in Objects, NEW h \in Handlers, AsyncWait(s, o, h)
       PROVE  Comes(s, at) /\ UNCHANGED <<singletonVars, systemVars, signalVars>>
  BY <1>1, <1>19, Parking DEF AsyncWait, AnyObject, AnyHandler
<1>20. ASSUME NEW h \in AnyHandler, Adapt(s, h)
       PROVE  Comes(s, at) /\ UNCHANGED <<singletonVars, systemVars, signalVars>>
  <2> DEFINE v == [service[s] EXCEPT !.taken = @ \ {h},
                                     !.posted = @ \cup {<<h, "success">>}]
  <2>0. service[s].posted \cup {<<h, "success">>} \in SUBSET (AnyHandler \X Error)
    BY <1>1 DEF Entry, Error
  <2>1. v \in Entry /\ v.at = at
    BY <1>1, <2>0 DEF Entry
  <2>2. Becomes(s, v) /\ parked' = parked
    BY <1>20 DEF Adapt
  <2> HIDE DEF v
  <2> QED BY <1>1, <1>20, <2>1, <2>2, Becoming DEF ServiceTypeOK, Adapt
<1>21. ASSUME NEW h \in AnyHandler, NEW error \in Error, Run(s, h, error)
       PROVE  Comes(s, at) /\ UNCHANGED <<singletonVars, systemVars, signalVars>>
  <2> DEFINE v == [service[s] EXCEPT !.posted = @ \ {<<h, error>>}]
             g == [v EXCEPT !.owed = @ - 1]
  <2>1. v \in Entry /\ v.at = at
    BY <1>1 DEF Entry
  <2>2. \/ s \in Guards /\ Park(s, g, s, s)
        \/ Becomes(s, v) /\ UNCHANGED parked
    BY <1>21 DEF Run
  <2> HIDE DEF v
  <2>3. g \in Entry /\ g.at = at
    BY <2>1 DEF Entry
  <2> HIDE DEF g
  <2>4. s \in Guards /\ Park(s, g, s, s) => Comes(s, at)
    BY <1>1, <2>3, Parking DEF AnyObject, AnyHandler
  <2>5. Becomes(s, v) /\ UNCHANGED parked => Comes(s, at)
    BY <1>1, <2>1, Becoming DEF ServiceTypeOK
  <2> QED BY <1>21, <2>2, <2>4, <2>5 DEF Run
<1>22. CASE Comes(s, at) /\ UNCHANGED <<singletonVars, systemVars, signalVars>>
  BY <1>1, <1>4, <1>22
<1> QED
  BY <1>5, <1>6, <1>7, <1>8, <1>11, <1>12, <1>13, <1>14, <1>15, <1>16, <1>17,
     <1>18, <1>19, <1>20, <1>21, <1>22, <1>9, <1>10 DEF ServiceNext
\* The initial states satisfy the invariant.
LEMMA Starts == Init => ConsoleInv
<1> SUFFICES ASSUME Init PROVE ConsoleInv
  OBVIOUS
<1>1. SingletonInv
  BY SingletonStarts DEF Init
<1>2. ServiceTypeOK
  BY NewIsEntry DEF Init, ServiceTypeOK
<1>3. SystemTypeOK
  BY DEF Init, SystemTypeOK
<1>4. Attended
  BY NewIsEntry DEF Init, Attended, Subscribed
<1> QED BY <1>1, <1>2, <1>3, <1>4 DEF ConsoleInv

\* The steps of the io_services keep the invariant.
LEMMA ServiceKeeps ==
  ASSUME ConsoleInv, NEW s \in Services, ServiceNext(s)
  PROVE  ConsoleInv'
<1>1. PICK a \in Stage :
        /\ Comes(s, a)
        /\ a \in Subscribed \cup {"removed"} => pc'[s] = "holding"
        /\ \/ /\ UNCHANGED subscribers
              /\ a \in Subscribed <=> service[s].at \in Subscribed
           \/ subscribers' = subscribers \cup {s} /\ a \in Subscribed
           \/ /\ subscribers' = subscribers \ {s} /\ a \notin Subscribed
              /\ lock = None
  BY ServiceStep
<1>2. /\ SingletonStep(s) \/ UNCHANGED singletonVars
      /\ UNCHANGED <<signal, todo, lock>>
  BY ServiceStep DEF signalVars
<1>3. SingletonInv'
  BY <1>2, Threading, SingletonKept, SingletonUnchanged DEF ConsoleInv
<1>4. \A u \in Services \ {s} : pc[u] = "holding" => pc'[u] = "holding"
  BY <1>2, Threading, OthersHold DEF ConsoleInv, singletonVars
<1>5. ServiceTypeOK' /\ SystemTypeOK'
  BY <1>1, <1>2 DEF Comes, ConsoleInv, SystemTypeOK
<1>6. Attended'
  <2>1. \A u \in Services : (u \in subscribers <=> service[u].at \in Subscribed)'
    BY <1>1 DEF Comes, ConsoleInv, Attended
  <2>2. \A u \in Services :
          (service[u].at \in Subscribed \cup {"removed"} => pc[u] = "holding")'
    BY <1>1, <1>4 DEF Comes, ConsoleInv, Attended
  <2>3. \A t \in Signals : (todo[t] \subseteq subscribers)'
    <3>1. CASE subscribers \subseteq subscribers'
      BY <1>2, <3>1 DEF ConsoleInv, Attended
    <3>2. CASE lock = None
      BY <1>2, <3>2, Threading DEF ConsoleInv, Attended
    <3> QED BY <1>1, <3>1, <3>2
  <2> QED BY <1>2, <2>1, <2>2, <2>3 DEF ConsoleInv, Attended
<1> QED BY <1>3, <1>5, <1>6 DEF ConsoleInv

\* So do the steps of the threads in which Windows calls.
LEMMA SignalKeeps ==
  ASSUME ConsoleInv, NEW t \in Signals, SignalNext(t)
  PROVE  ConsoleInv'
<1>1. ServiceTypeOK /\ SystemTypeOK /\ Attended /\ SingletonInv
  BY DEF ConsoleInv
<1>2. t \in Threads /\ t \notin Services
  BY Threading
<1>3. pc \in [Threads -> {"idle", "waiting", "blocked", "holding",
                          "destroying", "dropping"}]
  BY <1>1 DEF SingletonInv, SingletonTypeOK
<1>4. ASSUME SingletonStep(t) \/ UNCHANGED singletonVars
      PROVE  /\ SingletonInv'
             /\ \A s \in Services : pc[s] = "holding" => pc'[s] = "holding"
  BY <1>1, <1>2, <1>4, Threading, SingletonKept, SingletonUnchanged, OthersHold
     DEF singletonVars
<1>5. CASE SignalCalls(t)
  <2>1. SingletonInv'
    BY <1>4, <1>5 DEF SignalCalls
  <2>2. ServiceTypeOK' /\ SystemTypeOK'
    BY <1>1, <1>5 DEF SignalCalls, serviceVars, systemVars, ServiceTypeOK, SystemTypeOK
  <2>3. Attended'
    BY <1>1, <1>5
    DEF SignalCalls, serviceVars, systemVars, singletonVars, SystemTypeOK, Attended
  <2> QED BY <2>1, <2>2, <2>3 DEF ConsoleInv
<1>6. CASE SignalGets(t)
  <2>1. /\ SingletonInv'
        /\ \A s \in Services : pc[s] = "holding" => pc'[s] = "holding"
    BY <1>4, <1>6 DEF SignalGets, SingletonStep
  <2>2. ServiceTypeOK' /\ SystemTypeOK'
    BY <1>1, <1>6 DEF SignalGets, serviceVars, systemVars, ServiceTypeOK, SystemTypeOK
  <2>3. Attended'
    BY <1>1, <1>6, <2>1
    DEF SignalGets, serviceVars, systemVars, SystemTypeOK, Attended
  <2> QED BY <2>1, <2>2, <2>3 DEF ConsoleInv
<1>7. CASE SignalLocks(t)
  <2>1. SingletonInv'
    BY <1>4, <1>7 DEF SignalLocks
  <2>2. ServiceTypeOK' /\ SystemTypeOK'
    BY <1>1, <1>7 DEF SignalLocks, serviceVars, ServiceTypeOK, SystemTypeOK
  <2>3. \A u \in Signals : signal[u] # "delivering"
    BY <1>1, <1>7, Threading DEF SignalLocks, Attended
  <2>4. Attended'
    BY <1>1, <1>7, <2>3
    DEF SignalLocks, serviceVars, singletonVars, SystemTypeOK, Attended
  <2> QED BY <2>1, <2>2, <2>4 DEF ConsoleInv
<1>8. ASSUME NEW s \in Services, SignalDelivers(t, s)
      PROVE  ConsoleInv'
  <2>1. SingletonInv'
    BY <1>4, <1>8 DEF SignalDelivers
  <2>2. Comes(s, service[s].at)
    BY <1>1, <1>8, Delivering DEF SignalDelivers
  <2>3. ServiceTypeOK' /\ SystemTypeOK'
    BY <1>1, <1>8, <2>2 DEF Comes, SignalDelivers, systemVars, SystemTypeOK
  <2>4. \A u \in Services : service'[u].at = service[u].at
    BY <2>2 DEF Comes
  <2>5. Attended'
    BY <1>1, <1>8, <2>4
    DEF SignalDelivers, systemVars, singletonVars, SystemTypeOK, Attended
  <2> QED BY <2>1, <2>3, <2>5 DEF ConsoleInv
<1>9. CASE SignalReturns(t)
  <2>1. /\ SingletonInv'
        /\ \A s \in Services : pc[s] = "holding" => pc'[s] = "holding"
    BY <1>4, <1>9 DEF SignalReturns, SingletonStep
  <2>2. ServiceTypeOK' /\ SystemTypeOK'
    BY <1>1, <1>9 DEF SignalReturns, serviceVars, ServiceTypeOK, SystemTypeOK
  <2>3. \A u \in Signals \ {t} : signal[u] # "delivering"
    BY <1>1, <1>9 DEF SignalReturns, Attended
  <2>4. Attended'
    BY <1>1, <1>9, <2>1, <2>3
    DEF SignalReturns, serviceVars, SystemTypeOK, Attended
  <2> QED BY <2>1, <2>2, <2>4 DEF ConsoleInv
<1>10. CASE SignalDestroys(t)
  <2>1. /\ SingletonInv'
        /\ \A s \in Services : pc[s] = "holding" => pc'[s] = "holding"
    BY <1>4, <1>10 DEF SignalDestroys, SingletonStep
  <2>2. ServiceTypeOK' /\ SystemTypeOK'
    BY <1>1, <1>10
    DEF SignalDestroys, serviceVars, systemVars, signalVars, ServiceTypeOK, SystemTypeOK
  <2>3. Attended'
    BY <1>1, <1>10, <2>1
    DEF SignalDestroys, serviceVars, systemVars, signalVars, SystemTypeOK, Attended
  <2> QED BY <2>1, <2>2, <2>3 DEF ConsoleInv
<1> QED BY <1>5, <1>6, <1>7, <1>8, <1>9, <1>10 DEF SignalNext

\* Nothing that the services, the signals and their handlers do breaks what
\* keeps the instance unique and its subscribers alive.
THEOREM Invariant == Spec => []ConsoleInv
<1>1. Init => ConsoleInv
  BY Starts
<1>2. ConsoleInv /\ [Next]_vars => ConsoleInv'
  <2>1. ASSUME ConsoleInv, Next PROVE ConsoleInv'
    BY <2>1, ServiceKeeps, SignalKeeps DEF Next
  <2>2. ASSUME ConsoleInv, UNCHANGED vars PROVE ConsoleInv'
    <3>1. SingletonInv'
      BY <2>2, SingletonUnchanged DEF ConsoleInv, vars, singletonVars
    <3>2. ServiceTypeOK' /\ SystemTypeOK'
      BY <2>2 DEF ConsoleInv, vars, ServiceTypeOK, SystemTypeOK
    <3>3. Attended'
      BY <2>2 DEF ConsoleInv, vars, Attended
    <3> QED BY <3>1, <3>2, <3>3 DEF ConsoleInv
  <2> QED BY <2>1, <2>2
<1> QED BY <1>1, <1>2, PTL DEF Spec

\* get_instance never makes a second system_service, not even while the last
\* one is in its destructor in another thread: for every number of threads.
THEOREM Unique == Spec => []OneInstance
<1>1. ConsoleInv => OneInstance
  BY SingleInstance DEF ConsoleInv
<1> QED BY <1>1, Invariant, PTL

\* deliver_signal of the system_service visits only console_signal_services
\* that are not past remove_subscriber, and the system_service outlives its
\* subscribers: for every number of io_services and of signals at once.
THEOREM VisitsTheLiving == Spec => []DeliversToTheLiving
<1>1. ConsoleInv => DeliversToTheLiving
  <2> SUFFICES ASSUME ConsoleInv PROVE DeliversToTheLiving
    OBVIOUS
  <2>1. OneInstance
    BY SingleInstance DEF ConsoleInv
  <2>2. \A t \in Signals : \A s \in todo[t] :
          s \in Services /\ service[s].at \in Subscribed
    BY DEF ConsoleInv, Attended, SystemTypeOK
  <2>3. \A s \in subscribers : s \in Threads /\ pc[s] = "holding"
    BY Threading DEF ConsoleInv, Attended, SystemTypeOK
  <2>4. \A s \in subscribers : pc[s] = "holding" /\ ref[s] \in alive
    BY <2>1, <2>3 DEF OneInstance
  <2> QED BY <2>2, <2>4 DEF DeliversToTheLiving, Subscribed
<1> QED BY <1>1, Invariant, PTL

-----------------------------------------------------------------------------
(***************************************************************************)
(* Where the handlers and the signals are.  SignalsNotLost is not          *)
(* inductive: it counts the places of a handler without saying that the    *)
(* services keep to their own handlers and objects, and the signals owed   *)
(* to a guard without saying which of its states goes with them.  HeardInv *)
(* says both: each handler lies in one place, among those of its service;  *)
(* no two services have an object; a guard that has its object and does    *)
(* not wait yet is owed what is queued; the handler of one that runs waits *)
(* with no signal owed, or is on its way with the one that is not queued;  *)
(* and a service has nothing before it has an object, and nobody waits in  *)
(* one that is shut down or has a signal queued.                           *)
(***************************************************************************)

\* The objects and the handlers that a service can have.

ObjectsOf(s) == IF s \in Guards THEN {s} ELSE Objects
HandlersOf(s) == IF s \in Guards THEN {s} ELSE Handlers

\* Handler h is in the list of object w, in a post_adapter that service w
\* posted, or posted by it with an error.
Lies(h, k, w) ==
  \/ k = "parked" /\ w \in AnyObject /\ h \in parked[w]
  \/ k = "taken" /\ w \in Services /\ h \in service[w].taken
  \/ k \in Error /\ w \in Services /\ <<h, k>> \in service[w].posted

\* A handler lies in one place at most.
Once ==
  \A h, i, j, v, w : Lies(h, i, v) /\ Lies(h, j, w) => i = j /\ v = w

\* The handler of guard g waits with p, or is on its way with one signal more
\* than are queued.
Waiting(g, v, p) ==
  /\ v.objects = {g}
  /\ \/ p = {g} /\ v.taken = {} /\ v.posted = {} /\ v.queued = 0 /\ v.owed = 0
     \/ p = {} /\ v.taken = {g} /\ v.posted = {} /\ v.owed = v.queued + 1
     \/ p = {} /\ v.taken = {} /\ v.posted = {<<g, "success">>} /\ v.owed = v.queued + 1

\* Nobody waits yet for the signals of guard g.
Unheard(g, v) ==
  v.objects = {g} /\ v.taken = {} /\ v.posted = {} /\ v.owed = v.queued

\* What holds of service s, which is v, whatever the others do; lists are
\* those of the objects.
Alone(s, v, lists) ==
  /\ v.objects \subseteq ObjectsOf(s) /\ v.taken \subseteq HandlersOf(s)
  /\ v.posted \subseteq HandlersOf(s) \X Error /\ v.owed \in Nat
  /\ v.at \in {"absent", "constructing", "subscribed"} =>
        v.objects = {} /\ v.queued = 0 /\ v.taken = {} /\ v.posted = {} /\ v.owed = 0
  /\ v.at \in {"built", "shut", "removed"} => (\A o \in v.objects : lists[o] = {})
  /\ v.queued > 0 => (\A o \in v.objects : lists[o] = {})
  /\ s \in Guards /\ v.at = "built" => Unheard(s, v)
  /\ s \in Guards /\ v.at = "running" => Waiting(s, v, lists[s])

\* The objects and the parked handlers have their place.
Placed ==
  /\ \A s, u \in Services : s # u => service[s].objects \cap service[u].objects = {}
  /\ \A o \in AnyObject : parked[o] \subseteq HandlersOf(o)
  /\ \A o \in AnyObject : parked[o] # {} => \E s \in Services : o \in service[s].objects

Sorted == Placed /\ \A s \in Services : Alone(s, service[s], parked)
HeardInv == ServiceTypeOK /\ Sorted /\ Once

\* Service s becomes v; only the lists of its own objects change; what is
\* left with handlers is still an object of s.
Moves(s, v) ==
  /\ Becomes(s, v) /\ parked' \in [AnyObject -> SUBSET AnyHandler]
  /\ \A o \in AnyObject \ (service[s].objects \cup v.objects) : parked'[o] = parked[o]
  /\ \A o \in v.objects \ service[s].objects : \A u \in Services : o \notin service[u].objects
  /\ \A o \in service[s].objects \cup v.objects : parked'[o] \subseteq HandlersOf(o)
  /\ \A o \in service[s].objects \ v.objects : parked'[o] = {}
  /\ Alone(s, v, parked')

\* The other services do not notice.
LEMMA Framing ==
  ASSUME ServiceTypeOK, Sorted, NEW s \in Services, NEW v \in Entry, Moves(s, v)
  PROVE  Sorted'
<1>1. service' \in [Services -> Entry] /\ service'[s] = v
      /\ \A u \in Services \ {s} : service'[u] = service[u]
  BY DEF ServiceTypeOK, Moves, Becomes
<1>2. /\ service \in [Services -> Entry]
      /\ \A u \in Services : service[u].objects \subseteq AnyObject
      /\ v.objects \subseteq AnyObject
  BY DEF ServiceTypeOK, Entry
<1>3. \A u \in Services \ {s} :
        /\ service[u].objects \cap (service[s].objects \cup v.objects) = {}
        /\ \A o \in service[u].objects : parked'[o] = parked[o]
  BY <1>2 DEF Sorted, Placed, Moves
<1>4. Placed'
  <2>1. \A t, u \in Services : t # u => service'[t].objects \cap service'[u].objects = {}
    BY <1>1, <1>3 DEF Sorted, Placed
  <2>2. \A o \in AnyObject : parked'[o] \subseteq HandlersOf(o)
    BY DEF Sorted, Placed, Moves
  <2>3. ASSUME NEW o \in AnyObject, parked'[o] # {}
        PROVE  \E u \in Services : o \in service'[u].objects
    <3>1. CASE o \in v.objects
      BY <1>1, <3>1
    <3>2. CASE o \notin v.objects
      <4>1. o \notin service[s].objects /\ parked[o] # {}
        BY <2>3, <3>2 DEF Moves
      <4>2. PICK u \in Services : o \in service[u].objects
        BY <4>1 DEF Sorted, Placed
      <4> QED BY <1>1, <4>1, <4>2
    <3> QED BY <3>1, <3>2
  <2> QED BY <2>1, <2>2, <2>3 DEF Placed
<1>5. ASSUME NEW u \in Services PROVE Alone(u, service'[u], parked')
  <2>1. CASE u = s
    BY <1>1, <2>1 DEF Moves
  <2>2. CASE u # s
    <3>1. Alone(u, service[u], parked) /\ service'[u] = service[u]
      BY <1>1, <2>2 DEF Sorted
    <3>2. \A o \in service[u].objects : parked'[o] = parked[o]
      BY <1>3, <2>2
    <3>3. u \in Guards /\ service[u].at = "running" => Waiting(u, service[u], parked'[u])
      BY <3>1, <3>2 DEF Alone, Waiting
    <3> QED BY <3>1, <3>2, <3>3 DEF Alone
  <2> QED BY <2>1, <2>2
<1> QED BY <1>4, <1>5 DEF Sorted

\* The handlers of H go to one place, and no other handler to a new one.
LEMMA Going ==
  ASSUME Once, NEW H, NEW k, NEW w,
         \A h, i, v : h \notin H /\ Lies(h, i, v)' => Lies(h, i, v),
         \A h, i, v : h \in H /\ Lies(h, i, v)' => i = k /\ v = w
  PROVE  Once'
BY DEF Once

\* The services after one of them becomes v.
LEMMA Fields ==
  ASSUME ServiceTypeOK, NEW s \in Services, NEW v \in Entry, Becomes(s, v)
  PROVE  /\ service'[s] = v /\ service[s] \in Entry
         /\ \A u \in Services \ {s} : service'[u] = service[u]
BY DEF ServiceTypeOK, Becomes

\* A service that forgets handlers moves none.
LEMMA Forgetting ==
  ASSUME HeardInv, NEW s \in Services, NEW v \in Entry, Moves(s, v),
         v.taken \subseteq service[s].taken, v.posted \subseteq service[s].posted,
         \A o \in AnyObject : parked'[o] \subseteq parked[o]
  PROVE  HeardInv'
<1>1. ServiceTypeOK' /\ Sorted'
  BY Framing, Becoming DEF HeardInv, Moves, Comes
<1>2. \A h, i, u : Lies(h, i, u)' => Lies(h, i, u)
  BY Fields DEF HeardInv, Moves, Lies
<1>3. Once'
  BY <1>2 DEF HeardInv, Once
<1> QED BY <1>1, <1>3 DEF HeardInv

\* An object belongs to one kind of service, and so do its handlers.
LEMMA Kinds ==
  /\ \A s \in Guards : s \in Services /\ s \in AnyObject /\ s \in AnyHandler
  /\ \A o \in Objects : HandlersOf(o) = Handlers
  /\ \A s \in Services : \A o \in ObjectsOf(s) : HandlersOf(o) = HandlersOf(s)
  /\ \A s, u \in Services : s \in Guards /\ s \in HandlersOf(u) => u = s
  /\ \A s \in Guards : \A o \in AnyObject : s \in HandlersOf(o) => o = s
BY ConsoleAssumption
   DEF Services, AnyObject, AnyHandler, ObjectsOf, HandlersOf

\* Handler h is nowhere once service s is v.
Gone(h, s, v) ==
  /\ \A o \in AnyObject : h \notin parked[o]
  /\ \A u \in Services \ {s} : h \notin service[u].taken
  /\ \A u \in Services \ {s} : \A e \in Error : <<h, e>> \notin service[u].posted
  /\ h \notin v.taken /\ \A e \in Error : <<h, e>> \notin v.posted

\* async_wait of a handler that is nowhere, in a service that runs.
LEMMA Waits ==
  ASSUME HeardInv, NEW s \in Services, NEW v \in Entry, NEW o \in AnyObject, NEW h \in AnyHandler,
         Park(s, v, o, h), Gone(h, s, v), v.at = "running",
         v.taken \subseteq service[s].taken, v.posted \subseteq service[s].posted,
         v.objects \subseteq ObjectsOf(s), o \in v.objects, h \in HandlersOf(s),
         service[s].objects \subseteq v.objects,
         \A x \in v.objects \ service[s].objects : \A u \in Services : x \notin service[u].objects,
         v.owed \in Nat,
         v.queued > 0 => \A x \in v.objects : parked[x] = {},
         s \in Guards => /\ v.objects = {s} /\ v.taken = {} /\ v.posted = {}
                         /\ parked[s] = {} /\ v.owed = v.queued
  PROVE  HeardInv'
<1>1. /\ ServiceTypeOK /\ Sorted /\ Once /\ Placed /\ v.queued \in Nat
      /\ v.objects \subseteq AnyObject
  BY DEF HeardInv, Sorted, Entry
<1>2. Alone(s, service[s], parked)
  BY DEF HeardInv, Sorted
<1>3. v.taken \subseteq HandlersOf(s) /\ v.posted \subseteq HandlersOf(s) \X Error
  BY <1>2 DEF Alone
<1>4. HandlersOf(o) = HandlersOf(s) /\ \A x \in AnyObject : parked[x] \subseteq HandlersOf(x)
  BY <1>1, Kinds DEF Placed
<1>5. CASE v.queued > 0
  <2> DEFINE w == [v EXCEPT !.queued = @ - 1, !.posted = @ \cup {<<h, "success">>}]
  <2>0. /\ v.queued - 1 \in Nat /\ v.queued - 1 \in 0..MaxQueued
        /\ v.posted \cup {<<h, "success">>} \in SUBSET (AnyHandler \X Error)
    BY <1>5, ConsoleAssumption DEF Entry, Error
  <2>1. /\ Becomes(s, w) /\ parked' = parked
    BY <1>5 DEF Park
  <2>2. w \in Entry /\ w.at = v.at /\ w.objects = v.objects /\ w.queued = v.queued - 1
        /\ w.taken = v.taken /\ w.posted = v.posted \cup {<<h, "success">>} /\ w.owed = v.owed
    BY <2>0 DEF Entry
  <2> HIDE DEF w
  <2>3. s \in Guards => h = s
    BY DEF HandlersOf
  <2>4. s \in Guards => Waiting(s, w, parked'[s])
    BY <1>1, <2>1, <2>2, <2>3 DEF Waiting
  <2>5. Alone(s, w, parked')
    BY <1>1, <1>3, <1>5, <2>0, <2>1, <2>2, <2>4 DEF Alone, Error
  <2>6. Moves(s, w)
    BY <1>1, <1>4, <2>1, <2>2, <2>5 DEF Moves, ServiceTypeOK
  <2>7. ServiceTypeOK' /\ Sorted'
    BY <1>1, <2>2, <2>6, Framing, Becoming DEF Moves, Comes
  <2>8. /\ service'[s] = w
        /\ \A u \in Services \ {s} : service'[u] = service[u]
    BY <1>1, <2>1, <2>2, Fields
  <2>9. \A g, i, u : g # h /\ Lies(g, i, u)' => Lies(g, i, u)
    BY <2>1, <2>2, <2>8 DEF Lies
  <2>10. \A i, u : Lies(h, i, u)' => i = "success" /\ u = s
    BY <2>1, <2>2, <2>8 DEF Lies, Gone
  <2>11. Once'
    BY <1>1, <2>9, <2>10 DEF Once
  <2> QED BY <2>7, <2>11 DEF HeardInv
<1>6. CASE v.queued = 0
  <2>1. /\ Becomes(s, v) /\ parked' = [parked EXCEPT ![o] = @ \cup {h}]
    BY <1>6 DEF Park
  <2>2. /\ \A x \in AnyObject \ {o} : parked'[x] = parked[x]
        /\ parked'[o] = parked[o] \cup {h}
        /\ parked' \in [AnyObject -> SUBSET AnyHandler]
    BY <1>1, <2>1 DEF ServiceTypeOK
  <2>3. s \in Guards => h = s /\ o = s
    BY DEF HandlersOf
  <2>4. s \in Guards => Waiting(s, v, parked'[s])
    BY <1>1, <1>6, <2>2, <2>3 DEF Waiting
  <2>5. Alone(s, v, parked')
    BY <1>1, <1>3, <1>6, <2>4 DEF Alone
  <2>6. Moves(s, v)
    BY <1>1, <1>4, <2>1, <2>2, <2>5 DEF Moves
  <2>7. ServiceTypeOK' /\ Sorted'
    BY <1>1, <2>6, Framing, Becoming DEF Moves, Comes
  <2>8. /\ service'[s] = v
        /\ \A u \in Services \ {s} : service'[u] = service[u]
    BY <1>1, <2>1, Fields
  <2>9. \A g, i, u : g # h /\ Lies(g, i, u)' => Lies(g, i, u)
    BY <2>2, <2>8 DEF Lies
  <2>10. \A i, u : Lies(h, i, u)' => i = "parked" /\ u = o
    BY <2>2, <2>8 DEF Lies, Gone
  <2>11. Once'
    BY <1>1, <2>9, <2>10 DEF Once
  <2> QED BY <2>7, <2>11 DEF HeardInv
<1> QED BY <1>1, <1>5, <1>6

\* destroy and cancel.
LEMMA Aborts ==
  ASSUME HeardInv, NEW s \in Services, NEW v \in Entry, NEW o \in AnyObject,
         Abort(s, v, o), o \in service[s].objects,
         s \in Guards => service[s].at = "stopped",
         v.at = service[s].at, v.queued = service[s].queued, v.owed = service[s].owed,
         v.taken = service[s].taken, v.posted = service[s].posted,
         v.objects \in {service[s].objects, service[s].objects \ {o}}
  PROVE  HeardInv'
<1> DEFINE w == [v EXCEPT !.posted = @ \cup (parked[o] \X {"aborted"})]
<1>1. /\ ServiceTypeOK /\ Sorted /\ Once /\ Placed
      /\ service[s] \in Entry
  BY DEF HeardInv, Sorted, ServiceTypeOK
<1>2. Alone(s, service[s], parked)
  BY DEF HeardInv, Sorted
<1>3. parked[o] \subseteq HandlersOf(s) /\ \A x \in AnyObject : parked[x] \subseteq HandlersOf(x)
  BY <1>1, <1>2, Kinds DEF Placed, Alone
<1>4. parked[o] \X {"aborted"} \in SUBSET (AnyHandler \X Error)
  BY <1>1 DEF ServiceTypeOK, Error
<1>5. w \in Entry /\ w.at = v.at /\ w.objects = v.objects /\ w.queued = v.queued
        /\ w.taken = v.taken /\ w.owed = v.owed
        /\ w.posted = v.posted \cup (parked[o] \X {"aborted"})
  BY <1>4 DEF Entry
<1>6. Becomes(s, w) /\ parked' = [parked EXCEPT ![o] = {}]
  BY DEF Abort
<1> HIDE DEF w
<1>7. /\ \A x \in AnyObject \ {o} : parked'[x] = parked[x]
      /\ parked'[o] = {}
      /\ parked' \in [AnyObject -> SUBSET AnyHandler]
  BY <1>1, <1>6 DEF ServiceTypeOK
<1>8. parked[o] \X {"aborted"} \subseteq HandlersOf(s) \X Error
  BY <1>3 DEF Error
<1>9. service[s].at \in {"absent", "constructing", "subscribed"} => parked[o] \X {"aborted"} = {}
  BY <1>2 DEF Alone
<1>10. v.objects \subseteq service[s].objects /\ v.objects \subseteq AnyObject
  BY DEF Entry
<1>11. Alone(s, w, parked')
  BY <1>2, <1>5, <1>7, <1>8, <1>9, <1>10 DEF Alone
<1>12. Moves(s, w)
  BY <1>1, <1>3, <1>5, <1>6, <1>7, <1>10, <1>11 DEF Moves
<1>13. ServiceTypeOK' /\ Sorted'
  BY <1>1, <1>5, <1>12, Framing, Becoming DEF Moves, Comes
<1>14. /\ service'[s] = w
       /\ \A u \in Services \ {s} : service'[u] = service[u]
  BY <1>1, <1>5, <1>6, Fields
<1>15. \A g, i, u : g \notin parked[o] /\ Lies(g, i, u)' => Lies(g, i, u)
  BY <1>5, <1>7, <1>14 DEF Lies
<1>16. \A g : g \in parked[o] => Lies(g, "parked", o)
  BY DEF Lies
<1>17. \A g, i, u : g \in parked[o] /\ Lies(g, i, u) => i = "parked" /\ u = o
  BY <1>1, <1>16 DEF Once
<1>18. \A g, i, u : Lies(g, i, u)' => Lies(g, i, u) \/ (i = "aborted" /\ u = s)
  BY <1>5, <1>7, <1>14 DEF Lies
<1>19. \A g : ~Lies(g, "parked", o)'
  BY <1>7 DEF Lies, Error
<1>20. \A g, i, u : g \in parked[o] /\ Lies(g, i, u)' => i = "aborted" /\ u = s
  BY <1>17, <1>18, <1>19
<1>21. Once'
  BY <1>1, <1>15, <1>20, Going
<1> QED BY <1>13, <1>21 DEF HeardInv

\* What moves neither a service nor a list.
LEMMA Quiet ==
  ASSUME HeardInv, UNCHANGED serviceVars
  PROVE  HeardInv'
BY DEF serviceVars, HeardInv, ServiceTypeOK, Sorted, Placed, Alone, Waiting, Once, Lies

\* deliver_signal of a service.
LEMMA Delivers ==
  ASSUME HeardInv, NEW s \in Services, Deliver(s)
  PROVE  HeardInv'
<1> DEFINE v == service[s]
           more == IF s \in Guards THEN v.owed + 1 ELSE 0
           taking == [v EXCEPT !.taken = @ \cup Parked(s), !.owed = more]
           queueing == [v EXCEPT !.queued = @ + 1, !.owed = more]
<1>1. /\ ServiceTypeOK /\ Sorted /\ Once /\ Placed
      /\ v \in Entry /\ v.queued \in Nat
      /\ v.objects \subseteq AnyObject
  BY DEF HeardInv, Sorted, ServiceTypeOK, Entry
<1>2. Alone(s, v, parked)
  BY DEF HeardInv, Sorted
<1>3. Parked(s) \subseteq HandlersOf(s) /\ \A x \in AnyObject : parked[x] \subseteq HandlersOf(x)
  BY <1>1, <1>2, Kinds DEF Placed, Alone, Parked
<1>4. more \in Nat /\ (s \in Guards => more = v.owed + 1)
  BY <1>2 DEF Alone
<1>5. Parked(s) \subseteq AnyHandler
  BY <1>1 DEF Parked, ServiceTypeOK
<1>6. \/ UNCHANGED serviceVars
      \/ /\ Parked(s) # {} /\ v.objects # {} /\ v.at # "shut" /\ Becomes(s, taking)
         /\ parked' = [o \in AnyObject |-> IF o \in v.objects THEN {} ELSE parked[o]]
      \/ /\ Parked(s) = {} /\ Becomes(s, v) /\ UNCHANGED parked
      \/ /\ Parked(s) = {} /\ v.objects # {} /\ v.at # "shut" /\ v.queued # MaxQueued
         /\ Becomes(s, queueing) /\ UNCHANGED parked
  BY DEF Deliver
<1>7. taking \in Entry /\ taking.at = v.at /\ taking.objects = v.objects
      /\ taking.queued = v.queued /\ taking.taken = v.taken \cup Parked(s)
      /\ taking.posted = v.posted /\ taking.owed = more
  <2> HIDE DEF v, more
  <2>1. v.taken \cup Parked(s) \in SUBSET AnyHandler
    BY <1>1, <1>5 DEF Entry
  <2>2. more \in Int
    BY <1>4
  <2> QED BY <1>1, <2>1, <2>2 DEF Entry
<1>8. ASSUME v.queued # MaxQueued
      PROVE  queueing \in Entry /\ queueing.at = v.at /\ queueing.objects = v.objects
             /\ queueing.queued = v.queued + 1 /\ queueing.taken = v.taken
             /\ queueing.posted = v.posted /\ queueing.owed = more
  <2> HIDE DEF v, more
  <2>1. v.queued + 1 \in 0..MaxQueued
    BY <1>1, <1>8, ConsoleAssumption DEF Entry
  <2>2. more \in Int
    BY <1>4
  <2> QED BY <1>1, <2>1, <2>2 DEF Entry
<1> HIDE DEF taking, queueing, more
<1>9. CASE UNCHANGED serviceVars
  BY <1>9, Quiet
<1>10. CASE /\ Parked(s) # {} /\ v.objects # {} /\ v.at # "shut" /\ Becomes(s, taking)
            /\ parked' = [o \in AnyObject |-> IF o \in v.objects THEN {} ELSE parked[o]]
  <2>0. /\ \A o \in AnyObject \ v.objects : parked'[o] = parked[o]
        /\ \A o \in AnyObject : o \in v.objects => parked'[o] = {}
        /\ parked' \in [AnyObject -> SUBSET AnyHandler]
    BY <1>1, <1>10 DEF ServiceTypeOK
  <2>1. ~(v.queued > 0) /\ v.at \notin {"absent", "constructing", "subscribed", "built", "removed"}
    BY <1>2, <1>10 DEF Alone, Parked
  <2>2. s \in Guards /\ v.at = "running" => Waiting(s, taking, parked'[s])
    <3> SUFFICES ASSUME s \in Guards, v.at = "running" PROVE Waiting(s, taking, parked'[s])
      OBVIOUS
    <3>1. Waiting(s, v, parked[s])
      BY <1>2 DEF Alone
    <3>2. Parked(s) = parked[s]
      BY <3>1 DEF Waiting, Parked
    <3>3. parked[s] = {s} /\ v.taken = {} /\ v.posted = {} /\ v.queued = 0 /\ v.owed = 0
      BY <1>10, <3>1, <3>2 DEF Waiting
    <3>4. parked'[s] = {} /\ v.objects = {s}
      BY <1>1, <2>0, <3>1 DEF Waiting
    <3> HIDE DEF v
    <3> QED BY <1>4, <1>7, <3>2, <3>3, <3>4 DEF Waiting
  <2>3. Alone(s, taking, parked')
    <3> HIDE DEF v
    <3> QED BY <1>1, <1>2, <1>3, <1>4, <1>7, <2>0, <2>1, <2>2 DEF Alone
  <2>4. Moves(s, taking)
    BY <1>1, <1>7, <1>10, <2>0, <2>3 DEF Moves
  <2>5. ServiceTypeOK' /\ Sorted'
    BY <1>1, <1>7, <2>4, Framing, Becoming DEF Moves, Comes
  <2>6. /\ service'[s] = taking
        /\ \A u \in Services \ {s} : service'[u] = service[u]
    BY <1>1, <1>7, <1>10, Fields
  <2>7. \A g, i, u : g \notin Parked(s) /\ Lies(g, i, u)' => Lies(g, i, u)
    BY <1>7, <2>0, <2>6 DEF Lies
  <2>8. \A g : g \in Parked(s) => \E o \in v.objects : Lies(g, "parked", o)
    BY <1>1 DEF Lies, Parked
  <2>9. \A g, i, u : g \in Parked(s) /\ Lies(g, i, u) => i = "parked" /\ u \in v.objects
    BY <1>1, <2>8 DEF Once
  <2>10. \A g, i, u : Lies(g, i, u)' => Lies(g, i, u) \/ (i = "taken" /\ u = s)
    BY <1>7, <2>0, <2>6 DEF Lies
  <2>11. \A g, o : o \in v.objects => ~Lies(g, "parked", o)'
    BY <1>1, <2>0 DEF Lies, Error
  <2>12. \A g, i, u : g \in Parked(s) /\ Lies(g, i, u)' => i = "taken" /\ u = s
    BY <2>9, <2>10, <2>11
  <2>13. Once'
    BY <1>1, <2>7, <2>12, Going
  <2> QED BY <2>5, <2>13 DEF HeardInv
<1>11. CASE Becomes(s, v) /\ UNCHANGED parked
  <2>1. service' = service
    BY <1>1, <1>11 DEF Becomes, ServiceTypeOK
  <2> QED BY <1>11, <2>1, Quiet DEF serviceVars
<1>12. CASE /\ Parked(s) = {} /\ v.objects # {} /\ v.at # "shut" /\ v.queued # MaxQueued
            /\ Becomes(s, queueing) /\ UNCHANGED parked
  <2>1. \A o \in v.objects : parked[o] = {}
    BY <1>12 DEF Parked
  <2>2. s \in Guards /\ v.at = "running" => Waiting(s, queueing, parked'[s])
    <3> SUFFICES ASSUME s \in Guards, v.at = "running" PROVE Waiting(s, queueing, parked'[s])
      OBVIOUS
    <3>1. Waiting(s, v, parked[s])
      BY <1>2 DEF Alone
    <3>2. parked[s] = {} /\ parked'[s] = {}
      BY <1>12, <2>1, <3>1 DEF Waiting
    <3> HIDE DEF v
    <3> QED BY <1>1, <1>4, <1>8, <1>12, <3>1, <3>2 DEF Waiting
  <2>3. /\ v.at \notin {"absent", "constructing", "subscribed"}
        /\ s \in Guards /\ v.at = "built" => Unheard(s, queueing)
    <3>1. s \in Guards /\ v.at = "built" => Unheard(s, v)
      BY <1>2 DEF Alone
    <3>2. v.at \notin {"absent", "constructing", "subscribed"}
      BY <1>2, <1>12 DEF Alone
    <3> HIDE DEF v
    <3> QED BY <1>4, <1>8, <1>12, <3>1, <3>2 DEF Unheard
  <2>4. Alone(s, queueing, parked')
    <3> HIDE DEF v
    <3> QED BY <1>2, <1>4, <1>8, <1>12, <2>1, <2>2, <2>3 DEF Alone
  <2>5. Moves(s, queueing)
    BY <1>1, <1>3, <1>8, <1>12, <2>1, <2>4 DEF Moves, ServiceTypeOK
  <2> QED BY <1>8, <1>12, <2>5, Forgetting
<1> QED BY <1>6, <1>9, <1>10, <1>11, <1>12

\* A post_adapter posts its next handler.
LEMMA Adapts ==
  ASSUME HeardInv, NEW s \in Services, NEW h \in AnyHandler, Adapt(s, h)
  PROVE  HeardInv'
<1> DEFINE v == service[s]
           w == [v EXCEPT !.taken = @ \ {h}, !.posted = @ \cup {<<h, "success">>}]
<1>1. /\ ServiceTypeOK /\ Sorted /\ Once /\ Placed /\ v \in Entry
  BY DEF HeardInv, Sorted, ServiceTypeOK
<1>2. Alone(s, v, parked) /\ h \in v.taken /\ v.at = "running"
  BY DEF HeardInv, Sorted, Adapt
<1>3. h \in HandlersOf(s) /\ \A x \in AnyObject : parked[x] \subseteq HandlersOf(x)
  BY <1>1, <1>2 DEF Placed, Alone
<1>4. v.posted \cup {<<h, "success">>} \in SUBSET (AnyHandler \X Error)
  BY <1>1 DEF Entry, Error
<1>5. /\ w \in Entry /\ w.at = v.at /\ w.objects = v.objects /\ w.queued = v.queued
      /\ w.taken = v.taken \ {h} /\ w.posted = v.posted \cup {<<h, "success">>}
      /\ w.owed = v.owed
  <2> HIDE DEF v
  <2> QED BY <1>1, <1>4 DEF Entry
<1>6. Becomes(s, w) /\ parked' = parked
  BY DEF Adapt
<1> HIDE DEF w
<1>7. s \in Guards => Waiting(s, w, parked'[s])
  <2> SUFFICES ASSUME s \in Guards PROVE Waiting(s, w, parked'[s])
    OBVIOUS
  <2>1. Waiting(s, v, parked[s]) /\ h = s
    BY <1>2, <1>3 DEF Alone, HandlersOf
  <2> HIDE DEF v
  <2> QED BY <1>2, <1>5, <1>6, <2>1 DEF Waiting
<1>8. Alone(s, w, parked')
  <2> HIDE DEF v
  <2> QED BY <1>2, <1>3, <1>5, <1>6, <1>7 DEF Alone, Error
<1>9. Moves(s, w)
  BY <1>1, <1>3, <1>5, <1>6, <1>8 DEF Moves, ServiceTypeOK, Entry
<1>10. ServiceTypeOK' /\ Sorted'
  BY <1>1, <1>5, <1>9, Framing, Becoming DEF Moves, Comes
<1>11. service'[s] = w /\ \A u \in Services \ {s} : service'[u] = service[u]
  BY <1>1, <1>5, <1>6, Fields
<1>12. \A g, i, u : g # h /\ Lies(g, i, u)' => Lies(g, i, u)
  BY <1>5, <1>6, <1>11 DEF Lies
<1>13. Lies(h, "taken", s)
  BY <1>2 DEF Lies
<1>14. \A i, u : Lies(h, i, u) => i = "taken" /\ u = s
  BY <1>1, <1>13 DEF Once
<1>15. \A i, u : Lies(h, i, u)' => Lies(h, i, u) \/ (i = "success" /\ u = s)
  BY <1>5, <1>6, <1>11 DEF Lies
<1>16. ~Lies(h, "taken", s)'
  BY <1>5, <1>11 DEF Lies, Error
<1>17. Once'
  BY <1>1, <1>12, <1>14, <1>15, <1>16 DEF Once
<1> QED BY <1>10, <1>17 DEF HeardInv

\* A handler runs; that of a guard waits again.
LEMMA Runs ==
  ASSUME HeardInv, NEW s \in Services, NEW h \in AnyHandler, NEW error \in Error,
         Run(s, h, error)
  PROVE  HeardInv'
<1> DEFINE v == service[s]
           w == [v EXCEPT !.posted = @ \ {<<h, error>>}]
           g == [w EXCEPT !.owed = @ - 1]
<1>1. /\ ServiceTypeOK /\ Sorted /\ Once /\ Placed /\ v \in Entry
      /\ v.objects \subseteq AnyObject /\ v.queued \in Nat
  BY DEF HeardInv, Sorted, ServiceTypeOK, Entry
<1>2. Alone(s, v, parked) /\ <<h, error>> \in v.posted /\ v.at = "running"
  BY DEF HeardInv, Sorted, Run
<1>3. h \in HandlersOf(s) /\ \A x \in AnyObject : parked[x] \subseteq HandlersOf(x)
  BY <1>1, <1>2 DEF Placed, Alone
<1>4. /\ w \in Entry /\ w.at = v.at /\ w.objects = v.objects /\ w.queued = v.queued
      /\ w.taken = v.taken /\ w.posted = v.posted \ {<<h, error>>} /\ w.owed = v.owed
  <2> HIDE DEF v
  <2> QED BY <1>1 DEF Entry
<1>5. /\ g \in Entry /\ g.at = v.at /\ g.objects = v.objects /\ g.queued = v.queued
      /\ g.taken = v.taken /\ g.posted = v.posted \ {<<h, error>>} /\ g.owed = v.owed - 1
  <2> HIDE DEF v, w
  <2>1. w.owed - 1 \in Int
    BY <1>4 DEF Entry
  <2> QED BY <1>4, <2>1 DEF Entry
<1>6. IF s \in Guards /\ error # "aborted" THEN Park(s, g, s, s)
      ELSE Becomes(s, w) /\ UNCHANGED parked
  BY DEF Run
<1> HIDE DEF w, g
<1>7. CASE s \in Guards
  <2>1. Waiting(s, v, parked[s]) /\ h = s
    BY <1>2, <1>3, <1>7 DEF Alone, HandlersOf
  <2>2. /\ error = "success" /\ parked[s] = {} /\ v.taken = {}
        /\ v.posted = {<<s, "success">>} /\ v.owed = v.queued + 1 /\ v.objects = {s}
    <3> HIDE DEF v
    <3> QED BY <1>2, <2>1 DEF Waiting
  <2>3. /\ g.taken = {} /\ g.posted = {} /\ g.owed = g.queued /\ g.objects = {s}
        /\ g.owed \in Nat /\ g.at = "running"
    <3> HIDE DEF v
    <3> QED BY <1>1, <1>2, <1>5, <2>1, <2>2
  <2>4. Lies(s, "success", s)
    BY <2>2 DEF Lies, Error
  <2>5. \A i, u : Lies(s, i, u) => i = "success" /\ u = s
    BY <1>1, <2>4 DEF Once
  <2>6. Gone(s, s, g)
    <3>1. \A o \in AnyObject : s \notin parked[o]
      BY <2>2, Kinds, <1>1, <1>7 DEF Placed
    <3>2. \A u \in Services \ {s} : s \notin service[u].taken
      BY <2>5 DEF Lies
    <3>3. \A u \in Services \ {s} : \A e \in Error : <<s, e>> \notin service[u].posted
      BY <2>5 DEF Lies
    <3> QED BY <2>3, <3>1, <3>2, <3>3 DEF Gone
  <2>7. Park(s, g, s, s) /\ s \in AnyObject /\ s \in AnyHandler /\ ObjectsOf(s) = {s}
        /\ HandlersOf(s) = {s}
    BY <1>6, <1>7, <2>2, Kinds DEF ObjectsOf, HandlersOf
  <2>8. g.taken \subseteq v.taken /\ g.posted \subseteq v.posted
        /\ (g.queued > 0 => \A x \in g.objects : parked[x] = {})
    BY <1>5, <2>2, <2>3
  <2> QED BY <1>5, <2>2, <2>3, <2>6, <2>7, <2>8, Waits
<1>8. CASE s \notin Guards
  <2>1. Becomes(s, w) /\ parked' = parked
    BY <1>6, <1>8
  <2>2. Alone(s, w, parked')
    <3> HIDE DEF v
    <3> QED BY <1>2, <1>4, <1>8, <2>1 DEF Alone
  <2>3. Moves(s, w)
    BY <1>1, <1>3, <1>4, <2>1, <2>2 DEF Moves, ServiceTypeOK
  <2> QED BY <1>4, <2>1, <2>3, Forgetting
<1> QED BY <1>7, <1>8

\* async_wait of a user.
LEMMA AsyncWaits ==
  ASSUME HeardInv, NEW s \in Services, NEW o \in Objects, NEW h \in Handlers,
         AsyncWait(s, o, h)
  PROVE  HeardInv'
<1>1. /\ ServiceTypeOK /\ service[s] \in Entry /\ Alone(s, service[s], parked)
      /\ o \in AnyObject /\ h \in AnyHandler
  BY DEF HeardInv, Sorted, ServiceTypeOK, AnyObject, AnyHandler
<1>2. /\ s \notin Guards /\ service[s].at = "running" /\ o \in service[s].objects
      /\ Free(h) /\ Park(s, service[s], o, h)
  BY ConsoleAssumption DEF AsyncWait
<1>3. Gone(h, s, service[s]) /\ h \in HandlersOf(s)
  BY <1>2 DEF Gone, Free, HandlersOf
<1> QED BY <1>1, <1>2, <1>3, Waits DEF Alone

\* The constructor of the service ends.
LEMMA Subscribes ==
  ASSUME HeardInv, NEW s \in Services, Subscribe(s)
  PROVE  HeardInv'
<1> DEFINE a == IF s \in Guards THEN "subscribed" ELSE "running"
           v == [service[s] EXCEPT !.at = a]
<1>1. /\ ServiceTypeOK /\ Sorted /\ service[s] \in Entry
      /\ \A o \in AnyObject : parked[o] \subseteq HandlersOf(o)
  BY DEF HeardInv, Sorted, Placed, ServiceTypeOK
<1>2. Alone(s, service[s], parked) /\ service[s].at = "constructing"
  BY DEF HeardInv, Sorted, Subscribe
<1>3. service[s].objects = {} /\ service[s].queued = 0 /\ service[s].taken = {}
      /\ service[s].posted = {} /\ service[s].owed = 0
  BY <1>2 DEF Alone
<1>4. Becomes(s, v) /\ parked' = parked
  BY DEF Subscribe
<1>5. a \in Stage /\ (s \in Guards => a = "subscribed") /\ (s \notin Guards => a = "running")
  BY DEF Stage
<1> HIDE DEF a
<1>6. /\ v \in Entry /\ v.at = a /\ v.objects = {} /\ v.queued = 0
      /\ v.taken = {} /\ v.posted = {} /\ v.owed = 0
  BY <1>1, <1>3, <1>5 DEF Entry
<1> HIDE DEF v
<1>7. Alone(s, v, parked')
  BY <1>5, <1>6 DEF Alone
<1>8. Moves(s, v)
  BY <1>1, <1>3, <1>4, <1>6, <1>7 DEF Moves, ServiceTypeOK
<1> QED BY <1>3, <1>4, <1>6, <1>8, Forgetting

\* A guard before its object is built: no service has its object, and its
\* handler is nowhere.
LEMMA NewGuard ==
  ASSUME HeardInv, NEW s \in Guards, service[s].at = "subscribed"
  PROVE  /\ \A u \in Services : s \notin service[u].objects
         /\ parked[s] = {}
<1>1. \A u \in Services : Alone(u, service[u], parked)
  BY DEF HeardInv, Sorted
<1>2. service[s].objects = {}
  BY <1>1, Kinds DEF Alone
<1>3. \A u \in Services : service[u].objects \subseteq ObjectsOf(u)
  BY <1>1 DEF Alone
<1>4. \A u \in Services : s \notin service[u].objects
  BY <1>2, <1>3, ConsoleAssumption DEF ObjectsOf
<1>5. parked[s] = {}
  BY <1>4, Kinds DEF HeardInv, Sorted, Placed
<1> QED BY <1>4, <1>5

\* The guard constructs its object.
LEMMA Builds ==
  ASSUME HeardInv, NEW s \in Services, BuildAlerter(s)
  PROVE  HeardInv'
<1> DEFINE v == [service[s] EXCEPT !.at = "built", !.objects = {s}]
<1>1. /\ ServiceTypeOK /\ Sorted /\ service[s] \in Entry
      /\ \A o \in AnyObject : parked[o] \subseteq HandlersOf(o)
  BY DEF HeardInv, Sorted, Placed, ServiceTypeOK
<1>2. /\ Alone(s, service[s], parked) /\ service[s].at = "subscribed"
      /\ s \in Guards /\ s \in AnyObject /\ ObjectsOf(s) = {s}
  BY Kinds DEF HeardInv, Sorted, BuildAlerter, ObjectsOf
<1>3. service[s].objects = {} /\ service[s].queued = 0 /\ service[s].taken = {}
      /\ service[s].posted = {} /\ service[s].owed = 0
  BY <1>2 DEF Alone
<1>4. (\A u \in Services : s \notin service[u].objects) /\ parked[s] = {}
  BY <1>2, NewGuard
<1>5. Becomes(s, v) /\ parked' = parked
  BY DEF BuildAlerter
<1>6. /\ v \in Entry /\ v.at = "built" /\ v.objects = {s} /\ v.queued = 0
      /\ v.taken = {} /\ v.posted = {} /\ v.owed = 0
  BY <1>1, <1>2, <1>3 DEF Entry, Stage
<1> HIDE DEF v
<1>7. Alone(s, v, parked')
  BY <1>2, <1>4, <1>5, <1>6 DEF Alone, Unheard
<1>8. Moves(s, v)
  BY <1>1, <1>3, <1>4, <1>5, <1>6, <1>7 DEF Moves, ServiceTypeOK
<1> QED BY <1>3, <1>5, <1>6, <1>8, Forgetting

\* The handler of the guard waits for the first time.
LEMMA Begins ==
  ASSUME HeardInv, NEW s \in Services, StartWait(s)
  PROVE  HeardInv'
<1> DEFINE v == [service[s] EXCEPT !.at = "running"]
<1>1. /\ service[s] \in Entry /\ Placed
      /\ \A u \in Services : Alone(u, service[u], parked)
  BY DEF HeardInv, Sorted, ServiceTypeOK
<1>2. /\ Park(s, v, s, s) /\ service[s].at = "built" /\ s \in Guards
      /\ s \in AnyObject /\ s \in AnyHandler /\ ObjectsOf(s) = {s} /\ HandlersOf(s) = {s}
  BY Kinds DEF StartWait, ObjectsOf, HandlersOf
<1>3. /\ service[s].objects = {s} /\ service[s].taken = {} /\ service[s].posted = {}
      /\ service[s].owed = service[s].queued /\ service[s].owed \in Nat
      /\ parked[s] = {}
  BY <1>1, <1>2 DEF Alone, Unheard
<1>4. /\ v \in Entry /\ v.at = "running" /\ v.objects = {s} /\ v.owed = v.queued
      /\ v.taken = {} /\ v.posted = {} /\ v.owed \in Nat
  BY <1>1, <1>3 DEF Entry, Stage
<1> HIDE DEF v
<1>5. Gone(s, s, v)
  <2>1. \A o \in AnyObject : s \notin parked[o]
    BY <1>1, <1>2, <1>3, Kinds DEF Placed
  <2>2. \A u \in Services \ {s} : s \notin HandlersOf(u)
    BY <1>2, Kinds
  <2> QED BY <1>1, <1>4, <2>1, <2>2 DEF Gone, Alone
<1> QED BY <1>2, <1>3, <1>4, <1>5, Waits

\* The steps of the io_services lose neither a handler nor a signal.
LEMMA ServiceHears ==
  ASSUME ConsoleInv, HeardInv, NEW s \in Services, ServiceNext(s)
  PROVE  HeardInv'
<1> DEFINE at == service[s].at
<1>1. /\ ServiceTypeOK /\ Sorted /\ Placed /\ service[s] \in Entry
      /\ parked \in [AnyObject -> SUBSET AnyHandler]
      /\ service[s].objects \subseteq AnyObject
  BY DEF HeardInv, Sorted, ServiceTypeOK, Entry
<1>2. Alone(s, service[s], parked)
  BY DEF HeardInv, Sorted
<1>3. \A o \in AnyObject : parked[o] \subseteq HandlersOf(o)
  BY <1>1 DEF Placed
<1>4. ASSUME NEW v \in Entry, Becomes(s, v), parked' = parked,
             v.taken \subseteq service[s].taken, v.posted \subseteq service[s].posted,
             v.objects = service[s].objects \/
               (v.objects = {} /\ \A o \in service[s].objects : parked[o] = {}),
             Alone(s, v, parked)
      PROVE  HeardInv'
  <2>1. Moves(s, v)
    BY <1>1, <1>3, <1>4 DEF Moves
  <2> QED BY <1>4, <2>1, Forgetting
<1>5. ASSUME Becomes(s, NewService), parked' = parked,
             \A o \in service[s].objects : parked[o] = {}
      PROVE  HeardInv'
  <2>1. /\ NewService.objects = {} /\ NewService.queued = 0 /\ NewService.taken = {}
        /\ NewService.posted = {} /\ NewService.owed = 0 /\ NewService.at = "absent"
    BY DEF NewService
  <2>2. Alone(s, NewService, parked)
    BY <2>1 DEF Alone
  <2> QED BY <1>4, <1>5, <2>1, <2>2, NewIsEntry
<1>6. CASE Construct(s)
  <2> DEFINE v == [NewService EXCEPT !.at = "constructing"]
  <2>1. /\ v.objects = {} /\ v.queued = 0 /\ v.taken = {} /\ v.posted = {} /\ v.owed = 0
        /\ v.at = "constructing" /\ v \in Entry
    BY NewIsEntry DEF NewService, Entry, Stage
  <2>2. Becomes(s, v) /\ parked' = parked /\ service[s].objects = {}
    BY <1>2, <1>6 DEF Construct, Alone
  <2> HIDE DEF v
  <2>3. Alone(s, v, parked)
    BY <2>1 DEF Alone
  <2> QED BY <1>4, <2>1, <2>2, <2>3
<1>7. CASE Asks(s)
  BY <1>7, Quiet DEF Asks, serviceVars
<1>8. CASE Singleton(s)
  <2>1. CASE CreateFails(s) /\ Becomes(s, NewService) /\ parked' = parked
    <3>1. pc[s] # "holding" /\ at \in Stage
      BY <1>1, <2>1 DEF CreateFails, Entry
    <3>2. at \in {"absent", "constructing"}
      BY <3>1 DEF ConsoleInv, Attended, Subscribed, Stage
    <3>3. service[s].objects = {}
      BY <1>2, <3>2 DEF Alone
    <3> QED BY <1>5, <2>1, <3>3
  <2>2. CASE UNCHANGED serviceVars
    BY <2>2, Quiet
  <2> QED BY <1>8, <2>1, <2>2 DEF Singleton, serviceVars
<1>9. CASE Subscribe(s) \/ BuildAlerter(s) \/ StartWait(s)
  BY <1>9, Subscribes, Builds, Begins
<1>10. CASE StopThreads(s)
  <2> DEFINE v == [service[s] EXCEPT !.at = "stopped"]
  <2>1. /\ v \in Entry /\ v.at = "stopped" /\ v.objects = service[s].objects
        /\ v.queued = service[s].queued /\ v.taken = service[s].taken
        /\ v.posted = service[s].posted /\ v.owed = service[s].owed
    BY <1>1 DEF Entry, Stage
  <2>2. Becomes(s, v) /\ parked' = parked
    BY <1>10 DEF StopThreads
  <2> HIDE DEF v
  <2>3. Alone(s, v, parked)
    BY <1>2, <2>1 DEF Alone
  <2> QED BY <1>4, <2>1, <2>2, <2>3
<1>11. CASE Shutdown(s)
  <2> DEFINE v == [service[s] EXCEPT !.at = "shut"]
  <2>1. /\ v \in Entry /\ v.at = "shut" /\ v.objects = service[s].objects
        /\ v.queued = service[s].queued /\ v.taken = service[s].taken
        /\ v.posted = service[s].posted /\ v.owed = service[s].owed
    BY <1>1 DEF Entry, Stage
  <2>2. Becomes(s, v)
    BY <1>11 DEF Shutdown
  <2>3. /\ parked' \in [AnyObject -> SUBSET AnyHandler]
        /\ \A o \in AnyObject \ service[s].objects : parked'[o] = parked[o]
        /\ \A o \in service[s].objects : parked'[o] = {}
    BY <1>1, <1>11 DEF Shutdown
  <2> HIDE DEF v
  <2>4. Alone(s, v, parked')
    BY <1>2, <2>1, <2>3 DEF Alone
  <2>5. Moves(s, v)
    BY <1>1, <2>1, <2>2, <2>3, <2>4 DEF Moves
  <2>6. \A o \in AnyObject : parked'[o] \subseteq parked[o]
    BY <2>3
  <2> QED BY <2>1, <2>5, <2>6, Forgetting
<1>12. CASE Discard(s)
  <2> DEFINE v == [service[s] EXCEPT !.objects = {}, !.taken = {}, !.posted = {}]
  <2>1. /\ v \in Entry /\ v.at = at /\ v.objects = {} /\ v.queued = service[s].queued
        /\ v.taken = {} /\ v.posted = {} /\ v.owed = service[s].owed
    BY <1>1 DEF Entry
  <2>2. Becomes(s, v) /\ parked' = parked /\ at = "shut"
    BY <1>12 DEF Discard
  <2> HIDE DEF v
  <2>3. Alone(s, v, parked)
    BY <1>2, <2>1, <2>2 DEF Alone
  <2>4. \A o \in service[s].objects : parked[o] = {}
    BY <1>2, <2>2 DEF Alone
  <2> QED BY <1>4, <2>1, <2>2, <2>3, <2>4
<1>13. CASE Unsubscribe(s)
  <2> DEFINE v == [service[s] EXCEPT !.at = "removed"]
  <2>1. /\ v \in Entry /\ v.at = "removed" /\ v.objects = service[s].objects
        /\ v.queued = service[s].queued /\ v.taken = service[s].taken
        /\ v.posted = service[s].posted /\ v.owed = service[s].owed
    BY <1>1 DEF Entry, Stage
  <2>2. Becomes(s, v) /\ parked' = parked /\ v.objects = {}
    BY <1>13, <2>1 DEF Unsubscribe
  <2> HIDE DEF v
  <2>3. Alone(s, v, parked)
    BY <1>2, <2>1, <2>2 DEF Alone
  <2> QED BY <1>4, <2>1, <2>2, <2>3
<1>14. CASE LetGo(s)
  <2>1. Becomes(s, NewService) /\ parked' = parked /\ at = "removed"
    BY <1>14 DEF LetGo
  <2> QED BY <1>2, <1>5, <2>1 DEF Alone
<1>15. ASSUME NEW o \in Objects, NewObject(s, o)
       PROVE  HeardInv'
  <2> DEFINE v == [service[s] EXCEPT !.objects = @ \cup {o}]
  <2>1. /\ v \in Entry /\ v.at = at /\ v.objects = service[s].objects \cup {o}
        /\ v.queued = service[s].queued /\ v.taken = service[s].taken
        /\ v.posted = service[s].posted /\ v.owed = service[s].owed
    BY <1>1 DEF Entry, AnyObject
  <2>2. /\ Becomes(s, v) /\ parked' = parked /\ at = "running"
        /\ \A u \in Services : o \notin service[u].objects
        /\ s \in Users /\ o \in AnyObject
    BY <1>15 DEF NewObject, AnyObject
  <2> HIDE DEF v
  <2>3. parked[o] = {} /\ s \notin Guards /\ ObjectsOf(s) = Objects
    BY <1>1, <2>2, ConsoleAssumption DEF Placed, ObjectsOf
  <2>4. Alone(s, v, parked)
    BY <1>2, <2>1, <2>2, <2>3 DEF Alone
  <2>5. Moves(s, v)
    BY <1>1, <1>3, <2>1, <2>2, <2>4 DEF Moves
  <2> QED BY <2>1, <2>2, <2>5, Forgetting
<1>16. ASSUME NEW o \in Objects, Cancel(s, o)
       PROVE  HeardInv'
  <2>1. /\ Abort(s, service[s], o) /\ o \in service[s].objects /\ o \in AnyObject
        /\ s \notin Guards
    BY <1>16, ConsoleAssumption DEF Cancel, AnyObject
  <2> QED BY <1>1, <2>1, Aborts
<1>17. ASSUME NEW o \in AnyObject, DestroyObject(s, o)
       PROVE  HeardInv'
  <2> DEFINE v == [service[s] EXCEPT !.objects = @ \ {o}]
  <2>1. /\ v \in Entry /\ v.at = at /\ v.objects = service[s].objects \ {o}
        /\ v.queued = service[s].queued /\ v.taken = service[s].taken
        /\ v.posted = service[s].posted /\ v.owed = service[s].owed
    BY <1>1 DEF Entry
  <2>2. /\ Abort(s, v, o) /\ o \in service[s].objects
        /\ (s \in Guards => at = "stopped")
    BY <1>17 DEF DestroyObject
  <2> HIDE DEF v
  <2> QED BY <2>1, <2>2, Aborts
<1> QED
  BY <1>6, <1>7, <1>8, <1>9, <1>10, <1>11, <1>12, <1>13, <1>14, <1>15, <1>16,
     <1>17, AsyncWaits, Adapts, Runs DEF ServiceNext

\* So do those of the threads in which Windows calls.
LEMMA SignalHears ==
  ASSUME HeardInv, NEW t \in Signals, SignalNext(t)
  PROVE  HeardInv'
<1>1. ASSUME NEW s \in Services, SignalDelivers(t, s) PROVE HeardInv'
  BY <1>1, Delivers DEF SignalDelivers
<1>2. CASE UNCHANGED serviceVars
  BY <1>2, Quiet
<1> QED BY <1>1, <1>2 DEF SignalNext, SignalCalls, SignalGets, SignalLocks,
                          SignalReturns, SignalDestroys

\* No handler anywhere at first.
LEMMA HeardStarts == Init => HeardInv
<1> SUFFICES ASSUME Init PROVE HeardInv
  OBVIOUS
<1>1. /\ NewService.objects = {} /\ NewService.queued = 0 /\ NewService.taken = {}
      /\ NewService.posted = {} /\ NewService.owed = 0 /\ NewService.at = "absent"
  BY DEF NewService
<1>2. /\ service = [s \in Services |-> NewService]
      /\ parked = [o \in AnyObject |-> {}]
  BY DEF Init
<1>3. ServiceTypeOK
  BY <1>2, NewIsEntry DEF ServiceTypeOK
<1>4. Sorted
  BY <1>1, <1>2 DEF Sorted, Placed, Alone
<1>5. Once
  BY <1>1, <1>2 DEF Once, Lies
<1> QED BY <1>3, <1>4, <1>5 DEF HeardInv

\* A set whose elements are equal has one at most.
LEMMA AtMostOne ==
  ASSUME NEW S, \A a, b \in S : a = b
  PROVE  Cardinality(S) <= 1
<1>1. CASE S = {}
  BY <1>1, FS_EmptySet
<1>2. CASE S # {}
  <2>1. PICK a \in S : TRUE
    BY <1>2
  <2>2. S = {a}
    BY <2>1
  <2>3. Cardinality({a}) = 1
    BY FS_Singleton
  <2> QED BY <2>2, <2>3
<1> QED BY <1>1, <1>2

\* The strengthening, counted.
LEMMA Counted ==
  ASSUME ConsoleInv, HeardInv
  PROVE  SignalsNotLost
<1>1. /\ ServiceTypeOK /\ Placed /\ Once /\ SystemTypeOK
      /\ \A s \in Services : Alone(s, service[s], parked)
  BY DEF HeardInv, Sorted, ConsoleInv
<1>2. TypeOK
  <2>1. ASSUME NEW s \in Services PROVE service[s] \in Service
    <3>1. service[s] \in Entry /\ service[s].owed \in Nat
      BY <1>1 DEF ServiceTypeOK, Alone
    <3> QED BY <3>1 DEF Entry, Service
  <2>2. service \in [Services -> Service]
    BY <1>1, <2>1 DEF ServiceTypeOK
  <2> QED BY <1>1, <2>2 DEF TypeOK, ServiceTypeOK, SystemTypeOK
<1>3. \A s \in Services : service[s].queued > 0 => Parked(s) = {}
  BY <1>1 DEF Alone, Parked
<1>4. ASSUME NEW g \in Guards, service[g].at \in {"subscribed", "built", "running"}
      PROVE  service[g].owed = service[g].queued + Cardinality(service[g].taken)
                                 + Cardinality(service[g].posted)
  <2>1. /\ service[g].queued \in Nat
        /\ \/ Waiting(g, service[g], parked[g])
           \/ /\ service[g].taken = {} /\ service[g].posted = {}
              /\ service[g].owed = service[g].queued
    <3>1. Alone(g, service[g], parked) /\ service[g] \in Entry
      BY <1>1, Kinds DEF ServiceTypeOK
    <3>2. CASE service[g].at = "running"
      BY <3>1, <3>2 DEF Alone, Entry
    <3>3. CASE service[g].at = "built"
      BY <3>1, <3>3 DEF Alone, Entry, Unheard
    <3>4. CASE service[g].at = "subscribed"
      BY <3>1, <3>4 DEF Alone, Entry
    <3> QED BY <1>4, <3>2, <3>3, <3>4
  <2>2. /\ Cardinality({}) = 0 /\ Cardinality({g}) = 1
        /\ Cardinality({<<g, "success">>}) = 1
    BY FS_EmptySet, FS_Singleton
  <2>3. CASE /\ service[g].taken = {} /\ service[g].posted = {}
             /\ service[g].owed = service[g].queued
    <3>1. Cardinality(service[g].taken) = 0 /\ Cardinality(service[g].posted) = 0
      BY <2>2, <2>3
    <3> QED BY <2>1, <2>3, <3>1
  <2>4. CASE /\ service[g].owed = service[g].queued + 1
             /\ \/ service[g].taken = {g} /\ service[g].posted = {}
                \/ service[g].taken = {} /\ service[g].posted = {<<g, "success">>}
    <3>1. \/ /\ Cardinality(service[g].taken) = 1
             /\ Cardinality(service[g].posted) = 0
          \/ /\ Cardinality(service[g].taken) = 0
             /\ Cardinality(service[g].posted) = 1
      BY <2>2, <2>4
    <3> QED BY <2>1, <2>4, <3>1
  <2> QED BY <2>1, <2>3, <2>4 DEF Waiting
<1>5. \A o \in AnyObject : parked[o] # {} => \E s \in Services : o \in service[s].objects
  BY <1>1 DEF Placed
<1>6. ASSUME NEW h \in AnyHandler
      PROVE  Cardinality({o \in AnyObject : h \in parked[o]}
                     \cup {s \in Services : h \in service[s].taken}
                     \cup UNION {{<<s, e>> : e \in {f \in Error :
                                    <<h, f>> \in service[s].posted}} :
                                 s \in Services}) <= 1
  <2> DEFINE P == {o \in AnyObject : h \in parked[o]}
             T == {s \in Services : h \in service[s].taken}
             E == UNION {{<<s, e>> : e \in {f \in Error :
                            <<h, f>> \in service[s].posted}} : s \in Services}
  <2>1. \A a \in P : Lies(h, "parked", a)
    BY DEF Lies
  <2>2. \A a \in T : Lies(h, "taken", a)
    BY DEF Lies
  <2>3. \A a \in E : \E s \in Services, e \in Error : a = <<s, e>> /\ Lies(h, e, s)
    BY DEF Lies
  <2>4. \A i, j, v, w : Lies(h, i, v) /\ Lies(h, j, w) => i = j /\ v = w
    BY <1>1 DEF Once
  <2> HIDE DEF P, T, E
  <2>5. \A a, b \in P \cup T \cup E : a = b
    BY <2>1, <2>2, <2>3, <2>4 DEF Error
  <2>6. Cardinality(P \cup T \cup E) <= 1
    BY <2>5, AtMostOne
  <2> QED BY <2>6 DEF P, T, E
<1> QED BY <1>2, <1>3, <1>4, <1>5, <1>6 DEF SignalsNotLost

\* No signal that a guard took or kept is lost before its function is called,
\* no handler waits while a signal is queued, and no handler is in two places
\* or with an object that is gone: for every number of services, objects,
\* handlers and signals at once.
THEOREM SignalsHeard == Spec => []SignalsNotLost
<1>1. Init => HeardInv
  BY HeardStarts
<1>2. ConsoleInv /\ HeardInv /\ [Next]_vars => HeardInv'
  <2>1. ASSUME ConsoleInv, HeardInv, Next PROVE HeardInv'
    BY <2>1, ServiceHears, SignalHears DEF Next
  <2>2. ASSUME HeardInv, UNCHANGED vars PROVE HeardInv'
    BY <2>2, Quiet DEF vars, serviceVars
  <2> QED BY <2>1, <2>2
<1>3. ConsoleInv /\ HeardInv => SignalsNotLost
  BY Counted
<1> QED BY <1>1, <1>2, <1>3, Invariant, PTL DEF Spec
============================================================================
