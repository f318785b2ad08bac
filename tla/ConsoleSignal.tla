--------------------------- MODULE ConsoleSignal ---------------------------
(***************************************************************************)
(* The console signals of Windows, ma/windows/console_signal_service: the  *)
(* system_service is a singleton that Windows calls, each time in a thread *)
(* of its own; it passes a signal on to the console_signal_service of each *)
(* io_service; that wakes the handlers that wait at all its console_signal *)
(* objects, or keeps the signal for the next one that comes to wait.  A    *)
(* guard is the io_service of a console_close_guard, with its one object   *)
(* and its one handler, which waits again before it calls the function of  *)
(* the guard.  The other io_services do what the service allows.           *)
(***************************************************************************)
EXTENDS SpSingleton

CONSTANTS
  Guards,      \* the console_close_guards: also their io_service, object, handler
  Users,       \* the other io_services
  Objects,     \* their console_signal objects
  Handlers,    \* and their handlers
  Signals,     \* the threads in which Windows calls
  MaxQueued    \* the largest value of queued_signals_counter

ASSUME ConsoleAssumption ==
  /\ Threads = Guards \cup Users \cup Signals
  /\ Guards \cap Users = {} /\ Signals \cap (Guards \cup Users) = {}
  /\ Guards \cap (Objects \cup Handlers) = {}
  /\ MaxQueued \in Nat \ {0}

Services == Guards \cup Users
AnyObject == Objects \cup Guards
AnyHandler == Handlers \cup Guards

Error == {"success", "aborted"}

(***************************************************************************)
(* at is how far the life of the io_service has come: a guard is built     *)
(* with its object and runs with its first wait.  taken holds the handlers *)
(* of the posted post_adapters, posted the handlers that are posted with   *)
(* their error.  owed is history: the signals that the service took or     *)
(* kept for the guard and that did not yet reach its function.             *)
(***************************************************************************)
Stage == {"absent", "constructing", "subscribed", "built", "running",
          "stopped", "shut", "removed"}

Service ==
  [at : Stage, objects : SUBSET AnyObject, queued : 0..MaxQueued,
   taken : SUBSET AnyHandler, posted : SUBSET (AnyHandler \X Error),
   owed : Nat]

(***************************************************************************)
(* service[s] is the console_signal_service of s and parked[o] are the     *)
(* handlers in the list of object o.  subscribers and lock are those of    *)
(* the system_service; todo[t] are the subscribers that deliver_signal has *)
(* not visited yet in thread t.                                            *)
(***************************************************************************)
VARIABLES service, parked, subscribers, lock, signal, todo

vars == <<mutex, weak, guards, alive, pc, ref,
          service, parked, subscribers, lock, signal, todo>>
serviceVars == <<service, parked>>
systemVars == <<subscribers, lock>>
signalVars == <<signal, todo>>

TypeOK ==
  /\ service \in [Services -> Service]
  /\ parked \in [AnyObject -> SUBSET AnyHandler]
  /\ subscribers \subseteq Services /\ lock \in Signals \cup {None}
  /\ signal \in [Signals -> {"none", "called", "delivering"}]
  /\ todo \in [Signals -> SUBSET Services]

NewService ==
  [at |-> "absent", objects |-> {}, queued |-> 0,
   taken |-> {}, posted |-> {}, owed |-> 0]

Init ==
  /\ SingletonInit
  /\ service = [s \in Services |-> NewService]
  /\ parked = [o \in AnyObject |-> {}]
  /\ subscribers = {} /\ lock = None
  /\ signal = [t \in Signals |-> "none"]
  /\ todo = [t \in Signals |-> {}]

-----------------------------------------------------------------------------
(* The service: what its calls make of it and of the parked handlers.      *)

Becomes(s, v) == service' = [service EXCEPT ![s] = v]

Parked(s) == UNION {parked[o] : o \in service[s].objects}

\* The handler is neither waiting nor posted.
Free(h) ==
  /\ \A o \in AnyObject : h \notin parked[o]
  /\ \A s \in Services : /\ h \notin service[s].taken
                         /\ \A e \in Error : <<h, e>> \notin service[s].posted

\* Mutant: async_wait does not look at the queued signals.
ParkAlways(s, v, o, h) ==
  Becomes(s, v) /\ parked' = [parked EXCEPT ![o] = @ \cup {h}]

\* async_wait of object o of a service, which is v so far.
Park(s, v, o, h) ==
  IF v.at = "shut"
  THEN Becomes(s, [v EXCEPT !.posted = @ \cup {<<h, "aborted">>}]) /\ UNCHANGED parked
  ELSE IF v.queued > 0
  THEN /\ Becomes(s, [v EXCEPT !.queued = @ - 1,
                               !.posted = @ \cup {<<h, "success">>}])
       /\ UNCHANGED parked
  ELSE Becomes(s, v) /\ parked' = [parked EXCEPT ![o] = @ \cup {h}]

\* The handlers of object o are posted as aborted: destroy and cancel.
Abort(s, v, o) ==
  /\ Becomes(s, [v EXCEPT !.posted = @ \cup (parked[o] \X {"aborted"})])
  /\ parked' = [parked EXCEPT ![o] = {}]

\* deliver_signal. The signal is lost on a full counter, on a service without
\* objects, as that of a guard is before its object is built, and on one that
\* is shut down.
Deliver(s) ==
  LET v == service[s]
      more == IF s \in Guards THEN v.owed + 1 ELSE 0
  IN
  IF v.at = "shut" \/ v.objects = {} THEN UNCHANGED serviceVars
  ELSE IF Parked(s) # {}
  THEN /\ Becomes(s, [v EXCEPT !.taken = @ \cup Parked(s), !.owed = more])
       /\ parked' = [o \in AnyObject |->
                       IF o \in v.objects THEN {} ELSE parked[o]]
  ELSE /\ Becomes(s, IF v.queued = MaxQueued THEN v
                     ELSE [v EXCEPT !.queued = @ + 1, !.owed = more])
       /\ UNCHANGED parked

-----------------------------------------------------------------------------
(* The life of an io_service.                                              *)

\* The constructor of the service asks for the system_service.
Construct(s) ==
  /\ service[s].at = "absent" /\ pc[s] = "idle"
  /\ Becomes(s, [NewService EXCEPT !.at = "constructing"])
  /\ UNCHANGED <<parked, subscribers, lock, signal, todo>>
  /\ UNCHANGED singletonVars

Asks(s) ==
  /\ service[s].at = "constructing"
  /\ GetExisting(s) \/ GetNew(s)
  /\ UNCHANGED <<service, parked, subscribers, lock, signal, todo>>

\* A step of the singleton in the thread of an io_service; the failure of the
\* constructor of the system_service is that of the service.
Singleton(s) ==
  \/ /\ Blocks(s) \/ Create(s) \/ Destroy(s) \/ DropGuard(s)
     /\ UNCHANGED <<service, parked, subscribers, lock, signal, todo>>
  \/ /\ CreateFails(s) /\ Becomes(s, NewService)
     /\ UNCHANGED <<parked, subscribers, lock, signal, todo>>

\* The rest of the constructor: add_subscriber. The threads of other
\* io_services run; a guard has its object to construct.
Subscribe(s) ==
  /\ service[s].at = "constructing" /\ pc[s] = "holding" /\ lock = None
  /\ subscribers' = subscribers \cup {s}
  /\ Becomes(s, [service[s] EXCEPT !.at = IF s \in Guards THEN "subscribed"
                                          ELSE "running"])
  /\ UNCHANGED singletonVars /\ UNCHANGED <<parked, lock, signalVars>>

\* The console_signal of a guard enters the list of the service,
BuildAlerter(s) ==
  /\ s \in Guards /\ service[s].at = "subscribed"
  /\ Becomes(s, [service[s] EXCEPT !.at = "built", !.objects = {s}])
  /\ UNCHANGED singletonVars /\ UNCHANGED <<parked, systemVars, signalVars>>

\* and start_wait, the last of the constructor, lets its handler wait, or posts
\* it with the signal that came in between. The thread starts.
StartWait(s) ==
  /\ s \in Guards /\ service[s].at = "built"
  /\ Park(s, [service[s] EXCEPT !.at = "running"], s, s)
  /\ UNCHANGED singletonVars /\ UNCHANGED <<systemVars, signalVars>>

\* ~console_close_guard: the io_service is stopped and its thread joined; and
\* the threads of any other io_service are.
StopThreads(s) ==
  /\ service[s].at = "running"
  /\ Becomes(s, [service[s] EXCEPT !.at = "stopped"])
  /\ UNCHANGED singletonVars /\ UNCHANGED <<parked, systemVars, signalVars>>

\* ~io_service shuts the service down, which destroys the parked handlers.
\* The object of the guard is gone by then; the objects of others may be
\* owned by handlers.
Shutdown(s) ==
  /\ service[s].at = "stopped" /\ (s \in Guards => service[s].objects = {})
  /\ Becomes(s, [service[s] EXCEPT !.at = "shut"])
  /\ parked' = [o \in AnyObject |->
                  IF o \in service[s].objects THEN {} ELSE parked[o]]
  /\ UNCHANGED singletonVars /\ UNCHANGED <<systemVars, signalVars>>

\* It then destroys what is posted, and with it the last objects.
Discard(s) ==
  /\ service[s].at = "shut"
  /\ Becomes(s, [service[s] EXCEPT !.objects = {}, !.taken = {}, !.posted = {}])
  /\ UNCHANGED singletonVars /\ UNCHANGED <<parked, systemVars, signalVars>>

\* Mutant: remove_subscriber without the lock.
UnsubscribeAtOnce(s) ==
  /\ service[s].at = "shut"
  /\ service[s].objects = {} /\ service[s].taken = {} /\ service[s].posted = {}
  /\ subscribers' = subscribers \ {s}
  /\ Becomes(s, [service[s] EXCEPT !.at = "removed"])
  /\ UNCHANGED singletonVars /\ UNCHANGED <<parked, lock, signalVars>>

\* ~console_signal_service: remove_subscriber.
Unsubscribe(s) ==
  /\ service[s].at = "shut" /\ lock = None
  /\ service[s].objects = {} /\ service[s].taken = {} /\ service[s].posted = {}
  /\ subscribers' = subscribers \ {s}
  /\ Becomes(s, [service[s] EXCEPT !.at = "removed"])
  /\ UNCHANGED singletonVars /\ UNCHANGED <<parked, lock, signalVars>>

\* Its last member lets go of the system_service.
LetGo(s) ==
  /\ service[s].at = "removed" /\ Release(s)
  /\ Becomes(s, NewService)
  /\ UNCHANGED <<parked, systemVars, signalVars>>

-----------------------------------------------------------------------------
(* The objects and the handlers.                                           *)

NewObject(s, o) ==
  /\ s \in Users /\ service[s].at = "running"
  /\ \A u \in Services : o \notin service[u].objects
  /\ Becomes(s, [service[s] EXCEPT !.objects = @ \cup {o}])
  /\ UNCHANGED singletonVars /\ UNCHANGED <<parked, systemVars, signalVars>>

\* Mutant: destroy leaves the handlers with the object.
DestroyKeepsHandlers(s, o) ==
  /\ o \in service[s].objects
  /\ service[s].at \in (IF s \in Guards THEN {"stopped"} ELSE {"running", "stopped"})
  /\ Becomes(s, [service[s] EXCEPT !.objects = @ \ {o}])
  /\ UNCHANGED parked
  /\ UNCHANGED singletonVars /\ UNCHANGED <<systemVars, signalVars>>

\* ~console_signal: destroy.
DestroyObject(s, o) ==
  /\ o \in service[s].objects
  /\ service[s].at \in (IF s \in Guards THEN {"stopped"} ELSE {"running", "stopped"})
  /\ Abort(s, [service[s] EXCEPT !.objects = @ \ {o}], o)
  /\ UNCHANGED singletonVars /\ UNCHANGED <<systemVars, signalVars>>

Cancel(s, o) ==
  /\ s \in Users /\ service[s].at = "running" /\ o \in service[s].objects
  /\ parked[o] # {} /\ Abort(s, service[s], o)
  /\ UNCHANGED singletonVars /\ UNCHANGED <<systemVars, signalVars>>

AsyncWait(s, o, h) ==
  /\ s \in Users /\ service[s].at = "running" /\ o \in service[s].objects
  /\ Free(h) /\ Park(s, service[s], o, h)
  /\ UNCHANGED singletonVars /\ UNCHANGED <<systemVars, signalVars>>

\* A post_adapter posts its next handler.
Adapt(s, h) ==
  /\ service[s].at = "running" /\ h \in service[s].taken
  /\ Becomes(s, [service[s] EXCEPT !.taken = @ \ {h},
                                   !.posted = @ \cup {<<h, "success">>}])
  /\ UNCHANGED singletonVars /\ UNCHANGED <<parked, systemVars, signalVars>>

\* A handler runs; handle_signal is that of a guard, which is not aborted
\* while its io_service runs.
Run(s, h, error) ==
  /\ service[s].at = "running" /\ <<h, error>> \in service[s].posted
  /\ LET v == [service[s] EXCEPT !.posted = @ \ {<<h, error>>}] IN
     IF s \in Guards /\ error # "aborted"
     THEN Park(s, [v EXCEPT !.owed = @ - 1], s, s)
     ELSE Becomes(s, v) /\ UNCHANGED parked
  /\ UNCHANGED singletonVars /\ UNCHANGED <<systemVars, signalVars>>

-----------------------------------------------------------------------------
(* The threads in which Windows calls windows_ctrl_handler.                *)

\* Windows calls it while it is registered.
SignalCalls(t) ==
  /\ signal[t] = "none" /\ pc[t] = "idle" /\ alive # {}
  /\ signal' = [signal EXCEPT ![t] = "called"]
  /\ UNCHANGED singletonVars /\ UNCHANGED <<serviceVars, systemVars, todo>>

\* get_nullable_instance; with nothing to get, Windows goes on.
SignalGets(t) ==
  /\ signal[t] = "called" /\ GetNullable(t)
  /\ signal' = [signal EXCEPT ![t] = IF Locks THEN "called" ELSE "none"]
  /\ UNCHANGED <<serviceVars, systemVars, todo>>

\* deliver_signal of the system_service takes the lock,
SignalLocks(t) ==
  /\ signal[t] = "called" /\ pc[t] = "holding" /\ lock = None
  /\ lock' = t /\ todo' = [todo EXCEPT ![t] = subscribers]
  /\ signal' = [signal EXCEPT ![t] = "delivering"]
  /\ UNCHANGED singletonVars /\ UNCHANGED <<serviceVars, subscribers>>

\* passes the signal to a subscriber,
SignalDelivers(t, s) ==
  /\ signal[t] = "delivering" /\ s \in todo[t]
  /\ Deliver(s)
  /\ todo' = [todo EXCEPT ![t] = @ \ {s}]
  /\ UNCHANGED singletonVars /\ UNCHANGED <<systemVars, signal>>

\* and lets the lock and the system_service go.
SignalReturns(t) ==
  /\ signal[t] = "delivering" /\ todo[t] = {} /\ lock' = None
  /\ Release(t)
  /\ signal' = [signal EXCEPT ![t] = "none"]
  /\ UNCHANGED <<serviceVars, subscribers, todo>>

\* When that was the last reference the thread of the signal destroys it.
SignalDestroys(t) ==
  /\ Destroy(t) \/ DropGuard(t)
  /\ UNCHANGED <<serviceVars, systemVars, signalVars>>

-----------------------------------------------------------------------------
ServiceNext(s) ==
  \/ Construct(s) \/ Asks(s) \/ Singleton(s)
  \/ Subscribe(s) \/ BuildAlerter(s) \/ StartWait(s)
  \/ StopThreads(s) \/ Shutdown(s) \/ Discard(s) \/ Unsubscribe(s) \/ LetGo(s)
  \/ \E o \in Objects : NewObject(s, o) \/ Cancel(s, o)
  \/ \E o \in AnyObject : DestroyObject(s, o)
  \/ \E o \in Objects, h \in Handlers : AsyncWait(s, o, h)
  \/ \E h \in AnyHandler : Adapt(s, h) \/ \E error \in Error : Run(s, h, error)

SignalNext(t) ==
  \/ SignalCalls(t) \/ SignalGets(t) \/ SignalLocks(t)
  \/ \E s \in Services : SignalDelivers(t, s)
  \/ SignalReturns(t) \/ SignalDestroys(t)

Next == \/ \E s \in Services : ServiceNext(s)
        \/ \E t \in Signals : SignalNext(t)

Spec == Init /\ [][Next]_vars

-----------------------------------------------------------------------------
(***************************************************************************)
(* Properties.                                                             *)
(***************************************************************************)

\* A signal that the service of a guard takes, from the construction of its
\* object on, is not lost before the function of the guard is called: it is
\* queued, or the handler is on its way with it, though it came before the
\* first wait; and no handler waits while a signal is queued. A handler that
\* waits belongs to an object that exists, and it is in one place.
SignalsNotLost ==
  /\ TypeOK
  /\ \A s \in Services : service[s].queued > 0 => Parked(s) = {}
  /\ \A g \in Guards :
       service[g].at \in {"subscribed", "built", "running"} =>
         service[g].owed = service[g].queued + Cardinality(service[g].taken)
                             + Cardinality(service[g].posted)
  /\ \A o \in AnyObject :
       parked[o] # {} => \E s \in Services : o \in service[s].objects
  /\ \A h \in AnyHandler :
       Cardinality({o \in AnyObject : h \in parked[o]}
                     \cup {s \in Services : h \in service[s].taken}
                     \cup UNION {{<<s, e>> : e \in {f \in Error :
                                    <<h, f>> \in service[s].posted}} :
                                 s \in Services}) <= 1

\* A signal is delivered to services that live: deliver_signal never visits
\* one whose destructor has gone past remove_subscriber, whoever destroys it
\* meanwhile, and the system_service outlives its subscribers.
DeliversToTheLiving ==
  /\ \A t \in Signals : \A s \in todo[t] : service[s].at \notin {"absent", "removed"}
  /\ \A s \in subscribers : pc[s] = "holding" /\ ref[s] \in alive
=============================================================================
