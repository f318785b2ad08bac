---------------------------- MODULE SpSingleton ----------------------------
(***************************************************************************)
(* sp_singleton of ma/detail/sp_singleton.hpp: an object that is created   *)
(* when it is first asked for, is destroyed with its last shared_ptr, and  *)
(* of which there is never more than one, not even while the last one is   *)
(* still in its destructor.  Who asks for it is up to the module that      *)
(* extends this one; a thread asks with GetInstance or GetNullable.        *)
(***************************************************************************)
EXTENDS Naturals, FiniteSets

CONSTANTS
  Threads,
  Values,   \* the objects that there may be
  None      \* no thread, no object

ASSUME SingletonAssumption ==
  None \notin Threads /\ None \notin Values /\ Values # {}

(***************************************************************************)
(* mutex and weak are those of static_data; guards is the value of the     *)
(* threshold, the number of the instance_guards.  alive are the objects    *)
(* whose constructor is done and whose destructor is not.                  *)
(***************************************************************************)
VARIABLES mutex, weak, guards, alive, pc, ref

singletonVars == <<mutex, weak, guards, alive, pc, ref>>

SingletonTypeOK ==
  /\ mutex \in Threads \cup {None} /\ weak \in Values \cup {None}
  /\ guards \in Nat /\ alive \subseteq Values
  /\ ref \in [Threads -> Values \cup {None}]
  /\ pc \in [Threads -> {"idle", "waiting", "blocked", "holding",
                         "destroying", "dropping"}]

SingletonInit ==
  /\ mutex = None /\ weak = None /\ guards = 0 /\ alive = {}
  /\ pc = [t \in Threads |-> "idle"]
  /\ ref = [t \in Threads |-> None]

Holders(v) == {t \in Threads : pc[t] = "holding" /\ ref[t] = v}

\* weak_ptr::lock finds an object.
Locks == weak # None /\ Holders(weak) # {}

Take(t, v) == /\ pc' = [pc EXCEPT ![t] = "holding"]
              /\ ref' = [ref EXCEPT ![t] = v]

\* get_instance of an object that exists.
GetExisting(t) ==
  /\ pc[t] = "idle" /\ mutex = None /\ Locks
  /\ Take(t, weak)
  /\ UNCHANGED <<mutex, weak, guards, alive>>

\* get_instance when it does not: with the mutex held, wait for the threshold.
GetNew(t) ==
  /\ pc[t] = "idle" /\ mutex = None /\ ~Locks
  /\ mutex' = t
  /\ pc' = [pc EXCEPT ![t] = "waiting"]
  /\ UNCHANGED <<weak, guards, alive, ref>>

\* threshold::wait finds that there are instance_guards.
Blocks(t) ==
  /\ pc[t] = "waiting" /\ guards > 0
  /\ pc' = [pc EXCEPT ![t] = "blocked"]
  /\ UNCHANGED <<mutex, weak, guards, alive, ref>>

\* Mutant: the factory is called without the wait for the threshold.
CreateAtOnce(t) ==
  /\ pc[t] = "waiting" /\ mutex' = None
  /\ LET v == CHOOSE u \in Values : u \notin alive IN
       /\ Take(t, v)
       /\ alive' = alive \cup {v} /\ weak' = v
  /\ guards' = guards + 1

\* threshold::wait returns, and the factory makes the object, which keeps
\* its instance_guard.
Create(t) ==
  /\ pc[t] = "waiting" /\ guards = 0 /\ mutex' = None
  /\ LET v == CHOOSE u \in Values : u \notin alive IN
       /\ Take(t, v)
       /\ alive' = alive \cup {v} /\ weak' = v
  /\ guards' = guards + 1

\* The constructor of the object throws.
CreateFails(t) ==
  /\ pc[t] = "waiting" /\ guards = 0 /\ mutex' = None
  /\ pc' = [pc EXCEPT ![t] = "idle"]
  /\ UNCHANGED <<weak, guards, alive, ref>>

\* get_nullable_instance.
GetNullable(t) ==
  /\ pc[t] = "idle" /\ mutex = None
  /\ IF Locks THEN Take(t, weak) ELSE UNCHANGED <<pc, ref>>
  /\ UNCHANGED <<mutex, weak, guards, alive>>

\* The thread drops its shared_ptr; the last one runs the destructor.
Release(t) ==
  /\ pc[t] = "holding"
  /\ IF Holders(ref[t]) = {t}
     THEN pc' = [pc EXCEPT ![t] = "destroying"] /\ UNCHANGED ref
     ELSE /\ pc' = [pc EXCEPT ![t] = "idle"]
          /\ ref' = [ref EXCEPT ![t] = None]
  /\ UNCHANGED <<mutex, weak, guards, alive>>

\* The body of the destructor.
Destroy(t) ==
  /\ pc[t] = "destroying"
  /\ alive' = alive \ {ref[t]}
  /\ pc' = [pc EXCEPT ![t] = "dropping"]
  /\ UNCHANGED <<mutex, weak, guards, ref>>

\* Mutant: threshold::dec without the notification.
DropSilently(t) ==
  /\ pc[t] = "dropping"
  /\ guards' = guards - 1
  /\ pc' = [pc EXCEPT ![t] = "idle"]
  /\ ref' = [ref EXCEPT ![t] = None]
  /\ UNCHANGED <<mutex, weak, alive>>

\* ~instance_guard as the last of the members: threshold::dec, which
\* notifies the one thread that may wait.
DropGuard(t) ==
  /\ pc[t] = "dropping"
  /\ guards' = guards - 1
  /\ pc' = [u \in Threads |->
              IF u = t THEN "idle"
              ELSE IF pc[u] = "blocked" /\ guards' = 0 THEN "waiting" ELSE pc[u]]
  /\ ref' = [ref EXCEPT ![t] = None]
  /\ UNCHANGED <<mutex, weak, alive>>

-----------------------------------------------------------------------------
\* There is one object at most: a thread that finds the last object gone
\* waits for the end of its destructor in another thread, with the mutex of
\* the singleton held, and the end of the destructor wakes it. What the
\* threads hold is the one object, and each object has its guard.
OneInstance ==
  /\ SingletonTypeOK
  /\ Cardinality(alive) <= 1
  /\ \A t \in Threads : pc[t] \in {"holding", "destroying"} => ref[t] \in alive
  /\ guards = Cardinality(alive \cup {ref[t] : t \in {u \in Threads : pc[u] = "dropping"}})
  /\ \A t \in Threads : pc[t] = "blocked" => mutex = t /\ guards > 0
=============================================================================
