--------------------------- MODULE HandlerStorage ---------------------------
(***************************************************************************)
(* handler_storage (ma/handler_storage.hpp) and its service                *)
(* (ma/handler_storage_service.hpp): cells that keep a handler until it is *)
(* posted to the io_service, replaced or cleaned up.  A handler may own    *)
(* the storages it is stored in, and its destructor may run user code that *)
(* calls storages again (src/handler_storage_test), so every destruction   *)
(* is a call tree: stack is the call stack of the thread, the innermost    *)
(* call first.                                                             *)
(*                                                                         *)
(* The calls of the program are serialised, as the documentation demands   *)
(* for shared storages.  The threads in io_service::run are concurrent     *)
(* with them: they leave run when the io_service has no outstanding work.  *)
(***************************************************************************)
EXTENDS Naturals, Sequences, FiniteSets

Seqs == INSTANCE SequencesExt

CONSTANTS
  Storages, Handlers, Null

ASSUME StorageAssumption ==
  /\ Null \notin Storages /\ Null \notin Handlers
  /\ IsFiniteSet(Storages) /\ IsFiniteSet(Handlers)

(***************************************************************************)
(* storage: the life of a handler_storage and the handler_ of its          *)
(* implementation; listed is impl_list_, shutdown is shutdown_.  handler   *)
(* says for a handler where it is and what it owns.  chain is the list of  *)
(* handlers in shutdown_service, queue the handlers posted to the          *)
(* io_service, roots the storages the program itself points to.  run is    *)
(* "running" while threads run the io_service, "returned" after they found *)
(* no work, "stopped" after stop(), "gone" when the io_service is          *)
(* destroyed.  promised holds the handlers stored while it ran, and ends   *)
(* counts how often a handler was destroyed; both are history.             *)
(***************************************************************************)
VARIABLES
  storage, listed, shutdown, handler, stack, chain, queue, roots, run,
  promised, ends

vars == <<storage, listed, shutdown, handler, stack, chain, queue, roots,
          run, promised, ends>>

\* handler_storage: "dead" is a destroyed one.
StorageState == [life : {"none", "alive", "dead"}, handler : Handlers \cup {Null}]

(***************************************************************************)
(* The continuation that the destructor of active_destructing_handler      *)
(* calls: an operation on a storage, for "store" with the handler next.    *)
(***************************************************************************)
Continuation ==
  [op : {"none", "store", "clear", "post"},
   on : Storages \cup {Null}, next : Handlers \cup {Null}]

NoContinuation == [op |-> "none", on |-> Null, next |-> Null]

(***************************************************************************)
(* A handler: simple ones own nothing, hooked ones own storages, active    *)
(* ones have a continuation besides.  The work_ of the wrapper is there    *)
(* while the handler is "stored" or "chained".                             *)
(***************************************************************************)
HandlerState ==
  [at : {"unborn", "bound", "stored", "chained", "taken", "queued", "dying",
         "ended"},
   owns : SUBSET Storages, then : Continuation]

Unborn == [at |-> "unborn", owns |-> {}, then |-> NoContinuation]

Call == [do : {"continue", "release", "close", "enqueue", "chain", "queue"},
         on : Storages \cup Handlers \cup {Null}]

Frame(do, on) == [do |-> do, on |-> on]

-----------------------------------------------------------------------------
(* Who keeps what alive. *)

\* handler_ptr::reset: the wrapper is destroyed and its memory given back
\* through the copy of the handler, which then goes out of scope: it calls
\* its continuation and releases what it owns.
Ending(h) == <<Frame("continue", h), Frame("release", h)>>

OwnedBy(hs) == UNION {hs[h].owns : h \in Handlers}

Moved(hs, h, at) == [hs EXCEPT ![h].at = at]

Slot(s) == storage[s].handler

\* What keeps the threads in io_service::run: work_ of the stored handlers,
\* the work that do_post holds, the posted handlers.
OutstandingWork ==
  {h \in Handlers : handler[h].at \in {"stored", "chained", "taken", "queued"}}

-----------------------------------------------------------------------------
(***************************************************************************)
(* The operations of the service, on the storages st and the handlers hs,  *)
(* with the calls rest to go on with.                                      *)
(***************************************************************************)

Become(st, hs, calls) == storage' = st /\ handler' = hs /\ stack' = calls

\* store: the old handler is destroyed when the new one is in its place.
DoStore(s, h, hs, rest) ==
  IF shutdown
  THEN /\ Become(storage, Moved(hs, h, "dying"), Ending(h) \o rest)
       /\ UNCHANGED promised
  ELSE LET old == Slot(s)
           put == [storage EXCEPT ![s].handler = h]
           now == Moved(hs, h, "stored")
       IN /\ IF old = Null THEN Become(put, now, rest)
             ELSE Become(put, Moved(now, old, "dying"), Ending(old) \o rest)
          /\ promised' = IF run = "running" THEN promised \cup {h} ELSE promised

\* Mutant: clear destroys the handler before it empties the storage.
ClearTooLate(s, rest) ==
  IF Slot(s) = Null THEN Become(storage, handler, rest)
  ELSE Become(storage, Moved(handler, Slot(s), "dying"), Ending(Slot(s)) \o rest)

\* clear: the storage is empty before the handler is destroyed.
DoClear(s, rest) ==
  IF Slot(s) = Null THEN Become(storage, handler, rest)
  ELSE Become([storage EXCEPT ![s].handler = Null],
              Moved(handler, Slot(s), "dying"), Ending(Slot(s)) \o rest)

\* Mutant: do_post without the local copy of work_.
PostWithoutWork(s, rest) ==
  IF Slot(s) = Null THEN Become(storage, handler, rest)
  ELSE Become([storage EXCEPT ![s].handler = Null],
              Moved(handler, Slot(s), "bound"),
              <<Frame("enqueue", Slot(s))>> \o rest)

\* post: the storage is empty and the wrapper gone when the handler is
\* posted.  An empty storage throws bad_handler_call and stays as it is.
DoPost(s, rest) ==
  IF Slot(s) = Null THEN Become(storage, handler, rest)
  ELSE Become([storage EXCEPT ![s].handler = Null],
              Moved(handler, Slot(s), "taken"),
              <<Frame("enqueue", Slot(s))>> \o rest)

-----------------------------------------------------------------------------
(* The calls in progress. *)

Running(do) == stack # << >> /\ Head(stack).do = do

Subject == Head(stack).on

\* The continuation of a handler that is being destroyed.
Continue ==
  LET c == handler[Subject].then IN
  /\ Running("continue")
  /\ CASE c.op = "none"  -> Become(storage, handler, Tail(stack)) /\ UNCHANGED promised
       [] c.op = "store" -> DoStore(c.on, c.next, handler, Tail(stack))
       [] c.op = "clear" -> DoClear(c.on, Tail(stack)) /\ UNCHANGED promised
       [] c.op = "post"  -> DoPost(c.on, Tail(stack)) /\ UNCHANGED promised
  /\ UNCHANGED <<listed, shutdown, chain, queue, roots, run, ends>>

(***************************************************************************)
(* The pointers a handler owned are released; a storage that nobody owns   *)
(* any more is destroyed.                                                  *)
(***************************************************************************)
Release ==
  LET h == Subject
      hs == [handler EXCEPT ![h].at = "ended", ![h].owns = {}]
      lost == handler[h].owns \ (roots \cup OwnedBy(hs))
  IN
  /\ Running("release")
  /\ handler' = hs
  /\ ends' = [ends EXCEPT ![h] = @ + 1]
  /\ \E order \in Seqs!SetToSeqs(lost) :
       stack' = [i \in DOMAIN order |-> Frame("close", order[i])] \o Tail(stack)
  /\ UNCHANGED <<storage, listed, shutdown, chain, queue, roots, run, promised>>

\* impl_list_.erase.
Unlist(s) ==
  \E i \in DOMAIN listed : listed[i] = s /\ listed' = Seqs!RemoveAt(listed, i)

\* Mutant: destroy does not look at shutdown_ and leaves the handler.
CloseKeepsHandler ==
  /\ Running("close")
  /\ storage' = [storage EXCEPT ![Subject].life = "dead"]
  /\ stack' = Tail(stack)
  /\ IF shutdown THEN UNCHANGED listed ELSE Unlist(Subject)
  /\ UNCHANGED <<handler, shutdown, chain, queue, roots, run, promised, ends>>

\* ~handler_storage, service::destroy.
Close ==
  LET s == Subject
      old == Slot(s)
  IN
  /\ Running("close")
  /\ IF shutdown
     THEN /\ Become([storage EXCEPT ![s].life = "dead"], handler, Tail(stack))
          /\ UNCHANGED listed
     ELSE /\ Unlist(s)
          /\ LET dead == [storage EXCEPT ![s] = [life |-> "dead", handler |-> Null]]
             IN IF old = Null THEN Become(dead, handler, Tail(stack))
                ELSE Become(dead, Moved(handler, old, "dying"),
                            Ending(old) \o Tail(stack))
  /\ UNCHANGED <<shutdown, chain, queue, roots, run, promised, ends>>

\* The end of do_post: io_service::post, then the local work goes.
Enqueue ==
  /\ Running("enqueue")
  /\ queue' = Append(queue, Subject)
  /\ handler' = Moved(handler, Subject, "queued")
  /\ stack' = Tail(stack)
  /\ UNCHANGED <<storage, listed, shutdown, chain, roots, run, promised, ends>>

\* The loop of shutdown_service reads the next handler, then destroys one.
DestroyChained ==
  /\ Running("chain")
  /\ IF chain = << >>
     THEN stack' = Tail(stack) /\ UNCHANGED <<handler, chain>>
     ELSE /\ chain' = Tail(chain)
          /\ handler' = Moved(handler, Head(chain), "dying")
          /\ stack' = Ending(Head(chain)) \o stack
  /\ UNCHANGED <<storage, listed, shutdown, queue, roots, run, promised, ends>>

\* The io_service destroys what is still posted, and is gone.
DestroyQueued ==
  /\ Running("queue")
  /\ IF queue = << >>
     THEN stack' = Tail(stack) /\ run' = "gone" /\ UNCHANGED <<handler, queue>>
     ELSE /\ queue' = Tail(queue)
          /\ handler' = Moved(handler, Head(queue), "dying")
          /\ stack' = Ending(Head(queue)) \o stack
          /\ UNCHANGED run
  /\ UNCHANGED <<storage, listed, shutdown, chain, roots, promised, ends>>

-----------------------------------------------------------------------------
(* The program. *)

Idle == stack = << >> /\ ~shutdown

Alive(s) == storage[s].life = "alive"

\* service::construct.
Construct(s) ==
  /\ Idle /\ storage[s].life = "none"
  /\ storage' = [storage EXCEPT ![s].life = "alive"]
  /\ listed' = Append(listed, s)
  /\ roots' = roots \cup {s}
  /\ UNCHANGED <<shutdown, handler, stack, chain, queue, run, promised, ends>>

\* service::move_construct: the handler moves to the new storage s.
MoveConstruct(s, from) ==
  /\ Idle /\ storage[s].life = "none" /\ from \in roots
  /\ storage' = [storage EXCEPT ![s] = [life |-> "alive", handler |-> Slot(from)],
                                ![from].handler = Null]
  /\ listed' = Append(listed, s)
  /\ roots' = roots \cup {s}
  /\ UNCHANGED <<shutdown, handler, stack, chain, queue, run, promised, ends>>

(***************************************************************************)
(* The handlers a program can make of the storages it points to: the       *)
(* continuation owns its storage, and the storages of the handler that it  *)
(* will store.                                                             *)
(***************************************************************************)
NewHandlers(h) ==
  LET plain(owns) == [at |-> "bound", owns |-> owns, then |-> NoContinuation]
      active(owns, op, on, next) ==
        [at |-> "bound", owns |-> owns \cup {on},
         then |-> [op |-> op, on |-> on, next |-> next]]
  IN
  {[handler EXCEPT ![h] = plain(owns)] : owns \in SUBSET roots}
  \cup
  {[handler EXCEPT ![h] = active({}, op, on, Null)] :
     op \in {"clear", "post"}, on \in roots}
  \cup
  {[handler EXCEPT ![h] = active(owns, "store", on, next), ![next] = plain(owns)] :
     owns \in SUBSET roots, on \in roots,
     next \in {g \in Handlers : g # h /\ handler[g].at = "unborn"}}

(***************************************************************************)
(* handler_storage::store.  When the memory of the wrapper cannot be had,  *)
(* the call throws: the handler goes, the storage keeps what it has.       *)
(***************************************************************************)
StoreHandler(s, h) ==
  /\ Idle /\ s \in roots /\ handler[h].at = "unborn"
  /\ \E hs \in NewHandlers(h) :
       \/ DoStore(s, h, hs, << >>)
       \/ /\ Become(storage, Moved(hs, h, "dying"), Ending(h))
          /\ UNCHANGED promised
  /\ UNCHANGED <<listed, shutdown, chain, queue, roots, run, ends>>

ClearStorage(s) ==
  /\ Idle /\ s \in roots /\ Slot(s) # Null
  /\ DoClear(s, << >>)
  /\ UNCHANGED <<listed, shutdown, chain, queue, roots, run, promised, ends>>

PostStored(s) ==
  /\ Idle /\ s \in roots /\ Slot(s) # Null
  /\ DoPost(s, << >>)
  /\ UNCHANGED <<listed, shutdown, chain, queue, roots, run, promised, ends>>

\* The program lets go of its pointer to a storage.
DropStorage(s) ==
  /\ Idle /\ s \in roots
  /\ roots' = roots \ {s}
  /\ stack' = IF s \in OwnedBy(handler) THEN << >> ELSE <<Frame("close", s)>>
  /\ UNCHANGED <<storage, listed, shutdown, handler, chain, queue, run,
                 promised, ends>>

\* A thread in run takes a posted handler, calls it and destroys it.
Invoke ==
  /\ Idle /\ run = "running" /\ queue # << >>
  /\ queue' = Tail(queue)
  /\ handler' = Moved(handler, Head(queue), "dying")
  /\ stack' = Ending(Head(queue))
  /\ UNCHANGED <<storage, listed, shutdown, chain, roots, run, promised, ends>>

\* The threads in run find no outstanding work, at any moment.
RunReturns ==
  /\ run = "running" /\ OutstandingWork = {}
  /\ run' = "returned"
  /\ UNCHANGED <<storage, listed, shutdown, handler, stack, chain, queue,
                 roots, promised, ends>>

\* io_service::stop, and the threads are joined.
StopRun ==
  /\ Idle /\ run = "running"
  /\ run' = "stopped"
  /\ UNCHANGED <<storage, listed, shutdown, handler, stack, chain, queue,
                 roots, promised, ends>>

\* The handlers in the list that shutdown_service makes of them: the one of
\* the last storage is its front.
Collected ==
  LET pushed[n \in 0..Len(listed)] ==
        IF n = 0 THEN << >>
        ELSE IF Slot(listed[n]) = Null THEN pushed[n - 1]
        ELSE <<Slot(listed[n])>> \o pushed[n - 1]
  IN  pushed[Len(listed)]

\* Mutant: shutdown_service leaves handler_ of the implementations.
ShutdownKeepsSlots ==
  /\ Idle /\ run \in {"returned", "stopped"} /\ roots = {}
  /\ shutdown' = TRUE
  /\ chain' = Collected
  /\ handler' = [h \in Handlers |->
       IF handler[h].at = "stored" THEN [handler[h] EXCEPT !.at = "chained"]
       ELSE handler[h]]
  /\ stack' = <<Frame("chain", Null), Frame("queue", Null)>>
  /\ UNCHANGED <<storage, listed, queue, roots, run, promised, ends>>

(***************************************************************************)
(* The destructor of the io_service, when no thread runs it and the        *)
(* program holds no storage.  shutdown_service takes all handlers from     *)
(* their storages under the lock, and destroys them outside it.            *)
(***************************************************************************)
Shutdown ==
  /\ Idle /\ run \in {"returned", "stopped"} /\ roots = {}
  /\ shutdown' = TRUE
  /\ chain' = Collected
  /\ storage' = [s \in Storages |-> [storage[s] EXCEPT !.handler = Null]]
  /\ handler' = [h \in Handlers |->
       IF handler[h].at = "stored" THEN [handler[h] EXCEPT !.at = "chained"]
       ELSE handler[h]]
  /\ stack' = <<Frame("chain", Null), Frame("queue", Null)>>
  /\ UNCHANGED <<listed, queue, roots, run, promised, ends>>

-----------------------------------------------------------------------------
Init ==
  /\ storage = [s \in Storages |-> [life |-> "none", handler |-> Null]]
  /\ listed = << >> /\ shutdown = FALSE
  /\ handler = [h \in Handlers |-> Unborn]
  /\ stack = << >> /\ chain = << >> /\ queue = << >>
  /\ roots = {} /\ run = "running" /\ promised = {}
  /\ ends = [h \in Handlers |-> 0]

InCall == \/ Continue \/ Release \/ Close \/ Enqueue
          \/ DestroyChained \/ DestroyQueued

Program ==
  \/ \E s \in Storages :
       \/ Construct(s) \/ ClearStorage(s) \/ PostStored(s) \/ DropStorage(s)
       \/ \E from \in Storages : MoveConstruct(s, from)
       \/ \E h \in Handlers : StoreHandler(s, h)
  \/ StopRun \/ Shutdown

Next == InCall \/ Program \/ Invoke \/ RunReturns

Spec == Init /\ [][Next]_vars

-----------------------------------------------------------------------------
(* Properties. *)

\* The types of the state.
TypeOK ==
  /\ storage \in [Storages -> StorageState]
  /\ listed \in Seq(Storages) /\ shutdown \in BOOLEAN
  /\ handler \in [Handlers -> HandlerState]
  /\ stack \in Seq(Call) /\ chain \in Seq(Handlers) /\ queue \in Seq(Handlers)
  /\ roots \subseteq Storages /\ promised \subseteq Handlers
  /\ run \in {"running", "returned", "stopped", "gone"}
  /\ ends \in [Handlers -> Nat]

(***************************************************************************)
(* A storage refers to handlers that are stored, to each of them from one  *)
(* storage; it is in impl_list_ as long as it lives, and a destroyed one   *)
(* holds nothing (the assertion in ~impl_base).  Nobody calls a storage    *)
(* that is destroyed.                                                      *)
(***************************************************************************)
StoragesSound ==
  /\ TypeOK
  /\ \A s \in Storages :
       /\ Slot(s) # Null => Alive(s) /\ handler[Slot(s)].at = "stored"
       /\ \A t \in Storages : Slot(s) = Slot(t) => s = t \/ Slot(s) = Null
       /\ ~shutdown => (Alive(s) <=> \E i \in DOMAIN listed : listed[i] = s)
  /\ Running("continue") /\ handler[Subject].then.op # "none" =>
       Alive(handler[Subject].then.on)

(***************************************************************************)
(* A handler is destroyed once, whatever its destructor and the            *)
(* destructors of what it owns call: the storage it was in no longer knows *)
(* it when they run.  And handlers that own the storage they are in,       *)
(* handlers whose destructor stores another one, handlers that were posted *)
(* and never called: when the io_service is destroyed they are all gone,   *)
(* and so are the storages.                                                *)
(***************************************************************************)
DestroyedOnce ==
  /\ \A h \in Handlers : ends[h] <= 1
  /\ run = "gone" =>
       /\ \A h \in Handlers : handler[h].at \in {"unborn", "ended"}
       /\ \A s \in Storages : storage[s].life # "alive"

(***************************************************************************)
(* A handler that was stored while threads ran the io_service keeps them   *)
(* there until it is called or destroyed: they do not find the io_service  *)
(* without work in the middle of post.                                     *)
(***************************************************************************)
WorkUntilCalled ==
  run = "returned" => \A h \in promised : handler[h].at \notin {"stored", "queued"}
=============================================================================
