# A formal model of asio-samples

asio-samples is a collection of programs around Boost.Asio. Its core is an
*asynchronous echo server* (`ma_echo_server`): a session manager accepts TCP
connections, each of which is served by a session that writes back what it
reads, with flow control, inactivity timeouts, graceful shutdown, pooling of
sessions and a stop that unwinds all of it. Around it there are small reusable
pieces (cyclic buffer, handler storage, intrusive lists, singleton, console
signals, a saturating counter), two clients that load a server, a serial port
session for NMEA devices, a Qt front end and a tutorial.

This directory models the behaviour of that code in TLA+, checks small
instances of it with TLC, and proves what matters most for instances of every
size with TLAPS. Paths below are relative to the repository's `src` and
`include` directories, e.g. `ma/echo/server/session.cpp`.

## Running it

    tlc -config EchoSession.cfg              MCEchoSession.tla     # 5 s
    tlc -config RingBuffer.cfg               MCRingBuffer.tla      # 10 s
    tlc -config SessionManager.cfg           MCSessionManager.tla  # 90 s
    tlc -config SessionManagerLive.cfg       MCSessionManager.tla  # 6 s
    tlc -config SessionManagerDoubleStop.cfg MCSessionManager.tla  # finds a violation
    tlc -config ServerMain.cfg               ServerMain.tla        # 2 s
    tlc -config IntrusiveList.cfg            IntrusiveList.tla     # 5 s
    tlc -config HandlerStorage.cfg           MCHandlerStorage.tla  # 60 s
    tlc -config LoadClient.cfg               LoadClient.tla        # 35 s
    tlc -config ConsoleSignal.cfg            MCConsoleSignal.tla   # 60 s
    tlc -config NmeaSession.cfg              NmeaSession.tla       # 60 s
    tlc -config QtService.cfg                QtService.tla         # 20 s
    tlapm EchoSessionProofs.tla                                    # 2 min
    tlapm SessionManagerProofs.tla                                 # 7 min
    tlapm ServerMainProofs.tla
    tlapm QtServiceProofs.tla
    tlapm ConsoleSignalProofs.tla
    tlapm NmeaSessionProofs.tla
    tlapm LoadClientProofs.tla
    tlapm HandlerStorageProofs.tla                                 # 9 min

## Inventory

| component | code | state it keeps | operations | how it interacts |
|---|---|---|---|---|
| echo session | `ma/echo/server/session.{hpp,cpp}` | external and internal state, the three activities read, write, timer, `pending_operations_`, two timer flags, the cyclic buffer, two parked handlers | `async_start`, `async_wait`, `async_stop`, `reset`; handlers of read, write and timer | runs on its strand; completes to the manager through posts |
| session manager | `ma/echo/server/session_manager.{hpp,cpp}` | external, internal and accept state, `pending_operations_`, list of active sessions, recycled wrappers, cursor of a stop in progress, statistics, two parked handlers | `async_start`, `async_wait`, `async_stop`, `reset`; handlers of accept, of a session's start, wait and stop, of a scheduled batch of stops | its own strand; posts requests to sessions, receives their completions in any order |
| cyclic buffer | `ma/cyclic_buffer.hpp` | start and size of the filled and of the nonfilled sequence | `consume`, `commit`, `data`, `prepared`, `reset` | called by the session while transfers hold blocks of its memory |
| session factories | `ma/echo/server/{simple,pooled}_session_factory.cpp` | released sessions; for the pooled one, the load of every pool | `create`, `release` | called by the manager |
| handler storage | `ma/handler_storage.hpp`, `handler_storage_service.hpp` | the parked handler, the list of all storages, whether the service is shut down | `store`, `clear`, `post`, move construction, destruction; `shutdown_service` | used by sessions, manager and signals; destroys handlers, whose destructors may call it back |
| echo server application | `echo_server/main.cpp` | `server_state` under a mutex and a condition variable | handlers of start, wait, stop, Ctrl+C and of failing threads; two waits of the main thread | on top of the manager |
| singleton | `ma/detail/sp_singleton.hpp` | weak pointer to the instance, count of instance guards, a mutex | `get_instance`, `get_nullable_instance`, destruction of the instance and of its guard | used by the console signals |
| console signals, close guard | `ma/windows/console_signal*`, `ma/console_close_guard.cpp` | subscribed services; per service its objects, queued signals and posted handlers; per object its parked handlers | `async_wait`, `cancel`, `destroy`, `deliver_signal`, `shutdown_service`, subscription | threads of Windows against threads of each io_service |
| NMEA session | `ma/nmea/cyclic_read_session.*` | external state, read and write in progress, the input buffer, the ring of frames, the read error, two parked handlers | `async_start`, `async_read_some`, `async_write_some`, `async_stop`, `resest`; handlers of the port | used by `nmea_client` |
| load clients | `asio_performance_test_client/main.cpp`, `async_connect/main.cpp` | per session connection, buffer, timer and statistics; the manager's progress; the outstanding work under a mutex | start in blocks, connect, read, write, pause, disconnect, stop, wait | main thread, manager and sessions; peers of the server |
| Qt service and form | `ma/echo/server/qt/service.cpp`, `mainform.cpp` | state of the service, its servant; buttons and timer of the form | start, stop, terminate; slots of the servant's and of its own queued signals | Qt's event loop against the servant's threads |
| intrusive lists | `ma/detail/intrusive_list.hpp`, `ma/sp_intrusive_list.hpp` | hooks in the objects, ends of the list, a size | push, pop, erase, clear, swap, move, insert of a list | used by the services, factories and the manager |
| `limited_int` | `ma/limited_int.hpp` | a value and whether it overflowed | addition, increment | statistics of the clients and of the manager |
| tutorial | `ma/tutorial/*`, `async_basics*` | one timer, one parked handler | `async_do_something`, completion | none |
| allocators, wrappers | `ma/*handler*.hpp`, `ma/detail/binder.hpp` | an `in_use` flag | allocate, invoke | around every handler |

Which behaviours are hard, and what makes each component correct:

- **Echo session.** Three operations in flight complete in any order, and each
  may fail; the user may stop it in any state; the shutdown after the peer's FIN
  has still to write what was read; the timer's expiry races with its
  cancellation. Correct means: every byte is echoed once and in order, the FIN
  follows the last byte, every handler is called once, the internal stop ends
  with the last operation and not before, an inactive session ends and an
  active one does not, and a recycled session is as good as a new one.
- **Session manager.** The completions of one session's start, wait and stop
  overtake each other; the stop walks a list in batches while sessions leave
  it; accepting may fail for good, or for now. Correct means: no session is
  forgotten, none is reset while somebody holds it, the limit on sessions is
  kept, room is used, and the stop is answered exactly once, when nothing is
  left.
- **Cyclic buffer.** Four members that are updated separately have to describe
  one ring, while a read and a write hold blocks of its memory. Correct means:
  it is a queue, and neither operation touches the other's cells.
- **Application.** Ctrl+C, the end of the server's work, a late start handler and
  a failing work thread race for one variable, on which the main thread sleeps.
  Correct means: the variable only advances, the stop is asked for once, the
  main thread is always woken, the process ends, and its exit code tells why.
- **Handler storage.** The destructor of a handler may own the storage it is in,
  or store, clear and post elsewhere, in the middle of any call. Correct means:
  every handler is destroyed once, no storage is used after its end, and the
  io_service does not run out of work while it has to call somebody.
- **Singleton and console signals.** Windows calls in threads of its own while
  services come and go. Correct means: one instance at a time, nobody waits for
  ever, a signal that was taken reaches its handler, and only living services
  are visited.
- **NMEA session.** The port is read in the background, its frames overwrite each
  other, its errors wait for the next reader. Correct means: frames are whole,
  in order and never change once given out, and everyone who waits has a cause.
- **Load clients.** A session ends in one of many ways and has to be counted down
  once. Correct means: the count is exact, a connected session never stalls, the
  sums are exact, and the test ends.
- **Qt service.** What a servant tells is queued, and arrives when the service has
  gone on. Correct means: each start and stop is answered once, the end of the
  work is told, and a server that is over does not stay.
- **Lists.** Up to four pointers change in one operation, in objects that several
  lists share. Correct means: each list behaves as a sequence.

## What is modelled, and how it corresponds to the code

An asynchronous operation runs on a strand, one handler at a time, so **one
handler is one action**. A handler is a chain of calls of member functions. The
members of the C++ object are the fields of one record, each member function is
an operator from a record to a record with the name it has in the code
(`continue_work` is `ContinueWork`), and the action composes them as the handler
does. What the code cannot decide - what a peer sends, which system call fails,
when a timer expires, which completion is delivered first - is chosen by `\E`
in the action. Where threads meet under locks instead of strands
(`SpSingleton`, `ConsoleSignal`, `HandlerStorage`), one action is what happens
under one lock, or between two calls of foreign code.

| module | models | state and actions |
|---|---|---|
| `CyclicBuffer` | arithmetic of `cyclic_buffer.hpp` | no state; `Commit`, `Consume`, `Data`, `Prepared`, `Blocks` on a record of the four members |
| `RingBuffer` | a cyclic buffer with its two asynchronous users | the four members, the memory, the blocks of the read and of the write in flight; start and completion of each, `ResetBuffer` |
| `BoundedFifo` | what the cyclic buffer promises | a queue of bytes; `Put`, `Take`, `Clear` |
| `EchoSession` | `session.cpp`, complete | the record `Session`; `ExternStart`, `ExternStop`, `ExternWait`, `Reset`, `HandleRead`, `HandleWrite`, `HandleTimer`, and `Connect` for the acceptor |
| `SessionContract` | what a session promises to the manager, and the manager to the application | no state; for each request the set of its outcomes |
| `AbstractSession` | `SessionContract` as a specification | a view of a session; implemented by `EchoSession` |
| `SessionManager` | `session_manager.cpp`, complete | the record `Server` with a wrapper and a session per slot; the manager's handlers, and for each session the delivery of a completion, the next request on its strand, its own end |
| `AbstractServer` | the server's part of `SessionContract` as a specification | a view of the manager; implemented by `SessionManager` |
| `ServerMain` | `echo_server/main.cpp`: `run_server` and its handlers | `server_state`, the place of the main thread, the exit code, the server as its contract shows it, the work threads; `Signal`, the delivery of a handler, a failing thread, the two waits, time-out and spurious wake-up, the end |
| `IntrusiveList` | the three lists, pointer by pointer | hooks, ends and sizes; one action per member function; for the list of shared pointers also who owns whom |
| `ListContract` | what a list promises | sequences; implemented by `IntrusiveList` |
| `HandlerStorage` | `handler_storage_service.hpp` | storages, handlers with what they own and call when destroyed, the call stack, `impl_list_`, the queue of the io_service; an operation begins a call, and each destruction of a handler is a step in it; `Shutdown`, `Invoke`, `RunReturns` |
| `LimitedCounter` | `limited_int.hpp` | no state; `Add`, `AddCounter`, `Increment` |
| `ClientSession` | the sessions of both clients | no state; an operator per handler, from a session to a session |
| `LoadClient` | both clients: main, manager, `work_state`, sessions | one action per handler of the manager and of each session, and per step of the main thread |
| `SpSingleton` | `sp_singleton.hpp` between threads | mutex, weak pointer, guards, and for each thread where it is in `get_instance` or in the destructor |
| `ConsoleSignal` | the Windows console signals and the close guard, over `SpSingleton` | services from construction to removal (the constructor of a guard in its three locked steps `Subscribe`, `BuildAlerter`, `StartWait`), their objects, parked, taken and posted handlers, queued signals; threads of Windows that walk the subscribers |
| `NmeaSession` | `cyclic_read_session.cpp` | state, port, the device's stream, frame objects and the ring of frames; requests, port handlers, `Resest` |
| `QtService` | `service.cpp` and the slots of `mainform.cpp` | service, servant (by `SessionContract`), event queue, buttons; clicks, slots, and the servant's threads |
| `MC...` | - | constants of the runs |
| `...Proofs` | - | theorems |

How the pieces compose: `EchoSession` uses the operators of `CyclicBuffer` for
its buffer. `EchoSession` implements `AbstractSession` (the property
`ImplementsContract`), and `SessionManager` runs its sessions by the same
`SessionContract`, so the manager is checked with what the session was shown to
do, and not with a copy of its details. One level up it is the same:
`SessionManager` implements `AbstractServer`, and `ServerMain` and `QtService`
run their servers by the same operators. `ConsoleSignal` extends `SpSingleton`
with the only users of a singleton; `LoadClient` extends `ClientSession`, and
both count with `LimitedCounter`.

In `ServerMain` a handler holds the mutex of `server_state` from its first line to
its last, so it is one action. The strand keeps the order of the requests,
which are made under that mutex; the handlers are run by any work thread, in
any order. A work thread that an exception has ended may have left one posted
handler undone.

In `HandlerStorage` the variable `stack` holds the calls that the thread is in,
the innermost first: a destroyed handler first runs its continuation (an
operation on a storage it may or may not live in), then releases the storages
it owns, whose destructors destroy further handlers. The kinds of handlers are
those of `handler_storage_test`.

What is abstracted, and why it changes nothing that is checked:

- Bytes are their positions in the peer's stream. `EchoFaithful` needs no more,
  and the code never looks at a byte. In the clients, which echo a buffer
  that nobody looks at, a transfer is its size.
- An `error_code` is one of the classes that the code tells apart: none, end of
  file, any other error, aborted, inactivity timeout.
- A system call that the code calls with an `error_code` is a name in a *fault
  set*; a handler is run with a set of calls that fail in it.
- Requests that are answered with `invalid_state` without any change are left
  out of `EchoSession`'s actions; `SessionContract` has them, and the manager's
  model shows which of them happen.
- `session_wrapper` objects are slots. A recycled wrapper and a new one differ in
  nothing but the counter `recycled`, which the model keeps. There is one slot
  more than `max_session_count`, and `AcceptsWhileRoom` says that it is not used
  up.
- Handlers that the code posts to itself, and completions, are elements of a set
  (any order); requests from the manager to a session are a sequence, since a
  strand keeps the order of posts from one strand.
- The window between the delivery of a completion to the manager's io_service
  and its strand adds no order that the set of replies does not have already.
- What an NMEA device sends are tokens: the head of a frame, its tail, and
  anything else; a frame is an interval of the stream.
- The mutex that Windows itself holds around the list of console handlers is
  external: a thread of Windows may call for as long as an instance is registered.

## Runs

| run | question | bounds |
|---|---|---|
| `session` | Is one session correct over every order of completions, user requests and failures, does it keep its contract, and does it end when the peer hangs? | buffer of 4 bytes, transfers of at most 3, a stream of 10 bytes; with and without inactivity timeout; no failure, each single one, and both cancellations |
| `ring_buffer` | Is the buffer a queue while a read and a write overlap? | 4 cells, two byte values, every transfer size, partial transfers |
| `manager` | Is the manager correct over every order of completions, with accepts, acceptors and factories failing, and does it keep the contract of a server? | 3 sessions, batches of 2, 1 recycled wrapper |
| `manager_live` | Is the server's stop always answered? | 2 sessions, batches of 1 |
| `manager_double_stop` | May a stop of a session be refused, as an assertion excludes? | 1 session; **violated** |
| `application` | Does the process follow Ctrl+C, the end of its server and failing threads, whatever comes first, and does it end? | Ctrl+C twice, 2 work threads, spurious wake-ups |
| `lists` | Are the lists sequences, in both directions, with objects that move from list to list? | 4 objects, 2 lists, each of the three kinds |
| `handler_storage` | Is every handler destroyed once, and no storage used when it is gone? | 2 storages, 3 handlers of every kind |
| `load_client` | Is every session counted once, does a connected one never stall, are the sums exact, does the test end? | 2 sessions in blocks of 1, 2 endpoints, 2 attempts, a buffer of 3, counters that saturate at 2 |
| `console_signal` | Do signals reach the handlers of services that come and go, over one instance? | a guard, another service with 2 objects and 2 handlers, 2 threads of Windows |
| `nmea` | Are frames whole, is everyone who waits answered? | an input buffer of 4 tokens, a ring of 2 frames, a stream of 7 tokens |
| `qt_service` | Is every call of the form answered, and how often is the end of its work told, although signals come late? | 2 servants, 2 threads each |

Why the bounds are enough to see the interesting cases. In a ring of 4 with
transfers of 3 the filled bytes wrap around, transfers have two blocks, are
offered less than there is, and complete partially; 10 bytes take the ring more
than twice around, and the shutdown is met at every fill level. Three sessions
in batches of two need a second batch, with the cursor on the last session; a
session before it, at it and after it may end between the batches. One
recycled wrapper of three makes `recycle` meet both its branches. A fault set
with two elements is needed only for the pair `cancel` and `stop_cancel`: after
any other failure a handler calls nothing else that can fail and matter. A third
Ctrl+C finds the application `stopped` like every handler that is late; two work
threads let one fail while the other goes on. A list of four objects has a first,
a last and two inner ones, so that an erase meets every case of its neighbours.
Three handlers over two storages make a chain (a handler that owns the storage
of the next), a cycle (one that owns its own) and a replacement in a destructor.
Two client sessions in blocks of one let a stop come while the second is still
to be started; a counter limit of 2 below totals of 3 saturates in the session
and in the sum. Two signals let one walk the subscribers while the other gets
or destroys the instance. Seven tokens make three frames for a ring of two, and
a frame that overflows the input buffer. A second servant is enough to receive
what was told about the first.

What the properties say (the comments in the modules are precise):

- `OperationsAccounted`, `PendingAccounted`, `OutstandingExact`: the counters on
  which every stop depends count exactly what is in flight, so that "zero" means
  that nothing can call back; a parked handler is owed exactly one call, and is
  parked only while something is still to come that will call it; sessions are
  reset when idle only.
- `TransfersOwnTheirCells`, `OperationsOwnTheirCells`, `WriteSeesStableCells`,
  `ImplementsFifo`, `EchoFaithful`: the data path, through wrap around, partial
  transfers and the shutdown, up to the FIN.
- `TimerWatchesTransfers`: the inactivity timer watches every transfer, and does
  not fire on an active session.
- `RecycledIsNew`: recycling leaks nothing from one connection to the next.
- `ImplementsContract` (both), `ImplementsLists`: the refinements.
- `AcceptsWhileRoom`, `SessionsAttended`, `StopReachesEverySession`,
  `RequestsInTurn`, `ReportedOnce`: the manager's bookkeeping.
- `StateOnlyAdvances`, `ServerAskedInTurn`, `SleepsWithReason`, `ExitTellsWhy`: the
  races for `server_state`. The last one has an exception that the code has too:
  `wait_until_server_stopped` waits once, so a main thread that wakes up by itself
  takes the server for stopped and terminates it with exit code 0.
- `LinkedBothWays`: ends, sizes and both directions of every list agree, and an
  object in no list owns nobody.
- `DestroyedOnce`, `StoragesSound`, `WorkUntilCalled`: handlers end once, also in
  the two phases of the shutdown; nobody calls a destroyed storage; threads do
  not leave `run` with a handler to call.
- `EchoKeepsGoing`, `StatsExact`: the client's buffer goes round, and its sums are
  those of what happened, or saturated.
- `OneInstance`, `DeliversToTheLiving`, `SignalsNotLost`: the singleton has one
  instance and wakes who waits for it, the walk over the subscribers meets none
  that is gone, and a signal is queued, on its way, or handled, from the moment
  on at which a guard has its object.
- `WaitersHaveCause`, `FramesIntact`: of the serial session.
- `EveryCallAnswered`: of the Qt service, each start and each stop once, a time of
  work once as aborted (finding 3); with its `server_` not null wherever it is used.
- `StopAnswered` (both), `SilentPeerDropped`, `AppExits`, `ClientEnds`,
  `StopsWhenOver`: liveness.

Every property is paired with a mutated definition (the operators commented
`Mutant:`) that a plausible slip in the code would amount to, and that TLC finds
to violate it.

### Fairness

`EchoSession!Fairness` assumes that a timer wait completes and that operations
on a closed socket complete, which is what the operating system and Asio
guarantee. Nothing is assumed of the peer: a read or write on an open socket
may never complete. The only bound on the peer is `MaxBytes`; against a peer
that sends for ever the code gives no guarantee, since every transfer moves the
timer. For the same reason `StopAnswered` of the manager and `SilentPeerDropped`
are about sessions with an inactivity timeout only: without one the graceful
shutdown waits for the peer.

`SessionManager!Fairness` assumes that posted handlers are run, that the accept
of a closed acceptor completes, and that a session that is ending ends (what
`SilentPeerDropped` shows of a session). It does not assume that a working
session ever ends by itself.

`ServerMain!Fairness` assumes that the main thread and the work threads are
scheduled, and that `stop_timeout` expires. It assumes neither that the server
ends its stop nor that Ctrl+C is pressed.

`LoadClient!Fairness` assumes that threads run, timers expire and operations on a
closed socket complete; not that a connect or a transfer on an open one does,
and not that the time of the test ends. `NmeaSession!FairSpec` assumes that the
operations on a closed port complete, nothing of the device. `QtService!FairSpec`
assumes that the event loop and the servant's threads run and that a server
that was asked to stop ends; nothing of the user.

## Findings

1. *A stop may be refused.* `handle_session_stop_at_stop` and `_at_work` assert
   that `session::async_stop` did not fail; the comment before the assertion
   (`session_manager.cpp:1052`) gives the only conceivable reason, a double stop,
   and its prevention. There is another reason: the server stops while a
   session is starting, `start_active_session_stop` asks that session to stop,
   its start then fails in `apply_socket_options`, which makes the session
   `stopped`, and the stop is refused. The run `manager_double_stop` shows it. A
   build without assertions goes on correctly; `RequestsInTurn` says that this is
   the only way to a refusal.
2. *A late session is not counted.* `handle_session_start_at_stop`
   (`session_manager.cpp:945`) stops a session that started after the server
   began to stop, without the call of `session_stopped` that all other paths
   make: it is in `total_accepted` and in none of the counters of stopped
   sessions. `ReportedOnce` states the sum with this exception (`startedLate`).

3. *The Qt service tells twice that its work is over.* When the server leaves its
   work by itself, `onServantWaitCompleted` emits `workCompleted` with the error of
   the servant (`service.cpp:470`); the slot of the form finds the service still
   at work and calls `asyncStop` (`mainform.cpp:349`), which forwards a second
   `workCompleted`, as aborted (`service.cpp:410`). The form logs both; nothing
   documents how often the signal comes. `EveryCallAnswered` states it: a
   time of work is answered once as aborted (`answered`), and the signals with the
   error of a servant (`over`) are at most as many as the times of work that ended.

Observations made while modelling, which no property is about:

- The comment before `session::reset` resets its buffer (`session.cpp:174`) says that
  the unfilled sequence is empty after it; `cyclic_buffer::reset`
  (`cyclic_buffer.hpp:183`) makes it the whole buffer, which the session needs to
  read at all and `EchoSession` starts with.
- The clients apply their `no_delay` setting as the socket option `linger`
  (`asio_performance_test_client/main.cpp:478`, `async_connect/main.cpp:330`); the
  help text (`main.cpp:882`) calls it `no_delay`.
- A session of `async_connect` keeps `connected_` set over `continue_work`, so its
  next connect begins with it set.
- `work_state::wait` with a timeout waits without a loop; a spurious wake-up ends
  the test early. Nothing excludes a
  `block_size` of 0, with which no session is ever started, or a `buffer_size` of
  1, half of which is nothing: such a session of the performance client sends
  nothing and waits for its echo.
- Three helpers of `handler_storage_test/main.cpp` (460-470) take a counter by
  value and keep a reference to it.
- An NMEA device that sends no delimiter for the length of the input buffer makes
  every read fail (`not_found`) until the session is reset.
- `intrusive_forward_list::push_back` asserts that the object it has made the last
  one has a successor, unless it is the only one (`intrusive_list.hpp:607`);
  nobody calls it. The copy assignments of both lists have no `return`
  (`intrusive_list.hpp:228`, `519`).
- Disconnecting a queued Qt signal takes no posted event back: the answer of an
  earlier servant may be taken for the current one's. `EveryCallAnswered` and
  `StopsWhenOver` hold in spite of it.
  `createServant` may throw in `on_startButton_clicked` outside of its `try`.

## What is proved

The assumptions are those on the constants, which
`echo_server/config.cpp` enforces: `BufferSize` and `MaxTransfer` are positive,
and the fault sets are sets of system calls. Nothing is bounded but what a
constant bounds.

`EchoSessionProofs` holds for **every** `BufferSize`. Of the cyclic buffer, and of
its two users on every set `Value`:

1. *Arithmetic*: `Forward`, the comparison that replaces a
   modulo in `commit` and `consume`, stays on the ring (`ForwardInCell`), may be
   split in two (`ForwardSplits`), and is injective for less than a round
   (`ForwardInjective`). The blocks of n bytes hold n bytes, and visit the next n
   cells (`BlocksLength`, `BlocksCells`). `commit` and `consume` keep the two
   sequences complementary (`CommitComplementary`, `ConsumeComplementary`).
2. *Invariant* (`RingInvariance`): `RingInv == RingTypeOK /\
   OperationsOwnTheirCells` is inductive. `RingTypeOK` alone is not: that a completed
   transfer is no longer than the sequence it is applied to follows only from
   the operation having been given the first cells of that side, and that this
   stays so from the completion of the other operation moving only the far end
   of the side. Hence the theorems `RingTypeCorrect` and `OwnCells`.
3. *Stability* (`StableCells`): the first cells of the room are disjoint from the
   filled ones (`SidesApart`, from injectivity), so a completing read stores
   into no cell of the write in flight.
4. *Refinement* (`Queue`): under the mapping `Contents` (the filled cells in the
   order of the ring), a completed read is a `Put`, a completed write a `Take`,
   `ResetBuffer` a `Clear`, and everything else stutters.

Of the session, for every size of the transfers and of the stream, with
and without timeouts, and for every family of fault sets:

5. *Invariant* (`Invariant`): a handler is a chain of operators, so there are two
   predicates. `Working` says what holds of a session in the middle of a handler
   (at work or shutting down, counters exact, transfers own their cells, handlers
   answered); `Settled` what holds when the handler is over: in addition a stopped
   session has stopped activities, one that is stopping has an operation in
   flight and no idle activity, a ready one is as new. There is one lemma per
   operator, of the form *from `Working` it goes on `Working`, or it ends
   `Settled`*, and the lemmas are composed in the order of the calls. `do_start_extern_stop` changes the
   external state long before it parks its handler; the parameter `stopping` of
   both predicates stands for that interval. `IInv` is `Settled` of the session.
   It is stronger than `OperationsAccounted`, which is not inductive: that the last
   completion finds all activities stopped needs "no idle activity while
   stopping", and that a completed transfer does not throw needs
   `TransfersOwnTheirCells` and with it the arithmetic of item 1.
   Hence `Accounted` and `OwnTransfers`.
6. *Recycling* (`Recycled`): of the members that `reset` leaves alone, the invariant
   says that they have their first value in a session that may be reset.
7. *Refinement* (`Implements`): each of those lemmas also says how
   the five members that a user sees have moved (`Keeps`, `Ends`, `Leaves`). A
   completion therefore is a stuttering step of `AbstractSession`, the end of an
   ending session, or its departure from work for one of the causes of
   the contract; and the calls of the user are outcomes of `StartOutcomes`,
   `WaitOutcomes` and `StopOutcomes`. So what the manager is checked with is what
   every session does, not only the one of the run.

Its second half, on the stream and the timer, holds for streams of every length:

8. *The stream* (`Flow`, `EchoedFaithfully`): `EchoFaithful` speaks of what has left
   the session and is not inductive. `Flow` adds what is still inside: the filled
   cells hold, in the order of the ring, the bytes received and not yet echoed
   (`Held`), until the writer has stopped and the buffer is only a place to read
   into. A read adds behind them without touching them (`ConsumedFlows`, from
   `ReadFills` and `SidesApart`), and a write takes the first of them, which are the
   next ones to be echoed (`CommittedFlows`); both need that a transfer owns its cells
   whatever completed since its start, that is, the invariant of item 5. The
   socket is shut down by a writer at rest, and `WriteMore` leaves a writer at
   rest only for want of data, so at the end of the peer's stream nothing is left
   (`WritingEnds`, the case of a stopped reader in `ShutdownGoesOn`).
9. *The timer* (`Watch`, `TimerWatches`): a session is unwatched in the middle of
   its handlers, between the cancellation of the wait and its restart, so
   `TimerOn` and `Moving` are asked of it at their end only. That a transfer is in
   flight then follows from the buffer never being without room and without data
   at once (`WorkGoesOn`), and from the buffer being emptied for the reader when the
   writer has stopped (`ShutdownGoesOn`, by `RoomAtFirst`). The handlers of
   transfers restart the wait; `do_start_extern_stop` alone does not, and does not
   need to, because it finds the session watched. `GoodInv` is the conjunction of
   this, of `Flow` and of `IInv` (`StreamInvariant`).

`SessionManagerProofs` holds for every number of sessions, of recycled sessions
and of sessions in a batch of the stop, and for every family of fault sets:

10. *Invariant* (`Invariant`): none of the manager's properties is inductive, and
   `IInv` has four parts that need each other. (a) What each session can look
   like (`SessionShape`): which requests may be queued in which state, and that
   each is replied to once. (b) What the state of a wrapper tells of its session
   (`SlotShape`): a session in `start` or `work` awaits that operation only, one
   in `stop` awaits its stop, one that is done with owes a late reply. (c) The
   counters as cardinalities (`PendingCounted`, `OpsCounted`, `ReportsCounted`):
   of the set of pairs of a session and an operation it awaits. (d) The manager at
   work (`AtWork`) and at its stop (`AtStop`): where the cursor is, that
   everything up to it is being stopped, that an accept in progress still has
   room. `Working` is their conjunction in the middle of a handler, as for the
   session, with the same parameter `stopping`; `RoomUsed` holds between
   handlers only, and is what `continue_work` restores.
   The proof follows the layers of the code. `RunShaped` and `InternalShaped`
   say of each outcome of `SessionContract` that it keeps the shape of the
   session and what it awaits; `SlotAccounts` that the counters balance when
   each has moved with one session; `SlotErased` and `CursorMoved` that a session
   that leaves the list does not take the cursor with it; `BatchStops`
   that a batch asks each of its sessions once. Each handler then is composed
   from them up to `continue_work` or `continue_stop` (`StartReplied`,
   `WaitReplied`, `StopReplied`, `AcceptHandledAtWork`), which end in the
   invariant (`Continues`).
11. *Properties*: each of the six safety properties of `SessionManager` follows from
   `IInv`: `PendingIsAccounted` (with the type of the manager, whose counters are
   not negative because they count something), `AlwaysAccepts`,
   `NoSessionForgotten`, `StopReaches`, `InTurnAlways`, `EndsReported`. The
   sessions are those of `SessionContract`, which `Implements` shows every
   `EchoSession` to be, so the manager is right about real sessions.
12. *Refinement* (`ImplementsServer`): a handler of the manager leaves what the user
   sees as it is (`Keeps`), ends a stop (`Ends`), or leaves the work for lack of an
   acceptor (`Leaves`); the lemmas `AcceptMoves`, `ScheduledMoves`
   and `DeliverMoves` say so of each, through `continue_work` and `continue_stop`. The
   first is a stuttering step of `AbstractServer`, the others are outcomes of the
   contract that no request asks for. The requests are its
   outcomes for them, and a manager that is ready again is as new for its user
   (`ReadyIsFresh`). With `Implements` and the properties of `ServerMain`, the
   application is right about the real server, and that about real sessions.

`ServerMainProofs` holds for every number of signals and work threads, with and
without spurious wake-ups:

13. *Invariant* (`Invariance`): `IInv == TypeOK /\ SleepsWithReason /\ SeenStopping`
   is inductive. `SleepsWithReason` alone is not: that the second sleep begins
   with a server that is stopping follows from the first wait having seen it
   (`SeenStopping`), and from the value not going back. All five handlers are
   treated as one kind of step (`HandlerStep`), and the lemmas `StartTyped`,
   `WaitTyped`, `StopTyped` and `InternalTyped` say that the contract of the server
   leads to views and replies of the right type. Hence `TypeCorrect` and
   `NoLostWakeUp`.
14. *Action property* (`OneWay`): `server_state::value` only advances.
15. *Turn and exit code* (`AskedInTurn`, `ExitCodeTells`): neither property is inductive.
    `InTurn` adds which of six contents the strand of the server can have, and what
    the server can be until the stop comes to it (`Early`): so the wait meets a server
    at work, and a refused stop one that failed to start. `Told` adds what a reply
    that is not delivered yet says of the server, and who has initiated a
    stop from before the main thread hears of it. Every handler has one of four
    reasons (`Handled`), and the cases are the same for both. Hence `AskedInTurn` and
    `ExitCodeTells`.
16. *The Qt service* (`QtServiceProofs`: `QtInvariant`, `CallsAnswered`; every
    number of servants):
    `EveryCallAnswered` is not inductive. A call must find the service in a state it
    is allowed in, so the form has to show that state (`Shown`), and what is
    forwarded must be one of the three signals (`Good`), whose counts `CountAppend`
    and `CountTail` keep. A signal of an earlier servant is not from the current
    one and changes no count; the current one moves by the contract of the server.
    The end of the work is told twice in one action (`WorkIsOver`): by the signal of
    the servant, which `Told` bounds, and by what `asyncStop` forwards.

`ConsoleSignalProofs` holds for every number of threads of Windows, of close
guards, of other io_services and of their objects and handlers, if `None` is
none of them and there is an object to create:

17. *The singleton* (`SingletonInv`, `SingletonKept`): `OneInstance` is not
    inductive. The instance is in one of three phases, `Absent`, `Present` (held,
    or in the destructor of its last holder) and `Departing` (the destructor is
    done, its guard not yet dropped); a thread that finds no instance can pass the
    threshold in the first only, and nobody takes the mutex from it while
    it waits (`mutex` tells who is between the lookup and the creation).
    Hence `Unique`.
18. *The subscribers* (`Attended`): each step of a service is at most one step of
    the singleton in its own thread, and keeps the list of subscribers in agreement
    with its stage (`ServiceStep`); it leaves the list only while no signal has
    the lock. So the walk of a signal stays inside the list, and a subscriber
    holds the instance. Hence `VisitsTheLiving`.
19. *The signals* (`HeardInv`, `SignalsHeard`): `SignalsNotLost` counts the places of a
    handler and the signals owed to a guard, and is not inductive: it does not say
    whose the handlers and objects are, so a step of one service could upset another,
    nor which place of a guard's handler goes with which number owed. `HeardInv` says that
    each service keeps to its own objects and handlers (`Alone`), that the
    objects are disjoint (`Placed`), that a handler lies in one place (`Once`), that a
    guard between the construction of its object and its first wait is owed what
    is queued (`Unheard`), and that the handler of one that runs waits with nothing
    owed or is on its way with the one signal that is not queued (`Waiting`). A step of a service then is seen by
    itself only (`Framing`), and moves handlers to one place or to none (`Going`,
    `Forgetting`).

`NmeaSessionProofs` holds for every size of the two buffers, of the reads, of the
pieces that come from the device and of the stream:

20. *Waiters* (`NobodyForgotten`): `WaitersHaveCause` lacks only that a session that is
    ready has no error left over, which the restart of the port relies on.
21. *Frames* (`WholeFrames`): `FramesIntact` is not inductive. `Sound` adds where the
    frames lie, behind a head that is consumed (`Begun`) and before the place up to
    which they have been cut (`Top`), and whose the objects are: those in
    `frame_buffer_` are distinct, and none of them is one that the application
    got. So the object that a full buffer gives up for the next frame is no longer
    anybody's (`StoredAgain`), and a read takes a first part of the frames over as they
    are (`TakesSound`). That a delimiter is the first of its kind behind `consumed`
    (`FirstFound`) rests on every set of numbers having a least one
    (`LeastExists`, from `WellFoundedInduction`).

`LoadClientProofs` holds for every number of sessions, endpoints and attempts to
connect, every size of the buffer and of a block of sessions, and every integer type:

22. *Counting* (`AddCounts`, `AddCounterCounts`, `IncrementCounts`): a counter that
    counted n, in whatever order and portions, through sums of counters that may
    have overflowed themselves, is n or is marked; the limit is compared before
    the sum is made.
23. *The sessions* (`ClientInvariant`): `Steady` holds of a session in the middle of its
    handlers, `Sound` at their end, when a connected echo session moves its
    buffer round (`Going`) and there is an attempt left to make (`Trying`). The parts of a
    handler have a lemma each (`Stops`, `Connecting`, `Writing`, `Reading`), and the handlers
    are composed from them (`ReadSound` to `TimerSound`). `OutstandingExact` needs
    that a session leaves the outstanding work when it stops and not again, and that a
    request to start does not meet a session that has started; that
    follows from the manager, which has told the sessions up to `end` to start and
    nobody to stop as long as it has not stopped (`Telling`, `BlockStarted`, `AllTold`).
    Hence `Outstanding` and `EchoNeverStalls`.
24. *The sums* (`StatisticsExact`): the statistics are defined by recursion over the
    sessions. The library proves that such a function exists, and
    induction over it, only in the form of theorems that take an operator, which the provers
    cannot instantiate; `UpTo` and `Recursion` do both for functions on 0..n with
    a set in the place of the operator and its least element
    (`LeastExists`). By `Totalled` a counter that counts one number more
    in each step ends with their sum. A session that never connected is left out
    of the sum of the echo client, and has nothing to count.

`HandlerStorageProofs` holds for every number of storages and of handlers, and so for
chains and cycles of them of every length:

25. *Invariant* (`Invariant`): none of the three properties is inductive, because the
    calls on the stack decide what is still going to happen. The invariant says of
    the stack that a continuation stands right above the release of the same
    handler and that no call is on it twice (`Orderly`), and of the storages and the
    handlers (`Core`): each handler is in one place, which agrees with the storages,
    with the lists and with the calls about it (`Places`); a storage lives as long
    as a root or a handler owns it, and one that is lost is on the stack to be closed
    (`Closing`); a continuation still to be called owns the storage it uses, and the
    handler it will store waits for it alone (`Continuing`). `Core` has a parameter
    for the handler in hand, between the storage or the call it came from and
    the one it goes to, and one for the storage whose destructor has begun. So
    there is one lemma for each part of an operation (`EmptyAndDrop`, `PutInHand`,
    `Continued`, `Released`, `CloseBegins`, `CloseEnds`, ...), and `store`, `clear`,
    `post` and `destroy` are composed from them, whoever calls (`Stores`, `Clears`,
    `Posts`, `ClosedFull`). The list that `shutdown_service` makes is a recursive
    function, about which `CollectedHandlers` goes the way of item 24.
26. *Properties*: `StoragesAreSound`, `DestroyedOnceOnly` and `WorksUntilCalled` follow.
    That everything is gone with the io_service is `Core` of an empty stack, empty
    lists and no roots: a handler that is only bound would have to be stored by
    another one, which is in none of the places left, so nobody owns a storage.

The second part of `HandlerStorageProofs` is about the lists, one of which holds the
storages of the service. It holds for every finite set of objects, every number of
lists, and the three containers:

27. *Invariant* (`ListInvariant`): `LinkedBothWays` speaks of the objects that are
    reached from the front, and is not inductive: nothing in it keeps the objects of
    two lists apart, so an operation on one could upset the other. `ListIInv` is `Shape`
    of the contents: each list is a sequence of distinct objects that `next` threads and, if
    the container has them, `prev` threads back, from one end to the other
    (`Listed`); no object is in two of them; and in a list of shared pointers an
    object in no list has no hooks set. The link between the pointers and the
    sequences is `WalksThrough`: whoever follows `next` from the front
    of a sequence that it threads finds that sequence and stops, since its objects are
    distinct and therefore not more than there are. So a step need only be shown to leave hooks
    that thread the new sequences (`Becomes`), and those are the new contents
    (`ContentsBecome`).
    What pointer updates do to a sequence is said once for all containers: two
    sequences joined (`JoinedThreads`, `JoinedBacks`, `JoinedEnds`), of which a push
    at either end is the case of one object; one object bypassed (`WithoutThreads`,
    `WithoutBacks`, `WithoutEnds`), which covers `erase` and the pops; and hooks that
    change outside a sequence (`Untouched`). On these rest `PushedFront`,
    `PushedBack`, `TakenOut` and `Exchanged`, and on them one lemma per operation
    (`PushFrontStep` to `ClearStep`).
28. *Both ways* (`EndsAgree`): `LinkedBothWays` follows from `ListIInv`. That the owning list
    keeps nothing alive after it let go is the last part of `Shape`.
29. *Refinement* (`ListsAreSequences`): the same lemmas say what becomes of the
    sequences, so each step has one of the eight effects in `Effect`, and each of
    those is an operation of `ListContract` (`EffectIsPromised`). That `Without` is
    `RemoveAt` of the library is `Removed`.

With them every safety property that a run checks is a theorem. Only
model-checked remain the liveness properties, since fairness and `ENABLED` are out
of the prover's reach, and the run that shows a violation.

## Not modelled

- *Session factories*: which of its pools a pooled factory takes a session from is
  a choice by load that neither the manager nor a session can see; that `create`
  may fail and that released sessions come back reset is in `SessionManager`.
- *Handler allocators and wrappers* (`bind_handler.hpp`, `strand_wrapped_handler.hpp`,
  `context_alloc_handler.hpp`, `detail/binder.hpp`): forwarding templates without state, but for
  an allocator's `in_use` flag, which only decides between its own block and the
  heap. That one allocator never serves two outstanding handlers is
  `RequestsInTurn`.
- *Configuration*: options are parsed in one pass without state; the ranges that
  are enforced are the assumptions on the constants.
- *Tutorial*: one parked handler and one timer, the pattern of which the sessions
  are the full form.
- *Tests*: the handlers of `handler_storage_test` are those of `HandlerStorage`, and
  `sp_singleton_test` and `windows_console_signal_test` are single runs of what
  `SpSingleton` and `ConsoleSignal` take in every order.
- The types of Boost and Qt appear by what the code relies on; build files and
  patches are not code of the program; logging and printing are left out.
- A client whose resolver throws in `main` (`asio_performance_test_client/main.cpp:1202`)
  leaves its threads running: an end of the process by an exception, which
  `LoadClient` does not have.
