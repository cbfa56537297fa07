# Verification of webservice

`webservice` is a C++ library for HTTP and WebSocket servers and clients on Boost
Asio and Beast. Almost all of its logic is callbacks: handlers in strands, timers
that are cancelled while their handler may already be queued, and a counter of
locks that says when an object may be destroyed. This directory holds TLA+ modules
for that logic, the configurations TLC checks them with, and proofs for TLAPS.

Paths of the code are relative to the root of the repository, without the leading
`src/` of its checkout: `src/ws_session.cpp`, `include/webservice/async_locker.hpp`.

## 1. Inventory

| Component | State it keeps | Operations | What makes it correct |
|---|---|---|---|
| `async_locker` (`async_locker.hpp`) | `lock_count_`, a callback | `make_first_lock()`, `make_lock()`, move and `unlock()` of a lock | the count is exact; the callback runs once, when the last lock is gone and none will come |
| `ws_session` (`ws_session.cpp`) | stream, timer, `ping_counter_`, `wait_on_pong_`, `is_open_`, `write_list_`, `close_reason_`, `locker_`, two strands | `do_accept()`, `start()`, `send()`, `close()`, the handlers of read, write, close, ping and timer, `on_open()`, `on_text()`, `on_binary()` | messages are written in order and before the close frame; callbacks are in order; the timer is never lost; it is erased once, by the last handler |
| `ws_service_base`, `basic_ws_service`, `ws_service` | `map_` from sessions to values, `shutdown_` | `async_server_connect()`, `async_client_connect()`, `send_text()`, `send_binary()`, `close()` and their `_if` forms, `modify_value()`, `on_erase()`, `on_shutdown()` | no session after the shutdown; the service outlives its sessions; `shutdown_finished()` is called once and last |
| `ws_handler_interface`, `ws_service_interface` | `run_lock_`, `shutdown_lock_`, `locker_` | `shutdown()`, `shutdown_finished()`, `is_shutdown()`, connects | one of the two locks is held until the shutdown is finished |
| `ws_service_handler` | `services_`, the map from names to services | `add_service()`, `erase_service()`, connects, `on_shutdown()` | a service is destroyed only when it has ended, by a lambda whose iterator is valid |
| `ws_identifier` | the address of a session | comparison | a call finds the session it was made for |
| `http_session`, `http_response` | socket, timer, queue of responses, `locker_` | `run()`, `do_read()`, `response()`, `on_write()`, `do_close()`, `do_timer()` | responses in the order of the requests; no response is stuck; the session always has a timer, ends, and is erased once and last |
| `http_sessions`, `http_request_handler` | `set_`, `run_lock_`, `shutdown_lock_` | `async_emplace()`, `async_erase()`, `shutdown()` | every session is shut down and leaves the set; the locks are given back |
| `listener`, `server` | acceptor, the parts above | accept loop, `shutdown()`, `block()` | the shutdown reaches all parts and can be called at any time |
| `executor` | threads, `call_once` flag | `run()`, `shutdown()`, `block()` | threads survive exceptions and return when nothing is left |
| `client` | executor and one handler | `connect()`, `shutdown()`, `block()` | as the server |
| `file_request_handler`, `path_concat`, `mime_type` | none | sequential functions of strings and file input | no path outside of the root, right types |
| `error_handler`, `conversion`, `shared_const_buffer`, `json_ws_service`, `ws_session_settings` | none or plain values | conversions, settings | nothing that interleaves |

How they interact. A thread of the executor runs the listener's accept handler,
which hands the socket to `http_sessions` (its strand), which creates an
`http_session` (a strand of its own). An upgrade moves the socket to the
`ws_handler_interface` of the server, by way of a `ws_service_handler` (its strand)
to a `ws_service_base` (its strand), which creates a `ws_session` (a strand for the
stream and a second one, `handler_strand_`, for the callbacks of the service). The
way back is by locks: each handler holds a lock of its session, the last one calls
`on_erase()` or `async_erase()`, which queues a lambda with a lock of the owner on
the owner's strand; the last erase after a shutdown gives the owner's
`shutdown_lock_` back. Calls of the user (`send()`, `close()`, `add_service()`,
`shutdown()`) come from any thread.

What is hard here, and where (the full list, with lines, is `hazards` in
`PROJECT.json`):

- two accesses to one counter, and two locks that are moved one into the other by a
  thread beside the strand that reads them;
- timers: a wait that has expired cannot be cancelled, its handler is queued, and
  meanwhile a message or a request restarts the wait;
- destruction by the last handler, whoever it is, while calls are queued;
- the order of callbacks that come through two strands, of frames around a close
  frame, and of responses to pipelined requests;
- a shutdown against connects, ends of sessions, erases and other calls;
- queues at their limit of 64;
- peers that never answer.

## 2. Modules

| Module | Models | Uses |
|---|---|---|
| `AsyncLatch` | what an `async_locker` promises: operations begin only while others run; once the last one has returned there are no more, and the callback runs once | |
| `AsyncLocker` | `async_locker`, access by access | implements `AsyncLatch` |
| `WsSession` | `ws_session` with its two strands | the locker as a predicate, `Busy` |
| `WsSessionStages` | what a service sees of a `ws_session` | `WsSession`, an instance of `WsService` |
| `WsService` | `ws_service_base` and `ws_handler_interface` | sessions as stages of their life |
| `HttpSession` | `http_session` and `http_response` | the locker as a predicate, `Busy` |
| `HttpSessionStages` | what the set sees of an `http_session` | `HttpSession`, an instance of `HttpSessions` |
| `HttpSessions` | `http_sessions`, `http_request_handler`, `listener`, the HTTP half of the shutdown function of `server_impl` | sessions as stages of their life |
| `WsServiceHandler` | `ws_service_handler` | services as stages of their life |
| `Server` | `server`, `client` and `executor` with their `_impl`: the `io_context`, its threads, the shutdown, the destructor | extends `HttpSessions`, an instance of `WsService` |
| `*Proofs` | theorems and proofs about the module of that name (`WsSessionOrderProofs`: the order of callbacks and frames of `WsSession`) | |
| `MC*` | the small instances TLC checks | |

The conventions are the same in all of them. A handler that runs in a strand is one
step, because strands exclude the others; where another strand or thread can see a
point in the middle, the step is split there and a variable (`pc`, `phase`,
`caller`, `closer`, `inserting`) says how far it is. `dispatch()` from elsewhere
appends to a queue, the head of which is the lambda that runs. A lock in the capture
of a handler is the presence of that handler among the outstanding operations or in
a queue; `Busy` is `lock_count_ # 0`. A method called by several handlers is an
operator on the record of the object's members (`DoRead(s)`, `StopTimer(s)`), so that
a handler reads as the composition of calls it is in the code. Operators commented
*Wrong on purpose* are no part of a specification: each is a plausible bug that some
property must detect.

### AsyncLocker

`count` is `lock_count_`, `live` the locks not yet destroyed, `holder` who has them.
The constructor of a lock reads the count (`Check`, `FirstCheck`) and increments it
(`MakeLock`, `FirstLock`) in two steps; `make_first_lock()` is `FirstCas`,
`FirstCheck`, `FirstLock`, `FirstUndo`; `unlock()` is `Unlock` and, for the thread
that reaches zero, `Callback`. `MoveLock` is a lock that travels into a queued
handler and out again; the assignment of a lock is a move onto an empty one, as
everywhere in the library (onto an engaged one `operator=` would overwrite the pointer
without the decrement, which is not modelled). An `Outsider` may call `make_lock()` without holding a lock.
The refinement maps `phase` of the latch to whether the callback has been or is
about to be called, and `running` to `live`.

### WsSession

`ses` is the record of the members protected by `strand_`: the state of the stream,
outstanding operations `ops` and `pings`, the timer (`armed`, or `expired` when its
handler is queued), cancelled waits whose handler is still queued (`aborted`), and
the members of the same names as in the code. `accepted`, `wire` and `received` are
history. `hq` is the queue of `handler_strand_`, `calls` the lambdas of `send()` and
`close()` on `strand_`; `erases` the lambdas of `on_erase()` on the service's strand.
The service's `make_lock()` in `send()` and `close()` is `CallCheck` and `CallQueue`
(the two accesses of `AsyncLocker`), as it holds no lock of the session. When
`manyThreads`, a variable that never changes, is FALSE nothing runs between the two, or
beside the strand.

Assumed of Beast and Asio (external): an operation completes with any result the
handlers distinguish; one that fails leaves the stream failed; `is_open()` is false
from the first close frame that was sent or received; on a failed stream or a closed
socket outstanding operations complete; a cancelled wait has its handler called with
`operation_aborted`, an expired one cannot be cancelled any more.

`WsSessionStages` maps the state of the session to its stage and its queue of calls in
`WsService` (`StageOf`, `CallsOf`). `StepsAsInService` says that each step of the
session is a step `SessionNext` of an instance of `WsService`, one of the strand of the
service, or none the service sees: the abstraction of a session that `WsService`
uses is shown and not assumed.

### WsService

A session is an address whose `stage` is `none` (free), `handshake`, `open`,
`closing`, `draining` (its stream has ended, a callback still runs) or `done` (its last
lock is destroyed). `Closes` is the end of the use of the stream, from either side or
by a failure. An address is free again after the erase, and calls with an
old identifier are delivered to whoever lives there. `phase`, `todo` and `at`
are the loop over `map_`: the `make_lock()` in `send()` or `close()` of a session is
`VisitCheck` and `VisitQueue`, its two accesses to `lock_count_`, and `VisitNot` when it
throws. The lambda of the session then runs inside the loop when the
session's strand is free (`VisitEnd`), or is left to the thread that has the strand
(`RunCall`). `manyThreads` is a variable that never changes, so that one run covers both.

With several threads two things go wrong in the code, and the module has both:

- The last lock of a session may be destroyed between `VisitCheck` and `VisitQueue`.
  `on_erase()` is then queued behind the loop and the call is queued in a session that is
  about to be destroyed. `Outlived` notes in `stale` the addresses of sessions that are
  erased with a call or a handler left. What such a handler does with freed memory is
  undefined: it does nothing, has an effect that the peer of a later session at
  that address could have, or calls `on_erase()` once more (`RunStale`), whose lambda finds
  no session (`EraseNothing`) or a later one (`RunErase`).
- When a `send()` or `close()` that runs inside the loop destroys the last lock, the
  session is erased inside the loop, and the code goes on from an erased
  node: undefined behaviour, modelled as going on anywhere (`VisitErases`).

With one thread neither can happen, and no handler outlives its session: this is the
last conjunct of `ServiceEndsLast`. `LockWhileSessions` speaks of sessions in `map_`: the
`make_lock()` of the noexcept `on_erase()` does not throw for these; for a second
`on_erase()` of a session that is gone nothing is promised.

### HttpSession

`http` is the record of members: `sock` is `open`, `shut` (after `do_close()`),
`closed` (by the timer) or `moved` (by an upgrade); `items` the queue of responses,
`answered` and `wire` history. `do_read()` at the end of a handler is
`ReadNot`/`ReadCancel` and `ReadStart`, because `do_close()` may be called
from the strand of the set between the accesses (`CloseShut`, `CloseCancel`). A request
handler answers before it returns (`Answer`) or throws (`AnswerThrows`); the
exception leaves the handler and is caught by `executor::run`. A write that is
started on a socket that is not open (`badWrite`) fails. `HttpSessionStages` relates
the session to its stage in `HttpSessions` as `WsSessionStages` does; its property
has the liveness that `HttpSessions` assumes of a session, too.

### HttpSessions

`caller` is how far the thread in `server_impl`'s shutdown function is: the
acceptor closed, `run_lock_` moved to the local lock, the local lock moved to
`shutdown_lock_`, the lambda deferred. `stage` of an address is `none`, `live`, `shut`
(after `do_close()`), `moved` (an upgrade has taken its socket) or `done` (the last lock destroyed, `async_erase()` called).
The test of `is_shutdown()` in `async_emplace()` and the insertion are two steps, as
`shutdown()` is not in the strand. `InsertFails` is a `run()` that throws: the lock that
is destroyed while the stack is unwound erases the session. `AcceptFails` is an error of
the accept that is not an abort, after which the listener is silent. `Terminate` is the exception of `make_lock()` that
leaves `shutdown()`, which is `noexcept`.

### WsServiceHandler

`life` of a name is `none`, `running`, `closing` (its `shutdown()` was called) or
`ended` (its last lock was destroyed); `told` are the services whose callback erases
them. That a service which was shut down ends is not assumed (`ServiceEnds` has no
fairness), as a session that stays open or closing keeps it. The lambda of that callback holds no lock of the handler, so it is not part of
`Busy`. `repeated` counts the calls of `shutdown_finished()` that throw.

### Server

One module for the server without WebSocket handler, the server with one, and the client:
`parts` says which. It extends `HttpSessions` with its own variables and has
an instance of `WsService` for the WebSocket handler (a single
service; `server::connect()` and an upgrade both end in its
`Connect`). What the module adds is what all of them share:

- the `io_context` stops for ever when its count of work is zero: `Work` lists what
  counts (the guard of a client, an armed accept, queued lambdas, sessions that
  have not ended, a callback that runs), and every step ends with `Count`, which
  sets `stopped`;
- the threads: `running` are in `io_context::run()`, `catching` in
  `on_exception()` after a handler has thrown (`Throw`), from where they return
  (`RunAgain`). `Inside` counts those of `running` that are inside a handler between two
  steps, so `Free` says that a thread can take a handler. With one thread a callback that
  has called `shutdown()` keeps everything else waiting;
- `shutdown()`: `by` is the first caller under `call_once`, the user's thread, or
  a callback of an HTTP session, of a WebSocket session or of the service
  (`on_close()`, which is called in the strand of the service). `ShutdownHttp`, `ShutdownWs` and `ResetWork` are
  `shutdown_fn_`, in the order of the code, and other threads run between them;
- the destructor: `Destruct` is its call of `shutdown()` (which waits for the end
  of the first one), `Join` is `block()` and the destruction of the parts.

A moved HTTP session ends when the response being written on its socket does, at the latest
with the WebSocket session that has the socket.

## 3. Runs

| Run | Question | Properties | Answer |
|---|---|---|---|
| `locker` | Do callers that hold a lock keep the locker's promise? | `LockerTypeOK`, `CountExact`, `LastAsyncIsLast`, `HolderNeverRefused`, `ImplementsLatch` | holds |
| `locker_outsider` | And a caller without a lock? | `LastAsyncIsLast` | violated |
| `ws_session` | Timer, queue, order of frames and callbacks, the end of a session, on one thread and on several | `WsTypeOK`, `ClientTimerLive`, `NoStuckQueue`, `WireInOrder`, `CallbacksInOrder`, `ErasedAfterLast`, `OpenSilentPeerDropped`, `CloseCompletes`, `StepsAsInService` | holds |
| `ws_server_timer` | Does a server session have its timer? | `TimerLive` | violated |
| `ws_closing` | Is a dead peer always given up? | `SilentPeerDropped` | violated |
| `ws_service` | Shutdown of a service, one thread or several | `ServiceTypeOK`, `LockWhileSessions`, `ServiceEndsLast`, `FinishedWhenErased`, `ShutdownCompletes`, `NoSessionAfterShutdown` | holds |
| `ws_service_close` | Does the shutdown close all sessions? | `ShutdownClosesAll` | violated |
| `http_session` | Pipelining, timer, upgrade, end | `HttpTypeOK`, `HttpErasedAfterLast`, `ResponsesInOrder`, `NoStuckResponse`, `OpenHasTimer`, `HttpEnds`, `StepsAsInSet` | holds |
| `http_sessions_throw` | Can the server be shut down at any time? | `ShutdownNoThrow` | violated |
| `ws_service_handler` | Adding and erasing services around the shutdown | `HandlerTypeOK`, `IteratorValid`, `DestroyedAfterEnd`, `FinishedWithoutServices`, `EraseCompletes` | holds |
| `server` | Servers and clients as a whole, down to the destructor | `ServerTypeOK`, `EraseNeverRefused`, `ShutdownShutsAll`, `LockGivenBack`, `StaysUntilShutdown`, `CleanAfterCallback`, `SessionsDestroyedFirst`, `DestructorReturns` | holds |
| `server_left` | Has everything been run when the `io_context` stops? | `StoppedWhenFinished` | violated |

What the violations show (`findings` in `PROJECT.json` quotes the lines):

- `locker_outsider`: the constructor of a lock tests the count and increments it in
  two accesses. A caller without a lock can pass the test, be overtaken by the last
  `unlock()` and its callback, and get a lock of an object that is being erased. In
  this library that caller is the strand of a service in `send()` or `close()`.
- `ws_server_timer`: `do_accept()` starts the timer, a handler of the handshake cancels
  it with `restart_timer()`, which starts a wait only when the stream is open. Nothing starts it
  again: a server session is not dropped when its peer is silent.
- `ws_closing`: after `close()` the stream is not open, an expired timer returns
  without a new wait, and a peer that dies then keeps the session for ever.
- `ws_service_close`: the close of the shutdown reaches a session whose handshake is
  under way, has no effect, and the session opens afterwards.
- `http_sessions_throw`: between the storing of `shutdown_lock_` and `make_lock()` in
  `http_sessions::shutdown()` the strand may run the last erase, which sees
  `is_shutdown()` and unlocks; `make_lock()` throws out of a `noexcept` function.
- `server_left`: the shutdown function of a server closes the listener first, whose
  accept may have been the only work. A thread runs the aborted accept, the `io_context`
  stops, and the lambda that `http().shutdown()` then defers is never run: it and its
  lock are destroyed with the `io_context`, after the object they refer to. The
  sessions are gone then all the same (`SessionsDestroyedFirst`), and a
  shutdown in a callback does not have this order (`CleanAfterCallback`).

Two more disagreements are in the models and have no run of their own:

- The comments in `http_session::do_read()` and `on_write()` have the limit of the queue
  stop the reading until a response has been written. The code calls `do_close()` at the
  limit (`Answer`): the socket is shut in both directions, the responses that wait are lost
  (`WriteFails` on what is left), and the `do_read()` after a write that still succeeds finds no
  wait to cancel and starts no read (`ReadNot`). `ResponsesInOrder` is about the responses
  that are written and about the circular buffer, and does not say that all are.
- `on_erase()` is "Called when a sessions is ready to be erased". With several threads the
  window of `locker_outsider` makes a session be erased with a call of its service still
  queued in it (`Outlived`, with `stale` not empty). `ServiceEndsLast` has that this does not
  happen with one.

### Bounds

- `locker`: three threads and four locks: one thread that releases the last lock, one
  that is between its read and its increment, one that still holds. `MaxFirst = 1`:
  the library calls `make_first_lock()` once per locker.
- `ws_session`: three calls, so that with `WriteMax = 2` the list is full and a third
  message is refused, or a close overtakes two messages; one message of the peer and one
  pending pong, as the handlers keep no history of earlier ones. The limit of
  64 in the code matters only as the point where the list is full.
- `ws_service`: two addresses and three connects, so that an address is used twice and
  the last erase is distinct from the first; one call from outside beside the shutdown, which
  is a call of its own to all sessions.
- `http_session`: `Limit = 3` and five requests: two responses wait behind the
  one that is written, and the queue fills up, where the session closes.
- `ws_service_handler`: two names and five calls: add, erase and add again of one
  name while the other one stays, with the shutdown anywhere between.
- `server`: two HTTP connections, one WebSocket session and one exception of a handler
  beside those of `run()`: one session is in a callback that calls
  `shutdown()`, ends or moves its socket while another is inserted or refused.
- the runs that find violations have the smallest instance that has the case.

Deadlock is not checked: a session, a service and a server end.

### Fairness

The executor runs what is queued, and time passes: weak fairness of every handler
that is queued and of the expiry of a timer, which is what the threads in
`io_context::run()` do. An operation on a broken stream, a socket
that is shut or an acceptor that is closed completes: assumed of Asio.

- `WsSession` has one fairness condition for all that is queued, that expires or that
  completes on a broken stream (`LocalFairness`), so it does not assume any order
  among them; and that a peer that
  has not fallen silent reads and answers a close frame (`PeerFairness`), falling
  silent being always possible.
- `HttpSession` assumes nothing of its peer.
- `WsService` has fairness of its strand and of what is queued at the sessions, and nothing
  of the peers. `ShutdownCompletes` has as a premise that no stream stays for ever in its
  handshake, open, or in its closing handshake. The code does not give it:
  `ws_service_close` shows a session that stays open, `ws_closing` one that stays in its
  closing handshake, and either keeps the shutdown for ever.
- `HttpSessions` has that a session whose socket was shut ends, which `StepsAsInSet`
  shows of `HttpSession`.
- `WsServiceHandler` has fairness of its strand only. `EraseCompletes` has as a premise that the
  service does not stay `closing`, which is the conclusion of `ShutdownCompletes`, and with its
  premise only.
- `Server` has fairness of its threads, of the thread in `shutdown()`, of the
  destructor once it is called, of the ends of HTTP sessions and of what is queued at
  WebSocket sessions. The peers of WebSocket sessions are a premise of `DestructorReturns`, the
  same as of `ShutdownCompletes`: with a peer that does not answer a close frame, or a
  session that misses the close of the shutdown, the destructor may wait for ever. Nothing makes
  the user call the destructor, the listener get a connection, or a handler throw.

Everywhere else no fairness is assumed of the calls of the user.

## 4. Proofs

All theorems hold for every value of the constants that satisfies the `ASSUME` of
the module; they are checked by `tlapm` with Z3, Zenon and LS4.

| Theorem | Statement | Assumptions |
|---|---|---|
| `LockerTyped`, `LockerCount` | `[]LockerTypeOK`, `[](LockerTypeOK /\ CountExact)` | none |
| `LockerHolder` | `[]HolderNeverRefused` | none |
| `LockerLastAsync` | `[]LastAsyncIsLast` | `Disciplined`: no outsider, one first lock |
| `LockerImplementsLatch` | `ImplementsLatch` | `Disciplined` |
| `WsTyped`, `WsNoStuckQueue`, `WsClientTimer` | `[]WsTypeOK`, `[]NoStuckQueue`, `[]ClientTimerLive` | none |
| `WsErasedAfterLast` | `[]ErasedAfterLast` | none (the property speaks of one thread) |
| `WsNotForgotten` | on one thread, something is due without the peer, except in the closing handshake and, on a server, before it | none |
| `WsCallbacksInOrder`, `WsWireInOrder` | `[]CallbacksInOrder`, `[]WireInOrder` | none |
| `WsStepsAsInService` | `StepsAsInService` | none |
| `ServiceTyped`, `ServiceLocked`, `ServiceEnds` | `[]ServiceTypeOK`, `[]LockWhileSessions`, `[]ServiceEndsLast` | none |
| `ServiceNoLateSession` | `NoSessionAfterShutdown` | none |
| `ServiceFinished` | `[]FinishedWhenErased` | none (the property speaks of one thread) |
| `ServiceNotStuck` | on one thread, a shutdown that has not ended has a lambda queued or a session that has not ended | none |
| `ServiceClosesAll` | on one thread, `[]ShutdownClosesAll` | `"handshake" \notin Stage1`: the sessions of a client |
| `HttpTyped`, `HttpErased`, `HttpNoStuck`, `HttpTimed`, `HttpInOrder` | `[]HttpTypeOK`, `[]HttpErasedAfterLast`, `[]NoStuckResponse`, `[]OpenHasTimer`, `[]ResponsesInOrder` | none |
| `HttpStepsAsInSet` | `StageSteps`, the steps of `StepsAsInSet` | none |
| `HttpNotForgotten` | something is due without the peer, except a write on a socket that has moved | none |
| `SetSafe` | `[](EraseNeverRefused /\ ShutdownShutsAll /\ LockGivenBack)` for `http_sessions` by itself | none |
| `SetLeaves` | `[]LeavingInv`: a session that has ended has its erase queued | none |
| `SetThrowsIdle` | when `ShutdownNoThrow` fails there is no session, no handler, and was a connection | none |
| `HandlerTyped`, `HandlerIterators`, `HandlerFinished` | `[]HandlerTypeOK`, `[]IteratorValid`, `[]FinishedWithoutServices` | none |
| `HandlerDestroys` | `DestroyedAfterEnd` | none |
| `HandlerLeaves` | until the shutdown has run, a service that has ended has its lambda queued | none |
| `ServerErases`, `ServerShuts`, `ServerLockBack` | `[]EraseNeverRefused`, `[]ShutdownShutsAll`, `[]LockGivenBack` of a whole server | none |
| `ServerTyped`, `ServerStays`, `ServerClean`, `ServerDestroyed` | `[]ServerTypeOK`, `[]StaysUntilShutdown`, `[]CleanAfterCallback`, `[]SessionsDestroyedFirst` | none |
| `ServerHasSet`, `ServerHasService` | a server takes the steps of `HttpSessions` and of `WsService` (`Ws`), and no others that these see | none |
| `ServerServiceEnds`, `ServerServiceShut` | `[](Ws!LockWhileSessions /\ Ws!ServiceEndsLast)`, `Ws!NoSessionAfterShutdown /\ []Ws!FinishedWhenErased` | none |
| `ServerWorks` | the `io_context` is stopped exactly without work, and has a thread until then | none |

`Disciplined` is necessary: `locker_outsider` is a counterexample without
it, and the same window is why `ErasedAfterLast` speaks of one thread. "None" means
the `ASSUME` of the module only.

The arguments:

- *Locker.* `CountInv` adds to the count the threads between the compare-and-swap and
  its undo (`Phantom`), each of which owns one unit of the count that no lock owns. It
  is inductive by itself. `EndInv` adds that once the callback is due (`Ended`) no
  lock lives and the count is zero, and that a thread past its read of the count still
  holds a lock, which is where the discipline is needed: the count it has read
  cannot have become zero meanwhile. Each step maps to a step of the latch
  or a stutter (`LatchStep`).
- *Session.* `Good(s)` is what the record of members satisfies between two handlers:
  an open stream reads, writes exactly when the list is not empty, and has, if it
  is a client's, a timer. Each method has a lemma that says what it keeps of a record
  in the middle of a handler, and each handler one that composes them; `SesInv` lifts
  that to the state. `LifeInv` strengthens `ErasedAfterLast` by the fact that on one thread
  a service that has passed the test of `make_lock()` still finds a lock. The two give
  `WsNotForgotten`: without an erase in the queue a lock is held, and what
  holds it is due unless it is an operation on a stream that is not broken; there the
  client still has its timer while the stream is open.
- *Order in a session.* `OrderInv`: what the service was told, followed by the queue of
  `handler_strand_`, is what is due, on_open() and the messages read so far. A handler
  is silent (`Silent`), opens the session or delivers one message. `on_close()` is last
  because `on_erase()` leaves nothing pending (`Still`) and an open stream always has a read, so a
  late call of another thread finds a stream that is not open and does nothing. `WireInv`:
  the frames are the first of the accepted messages (`Sent`), the list holds the
  rest, and the one that is being written is in both (`Rest`); a handler is tacit, pushes
  (`PushLemma`), writes the front (`FrameLemma`), pops (`PopLemma`) or writes the close frame
  (`CloseFrameLemma`), after which the stream is not open. That a write is
  outstanding only with its message in the list (`Writes`) is what `send()` relies on
  when it finds the list empty.
- *Session as the service sees it.* `WsStepsAsInService` is the refinement, step by step, also
  of a call that is queued after the last lock was released (`VisitQueue` lets it). A
  handler moves the stream towards its end, if at all (`Turn`), so that the proof is
  about the stage before and after and not about each handler (`TurnStep`); `CallStage` does
  the same for a lambda of `send()` or `close()`. `LeaveStep` shows that the erase the last
  lock queues is the one that `WsService` queues when a session becomes `done`. They need
  `SesInv` and, for a session that has nothing pending any more (`Still`), `OrderInv`.
- *Service.* `LockInv` says besides `LockWhileSessions` that a connect past its test of
  `is_shutdown()` has one of the two locks and `shutdown_` unset, because the strand that
  would set it is busy with the connect; that the lambda of the shutdown is queued only after
  `run_lock_` was moved; and what the loop may rely on: that on one thread the session whose
  `make_lock()` has passed its test still has a lock. `EndInv` adds that on one thread each erase
  that is queued is for a session that has ended, that there are no two for one
  session, and that no handler has outlived its session; and on any that free addresses have
  no calls and the callback was called exactly if no lock is left.
  For `FinishedWhenErased` `LeaveInv` adds the converse, that each session that has ended has
  its erase in the queue, and `FinishInv` that on one thread the map does
  not become empty while the loop of the shutdown runs. `PassedInv` adds that from
  `run_lock_` being moved until `shutdown_` is set the lambda of the shutdown is in the
  queue, which with `FinishInv` gives `ServiceNotStuck`. `CloseInv` is what the loop has
  done so far: an open session is still in `todo`, or is the one whose
  strand runs the close. It holds of sessions that are never in a handshake in the map
  (`Stage1` is the set of stages in which one is emplaced); for the others
  `ShutdownClosesAll` is false, which section 3 shows.
- *HTTP session.* `HInv` contains an order invariant in a form that the provers can
  carry through `Append` and `Tail`: what was written and what waits are
  positions in `answered` that overlap in the one response being written
  (`OrderedAppend`, `OrderedTail`). `OrderedLemma` derives the prefix and suffix of
  `ResponsesInOrder` from it. `Room`, that a request is read only while the
  queue has room for its response, is what keeps the circular buffer from dropping its front.
- *HTTP session as the set sees it.* A handler of the session is to the set the end of
  the session (`LastLeaves`), a move of the socket, or nothing (`OthersStay`);
  `HandlerStep` puts these together for every handler by the way it ends. `HttpNotForgotten`
  rests on `OpenHasTimer` and on `MovedInv`, that a session whose socket has moved
  does not read from it.
- *Set of HTTP sessions.* `SetInv` follows the lock: a set that is not empty, or an
  insertion under way, has `run_lock_`, the local lock of `shutdown()` or
  `shutdown_lock_` (`Held`); as long as the lambda of the shutdown has not run it is in
  the queue, and afterwards there is no live session and no lock for an
  empty set (`ShutInv`); and each session that has ended has its erase in the queue. For `SetThrowsIdle`,
  `NoConnection` says that before the first connection nothing but the shutdown touches
  the locks, so its `make_lock()` finds the one it has stored; `ThrowInv` that once it
  throws, there is no session, no insertion and no lambda left.
- *Handler of services.* `HandlerInv`: the lambda of a callback is for a service that
  has ended and is the only one for it, which `Append` and `Tail` keep because a
  service ends once and is destroyed by that lambda alone; the lambda of the shutdown
  is queued only after `run_lock_` was moved. `LeavingInv` is the converse, and holds until
  the lambda of the shutdown has run: a service that is not running any more was shut
  down by `erase_service()`, which had set the callback first.
- *Server.* Each step of `Server` is a step of `HttpSessions` or leaves it alone
  (`HttpSide`), and the same for `WsService` (`WsSide`), so `SetInv` and `LeaveInv`
  hold as they are (`PartsInv`), and so does all that is proved of the parts; as the two
  specifications are instances, `ServerHasSet` and `ServerHasService` say it. `StopInv` says what a stopped `io_context` leaves: no
  session in either part, nothing inside a handler, and, if a callback has called `shutdown()` or
  the guard was there until its end, only connects in the queues. It is kept because when the
  count of work comes to zero both queues are empty and the two invariants leave no session
  then (`WorkDone`), and because of what is still possible after it (`StoppedSteps`). `ThreadInv` has
  that as long as the `io_context` has not stopped there is a thread, in
  `run()` or in `on_exception()`, for which it follows the threads inside
  handlers through every step; `Join` therefore finds it stopped.

Only model-checked: liveness, which under fairness is out of the prover's reach:
`OpenSilentPeerDropped`, `CloseCompletes`, `ShutdownCompletes`, `HttpEnds`,
`EraseCompletes`, `DestructorReturns`, and the second half of `StepsAsInSet`, that a
session that was shut leaves the stage `shut`. `WsNotForgotten`, `HttpNotForgotten`,
`ServiceNotStuck`, `HandlerLeaves` and `ServerWorks` are what can be proved of it: what
has not come to its end has something queued or due that leads there. Every other property of a run that holds is a theorem.

## 5. Not modelled, and why

- Contents of messages, requests and responses, close reasons, settings, and
  `modify_value()`: no property tells them apart.
- Exceptions in `do_accept()` and `start()`, which come from failing allocations, and in
  the constructors, before anything runs.
- A request handler that keeps its `http_response` and answers later.
- A data race proper, two threads in one socket, timer or `std::function` at the same
  instant; the models have all orders of whole calls. A `make_lock()` of a
  service, of `http_sessions` or of a `ws_service_handler` is one step. For
  handlers and ends of sessions nothing can come between, as a lock of the owner is held then; a
  call of the user in another thread has the window that `locker_outsider` shows, which these
  modules leave out. The `make_lock()` of a session, which the service calls
  without a lock, has both steps (`CallCheck` in `WsSession`, `VisitCheck` in `WsService`).
- What a handler does that has outlived its session, beyond `RunStale`: it uses freed memory.
- Two threads in `shutdown()` of one handler: the library calls it under `call_once` or
  from one strand.
- `file_request_handler`, `path_concat` and `mime_type`: sequential functions of strings
  and file input without state of their own; what they compute is a matter of
  characters, which tests reach.
- `error_handler` is an interface; `conversion`, `shared_const_buffer`,
  `json_ws_service` and `ws_session_settings` have no state that could go wrong.
- A `ws_service_handler` inside `Server`: the server has a single service there, and
  the handler is checked by itself with services as it sees them.

## 6. Plan

Done: all modules of section 2 with the runs and proofs above.

Left, in this order:

1. `WsServiceHandler` in `Server` in the place of its service. The state grows by the
   map of services; what is to be settled is that `shutdown_finished()` of
   the handler is not called when services are present at the shutdown, and that a service
   added after the lambda of the shutdown is never shut down, which the count of
   work makes harmless in the models so far.
2. Several callers of `ws_handler_interface::shutdown()` at once.
