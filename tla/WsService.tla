----------------------------- MODULE WsService ------------------------------
(***************************************************************************)
(* ws_service_base with ws_handler_interface: the map of the sessions of   *)
(* one service, the strand that protects it, and the shutdown.             *)
(*                                                                         *)
(* A session is known by the address of its node in map_, which is free    *)
(* for a later session once it is erased.  What a session does by itself   *)
(* is reduced to the stages of its life (the module WsSession has the      *)
(* details).  The make_lock() of a session is taken in the strand of the   *)
(* service, and with several threads the session may end between its check *)
(* and its increment; a make_lock() of the service itself is one step (the *)
(* module AsyncLocker has the two).  The lambda at the head of queue is    *)
(* the one that runs: dispatch() from another thread appends, dispatch()   *)
(* inside the lambda itself calls.  A call that make_lock() refuses is not *)
(* a step.                                                                 *)
(***************************************************************************)
EXTENDS Naturals, SequencesExt

CONSTANTS
    Session,      \* the addresses of sessions
    None,         \* no session; in a lambda, all sessions
    Stage1,       \* the stages a session is emplaced in: "handshake" by
                  \* async_server_connect(), "open" by async_client_connect()
    MaxConnect,   \* bounds the calls of the two
    MaxCall       \* bounds the calls of the send and close functions

ASSUME ServiceAssumption ==
    /\ None \notin Session
    /\ Stage1 \subseteq {"handshake", "open"}
    /\ MaxConnect \in Nat
    /\ MaxCall \in Nat

VARIABLES
    manyThreads,  \* whether the executor has more than one thread
    runLock,      \* run_lock_.is_locked()
    shutdownLock, \* shutdown_lock_.is_locked()
    shutdown,     \* shutdown_
    queue,        \* the lambdas of strand_, the running one first
    phase,        \* how far it is: "wait" (not begun), "connect", "loop",
                  \* "checked" (in the make_lock() of session at)
    todo,         \* the sessions its loop has yet to reach
    at,           \* the session whose lock or strand it takes, or None
    stage,        \* the life of the session at each address
    calls,        \* lambdas of send() and close() queued at each session
    stale,        \* addresses of sessions that handlers have outlived
    connects,     \* calls of async_*_connect() so far
    made,         \* calls of the send and close functions so far
    ended         \* calls of on_last_async_callback_

locks == <<runLock, shutdownLock, shutdown>>
strand == <<queue, phase, todo, at>>
sessions == <<stage, calls, stale>>
outer == <<manyThreads, connects, made>>
serviceVars == <<manyThreads, runLock, shutdownLock, shutdown, queue, phase,
                 todo, at, stage, calls, stale, connects, made, ended>>

Stage == {"none", "handshake", "open", "closing", "draining", "done"}

Act == {"send", "close"}

\* What strand_ runs: to is the address of a session, or None for all.
Lambda == [kind : Act \cup {"connect", "shutdown", "erase"},
           to : Session \cup {None}]

\* map_
map == {s \in Session : stage[s] # "none"}

\* lock_count_ of the service is not zero.
Busy == runLock \/ shutdownLock \/ queue # <<>>

\* lock_count_ of the session is not zero.
SessionBusy(s) == calls[s] # <<>> \/ stage[s] \notin {"none", "done"}

ServiceInit ==
    /\ manyThreads \in BOOLEAN
    /\ runLock = TRUE
    /\ shutdownLock = FALSE
    /\ shutdown = FALSE
    /\ queue = <<>> /\ phase = "wait" /\ todo = {} /\ at = None
    /\ stage = [s \in Session |-> "none"]
    /\ calls = [s \in Session |-> <<>>]
    /\ stale = {}
    /\ connects = 0 /\ made = 0 /\ ended = 0

-----------------------------------------------------------------------------
(* Calls from any thread *)

Dispatch(k, s) ==
    /\ Busy
    /\ queue' = Append(queue, [kind |-> k, to |-> s])
    /\ UNCHANGED <<manyThreads, phase, todo, at, sessions, ended>>

\* async_server_connect(), async_client_connect()
Connect ==
    /\ connects < MaxConnect
    /\ connects' = connects + 1
    /\ Dispatch("connect", None)
    /\ UNCHANGED <<locks, made>>

\* send_text(), send_binary(), close() and their _if forms, for all sessions
CallAll(act) ==
    /\ made < MaxCall
    /\ made' = made + 1
    /\ Dispatch(act, None)
    /\ UNCHANGED <<locks, connects>>

\* send_text(), send_binary(), close() with an identifier: its session may
\* have ended, and the address may belong to a later one by then.
CallOne(act, s) ==
    /\ made < MaxCall
    /\ made' = made + 1
    /\ Dispatch(act, s)
    /\ UNCHANGED <<locks, connects>>

\* Wrong on purpose: the service stays open for new sessions.
ShutdownStillOpen ==
    /\ runLock
    /\ ~ shutdownLock
    /\ shutdownLock' = TRUE
    /\ Dispatch("shutdown", None)
    /\ UNCHANGED <<runLock, shutdown, connects, made>>

\* shutdown() and on_shutdown(); without run_lock_ it does nothing.
Shutdown ==
    /\ runLock
    /\ runLock' = FALSE
    /\ shutdownLock' = TRUE
    /\ Dispatch("shutdown", None)
    /\ UNCHANGED <<shutdown, connects, made>>

-----------------------------------------------------------------------------
(* The strand of the service *)

Running(kinds) == queue # <<>> /\ Head(queue).kind \in kinds

Begin(kinds) == phase = "wait" /\ Running(kinds)

\* The lambda ends and its lock is destroyed.
Leave ==
    /\ queue' = Tail(queue)
    /\ phase' = "wait"
    /\ todo' = {}
    /\ at' = None
    /\ ended' = IF Busy' THEN ended ELSE ended + 1
    /\ UNCHANGED outer

\* Wrong on purpose: is_shutdown() is not asked.
ConnectAlways ==
    /\ Begin({"connect"})
    /\ phase' = "connect"
    /\ UNCHANGED <<locks, queue, todo, at, sessions, outer, ended>>

\* is_shutdown() in async_*_connect() ...
ConnectCheck ==
    /\ Begin({"connect"})
    /\ runLock
    /\ phase' = "connect"
    /\ UNCHANGED <<locks, queue, todo, at, sessions, outer, ended>>

ConnectRefused ==
    /\ Begin({"connect"})
    /\ ~ runLock
    /\ UNCHANGED <<locks, sessions>>
    /\ Leave

\* ... and map_.emplace() with do_accept() or start(), ...
Emplace(s) ==
    /\ phase = "connect"
    /\ stage[s] = "none"
    /\ \E x \in Stage1 : stage' = [stage EXCEPT ![s] = x]
    /\ UNCHANGED <<locks, calls, stale>>
    /\ Leave

\* ... or an exception, as when the client finds no server.
ConnectFails ==
    /\ phase = "connect"
    /\ UNCHANGED <<locks, sessions>>
    /\ Leave

\* Wrong on purpose: the first session that is erased ends the shutdown.
EraseFromFirst(s) ==
    /\ stage' = [stage EXCEPT ![s] = "none"]
    /\ shutdownLock' = IF shutdown THEN FALSE ELSE shutdownLock

\* The destruction of session s, whose node may be the last one.
EraseFrom(s) ==
    /\ stage' = [stage EXCEPT ![s] = "none"]
    /\ shutdownLock' = IF shutdown /\ map' = {} THEN FALSE ELSE shutdownLock

\* What is left of the destroyed session s: its handlers and calls, if any.
Outlived(s) ==
    /\ calls' = [calls EXCEPT ![s] = <<>>]
    /\ stale' = IF SessionBusy(s) THEN stale \cup {s} ELSE stale

\* Wrong on purpose: nobody calls on_shutdown_finished().
RunEraseOnly ==
    /\ Begin({"erase"})
    /\ Head(queue).to \in map
    /\ stage' = [stage EXCEPT ![Head(queue).to] = "none"]
    /\ Outlived(Head(queue).to)
    /\ UNCHANGED locks
    /\ Leave

\* The lambda of on_erase() finds the session that has ended, or, if it is
\* the second one for it, a later session at its address ...
RunErase ==
    /\ Begin({"erase"})
    /\ Head(queue).to \in map
    /\ EraseFrom(Head(queue).to)
    /\ Outlived(Head(queue).to)
    /\ UNCHANGED <<runLock, shutdown>>
    /\ Leave

\* ... or none: "session doesn't exist".
EraseNothing ==
    /\ Begin({"erase"})
    /\ Head(queue).to \notin map
    /\ UNCHANGED <<locks, sessions>>
    /\ Leave

\* The lambda of on_shutdown(): shutdown_finished() at once ...
ShutdownEmpty ==
    /\ Begin({"shutdown"})
    /\ map = {}
    /\ shutdownLock' = FALSE
    /\ shutdown' = TRUE
    /\ UNCHANGED <<runLock, sessions>>
    /\ Leave

\* Wrong on purpose: a send to one session does not ask map_.count().
LoopBeginUnasked ==
    /\ \/ Begin(Act)
       \/ Begin({"shutdown"}) /\ map # {}
    /\ phase' = "loop"
    /\ todo' = IF Head(queue).to = None THEN map ELSE {Head(queue).to}
    /\ UNCHANGED <<locks, queue, at, sessions, outer, ended>>

\* ... or a loop over map_, as in the functions that send and close.
LoopBegin ==
    /\ \/ Begin(Act)
       \/ Begin({"shutdown"}) /\ map # {}
    /\ phase' = "loop"
    /\ todo' = IF Head(queue).to = None THEN map
               ELSE map \cap {Head(queue).to}
    /\ UNCHANGED <<locks, queue, at, sessions, outer, ended>>

\* fn(identifier, value) returned false or threw, or make_lock() of the
\* session threw.
VisitNot(s) ==
    /\ phase = "loop" /\ at = None
    /\ s \in todo
    /\ \/ Running(Act) /\ Head(queue).to = None
       \/ ~ SessionBusy(s)
    /\ todo' = todo \ {s}
    /\ UNCHANGED <<locks, queue, phase, at, sessions, outer, ended>>

\* session->send() or close(): make_lock() of the session reads lock_count_,
\* the session is not done then, ...
VisitCheck(s) ==
    /\ phase = "loop" /\ at = None
    /\ s \in todo
    /\ SessionBusy(s)
    /\ todo' = todo \ {s}
    /\ phase' = "checked" /\ at' = s
    /\ UNCHANGED <<locks, queue, sessions, outer, ended>>

\* ... and increments it, also if the last lock is gone by now.  The lambda
\* runs at once if the strand of the session is free, and is left to the
\* thread that has the strand otherwise.
VisitQueue ==
    /\ phase = "checked"
    /\ phase' = "loop"
    /\ \/ calls[at] = <<>> /\ at' = at
       \/ manyThreads /\ at' = None
    /\ calls' = [calls EXCEPT ![at] =
           Append(@, IF Running({"send"}) THEN "send" ELSE "close")]
    /\ UNCHANGED <<locks, queue, todo, stage, stale, outer, ended>>

\* close() of a session whose stream is not open yet, or not any more, has
\* no effect.
After(c, x) == IF c = "close" /\ x = "open" THEN "closing" ELSE x

\* The lambda in the strand of the session ends, and others hold a lock ...
VisitEnd ==
    /\ phase = "loop" /\ at # None
    /\ stage[at] # "done"
    /\ stage' = [stage EXCEPT ![at] = After(Head(calls[at]), @)]
    /\ calls' = [calls EXCEPT ![at] = Tail(@)]
    /\ at' = None
    /\ UNCHANGED <<locks, queue, phase, todo, stale, outer, ended>>

\* ... or it held the last one: on_erase() is called in the loop and runs at
\* once, also if one is queued already.  The loop goes on from the erased
\* node: anywhere, or it ends.
VisitErases ==
    /\ phase = "loop" /\ at # None
    /\ stage[at] = "done"
    /\ EraseFrom(at)
    /\ calls' = [calls EXCEPT ![at] = Tail(@)]
    /\ at' = None
    /\ IF Head(queue).to = None THEN todo' \in SUBSET map' ELSE todo' = {}
    /\ UNCHANGED <<runLock, shutdown, queue, phase, stale, outer, ended>>

\* Wrong on purpose: shutdown_ stays false.
LoopEndUnnoted ==
    /\ phase = "loop" /\ at = None
    /\ todo = {}
    /\ UNCHANGED <<locks, sessions>>
    /\ Leave

LoopEnd ==
    /\ phase = "loop" /\ at = None
    /\ todo = {}
    /\ shutdown' = (shutdown \/ Running({"shutdown"}))
    /\ UNCHANGED <<runLock, shutdownLock, sessions>>
    /\ Leave

StrandStep ==
    \/ ConnectCheck \/ ConnectRefused \/ ConnectFails
    \/ RunErase \/ EraseNothing \/ ShutdownEmpty
    \/ LoopBegin \/ VisitQueue \/ VisitEnd \/ VisitErases \/ LoopEnd
    \/ \E s \in Session : Emplace(s) \/ VisitNot(s) \/ VisitCheck(s)

-----------------------------------------------------------------------------
(* The sessions *)

\* Beside a lambda of the service, another thread is needed.
Beside == phase = "wait" \/ manyThreads

\* The strand of session s runs the lambda of the loop.
InLoop(s) == phase = "loop" /\ at = s

\* A lock of the session is destroyed: the last one calls on_erase(), whose
\* make_lock() ends the program if the service has no lock left.
SessionStep(s) ==
    /\ Beside
    /\ IF SessionBusy(s)' THEN queue' = queue
       ELSE /\ Busy
            /\ queue' = Append(queue, [kind |-> "erase", to |-> s])
    /\ UNCHANGED <<locks, phase, todo, at, stale, outer, ended>>

Become(s, x) == stage' = [stage EXCEPT ![s] = x]

\* The handler of async_accept: the handshake is done.
Accepted(s) ==
    /\ stage[s] = "handshake" /\ ~ InLoop(s)
    /\ Become(s, "open")
    /\ UNCHANGED calls
    /\ SessionStep(s)

\* A close frame of the peer, or a message that cannot be read: the session
\* begins to close by itself.
Closes(s) ==
    /\ stage[s] = "open" /\ ~ InLoop(s)
    /\ Become(s, "closing")
    /\ UNCHANGED calls
    /\ SessionStep(s)

\* The stream has ended.  A callback of the service may still run, in the
\* other strand of the session.
SessionEnds(s) ==
    /\ stage[s] \in {"handshake", "open", "closing"} /\ ~ InLoop(s)
    /\ \E x \in {"draining", "done"} : Become(s, x)
    /\ UNCHANGED calls
    /\ SessionStep(s)

\* That callback returns.
Drained(s) ==
    /\ stage[s] = "draining"
    /\ Become(s, "done")
    /\ UNCHANGED calls
    /\ SessionStep(s)

\* A lambda of send() or close() that was left to the strand of the session.
RunCall(s) ==
    /\ calls[s] # <<>> /\ ~ InLoop(s)
    /\ Become(s, After(Head(calls[s]), stage[s]))
    /\ calls' = [calls EXCEPT ![s] = Tail(@)]
    /\ SessionStep(s)

SessionNext(s) ==
    Accepted(s) \/ Closes(s) \/ SessionEnds(s) \/ Drained(s) \/ RunCall(s)

\* The handlers that have outlived the session that was at s use freed
\* memory.  What comes of it: nothing, the end of the program, another
\* on_erase() of the last of them; an effect on a later session at s is one
\* that its peer could have.
RunStale(s) ==
    /\ Beside
    /\ s \in stale
    /\ stale' = stale \ {s}
    /\ \/ queue' = queue
       \/ Busy /\ queue' = Append(queue, [kind |-> "erase", to |-> s])
    /\ UNCHANGED <<locks, phase, todo, at, stage, calls, outer, ended>>

ServiceNext ==
    \/ Connect \/ Shutdown
    \/ \E act \in Act : CallAll(act)
    \/ \E act \in Act, s \in Session : CallOne(act, s)
    \/ StrandStep
    \/ \E s \in Session : SessionNext(s) \/ RunStale(s)

\* The executor runs what is queued.  Nothing is assumed of the peers: that a
\* handshake or a closing handshake ends is a premise where it is needed.
ServiceFairness ==
    /\ WF_serviceVars(StrandStep)
    /\ \A s \in Session :
           /\ WF_serviceVars(Drained(s))
           /\ WF_serviceVars(RunCall(s))
           /\ WF_serviceVars(RunStale(s))

ServiceSpec == ServiceInit /\ [][ServiceNext]_serviceVars /\ ServiceFairness

-----------------------------------------------------------------------------
(* Properties *)

ServiceTypeOK ==
    /\ manyThreads \in BOOLEAN
    /\ runLock \in BOOLEAN /\ shutdownLock \in BOOLEAN
    /\ shutdown \in BOOLEAN
    /\ queue \in Seq(Lambda)
    /\ phase \in {"wait", "connect", "loop", "checked"}
    /\ todo \in SUBSET map
    /\ at \in Session \cup {None}
    /\ stage \in [Session -> Stage]
    /\ calls \in [Session -> Seq(Act)]
    /\ stale \in SUBSET Session
    /\ connects \in 0..MaxConnect
    /\ made \in 0..MaxCall
    /\ ended \in Nat

\* While map_ has a session the service has run_lock_ or shutdown_lock_: the
\* service outlives its sessions, and the make_lock() in on_erase(), which is
\* noexcept, does not throw for a session that is in map_.  (With several
\* threads a handler that has outlived its session may call it once more.)
LockWhileSessions == map # {} => runLock \/ shutdownLock

\* The callback of the service is called at most once, when no lambda and no
\* session is left.  With one thread a session is destroyed only when none of
\* its handlers and calls is left, so the handler may destroy the service.
\* With several threads that is not so: a call may take the lock of a session
\* whose last lock is gone, and outlive it.
ServiceEndsLast ==
    /\ ended = IF Busy THEN 0 ELSE 1
    /\ ~ Busy => map = {}
    /\ ~ manyThreads => stale = {}

\* Once the lambda of on_shutdown() has run no session is emplaced, whatever
\* connect was under way in another thread when shutdown() was called.
NoSessionAfterShutdown == [][shutdown => map' \subseteq map]_serviceVars

\* "Called when all sessions have been erased after shutdown": when shutdown_
\* is set and map_ is empty, shutdown_finished() has been called.  With one
\* thread; with several on_erase() may run inside the loop.
FinishedWhenErased ==
    ~ manyThreads /\ shutdown /\ map = {} /\ phase = "wait" => ~ shutdownLock

\* After shutdown() the callback is called, if no stream stays for ever in
\* its handshake, open, or in its closing handshake.  The code does not see to
\* that: the close of the shutdown does not reach every session, and no timer
\* drops a peer that does not answer the close frame.
ShutdownCompletes ==
    (\A s \in Session : []<>(stage[s] \notin {"handshake", "open", "closing"}))
        => (~ manyThreads /\ ~ runLock ~> ended > 0)

\* "Accept no new sessions, send close to all session": after the lambda of
\* on_shutdown() no session is open, once its queued calls have run.
ShutdownClosesAll ==
    shutdown => \A s \in map : stage[s] = "open" => calls[s] # <<>>
=============================================================================
