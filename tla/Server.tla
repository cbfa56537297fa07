------------------------------- MODULE Server -------------------------------
(***************************************************************************)
(* server and client with server_impl, client_impl and executor: one       *)
(* io_context and its threads, the HTTP sessions with their listener (the  *)
(* module HttpSessions), a WebSocket service (WsService), the function     *)
(* that shuts them down, and the destructor.                               *)
(*                                                                         *)
(* The io_context counts its outstanding work and stops for ever when the  *)
(* count has come down to zero: what is queued later is never run.  A      *)
(* server has work as long as its listener accepts, a client has a work    *)
(* guard.                                                                  *)
(***************************************************************************)
EXTENDS HttpSessions

CONSTANTS
    WsAddress,    \* the addresses of WebSocket sessions
    MaxConnect,   \* bounds the WebSocket sessions that are begun
    MaxThrow      \* bounds the exceptions of request handlers

ASSUME ServerAssumption ==
    /\ None \notin WsAddress
    /\ WsAddress \cap Session = {}
    /\ {"user", "strand"} \cap ({None} \cup Session \cup WsAddress) = {}
    /\ MaxConnect \in Nat
    /\ MaxThrow \in Nat

VARIABLES
    parts,        \* {"http"}: a server without a WebSocket handler,
                  \* {"http", "ws"}: one with it, {"ws"}: a client
    manyThreads,  \* whether thread_count is more than one
    running,      \* the threads in io_context::run()
    catching,     \* the threads in error_handler::on_exception()
    thrown,       \* exceptions of request handlers so far
    stopped,      \* io_context::stopped()
    guard,        \* whether work_ keeps the io_context running
    by,           \* who has called shutdown() first, or None
    main,         \* "idle" | "destructor" | "destroyed"
    wsRunLock, wsShutdownLock, wsShutdown, wsQueue, wsPhase, wsTodo, wsAt,
    wsStage, wsCalls, wsStale, connects, wsEnded
                  \* the variables of WsService

threads == <<running, catching, thrown>>
owner == <<parts, guard, by, main>>
wsVars == <<wsRunLock, wsShutdownLock, wsShutdown, wsQueue, wsPhase, wsTodo,
            wsAt, wsStage, wsCalls, wsStale, connects, wsEnded>>
serverVars == <<parts, manyThreads, running, catching, thrown, stopped,
                guard, by, main, wsVars, setVars>>

Ws == INSTANCE WsService
      WITH Session <- WsAddress, Stage1 <- {"handshake", "open"},
           MaxCall <- 0, runLock <- wsRunLock,
           shutdownLock <- wsShutdownLock, shutdown <- wsShutdown,
           queue <- wsQueue, phase <- wsPhase, todo <- wsTodo, at <- wsAt,
           stage <- wsStage, calls <- wsCalls, stale <- wsStale, made <- 0,
           ended <- wsEnded

\* The callbacks of the user that may call shutdown(): a request handler of
\* an HTTP session, one of a WebSocket session, and on_close(), which the
\* strand of the service calls.
Callback == Session \cup WsAddress \cup {"strand"}

\* shutdown_fn_ has returned.
Returned ==
    /\ "http" \in parts => caller = "done"
    /\ "ws" \in parts => ~ wsRunLock
    /\ ~ guard

InShutdown == by # None /\ ~ Returned

\* The callback that has called shutdown() is still in it.
InCallback == by \in Callback /\ ~ Returned

\* outstanding_work_ # 0
Work ==
    \/ guard \/ InCallback
    \/ accepting \in {"armed", "bad"}
    \/ queue # <<>> \/ \E s \in Session : stage[s] \in Alive
    \/ wsQueue # <<>> \/ wsStale # {}
    \/ \E w \in WsAddress : Ws!SessionBusy(w)

ServerInit ==
    /\ parts \in {{"http"}, {"http", "ws"}, {"ws"}}
    /\ IF "http" \in parts THEN SetInit
       ELSE /\ acceptor = FALSE /\ accepting = "ended" /\ accepts = 0
            /\ caller = "idle" /\ runLock = FALSE /\ shutdownLock = FALSE
            /\ queue = <<>> /\ inserting = FALSE
            /\ stage = [s \in Session |-> "none"] /\ lost = 0
    /\ Ws!ServiceInit
    /\ guard = ("http" \notin parts)
    /\ running = IF manyThreads THEN 2 ELSE 1
    /\ catching = 0 /\ thrown = 0
    /\ stopped = FALSE /\ by = None /\ main = "idle"

-----------------------------------------------------------------------------
(* The io_context and its threads *)

\* The count of work has come down to zero, or has not.
Count == caller # "terminated" /\ stopped' = (stopped \/ ~ Work')

\* The threads that are inside a handler between two steps.
Inside ==
    (IF InCallback THEN 1 ELSE 0) + (IF inserting THEN 1 ELSE 0)
        + (IF wsPhase # "wait" THEN 1 ELSE 0)

\* A thread takes a handler.
Free == ~ stopped /\ running > Inside

\* run(): the exception of a handler leaves io_context::run() ...
Throw == running' = running - 1 /\ catching' = catching + 1

\* Wrong on purpose: the thread ends with its first exception.
RunAgainNot ==
    /\ catching > 0
    /\ catching' = catching - 1
    /\ UNCHANGED <<running, thrown, owner, manyThreads, wsVars, setVars>>
    /\ Count

\* ... is reported, and io_context::run() called again, ...
RunAgain ==
    /\ catching > 0
    /\ catching' = catching - 1
    /\ running' = running + 1
    /\ UNCHANGED <<thrown, owner, manyThreads, wsVars, setVars>>
    /\ Count

\* ... which returns when the io_context is stopped.
ThreadReturns ==
    /\ stopped
    /\ running > 0
    /\ running' = running - 1
    /\ UNCHANGED <<catching, thrown, owner, manyThreads, wsVars, setVars>>
    /\ Count

\* A step of the HTTP side in a handler, whose thread goes on.
HttpStep(A) ==
    /\ A
    /\ UNCHANGED <<threads, owner, manyThreads, wsVars>>
    /\ Count

\* A step of the WebSocket service, or of its sessions, in a handler.  A
\* session does not end as long as its callback is in shutdown().
WsStep(A) ==
    /\ A
    /\ (InCallback /\ by \in WsAddress) => wsStage'[by] # "done"
    /\ UNCHANGED <<threads, owner, setVars>>
    /\ Count

Listen == Free /\ HttpStep(Accept \/ AcceptFails)

ListenEnds == Free /\ HttpStep(AcceptEnds)

\* The lambda of async_emplace() or its end: an exception is caught by
\* async_emplace() itself if dispatch() has called the lambda.
EmplaceThrows ==
    /\ \/ Free /\ EmplaceRefused
       \/ InsertFails
    /\ Throw
    /\ UNCHANGED <<thrown, owner, manyThreads, wsVars>>
    /\ Count

RunSet ==
    \/ (Free \/ inserting) /\ HttpStep(SetStrand)
    \/ EmplaceThrows

\* A request handler throws, as also when the service has no lock left for
\* an upgrade.
RequestThrows ==
    /\ Free
    /\ thrown < MaxThrow
    /\ \E s \in Session : stage[s] \in {"live", "shut"} /\ by # s
    /\ thrown' = thrown + 1
    /\ Throw
    /\ UNCHANGED <<owner, manyThreads, wsVars, setVars>>
    /\ Count

\* A session is not in its strand while its request handler is.
HttpEnd(s) ==
    /\ Free
    /\ ~ (InCallback /\ by = s)
    /\ HttpStep(SessionEnds(s))

\* http_session::do_read(): server_.ws().server_connect()
Upgrade(s) ==
    /\ Free
    /\ ~ (InCallback /\ by = s)
    /\ "ws" \in parts
    /\ Move(s)
    /\ Ws!Connect
    /\ UNCHANGED <<threads, owner>>
    /\ Count

RunService ==
    /\ Free \/ wsPhase # "wait"
    /\ ~ (InCallback /\ by = "strand")
    /\ WsStep(Ws!StrandStep)

RunWs(w) == Free /\ WsStep(Ws!SessionNext(w) \/ Ws!RunStale(w))

-----------------------------------------------------------------------------
(* The user *)

\* server::connect(), client::connect()
Connect ==
    /\ main = "idle"
    /\ "ws" \in parts
    /\ Ws!Connect
    /\ UNCHANGED <<threads, owner, setVars>>
    /\ Count

\* What a callback that calls shutdown() runs in.
RunsIn(h) ==
    /\ Free
    /\ \/ h \in Session /\ stage[h] \in {"live", "shut"}
       \/ h \in WsAddress /\ wsStage[h] \in {"open", "closing", "draining"}
       \/ h = "strand" /\ Ws!Begin({"erase"})

\* The first call of shutdown(): call_once calls shutdown_fn_, and later
\* calls wait for its end or do nothing.
CallShutdown(h) ==
    /\ by = None
    /\ \/ h = "user" /\ main # "destroyed"
       \/ RunsIn(h)
    /\ by' = h
    /\ UNCHANGED <<threads, parts, guard, main, manyThreads, wsVars, setVars>>
    /\ Count

\* shutdown_fn_ of the server ...
ShutdownHttp ==
    /\ InShutdown
    /\ "http" \in parts
    /\ CloseListener \/ TakeLock \/ StoreLock \/ Defer \/ Terminate
    /\ UNCHANGED <<threads, owner, manyThreads, wsVars>>
    /\ stopped' = (stopped \/ ~ Work')

\* ... and of both ...
ShutdownWs ==
    /\ InShutdown
    /\ "http" \in parts => caller = "done"
    /\ Ws!Shutdown
    /\ UNCHANGED <<threads, owner, setVars>>
    /\ Count

\* Wrong on purpose: work_.reset() first.
ResetWorkFirst ==
    /\ InShutdown
    /\ guard
    /\ guard' = FALSE
    /\ UNCHANGED <<threads, parts, by, main, manyThreads, wsVars, setVars>>
    /\ Count

\* ... and of the client.
ResetWork ==
    /\ InShutdown
    /\ guard
    /\ ~ wsRunLock
    /\ guard' = FALSE
    /\ UNCHANGED <<threads, parts, by, main, manyThreads, wsVars, setVars>>
    /\ Count

ShutdownFn == ShutdownHttp \/ ShutdownWs \/ ResetWork

\* ~server(), ~client(): shutdown() ...
Destruct ==
    /\ main = "idle"
    /\ main' = "destructor"
    /\ UNCHANGED <<threads, parts, guard, by, manyThreads, wsVars, setVars>>
    /\ Count

\* ... and block(), which joins the threads; then the parts are destroyed,
\* and the io_context after them.
Join ==
    /\ main = "destructor"
    /\ by # None /\ Returned
    /\ running + catching = 0
    /\ main' = "destroyed"
    /\ UNCHANGED <<threads, parts, guard, by, manyThreads, wsVars, setVars>>
    /\ Count

Executor ==
    \/ RunAgain \/ ThreadReturns
    \/ Listen \/ ListenEnds \/ RunSet \/ RequestThrows \/ RunService
    \/ \E s \in Session : HttpEnd(s) \/ Upgrade(s)
    \/ \E w \in WsAddress : RunWs(w)

User ==
    \/ Connect \/ ShutdownFn \/ Destruct \/ Join
    \/ \E h \in Callback \cup {"user"} : CallShutdown(h)

ServerNext == Executor \/ User

\* The threads run what is queued, shutdown_fn_ and the destructor go on, and
\* an HTTP session ends through its timer; a response on a moved socket does
\* at the latest with the WebSocket session.  Nothing is assumed of the peers
\* of WebSocket sessions.
ServerFairness ==
    /\ WF_serverVars(RunAgain)
    /\ WF_serverVars(ThreadReturns)
    /\ WF_serverVars(ListenEnds)
    /\ WF_serverVars(RunSet)
    /\ WF_serverVars(RunService)
    /\ WF_serverVars(ShutdownFn)
    /\ WF_serverVars(main = "destructor" /\ CallShutdown("user"))
    /\ WF_serverVars(Join)
    /\ \A s \in Session :
           /\ WF_serverVars(stage[s] = "shut" /\ HttpEnd(s))
           /\ WF_serverVars(stage[s] = "moved" /\ wsQueue = <<>>
                                /\ Ws!map = {} /\ HttpEnd(s))
    /\ \A w \in WsAddress :
           WF_serverVars(Free /\ WsStep(Ws!Drained(w) \/ Ws!RunCall(w)
                                            \/ Ws!RunStale(w)))

ServerSpec == ServerInit /\ [][ServerNext]_serverVars /\ ServerFairness

-----------------------------------------------------------------------------
(* Properties *)

ServerTypeOK ==
    /\ SetTypeOK /\ Ws!ServiceTypeOK
    /\ parts \in {{"http"}, {"http", "ws"}, {"ws"}}
    /\ running \in 0..2 /\ catching \in 0..2 /\ running + catching \in 0..2
    /\ thrown \in 0..MaxThrow
    /\ stopped \in BOOLEAN /\ guard \in BOOLEAN
    /\ by \in {None, "user"} \cup Callback
    /\ main \in {"idle", "destructor", "destroyed"}

\* The io_context does not run out of work before shutdown() is called, also
\* when there is no session, unless the listener has failed.
StaysUntilShutdown == stopped => by # None \/ accepting = "failed"

\* When shutdown() is called in a callback, or of a client, nothing is left
\* in the io_context that would use the parts after their destruction, except
\* what a later connect() of the user has queued.
CleanAfterCallback ==
    main = "destroyed" /\ (by \in Callback \/ "http" \notin parts) =>
        queue = <<>> /\ \A i \in DOMAIN wsQueue : wsQueue[i].kind = "connect"

\* "Close all connections and wait on all processing threads": the sessions
\* are destroyed before the server is, whoever calls shutdown().
SessionsDestroyedFirst == main = "destroyed" => set = {} /\ Ws!map = {}

\* The destructor returns, if no WebSocket stream stays for ever in its
\* handshake, open, or in its closing handshake.  The code does not see to
\* that: with a peer that does not answer the close frame, or a stream that the
\* close of the shutdown does not reach, the destructor may wait for ever.
DestructorReturns ==
    (\A w \in WsAddress :
         []<>(wsStage[w] \notin {"handshake", "open", "closing"}))
        => (main = "destructor" ~>
                main = "destroyed" \/ caller = "terminated")

\* "true after all tasks have finished": when the io_context has stopped
\* there is nothing in it any more, also when the listener did not fail.
StoppedWhenFinished ==
    stopped /\ accepting # "failed" => queue = <<>> /\ wsQueue = <<>>
=============================================================================
