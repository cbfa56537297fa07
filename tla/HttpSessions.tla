---------------------------- MODULE HttpSessions ----------------------------
(***************************************************************************)
(* http_sessions (src/http_sessions.cpp) behind http_request_handler, with *)
(* the listener that feeds it and the function server_impl gives to its    *)
(* executor, which shuts both down.                                        *)
(*                                                                         *)
(* shutdown() runs in a thread of its own, usually the one that destroys   *)
(* the server, beside the threads of the executor: each access to one of   *)
(* the two locks is a step.  A session is reduced to what HttpSession      *)
(* shows of it: it ends by itself, and after do_close() for sure, and then *)
(* calls async_erase() once.                                               *)
(***************************************************************************)
EXTENDS Naturals, SequencesExt

CONSTANTS
    Session,      \* the addresses of sessions
    None,         \* no session
    MaxAccept     \* bounds the connections the listener accepts

ASSUME SetAssumption ==
    /\ None \notin Session
    /\ MaxAccept \in Nat

VARIABLES
    acceptor,     \* whether acceptor_ is open
    accepting,    \* the async_accept: "armed"; "bad" on a closed acceptor;
                  \* "ended"; or "failed", by an error and not by the close
    accepts,      \* connections accepted so far
    caller,       \* how far shutdown() is
    runLock,      \* run_lock_.is_locked()
    shutdownLock, \* shutdown_lock_.is_locked()
    queue,        \* the lambdas of strand_, the running one first
    inserting,    \* whether that one has passed is_shutdown()
    stage,        \* the life of the session at each address
    lost          \* calls of async_erase() that make_lock() refused

listenerVars == <<acceptor, accepting, accepts>>
locks == <<caller, runLock, shutdownLock>>
strand == <<queue, inserting>>
setVars == <<acceptor, accepting, accepts, caller, runLock, shutdownLock,
             queue, inserting, stage, lost>>

\* moved: by an upgrade, which leaves the session without its socket.
Stage == {"none", "live", "shut", "moved", "done"}

\* The sessions that have not ended.
Alive == {"live", "shut", "moved"}

Lambda == [kind : {"emplace", "shutdown"}, to : {None}]
              \cup [kind : {"erase"}, to : Session]

\* set_
set == {s \in Session : stage[s] # "none"}

\* lock_count_ # 0; between its two moves the lock is shutdown()'s own.
Busy == runLock \/ caller = "moved" \/ shutdownLock \/ queue # <<>>

SetInit ==
    /\ acceptor = TRUE /\ accepting = "armed" /\ accepts = 0
    /\ caller = "idle"
    /\ runLock = TRUE /\ shutdownLock = FALSE
    /\ queue = <<>> /\ inserting = FALSE
    /\ stage = [s \in Session |-> "none"]
    /\ lost = 0

-----------------------------------------------------------------------------
(* The listener *)

\* Wrong on purpose: no further do_accept().
AcceptOnce ==
    /\ accepting = "armed"
    /\ accepts < MaxAccept
    /\ accepts' = accepts + 1
    /\ accepting' = "ended"
    /\ queue' = IF Busy THEN Append(queue, [kind |-> "emplace", to |-> None])
                        ELSE queue
    /\ UNCHANGED <<acceptor, locks, inserting, stage, lost>>

\* A connection, perhaps made just before the acceptor was closed:
\* async_emplace(), whose exception without a lock is caught, and do_accept()
\* again, which fails on a closed acceptor.
Accept ==
    /\ accepting = "armed"
    /\ accepts < MaxAccept
    /\ accepts' = accepts + 1
    /\ accepting' = IF acceptor THEN "armed" ELSE "bad"
    /\ queue' = IF Busy THEN Append(queue, [kind |-> "emplace", to |-> None])
                        ELSE queue
    /\ UNCHANGED <<acceptor, locks, inserting, stage, lost>>

\* Wrong on purpose: do_accept() after an error, too.
AcceptEndsNot ==
    /\ accepting = "bad" \/ (accepting = "armed" /\ ~ acceptor)
    /\ accepting' = "bad"
    /\ UNCHANGED <<acceptor, accepts, locks, strand, stage, lost>>

\* operation_aborted, or the error of an acceptor that was closed before
AcceptEnds ==
    /\ accepting = "bad" \/ (accepting = "armed" /\ ~ acceptor)
    /\ accepting' = "ended"
    /\ UNCHANGED <<acceptor, accepts, locks, strand, stage, lost>>

\* Any other error, as when there is no file descriptor left: it is reported,
\* and there is no further do_accept().
AcceptFails ==
    /\ accepting = "armed"
    /\ accepting' = "failed"
    /\ UNCHANGED <<acceptor, accepts, locks, strand, stage, lost>>

-----------------------------------------------------------------------------
(* The thread that calls shutdown() *)

\* The caller goes on from one point to the next.
Goto(from, to) == caller = from /\ caller' = to

\* listener::shutdown()
CloseListener ==
    /\ Goto("idle", "listener")
    /\ acceptor' = FALSE
    /\ UNCHANGED <<accepting, accepts, runLock, shutdownLock, strand, stage,
                   lost>>

\* auto lock = std::move(run_lock_)
TakeLock ==
    /\ Goto("listener", "moved")
    /\ runLock' = FALSE
    /\ UNCHANGED <<listenerVars, shutdownLock, strand, stage, lost>>

\* shutdown_lock_ = std::move(lock)
StoreLock ==
    /\ Goto("moved", "stored")
    /\ shutdownLock' = TRUE
    /\ UNCHANGED <<listenerVars, runLock, strand, stage, lost>>

\* Wrong on purpose: no lambda closes the sessions.
DeferNothing ==
    /\ Goto("stored", "done")
    /\ Busy
    /\ UNCHANGED <<listenerVars, runLock, shutdownLock, strand, stage, lost>>

\* strand_.defer() with the lock of the lambda
Defer ==
    /\ Goto("stored", "done")
    /\ Busy
    /\ queue' = Append(queue, [kind |-> "shutdown", to |-> None])
    /\ UNCHANGED <<listenerVars, runLock, shutdownLock, inserting, stage,
                   lost>>

\* make_lock() throws in a function that is noexcept: std::terminate().  There
\* is no session and no lambda then; what the listener still does is idle.
Terminate ==
    /\ Goto("stored", "terminated")
    /\ ~ Busy
    /\ UNCHANGED <<listenerVars, runLock, shutdownLock, strand, stage, lost>>

-----------------------------------------------------------------------------
(* The strand of the set *)

Runs(kind) == queue # <<>> /\ Head(queue).kind = kind

\* The lambda ends, its lock is destroyed.
Leave ==
    /\ queue' = Tail(queue)
    /\ inserting' = FALSE
    /\ UNCHANGED <<listenerVars, caller, runLock, lost>>

\* Wrong on purpose: is_shutdown() is not asked.
EmplaceAlways ==
    /\ Runs("emplace") /\ ~ inserting
    /\ inserting' = TRUE
    /\ UNCHANGED <<listenerVars, locks, queue, stage, lost>>

\* The lambda of async_emplace(): is_shutdown() ...
EmplaceCheck ==
    /\ Runs("emplace") /\ ~ inserting
    /\ runLock
    /\ inserting' = TRUE
    /\ UNCHANGED <<listenerVars, locks, queue, stage, lost>>

\* ... throws and the socket is closed, ...
EmplaceRefused ==
    /\ Runs("emplace") /\ ~ inserting
    /\ ~ runLock
    /\ UNCHANGED <<shutdownLock, stage>>
    /\ Leave

\* ... or the session is inserted, and runs.
Insert(s) ==
    /\ inserting
    /\ stage[s] = "none"
    /\ stage' = [stage EXCEPT ![s] = "live"]
    /\ UNCHANGED shutdownLock
    /\ Leave

\* ... or its run() throws, the lock in run() is the session's last one and
\* erases it at once; the async_erase() of the catch block finds nothing.
InsertFails ==
    /\ inserting
    /\ UNCHANGED stage
    /\ shutdownLock' = (shutdownLock /\ (runLock \/ set # {}))
    /\ Leave

\* Wrong on purpose: leaves the lock to the lambda of shutdown().
EraseKeeps ==
    /\ Runs("erase")
    /\ stage' = [stage EXCEPT ![Head(queue).to] = "none"]
    /\ UNCHANGED shutdownLock
    /\ Leave

\* The lambda of async_erase()
Erase ==
    /\ Runs("erase")
    /\ stage' = [stage EXCEPT ![Head(queue).to] = "none"]
    /\ shutdownLock' = (shutdownLock /\ (runLock \/ set' # {}))
    /\ Leave

\* The lambda of shutdown(): do_close() for all sessions
RunShutdown ==
    /\ Runs("shutdown")
    /\ shutdownLock' = (shutdownLock /\ set # {})
    /\ stage' = [s \in Session |->
                    IF stage[s] = "live" THEN "shut" ELSE stage[s]]
    /\ Leave

SetStrand ==
    \/ EmplaceCheck \/ EmplaceRefused \/ InsertFails \/ Erase \/ RunShutdown
    \/ \E s \in Session : Insert(s)

-----------------------------------------------------------------------------
(* The sessions *)

\* An upgrade: the socket moves to the WebSocket handler.
Move(s) ==
    /\ stage[s] \in {"live", "shut"}
    /\ stage' = [stage EXCEPT ![s] = "moved"]
    /\ UNCHANGED <<listenerVars, locks, strand, lost>>

\* Wrong on purpose: async_erase() of a pointer that has been moved from.
EndMoved(s) ==
    /\ stage[s] \in Alive
    /\ stage' = [stage EXCEPT ![s] = "done"]
    /\ queue' = Append(queue, [kind |-> "erase", to |-> None])
    /\ UNCHANGED <<listenerVars, locks, inserting, lost>>

\* The last lock of the session s is destroyed: async_erase(), which catches
\* the exception of make_lock().
SessionEnds(s) ==
    /\ stage[s] \in Alive
    /\ stage' = [stage EXCEPT ![s] = "done"]
    /\ IF Busy
       THEN /\ queue' = Append(queue, [kind |-> "erase", to |-> s])
            /\ lost' = lost
       ELSE /\ queue' = queue
            /\ lost' = lost + 1
    /\ UNCHANGED <<listenerVars, locks, inserting>>

SetNext ==
    \/ Accept \/ AcceptEnds \/ AcceptFails
    \/ CloseListener \/ TakeLock \/ StoreLock \/ Defer \/ Terminate
    \/ SetStrand
    \/ \E s \in Session : Move(s) \/ SessionEnds(s)

\* The thread in shutdown() goes on, the executor runs what is queued, a
\* closed acceptor aborts, and a session that do_close() has shut ends.
SetFairness ==
    /\ WF_setVars(TakeLock \/ StoreLock \/ Defer \/ Terminate)
    /\ WF_setVars(SetStrand)
    /\ WF_setVars(AcceptEnds)
    /\ \A s \in Session : WF_setVars(stage[s] = "shut" /\ SessionEnds(s))

SetSpec == SetInit /\ [][SetNext]_setVars /\ SetFairness

-----------------------------------------------------------------------------
(* Properties *)

SetTypeOK ==
    /\ acceptor \in BOOLEAN
    /\ accepting \in {"armed", "bad", "failed", "ended"}
    /\ accepts \in 0..MaxAccept
    /\ caller \in {"idle", "listener", "moved", "stored", "done",
                   "terminated"}
    /\ runLock \in BOOLEAN /\ shutdownLock \in BOOLEAN
    /\ queue \in Seq(Lambda)
    /\ inserting \in BOOLEAN
    /\ stage \in [Session -> Stage]
    /\ lost \in Nat

\* While the set has a session one of its two locks is held, or is on its way
\* from one to the other, so that no async_erase() is refused: a session that
\* ends always leaves the set.
EraseNeverRefused ==
    /\ lost = 0
    /\ set # {} => runLock \/ caller = "moved" \/ shutdownLock

\* Once the lambda of shutdown() has run every session has been shut down:
\* none slips in although connections are accepted meanwhile.
ShutdownShutsAll ==
    caller = "done" /\ (\A i \in DOMAIN queue : queue[i].kind # "shutdown")
        => \A s \in Session : stage[s] # "live"

\* The lock of the shutdown is given back when the set is empty, whichever of
\* the last async_erase() and the lambda of shutdown() comes last.
LockGivenBack ==
    caller = "done" /\ queue = <<>> /\ set = {} => ~ shutdownLock

\* "void shutdown()noexcept": the server can be shut down at any time.
ShutdownNoThrow == caller # "terminated"
=============================================================================
