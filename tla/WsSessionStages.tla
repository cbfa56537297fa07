-------------------------- MODULE WsSessionStages ---------------------------
(***************************************************************************)
(* The life of a ws_session as its service sees it.  WsService reduces a   *)
(* session to a stage, the calls queued on its strand and on_erase(); this *)
(* module shows that WsSession, with all its operations, does nothing that *)
(* a session of WsService does not do.                                     *)
(***************************************************************************)
EXTENDS WsSession

\* What the session still has to do beside the calls that are queued.
Pending ==
    \/ ses.ops # {} \/ ses.pings > 0 \/ ses.timer # "idle"
    \/ ses.aborted > 0 \/ ses.hq # <<>>

\* The stage of the session in the map of its service.  A close() that waits
\* for a write is noted on an open stream, and a failed stream may have
\* handlers left.
StageOf ==
    IF life # "running" THEN "none"
    ELSE IF ~ Pending THEN "done"
    ELSE IF ses.stream = "connecting" THEN "handshake"
    ELSE IF IsOpen(ses) THEN IF ses.closeReason THEN "closing" ELSE "open"
    ELSE IF ses.stream = "closed" THEN "draining"
    ELSE "closing"

CallsOf ==
    [i \in DOMAIN calls |-> IF calls[i] = CloseFrame THEN "close" ELSE "send"]

\* The service, with this session only, before its shutdown.
Service == INSTANCE WsService
           WITH Session <- {"session"}, None <- "none",
                Stage1 <- {"handshake", "open"}, MaxConnect <- 0,
                runLock <- TRUE, shutdownLock <- FALSE, shutdown <- FALSE,
                queue <- [i \in 1..erases |->
                             [kind |-> "erase", to |-> "session"]],
                phase <- IF pc = "idle" THEN "wait" ELSE "checked",
                todo <- {},
                at <- IF pc = "idle" THEN "none" ELSE "session",
                stage <- [s \in {"session"} |-> StageOf],
                calls <- [s \in {"session"} |-> CallsOf], stale <- {},
                connects <- 0, ended <- 0

\* Most steps of the session the service does not see.
Unseen == UNCHANGED <<StageOf, CallsOf, erases>>

\* The steps of the strand of the service: the emplacement, ...
Emplaced ==
    /\ StageOf = "none" /\ life = "new"
    /\ StageOf' \in {"handshake", "open"}
    /\ UNCHANGED <<CallsOf, erases>>

\* ... a call that is queued on strand_, as VisitQueue has it ...
Called ==
    /\ pc = "checked"
    /\ \E act \in {"send", "close"} : CallsOf' = Append(CallsOf, act)
    /\ UNCHANGED <<StageOf, erases>>

\* ... and the erase, which finds a session that has ended.  (With several
\* threads a call may be left, that outlives the session.)
Erased ==
    /\ StageOf = "done" /\ StageOf' = "none"
    /\ erases > 0 /\ erases' = erases - 1
    /\ UNCHANGED CallsOf

-----------------------------------------------------------------------------
(* Properties *)

\* Every handler of the session is, for the service, a step that WsService
\* allows a session or no step: the session opens once, begins to close by a
\* call or by its peer, never opens again, calls on_erase() with its last
\* lock, and after it runs only calls that were let through too late, which
\* several threads can do, in WsService as here.
StepsAsInService ==
    [][Unseen \/ Emplaced \/ Called \/ Erased
           \/ Service!SessionNext("session")]_wsVars
=============================================================================
