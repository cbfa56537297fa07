------------------------- MODULE HttpSessionStages --------------------------
(***************************************************************************)
(* The life of an http_session as the set of http_sessions sees it.        *)
(* HttpSessions reduces a session to a stage and async_erase(), and        *)
(* assumes that a session it has shut down ends; this module shows that    *)
(* HttpSession does what HttpSessions lets a session do, and does end.     *)
(***************************************************************************)
EXTENDS HttpSession

\* The stage of the session in set_.  A do_close() by the session itself is
\* nothing to the set.
StageOf ==
    IF life # "running" THEN "none"
    ELSE IF ~ Busy THEN "done"
    ELSE IF http.sock = "moved" THEN "moved"
    ELSE IF closer = "done" THEN "shut"
    ELSE "live"

\* The set, with this session only and one of its locks held.
Sessions == INSTANCE HttpSessions
            WITH Session <- {"session"}, None <- "none", MaxAccept <- 0,
                 acceptor <- TRUE, accepting <- "armed", accepts <- 0,
                 caller <- "idle", runLock <- TRUE, shutdownLock <- FALSE,
                 queue <- [i \in 1..erases |->
                              [kind |-> "erase", to |-> "session"]],
                 inserting <- FALSE,
                 stage <- [s \in {"session"} |-> StageOf], lost <- 0

\* Most steps of the session the set does not see.
Unseen == UNCHANGED <<StageOf, erases>>

\* The steps of the strand of the set: the insertion, ...
Inserted ==
    /\ life = "new"
    /\ StageOf' = "live"
    /\ UNCHANGED erases

\* ... the shutdown ...
ShutDown ==
    /\ StageOf = "live" /\ StageOf' = "shut"
    /\ closer # closer'
    /\ UNCHANGED erases

\* ... and the erase, which finds a session that has ended.
Erased ==
    /\ StageOf = "done" /\ StageOf' = "none"
    /\ erases > 0 /\ erases' = erases - 1

-----------------------------------------------------------------------------
(* Properties *)

\* Every handler of the session is, for the set, a step that HttpSessions
\* allows a session, a step of the strand of the set, or no step.
StageSteps ==
    [][Unseen \/ Inserted \/ ShutDown \/ Erased
           \/ Sessions!Move("session")
           \/ Sessions!SessionEnds("session")]_httpVars

\* Every handler does what HttpSessions lets a session do, and a session that
\* was shut down ends or has moved its socket: what HttpSessions takes for
\* granted, fairness included.
StepsAsInSet ==
    /\ StageSteps
    /\ StageOf = "shut" ~> StageOf # "shut"
=============================================================================
