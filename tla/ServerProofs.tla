---------------------------- MODULE ServerProofs -----------------------------
(***************************************************************************)
(* Proofs about the server and the client as a whole, for any sessions and *)
(* bounds and for all three kinds of parts.                                *)
(*                                                                         *)
(* Every step is one of HttpSessions or none, and one of WsService or      *)
(* none, so that the invariants of the two hold as they are.  ServerInv    *)
(* adds what an io_context that has stopped leaves behind.                 *)
(***************************************************************************)
EXTENDS Server, HttpSessionsProofs

WsP == INSTANCE WsServiceProofs
      WITH Session <- WsAddress, Stage1 <- {"handshake", "open"},
           MaxCall <- 0, runLock <- wsRunLock,
           shutdownLock <- wsShutdownLock, shutdown <- wsShutdown,
           queue <- wsQueue, phase <- wsPhase, todo <- wsTodo, at <- wsAt,
           stage <- wsStage, calls <- wsCalls, stale <- wsStale, made <- 0,
           ended <- wsEnded

\* The assumptions of WsService, for the service of a server.
LEMMA WsAssumed ==
    /\ None \notin WsAddress
    /\ {"handshake", "open"} \subseteq {"handshake", "open"}
    /\ MaxConnect \in Nat
    /\ 0 \in Nat
  BY ServerAssumption

-----------------------------------------------------------------------------
(* The steps of the two parts *)

LEMMA WsConnectSame == Ws!Connect <=> WsP!Connect
  BY DEF Ws!Connect, WsP!Connect, Ws!Dispatch, WsP!Dispatch, Ws!Busy,
     WsP!Busy, Ws!sessions, WsP!sessions, Ws!locks, WsP!locks

LEMMA WsShutdownSame == Ws!Shutdown <=> WsP!Shutdown
  BY DEF Ws!Shutdown, WsP!Shutdown, Ws!Dispatch, WsP!Dispatch, Ws!Busy,
     WsP!Busy, Ws!sessions, WsP!sessions

LEMMA WsSessionSame ==
    ASSUME NEW w \in WsAddress
    PROVE  Ws!SessionNext(w) <=> WsP!SessionNext(w)
  BY DEF Ws!SessionNext, WsP!SessionNext, Ws!Accepted, WsP!Accepted,
     Ws!Closes, WsP!Closes, Ws!SessionEnds, WsP!SessionEnds, Ws!Drained,
     WsP!Drained, Ws!RunCall, WsP!RunCall, Ws!Become, WsP!Become,
     Ws!SessionStep, WsP!SessionStep, Ws!Beside, WsP!Beside,
     Ws!SessionBusy, WsP!SessionBusy, Ws!Busy, WsP!Busy, Ws!After,
     WsP!After, Ws!InLoop, WsP!InLoop, Ws!locks, WsP!locks, Ws!outer,
     WsP!outer

LEMMA WsStaleSame ==
    ASSUME NEW w \in WsAddress
    PROVE  Ws!RunStale(w) <=> WsP!RunStale(w)
  BY DEF Ws!RunStale, WsP!RunStale, Ws!Beside, WsP!Beside, Ws!Busy, WsP!Busy,
     Ws!locks, WsP!locks, Ws!outer, WsP!outer

LEMMA WsStrandSame == Ws!StrandStep <=> WsP!StrandStep
  BY DEF Ws!StrandStep, WsP!StrandStep, Ws!ConnectCheck, WsP!ConnectCheck,
     Ws!ConnectRefused, WsP!ConnectRefused, Ws!ConnectFails,
     WsP!ConnectFails, Ws!RunErase, WsP!RunErase, Ws!EraseNothing,
     WsP!EraseNothing, Ws!ShutdownEmpty, WsP!ShutdownEmpty, Ws!LoopBegin,
     WsP!LoopBegin, Ws!VisitCheck, WsP!VisitCheck, Ws!VisitQueue,
     WsP!VisitQueue, Ws!VisitEnd, WsP!VisitEnd, Ws!VisitErases,
     WsP!VisitErases, Ws!LoopEnd, WsP!LoopEnd, Ws!Emplace, WsP!Emplace,
     Ws!VisitNot, WsP!VisitNot, Ws!Begin, WsP!Begin, Ws!Running, WsP!Running,
     Ws!Leave, WsP!Leave, Ws!EraseFrom, WsP!EraseFrom, Ws!Outlived,
     WsP!Outlived, Ws!SessionBusy, WsP!SessionBusy, Ws!After, WsP!After,
     Ws!map, WsP!map, Ws!Act, WsP!Act, Ws!Busy, WsP!Busy, Ws!locks,
     WsP!locks, Ws!outer, WsP!outer, Ws!sessions, WsP!sessions

\* Every step of the server is one of the HTTP part and one of the service.
LEMMA HttpSide == [ServerNext]_serverVars => [SetNext]_setVars
<1> SUFFICES ASSUME [ServerNext]_serverVars
             PROVE  SetNext \/ UNCHANGED setVars
  OBVIOUS
<1>1. CASE UNCHANGED serverVars
  BY <1>1 DEF serverVars
<1>2. CASE RunAgain \/ ThreadReturns \/ RequestThrows \/ RunService
           \/ \E w \in WsAddress : RunWs(w)
  BY <1>2 DEF RunAgain, ThreadReturns, RequestThrows, RunService, RunWs, WsStep
<1>3. CASE Listen \/ ListenEnds \/ RunSet
  BY <1>3 DEF Listen, ListenEnds, RunSet, EmplaceThrows, HttpStep, SetNext,
     SetStrand
<1>4. CASE \E s \in Session : HttpEnd(s) \/ Upgrade(s)
  BY <1>4 DEF HttpEnd, Upgrade, HttpStep, SetNext
<1>5. CASE Connect \/ Destruct \/ Join \/ ShutdownWs \/ ResetWork
           \/ \E h \in Callback \cup {"user"} : CallShutdown(h)
  BY <1>5 DEF Connect, Destruct, Join, ShutdownWs, ResetWork, CallShutdown
<1>6. CASE ShutdownHttp
  BY <1>6 DEF ShutdownHttp, SetNext
<1> QED
  BY <1>1, <1>2, <1>3, <1>4, <1>5, <1>6
  DEF ServerNext, Executor, User, ShutdownFn

LEMMA WsSide ==
    [ServerNext]_serverVars => [WsP!ServiceNext]_(WsP!serviceVars)
<1> SUFFICES ASSUME [ServerNext]_serverVars
             PROVE  WsP!ServiceNext \/ UNCHANGED <<manyThreads, wsVars>>
  BY DEF wsVars, WsP!serviceVars
<1>1. CASE UNCHANGED serverVars
  BY <1>1 DEF serverVars
<1>2. CASE RunAgain \/ ThreadReturns \/ RequestThrows
  BY <1>2 DEF RunAgain, ThreadReturns, RequestThrows
<1>3. CASE Listen \/ ListenEnds \/ RunSet
  BY <1>3 DEF Listen, ListenEnds, RunSet, EmplaceThrows, HttpStep
<1>4. CASE RunService \/ \E w \in WsAddress : RunWs(w)
  BY <1>4, WsStrandSame, WsSessionSame, WsStaleSame
  DEF RunService, RunWs, WsStep, WsP!ServiceNext
<1>5. CASE \E s \in Session : HttpEnd(s) \/ Upgrade(s)
  BY <1>5, WsConnectSame DEF HttpEnd, Upgrade, HttpStep, WsP!ServiceNext
<1>6. CASE ShutdownHttp \/ ResetWork \/ Destruct \/ Join
           \/ \E h \in Callback \cup {"user"} : CallShutdown(h)
  BY <1>6 DEF ShutdownHttp, ResetWork, Destruct, Join, CallShutdown
<1>7. CASE Connect \/ ShutdownWs
  BY <1>7, WsConnectSame, WsShutdownSame
  DEF Connect, ShutdownWs, WsP!ServiceNext
<1> QED
  BY <1>1, <1>2, <1>3, <1>4, <1>5, <1>6, <1>7
  DEF ServerNext, Executor, User, ShutdownFn

-----------------------------------------------------------------------------
(* The invariants of the two parts *)

PartsInv == SetInv /\ WsP!LeaveInv

LEMMA PartsInvInit == ServerInit => PartsInv
<1> SUFFICES ASSUME ServerInit
             PROVE  PartsInv
  OBVIOUS
<1>1. WsP!LeaveInv
  <2>1. WsP!ServiceInit
    BY DEF ServerInit, Ws!ServiceInit, WsP!ServiceInit
  <2> QED
    BY <2>1, WsP!LeaveInvInit, WsAssumed
<1>2. SetInv
  <2>1. CASE "http" \in parts
    BY <2>1, SetInvInit DEF ServerInit
  <2>2. CASE "http" \notin parts
    <3>1. /\ acceptor = FALSE /\ accepting = "ended" /\ accepts = 0
          /\ caller = "idle" /\ runLock = FALSE /\ shutdownLock = FALSE
          /\ queue = <<>> /\ inserting = FALSE
          /\ stage = [s \in Session |-> "none"] /\ lost = 0
      BY <2>2 DEF ServerInit
    <3>2. SetTypeOK
      <4>1. <<>> \in Seq(Lambda)
        OBVIOUS
      <4>2. stage \in [Session -> Stage] /\ accepts \in 0..MaxAccept
        BY <3>1, SetAssumption DEF Stage
      <4> QED
        BY <3>1, <4>1, <4>2 DEF SetTypeOK
    <3> QED
      BY <3>1, <3>2 DEF SetInv, CallerInv, Held, ShutInv, LeavingInv, set
  <2> QED
    BY <2>1, <2>2
<1> QED
  BY <1>1, <1>2 DEF PartsInv

LEMMA PartsInvStep == PartsInv /\ [ServerNext]_serverVars => PartsInv'
<1> SUFFICES ASSUME PartsInv, [ServerNext]_serverVars
             PROVE  PartsInv'
  OBVIOUS
<1>1. SetInv'
  BY HttpSide, SetInvStep DEF PartsInv
<1>2. WsP!LeaveInv'
  BY WsSide, WsP!LeaveInvStep, WsAssumed DEF PartsInv
<1> QED
  BY <1>1, <1>2 DEF PartsInv

\* The service has no session when it has nothing to do.
LEMMA WsInvImplies ==
    ASSUME WsP!LeaveInv
    PROVE  /\ Ws!ServiceTypeOK
           /\ wsPhase # "wait" => wsQueue # <<>>
           /\ wsQueue = <<>> /\ (\A w \in WsAddress : ~ Ws!SessionBusy(w))
                  => Ws!map = {}
<1>1. Ws!ServiceTypeOK
  BY DEF WsP!LeaveInv, WsP!LockInv, WsP!ServiceTypeOK, Ws!ServiceTypeOK,
     WsP!Lambda, Ws!Lambda, WsP!Act, Ws!Act, WsP!Stage, Ws!Stage, WsP!map,
     Ws!map
<1>2. wsPhase # "wait" => wsQueue # <<>>
  BY DEF WsP!LeaveInv, WsP!LockInv
<1>3. ASSUME wsQueue = <<>>, NEW w \in WsAddress, w \in Ws!map,
             ~ Ws!SessionBusy(w)
      PROVE  FALSE
  <2>1. w \in WsP!Ended
    BY <1>3 DEF Ws!SessionBusy, Ws!map, WsP!Ended
  <2>2. \E i \in 1..Len(wsQueue) : wsQueue[i].kind = "erase"
    BY <2>1 DEF WsP!LeaveInv, WsP!LeavingInv, WsP!EraseQueued
  <2>3. Len(wsQueue) = 0
    BY <1>3
  <2> QED
    BY <2>2, <2>3
<1>4. Ws!map \subseteq WsAddress
  BY DEF Ws!map
<1> QED
  BY <1>1, <1>2, <1>3, <1>4

\* The set neither.
LEMMA SetEmptied ==
    ASSUME SetInv, queue = <<>>, \A s \in Session : stage[s] \notin Alive
    PROVE  set = {} /\ ~ inserting
<1>1. \A s \in Session : stage[s] \in Stage /\ ~ Leaving(s)
  BY EmptyQueue DEF SetInv, SetTypeOK
<1>2. \A s \in Session : stage[s] = "none"
  BY <1>1 DEF SetInv, LeavingInv, Alive, Stage
<1> QED
  BY <1>2 DEF SetInv, Runs, set

-----------------------------------------------------------------------------
(* The HTTP part and the WebSocket part of a server or a client *)

\* What a server promises of its sessions holds for the whole of it, whatever
\* thread, callback or destructor calls shutdown(): no async_erase() of an
\* HTTP session is refused, ...
THEOREM ServerErases == ServerSpec => []EraseNeverRefused
<1>1. PartsInv => EraseNeverRefused
  BY SetInvImplies DEF PartsInv
<1> QED
  BY <1>1, PartsInvInit, PartsInvStep, PTL DEF ServerSpec

\* ... the lambda of shutdown() leaves no live HTTP session, ...
THEOREM ServerShuts == ServerSpec => []ShutdownShutsAll
<1>1. PartsInv => ShutdownShutsAll
  BY SetInvImplies DEF PartsInv
<1> QED
  BY <1>1, PartsInvInit, PartsInvStep, PTL DEF ServerSpec

\* ... and shutdown_lock_ is given back.
THEOREM ServerLockBack == ServerSpec => []LockGivenBack
<1>1. PartsInv => LockGivenBack
  BY SetInvImplies DEF PartsInv
<1> QED
  BY <1>1, PartsInvInit, PartsInvStep, PTL DEF ServerSpec

\* The whole contains its parts as they are specified by themselves: a server
\* begins with the listener and the http_sessions of HttpSessions and takes
\* no step that is not one of theirs, ...
THEOREM ServerHasSet ==
    ServerSpec => ("http" \in parts => SetInit) /\ [][SetNext]_setVars
<1>1. ServerInit => ("http" \in parts => SetInit)
  BY DEF ServerInit
<1> QED
  BY <1>1, HttpSide, PTL DEF ServerSpec

LEMMA WsPart ==
    ServerSpec => WsP!ServiceInit /\ [][WsP!ServiceNext]_(WsP!serviceVars)
<1>1. ServerInit => WsP!ServiceInit
  BY DEF ServerInit, Ws!ServiceInit, WsP!ServiceInit
<1> QED
  BY <1>1, WsSide, PTL DEF ServerSpec

LEMMA WsNextSame == WsP!ServiceNext => Ws!ServiceNext
<1>1. ASSUME NEW act, NEW w, WsP!CallAll(act) \/ WsP!CallOne(act, w)
      PROVE  FALSE
  BY <1>1 DEF WsP!CallAll, WsP!CallOne
<1> QED
  BY <1>1, WsConnectSame, WsShutdownSame, WsStrandSame, WsSessionSame,
     WsStaleSame
  DEF WsP!ServiceNext, Ws!ServiceNext

\* ... and the service of a server or of a client does what WsService says,
\* whatever the executor, the user and the HTTP sessions do between.
THEOREM ServerHasService ==
    ServerSpec => Ws!ServiceInit /\ [][Ws!ServiceNext]_(Ws!serviceVars)
<1>1. ServerInit => Ws!ServiceInit
  BY DEF ServerInit
<1>2. [ServerNext]_serverVars => [Ws!ServiceNext]_(Ws!serviceVars)
  BY WsSide, WsNextSame DEF Ws!serviceVars, WsP!serviceVars
<1> QED
  BY <1>1, <1>2, PTL DEF ServerSpec

\* So what WsService promises holds in a server and in a client: the service
\* has a lock as long as it has a session, has ended when it has none of both
\* and not before, and with one thread no handler outlives its session.
THEOREM ServerServiceEnds ==
    ServerSpec => [](Ws!LockWhileSessions /\ Ws!ServiceEndsLast)
<1>1. WsP!ServiceInit => WsP!EndInv
  BY WsP!EndInvInit, WsAssumed
<1>2. WsP!EndInv /\ [WsP!ServiceNext]_(WsP!serviceVars) => WsP!EndInv'
  BY WsP!EndInvStep, WsAssumed
<1>3. WsP!EndInv => Ws!LockWhileSessions /\ Ws!ServiceEndsLast
  <2> SUFFICES ASSUME WsP!EndInv
               PROVE  Ws!LockWhileSessions /\ Ws!ServiceEndsLast
    OBVIOUS
  <2>1. Ws!map = WsP!map /\ Ws!Busy = WsP!Busy
    BY DEF Ws!map, WsP!map, Ws!Busy, WsP!Busy
  <2>2. Ws!LockWhileSessions
    BY <2>1 DEF WsP!EndInv, WsP!LockInv, WsP!LockWhileSessions,
       Ws!LockWhileSessions
  <2>3. wsEnded = IF Ws!Busy THEN 0 ELSE 1
    BY <2>1 DEF WsP!EndInv, WsP!EndedOnce
  <2>4. ~ Ws!Busy => Ws!map = {}
    BY <2>2 DEF Ws!LockWhileSessions, Ws!Busy
  <2>5. ~ manyThreads => wsStale = {}
    BY DEF WsP!EndInv, WsP!OneErase
  <2> QED
    BY <2>2, <2>3, <2>4, <2>5 DEF Ws!ServiceEndsLast
<1> QED
  BY <1>1, <1>2, <1>3, WsPart, PTL

\* And after the lambda of on_shutdown() no WebSocket session is emplaced,
\* whatever upgrade of an HTTP session or connect() is under way then, and
\* with one thread shutdown_finished() is called with the last erase.
THEOREM ServerServiceShut ==
    ServerSpec => Ws!NoSessionAfterShutdown /\ []Ws!FinishedWhenErased
<1>1. WsP!ServiceInit => WsP!OneThreadInv
  BY WsP!OneThreadInit, WsAssumed
<1>2. WsP!OneThreadInv /\ [WsP!ServiceNext]_(WsP!serviceVars)
          => WsP!OneThreadInv'
  BY WsP!OneThreadStep, WsAssumed
<1>3. WsP!OneThreadInv => Ws!FinishedWhenErased
  BY DEF WsP!OneThreadInv, WsP!FinishInv, Ws!FinishedWhenErased, WsP!map,
     Ws!map
<1>4. WsP!OneThreadInv /\ [WsP!ServiceNext]_(WsP!serviceVars)
          => [wsShutdown => Ws!map' \subseteq Ws!map]_(Ws!serviceVars)
  <2>1. WsP!OneThreadInv /\ [WsP!ServiceNext]_(WsP!serviceVars)
          => [wsShutdown => WsP!map' \subseteq WsP!map]_(WsP!serviceVars)
    BY WsP!NoEmplaceStep, WsAssumed DEF WsP!OneThreadInv, WsP!LeaveInv
  <2> QED
    BY <2>1 DEF WsP!map, Ws!map, WsP!serviceVars, Ws!serviceVars
<1> QED
  BY <1>1, <1>2, <1>3, <1>4, WsPart, PTL DEF Ws!NoSessionAfterShutdown

-----------------------------------------------------------------------------
(* The whole *)

\* What there is when the io_context has stopped.
Idle ==
    /\ set = {} /\ ~ inserting
    /\ Ws!map = {} /\ wsStale = {} /\ wsPhase = "wait"
    /\ ~ InCallback
    /\ accepting \notin {"armed", "bad"}
    /\ ~ guard

\* Every thread is in run() or in on_exception(), and until the io_context has
\* stopped there is one.
ThreadInv ==
    /\ running \in Nat /\ catching \in Nat /\ running + catching \in 0..2
    /\ Inside =< running
    /\ stopped \/ running + catching > 0

\* How far shutdown() can be.
OwnerInv ==
    /\ parts \in {{"http"}, {"http", "ws"}, {"ws"}}
    /\ thrown \in 0..MaxThrow
    /\ stopped \in BOOLEAN /\ guard \in BOOLEAN
    /\ by \in {None, "user"} \cup Callback
    /\ main \in {"idle", "destructor", "destroyed"}
    /\ by = None => IF "http" \in parts THEN caller = "idle" ELSE guard
    /\ "http" \in parts /\ caller = "idle" =>
           acceptor /\ accepting \in {"armed", "failed"}
    /\ "http" \notin parts /\ ~ guard => ~ wsRunLock
    /\ "http" \in parts => ~ guard

OnlyConnects == \A i \in 1..Len(wsQueue) : wsQueue[i].kind = "connect"

StopInv ==
    /\ stopped => Idle
    /\ stopped /\ (by \in Callback \/ "http" \notin parts) =>
           Returned /\ queue = <<>> /\ OnlyConnects
    /\ main = "destroyed" => stopped

ServerInv == PartsInv /\ ThreadInv /\ OwnerInv /\ StopInv

LEMMA Names ==
    None \notin Callback /\ "user" \notin Callback /\ None # "user"
  BY SetAssumption, ServerAssumption DEF Callback

LEMMA InsideNat == Inside \in Nat /\ Inside' \in Nat
  BY DEF Inside

LEMMA InsideNow ==
    /\ inserting => Inside > 0
    /\ InCallback => Inside > 0
    /\ wsPhase # "wait" => Inside > 0
  BY DEF Inside

\* What is not in a handler before a step and is after it needs a thread.
LEMMA InsideLess ==
    ASSUME InCallback' => InCallback, inserting' => inserting,
           wsPhase' # "wait" => wsPhase # "wait"
    PROVE  /\ Inside' =< Inside
           /\ inserting /\ ~ inserting' => Inside' < Inside
  BY DEF Inside

LEMMA InsideMore ==
    ASSUME \/ /\ InCallback' => InCallback
              /\ inserting' => inserting
           \/ /\ InCallback' => InCallback
              /\ wsPhase' # "wait" => wsPhase # "wait"
           \/ /\ inserting' => inserting
              /\ wsPhase' # "wait" => wsPhase # "wait"
    PROVE  Inside' =< Inside + 1
  BY DEF Inside

LEMMA ServerInvInit == ServerInit => ServerInv
<1> SUFFICES ASSUME ServerInit
             PROVE  ServerInv
  OBVIOUS
<1>1. PartsInv
  BY PartsInvInit
<1>2. /\ ~ stopped /\ by = None /\ main = "idle" /\ catching = 0
      /\ running \in {1, 2} /\ thrown = 0 /\ guard = ("http" \notin parts)
      /\ parts \in {{"http"}, {"http", "ws"}, {"ws"}} /\ caller = "idle"
      /\ ~ inserting /\ wsPhase = "wait" /\ stopped \in BOOLEAN
      /\ "http" \in parts => acceptor /\ accepting = "armed"
  BY DEF ServerInit, SetInit, Ws!ServiceInit
<1>3. ~ InCallback
  BY <1>2, Names DEF InCallback
<1>4. Inside = 0
  BY <1>2, <1>3 DEF Inside
<1>5. ThreadInv
  BY <1>2, <1>4 DEF ThreadInv
<1>6. OwnerInv
  <2>1. thrown \in 0..MaxThrow
    BY <1>2, ServerAssumption
  <2>2. guard \in BOOLEAN /\ ("http" \in parts <=> ~ guard)
    BY <1>2
  <2> QED
    BY <1>2, <2>1, <2>2 DEF OwnerInv
<1> QED
  BY <1>1, <1>2, <1>5, <1>6 DEF ServerInv, StopInv

LEMMA WorkDone == PartsInv /\ ~ Work => Idle /\ queue = <<>> /\ wsQueue = <<>>
<1> SUFFICES ASSUME PartsInv, ~ Work
             PROVE  Idle /\ queue = <<>> /\ wsQueue = <<>>
  OBVIOUS
<1>1. /\ ~ guard /\ ~ InCallback /\ accepting \notin {"armed", "bad"}
      /\ queue = <<>> /\ \A s \in Session : stage[s] \notin Alive
      /\ wsQueue = <<>> /\ \A w \in WsAddress : ~ Ws!SessionBusy(w)
      /\ wsStale = {}
  BY DEF Work
<1>2. set = {} /\ ~ inserting
  BY <1>1, SetEmptied DEF PartsInv
<1>3. Ws!map = {} /\ wsPhase = "wait"
  BY <1>1, WsInvImplies DEF PartsInv
<1> QED
  BY <1>1, <1>2, <1>3 DEF Idle

LEMMA WorkDoneNext ==
    PartsInv' /\ ~ Work' => Idle' /\ queue' = <<>> /\ wsQueue' = <<>>
<1>1. (PartsInv /\ ~ Work => Idle /\ queue = <<>> /\ wsQueue = <<>>)'
  BY WorkDone, PTL
<1> QED
  BY <1>1

LEMMA Counted ==
    [ServerNext]_serverVars =>
        (stopped' = (stopped \/ ~ Work')) \/ UNCHANGED serverVars
  BY DEF ServerNext, Executor, User, ShutdownFn, RunAgain, ThreadReturns,
     Listen, ListenEnds, RunSet, EmplaceThrows, RequestThrows, RunService,
     HttpEnd, Upgrade, RunWs, Connect, CallShutdown, ShutdownHttp,
     ShutdownWs, ResetWork, Destruct, Join, HttpStep, WsStep, Count

-----------------------------------------------------------------------------
(* The threads *)

\* A step in which no thread enters or leaves io_context::run().
LEMMA ThreadsSame ==
    ASSUME ThreadInv, UNCHANGED <<running, catching>>, Inside' =< running,
           stopped => stopped'
    PROVE  ThreadInv'
  BY DEF ThreadInv

\* A handler throws.
LEMMA ThreadThrows ==
    ASSUME ThreadInv, Throw, Inside' < running, stopped => stopped'
    PROVE  ThreadInv'
  BY InsideNat DEF ThreadInv, Throw

\* The steps of the strand of the set, in a handler.
LEMMA SetStrandInside ==
    ASSUME ThreadInv, SetStrand, Free \/ inserting,
           UNCHANGED <<parts, by, guard, wsRunLock, wsPhase>>
    PROVE  Inside' =< running
<1>0. /\ Inside \in Nat /\ Inside' \in Nat
      /\ running \in Nat /\ Inside =< running
  BY InsideNat DEF ThreadInv
<1>1. caller' = caller
  BY DEF SetStrand, EmplaceCheck, EmplaceRefused, InsertFails, Erase,
     RunShutdown, Insert, Leave, locks
<1>2. InCallback' = InCallback
  BY <1>1 DEF InCallback, Returned
<1>3. CASE EmplaceCheck
  <2>1. Free
    BY <1>3 DEF EmplaceCheck
  <2>2. Inside' =< Inside + 1
    BY <1>2, InsideMore
  <2> QED
    BY <1>0, <2>1, <2>2 DEF Free
<1>4. CASE ~ EmplaceCheck
  <2>1. ~ inserting'
    BY <1>4 DEF SetStrand, EmplaceRefused, InsertFails, Erase, RunShutdown,
       Insert, Leave
  <2>2. Inside' =< Inside
    BY <1>2, <2>1, InsideLess
  <2> QED
    BY <1>0, <2>2
<1> QED
  BY <1>3, <1>4

LEMMA EmplaceThrowsInside ==
    ASSUME ThreadInv, EmplaceThrows
    PROVE  Inside' < running
<1>0. /\ Inside \in Nat /\ Inside' \in Nat
      /\ running \in Nat /\ Inside =< running
  BY InsideNat DEF ThreadInv
<1>1. /\ ~ inserting' /\ caller' = caller
      /\ UNCHANGED <<parts, by, guard, wsRunLock, wsPhase>>
  BY DEF EmplaceThrows, EmplaceRefused, InsertFails, Leave, owner, wsVars
<1>2. InCallback' = InCallback
  BY <1>1 DEF InCallback, Returned
<1>3. /\ Inside' =< Inside
      /\ inserting => Inside' < Inside
  BY <1>1, <1>2, InsideLess
<1>4. Free \/ inserting
  BY DEF EmplaceThrows, InsertFails
<1>5. CASE Free
  BY <1>0, <1>3, <1>5 DEF Free
<1>6. CASE inserting
  BY <1>0, <1>3, <1>6
<1> QED
  BY <1>4, <1>5, <1>6

\* The service and its sessions never touch its run_lock_.
LEMMA WsRunLockSame ==
    ASSUME Ws!StrandStep \/ Ws!Connect
               \/ \E w \in WsAddress : Ws!SessionNext(w) \/ Ws!RunStale(w)
    PROVE  wsRunLock' = wsRunLock
<1>1. CASE Ws!StrandStep
  BY <1>1 DEF Ws!StrandStep, Ws!ConnectCheck, Ws!ConnectRefused,
     Ws!ConnectFails, Ws!RunErase, Ws!ShutdownEmpty, Ws!LoopBegin,
     Ws!VisitEnd, Ws!VisitErases, Ws!LoopEnd, Ws!Emplace, Ws!VisitNot,
     Ws!EraseNothing, Ws!VisitCheck, Ws!VisitQueue, Ws!locks
<1>2. CASE Ws!Connect
  BY <1>2 DEF Ws!Connect, Ws!locks
<1>3. CASE \E w \in WsAddress : Ws!SessionNext(w) \/ Ws!RunStale(w)
  BY <1>3 DEF Ws!SessionNext, Ws!RunStale, Ws!Accepted, Ws!Closes, Ws!SessionEnds,
     Ws!Drained, Ws!RunCall, Ws!SessionStep, Ws!locks
<1> QED
  BY <1>1, <1>2, <1>3

LEMMA RunServiceInside ==
    ASSUME ThreadInv, RunService
    PROVE  Inside' =< running
<1>0. /\ Inside \in Nat /\ Inside' \in Nat
      /\ running \in Nat /\ Inside =< running
  BY InsideNat DEF ThreadInv
<1>1. /\ UNCHANGED <<parts, by, guard, caller, inserting>>
      /\ wsRunLock' = wsRunLock
  BY WsRunLockSame DEF RunService, WsStep, owner, setVars
<1>2. InCallback' = InCallback
  BY <1>1 DEF InCallback, Returned
<1>3. CASE Free
  <2>1. Inside' =< Inside + 1
    BY <1>1, <1>2, InsideMore
  <2> QED
    BY <1>0, <1>3, <2>1 DEF Free
<1>4. CASE wsPhase # "wait"
  <2>1. Inside' =< Inside
    BY <1>1, <1>2, <1>4, InsideLess
  <2> QED
    BY <1>0, <2>1
<1> QED
  BY <1>3, <1>4 DEF RunService

LEMMA CallShutdownInside ==
    ASSUME ThreadInv, NEW h \in Callback \cup {"user"}, CallShutdown(h)
    PROVE  Inside' =< running
<1>0. /\ Inside \in Nat /\ Inside' \in Nat
      /\ running \in Nat /\ Inside =< running
  BY InsideNat DEF ThreadInv
<1>1. UNCHANGED <<parts, guard, caller, inserting, wsRunLock, wsPhase>>
      /\ by' = h
  BY DEF CallShutdown, wsVars, setVars
<1>2. CASE h = "user"
  <2>1. ~ InCallback'
    BY <1>1, <1>2, Names DEF InCallback, Callback
  <2>2. Inside' =< Inside
    BY <1>1, <2>1, InsideLess
  <2> QED
    BY <1>0, <2>2
<1>3. CASE h # "user"
  <2>1. Free
    BY <1>3 DEF CallShutdown, RunsIn
  <2>2. Inside' =< Inside + 1
    BY <1>1, InsideMore
  <2> QED
    BY <1>0, <2>1, <2>2 DEF Free
<1> QED
  BY <1>2, <1>3

\* shutdown_fn_ does not begin a callback.
LEMMA ShutdownFnInside ==
    ASSUME ThreadInv, ShutdownFn
    PROVE  Inside' =< running
<1>1. InShutdown /\ by' = by /\ inserting' = inserting
  BY DEF ShutdownFn, ShutdownHttp, ShutdownWs, ResetWork, owner, setVars,
     strand, CloseListener, TakeLock, StoreLock, Defer, Terminate
<1>2. wsPhase' = wsPhase
  BY DEF ShutdownFn, ShutdownHttp, ShutdownWs, ResetWork, wsVars,
     Ws!Shutdown, Ws!Dispatch
<1>3. InCallback' => InCallback
  BY <1>1 DEF InCallback, InShutdown
<1>4. Inside' =< Inside
  BY <1>1, <1>2, <1>3, InsideLess
<1> QED
  BY <1>4, InsideNat DEF ThreadInv

\* A step that leaves the three as they are.
LEMMA InsideSame ==
    ASSUME ThreadInv,
           UNCHANGED <<parts, by, guard, caller, wsRunLock, inserting, wsPhase>>
    PROVE  Inside' = Inside /\ Inside' =< running
<1>1. InCallback' = InCallback
  BY DEF InCallback, Returned
<1>2. Inside' = Inside
  BY <1>1 DEF Inside
<1> QED
  BY <1>2 DEF ThreadInv

LEMMA StopsForEver ==
    [ServerNext]_serverVars => (stopped => stopped')
  BY Counted DEF serverVars

LEMMA ThreadInvStep ==
    ServerInv /\ [ServerNext]_serverVars => ThreadInv'
<1> SUFFICES ASSUME ServerInv, [ServerNext]_serverVars
             PROVE  ThreadInv'
  OBVIOUS
<1>0. /\ ThreadInv
      /\ stopped => stopped'
      /\ Inside \in Nat /\ Inside' \in Nat
  BY StopsForEver, InsideNat DEF ServerInv
<1>1. CASE UNCHANGED serverVars
  <2>1. UNCHANGED <<running, catching, parts, by, guard, caller, wsRunLock,
                    inserting, wsPhase>>
    BY <1>1 DEF serverVars, wsVars, setVars
  <2> QED
    BY <1>0, <2>1, InsideSame, ThreadsSame
<1>2. CASE RunAgain \/ ThreadReturns
  <2>1. UNCHANGED <<parts, by, guard, caller, wsRunLock, inserting, wsPhase>>
    BY <1>2 DEF RunAgain, ThreadReturns, owner, wsVars, setVars
  <2>2. Inside' = Inside
    BY <1>0, <2>1, InsideSame
  <2>3. CASE RunAgain
    BY <1>0, <2>2, <2>3 DEF RunAgain, ThreadInv
  <2>4. CASE ThreadReturns
    <3>1. Inside = 0
      BY <2>4 DEF ThreadReturns, ServerInv, StopInv, Idle, Inside
    <3> QED
      BY <1>0, <2>2, <2>4, <3>1 DEF ThreadReturns, ThreadInv
  <2> QED
    BY <1>2, <2>3, <2>4
<1>3. CASE Listen \/ ListenEnds
  <2>1. UNCHANGED <<running, catching, parts, by, guard, caller, wsRunLock,
                    inserting, wsPhase>>
    BY <1>3 DEF Listen, ListenEnds, HttpStep, Accept, AcceptFails,
       AcceptEnds, threads, owner, locks, strand, wsVars
  <2> QED
    BY <1>0, <2>1, InsideSame, ThreadsSame
<1>4. CASE (Free \/ inserting) /\ HttpStep(SetStrand)
  <2>1. UNCHANGED <<running, catching, parts, by, guard, wsRunLock, wsPhase>>
    BY <1>4 DEF HttpStep, threads, owner, wsVars
  <2>2. Inside' =< running
    BY <1>0, <1>4, <2>1, SetStrandInside DEF HttpStep
  <2> QED
    BY <1>0, <2>1, <2>2, ThreadsSame
<1>5. CASE EmplaceThrows
  BY <1>0, <1>5, EmplaceThrowsInside, ThreadThrows DEF EmplaceThrows
<1>6. CASE RequestThrows
  <2>1. UNCHANGED <<parts, by, guard, caller, wsRunLock, inserting, wsPhase>>
    BY <1>6 DEF RequestThrows, owner, wsVars, setVars
  <2>2. Inside' = Inside /\ Inside < running
    BY <1>0, <1>6, <2>1, InsideSame DEF RequestThrows, Free, ThreadInv
  <2> QED
    BY <1>0, <1>6, <2>2, ThreadThrows DEF RequestThrows
<1>7. CASE RunService
  <2>1. UNCHANGED <<running, catching>>
    BY <1>7 DEF RunService, WsStep, threads
  <2> QED
    BY <1>0, <1>7, <2>1, RunServiceInside, ThreadsSame
<1>8. CASE \E s \in Session : HttpEnd(s) \/ Upgrade(s)
  <2>1. UNCHANGED <<running, catching, parts, by, guard, caller, inserting,
                    wsRunLock, wsPhase>>
    BY <1>8 DEF HttpEnd, Upgrade, HttpStep, SessionEnds, Move, Ws!Connect,
       Ws!Dispatch, Ws!locks, threads, owner, locks, strand, wsVars
  <2> QED
    BY <1>0, <2>1, InsideSame, ThreadsSame
<1>9. CASE \E w \in WsAddress : RunWs(w)
  <2>1. UNCHANGED <<running, catching, parts, by, guard, caller, inserting,
                    wsRunLock, wsPhase>>
    BY <1>9 DEF RunWs, WsStep, Ws!RunStale, Ws!SessionNext, Ws!Accepted, Ws!Closes,
       Ws!SessionEnds, Ws!Drained, Ws!RunCall, Ws!SessionStep, Ws!locks,
       threads, owner, setVars
  <2> QED
    BY <1>0, <2>1, InsideSame, ThreadsSame
<1>10. CASE Connect \/ Destruct \/ Join
  <2>1. UNCHANGED <<running, catching, parts, by, guard, caller, inserting,
                    wsRunLock, wsPhase>>
    BY <1>10 DEF Connect, Destruct, Join, Ws!Connect, Ws!Dispatch, Ws!locks,
       threads, owner, wsVars, setVars
  <2> QED
    BY <1>0, <2>1, InsideSame, ThreadsSame
<1>11. CASE \E h \in Callback \cup {"user"} : CallShutdown(h)
  <2>1. UNCHANGED <<running, catching>>
    BY <1>11 DEF CallShutdown, threads
  <2> QED
    BY <1>0, <1>11, <2>1, CallShutdownInside, ThreadsSame
<1>12. CASE ShutdownFn
  <2>1. UNCHANGED <<running, catching>>
    BY <1>12 DEF ShutdownFn, ShutdownHttp, ShutdownWs, ResetWork, threads
  <2> QED
    BY <1>0, <1>12, <2>1, ShutdownFnInside, ThreadsSame
<1> QED
  BY <1>1, <1>2, <1>3, <1>4, <1>5, <1>6, <1>7, <1>8, <1>9, <1>10, <1>11,
     <1>12 DEF ServerNext, Executor, User, RunSet

-----------------------------------------------------------------------------
(* The caller of shutdown() *)

\* What the steps of the executor and most of the user's leave as it is.
Untouched ==
    /\ UNCHANGED <<parts, guard, by, acceptor, caller>>
    /\ wsRunLock' => wsRunLock
    /\ acceptor /\ accepting \in {"armed", "failed"} =>
           accepting' \in {"armed", "failed"}

LEMMA UntouchedKeeps ==
    ASSUME OwnerInv, Untouched, stopped' \in BOOLEAN,
           thrown' \in 0..MaxThrow,
           main' \in {"idle", "destructor", "destroyed"}
    PROVE  OwnerInv'
  BY DEF OwnerInv, Untouched, Callback

LEMMA ExecutorUntouched ==
    ASSUME Executor, wsRunLock \in BOOLEAN
    PROVE  Untouched /\ main' = main
<1>1. CASE RunAgain \/ ThreadReturns \/ RequestThrows
  BY <1>1 DEF RunAgain, ThreadReturns, RequestThrows, owner, wsVars, setVars,
     Untouched
<1>2. CASE Listen \/ ListenEnds
  BY <1>2 DEF Listen, ListenEnds, HttpStep, Accept, AcceptFails, AcceptEnds,
     owner, wsVars, locks, Untouched
<1>3. CASE RunSet
  <2>1. SetStrand /\ UNCHANGED <<owner, wsVars>>
    BY <1>3 DEF RunSet, EmplaceThrows, HttpStep, SetStrand
  <2>2. UNCHANGED <<acceptor, accepting, caller>>
    BY <2>1 DEF SetStrand, EmplaceCheck, EmplaceRefused, InsertFails, Erase,
       RunShutdown, Insert, Leave, locks, listenerVars
  <2> QED
    BY <2>1, <2>2 DEF owner, wsVars, Untouched
<1>4. CASE RunService \/ \E w \in WsAddress : RunWs(w)
  BY <1>4, WsRunLockSame DEF RunService, RunWs, WsStep, owner, setVars,
     Untouched
<1>5. CASE \E s \in Session : HttpEnd(s)
  BY <1>5 DEF HttpEnd, HttpStep, SessionEnds, owner, wsVars, locks,
     listenerVars, Untouched
<1>6. CASE \E s \in Session : Upgrade(s)
  BY <1>6, WsRunLockSame DEF Upgrade, Move, owner, locks, listenerVars,
     Untouched
<1> QED
  BY <1>1, <1>2, <1>3, <1>4, <1>5, <1>6 DEF Executor

LEMMA OwnerInvStep ==
    ServerInv /\ [ServerNext]_serverVars => OwnerInv'
<1> SUFFICES ASSUME ServerInv, [ServerNext]_serverVars
             PROVE  OwnerInv'
  OBVIOUS
<1>0. OwnerInv /\ wsRunLock \in BOOLEAN
  BY WsInvImplies DEF ServerInv, PartsInv, Ws!ServiceTypeOK
<1>1. stopped' \in BOOLEAN
  BY <1>0, Counted DEF OwnerInv, serverVars
<1>2. thrown' \in 0..MaxThrow
  <2>1. thrown' = thrown \/ (thrown < MaxThrow /\ thrown' = thrown + 1)
    BY DEF ServerNext, Executor, User, ShutdownFn, RunAgain, ThreadReturns,
       Listen, ListenEnds, RunSet, EmplaceThrows, RequestThrows, RunService,
       HttpEnd, Upgrade, RunWs, Connect, CallShutdown, ShutdownHttp,
       ShutdownWs, ResetWork, Destruct, Join, HttpStep, WsStep, threads,
       serverVars
  <2> QED
    BY <1>0, <2>1, ServerAssumption DEF OwnerInv
<1>3. CASE UNCHANGED serverVars
  BY <1>0, <1>1, <1>2, <1>3, UntouchedKeeps
  DEF serverVars, wsVars, setVars, Untouched, OwnerInv
<1>4. CASE Executor
  BY <1>0, <1>1, <1>2, <1>4, UntouchedKeeps, ExecutorUntouched DEF OwnerInv
<1>5. CASE Connect
  <2>1. Untouched /\ main' = main
    BY <1>5, WsRunLockSame DEF Connect, Untouched, owner, setVars
  <2> QED
    BY <1>0, <1>1, <1>2, <2>1, UntouchedKeeps DEF OwnerInv
<1>6. CASE Destruct \/ Join
  <2>1. Untouched /\ main' \in {"destructor", "destroyed"}
    BY <1>6 DEF Destruct, Join, Untouched, wsVars, setVars
  <2> QED
    BY <1>0, <1>1, <1>2, <2>1, UntouchedKeeps
<1>7. CASE \E h \in Callback \cup {"user"} : CallShutdown(h)
  <2>1. PICK h \in Callback \cup {"user"} : CallShutdown(h)
    BY <1>7
  <2>2. /\ by' = h /\ h # None
        /\ UNCHANGED <<parts, guard, main, acceptor, accepting, caller,
                       wsRunLock>>
    BY <2>1, Names DEF CallShutdown, wsVars, setVars
  <2> QED
    BY <1>0, <1>1, <1>2, <2>2 DEF OwnerInv, Callback
<1>8. CASE ShutdownHttp
  <2>1. /\ by # None /\ "http" \in parts /\ caller' # "idle"
        /\ UNCHANGED <<parts, guard, by, main, wsRunLock>>
    BY <1>8 DEF ShutdownHttp, InShutdown, owner, wsVars, CloseListener,
       TakeLock, StoreLock, Defer, Terminate, Goto
  <2> QED
    BY <1>0, <1>1, <1>2, <2>1 DEF OwnerInv, Callback
<1>9. CASE ShutdownWs \/ ResetWork
  <2>1. /\ by # None /\ UNCHANGED <<parts, by, main>>
        /\ UNCHANGED <<acceptor, accepting, caller>>
        /\ wsRunLock' => wsRunLock
        /\ guard' = guard \/ (guard' = FALSE /\ ~ wsRunLock)
    BY <1>9 DEF ShutdownWs, ResetWork, InShutdown, owner, wsVars, setVars,
       Ws!Shutdown
  <2>2. CASE guard' = guard
    BY <1>0, <1>1, <1>2, <2>1, <2>2 DEF OwnerInv, Callback
  <2>3. CASE guard' = FALSE /\ ~ wsRunLock
    BY <1>0, <1>1, <1>2, <2>1, <2>3 DEF OwnerInv, Callback
  <2> QED
    BY <2>1, <2>2, <2>3
<1> QED
  BY <1>3, <1>4, <1>5, <1>6, <1>7, <1>8, <1>9
  DEF ServerNext, User, ShutdownFn

-----------------------------------------------------------------------------
(* After the io_context has stopped *)

\* The steps that are still possible then.
LEMMA StoppedSteps ==
    ASSUME ServerInv, ServerNext, stopped
    PROVE  RunAgain \/ ThreadReturns \/ Connect \/ ShutdownFn \/ Destruct
               \/ Join \/ CallShutdown("user")
<1>0. ~ Free /\ ~ inserting /\ wsPhase = "wait"
  BY DEF ServerInv, StopInv, Idle, Free
<1>1. ~ Listen /\ ~ ListenEnds /\ ~ RequestThrows /\ ~ RunService
  BY <1>0 DEF Listen, ListenEnds, RequestThrows, RunService
<1>2. ~ RunSet
  BY <1>0 DEF RunSet, EmplaceThrows, InsertFails
<1>3. \A s \in Session : ~ HttpEnd(s) /\ ~ Upgrade(s)
  BY <1>0 DEF HttpEnd, Upgrade
<1>4. \A w \in WsAddress : ~ RunWs(w)
  BY <1>0 DEF RunWs
<1>5. \A h \in Callback \cup {"user"} : CallShutdown(h) => h = "user"
  BY <1>0 DEF CallShutdown, RunsIn
<1> QED
  BY <1>1, <1>2, <1>3, <1>4, <1>5 DEF ServerNext, Executor, User

\* The steps of these that leave the parts and their handlers as they are.
LEMMA QuietKeeps ==
    ASSUME Idle, OwnerInv,
           UNCHANGED <<parts, guard, by, wsVars, setVars>>
    PROVE  /\ Idle'
           /\ Returned' = Returned /\ OnlyConnects' = OnlyConnects
           /\ queue' = queue
<1>1. UNCHANGED <<parts, guard, by, caller, wsRunLock, inserting, accepting,
                  stage, wsStage, wsStale, wsPhase, queue, wsQueue>>
  BY DEF wsVars, setVars
<1> QED
  BY <1>1 DEF Idle, InCallback, Returned, OnlyConnects, set, Ws!map

LEMMA ConnectKeeps ==
    ASSUME Idle, Ws!ServiceTypeOK, Connect
    PROVE  /\ Idle'
           /\ UNCHANGED <<parts, by, queue>>
           /\ Returned' = Returned
           /\ OnlyConnects => OnlyConnects'
<1>1. /\ UNCHANGED <<parts, guard, by, caller, wsRunLock, inserting,
                     accepting, stage, wsStage, wsStale, wsPhase, queue>>
      /\ wsQueue' = Append(wsQueue, [kind |-> "connect", to |-> None])
  BY DEF Connect, owner, setVars, Ws!Connect, Ws!Dispatch, Ws!locks,
     Ws!sessions
<1>2. Idle' /\ Returned' = Returned
  BY <1>1 DEF Idle, InCallback, Returned, set, Ws!map
<1>3. ASSUME OnlyConnects, NEW i \in 1..Len(wsQueue')
      PROVE  wsQueue'[i].kind = "connect"
  <2>1. wsQueue \in Seq(Ws!Lambda)
    BY DEF Ws!ServiceTypeOK
  <2>2. CASE i \in 1..Len(wsQueue)
    BY <1>1, <1>3, <2>1, <2>2, AppendProperties DEF OnlyConnects, Ws!Lambda
  <2>3. CASE i = Len(wsQueue) + 1
    BY <1>1, <2>1, <2>3 DEF Ws!Lambda, Ws!Act
  <2>4. Len(wsQueue') = Len(wsQueue) + 1 /\ Len(wsQueue) \in Nat
    BY <1>1, <2>1
  <2> QED
    BY <2>2, <2>3, <2>4
<1> QED
  BY <1>1, <1>2, <1>3 DEF OnlyConnects

LEMMA ShutdownFnKeeps ==
    ASSUME Idle, ShutdownFn
    PROVE  Idle' /\ UNCHANGED <<parts, by>> /\ ~ Returned
<1>1. InShutdown /\ UNCHANGED <<parts, by, stage, inserting, accepting>>
  BY DEF ShutdownFn, ShutdownHttp, ShutdownWs, ResetWork, owner, setVars,
     strand, listenerVars, CloseListener, TakeLock, StoreLock, Defer,
     Terminate
<1>2. /\ UNCHANGED <<wsStage, wsStale, wsPhase>>
      /\ guard' => guard
  BY DEF ShutdownFn, ShutdownHttp, ShutdownWs, ResetWork, owner, wsVars,
     Ws!Shutdown, Ws!Dispatch, Ws!sessions
<1>3. ~ InCallback'
  BY <1>1 DEF Idle, InCallback, InShutdown
<1> QED
  BY <1>1, <1>2, <1>3 DEF Idle, InShutdown, set, Ws!map

\* What StopInv says of a stopped io_context.
LEMMA StoppedStep ==
    ASSUME ServerInv, ServerNext, stopped
    PROVE  /\ Idle'
           /\ by' \in Callback \/ "http" \notin parts' =>
                  Returned' /\ queue' = <<>> /\ OnlyConnects'
<1>0. /\ Idle /\ OwnerInv /\ Ws!ServiceTypeOK
      /\ by \in Callback \/ "http" \notin parts =>
             Returned /\ queue = <<>> /\ OnlyConnects
  BY WsInvImplies DEF ServerInv, StopInv, PartsInv
<1>1. CASE RunAgain \/ ThreadReturns \/ Destruct \/ Join
  <2>1. UNCHANGED <<parts, guard, by, wsVars, setVars>>
    BY <1>1 DEF RunAgain, ThreadReturns, Destruct, Join, owner
  <2> QED
    BY <1>0, <2>1, QuietKeeps
<1>2. CASE Connect
  BY <1>0, <1>2, ConnectKeeps
<1>3. CASE ShutdownFn
  BY <1>0, <1>3, ShutdownFnKeeps
<1>4. CASE CallShutdown("user")
  <2>1. /\ by = None /\ by' = "user"
        /\ UNCHANGED <<parts, guard, wsVars, setVars>>
    BY <1>4 DEF CallShutdown
  <2>2. "http" \in parts'
    BY <1>0, <2>1 DEF Idle, OwnerInv
  <2>3. by' \notin Callback
    BY <2>1, Names
  <2>4. UNCHANGED <<inserting, accepting, stage, wsStage, wsStale, wsPhase>>
    BY <2>1 DEF wsVars, setVars
  <2>5. Idle'
    BY <1>0, <2>1, <2>3, <2>4 DEF Idle, InCallback, set, Ws!map
  <2> QED
    BY <2>2, <2>3, <2>5
<1> QED
  BY <1>1, <1>2, <1>3, <1>4, StoppedSteps

LEMMA StopInvStep ==
    ServerInv /\ [ServerNext]_serverVars => StopInv'
<1> SUFFICES ASSUME ServerInv, [ServerNext]_serverVars
             PROVE  StopInv'
  OBVIOUS
<1>0. PartsInv' /\ OwnerInv' /\ StopInv
  BY PartsInvStep, OwnerInvStep DEF ServerInv
<1>1. CASE UNCHANGED serverVars
  <2>1. UNCHANGED <<stopped, main, parts, guard, by, wsVars, setVars>>
    BY <1>1 DEF serverVars
  <2>2. stopped => Idle /\ OwnerInv
    BY DEF ServerInv, StopInv
  <2> QED
    BY <1>0, <2>1, <2>2, QuietKeeps DEF StopInv
<1>2. CASE ServerNext
  <2>1. CASE stopped
    <3>1. main' = "destroyed" => stopped'
      BY <2>1, StopsForEver
    <3> QED
      BY <1>2, <2>1, <3>1, StoppedStep DEF StopInv
  <2>2. CASE ~ stopped /\ stopped'
    <3>1. ~ Work'
      BY <2>2, Counted DEF serverVars
    <3>2. Idle' /\ queue' = <<>> /\ wsQueue' = <<>>
      BY <1>0, <3>1, WorkDoneNext
    <3>3. OnlyConnects'
      BY <3>2 DEF OnlyConnects
    <3>4. by' \in Callback => Returned'
      BY <3>2 DEF Idle, InCallback
    <3>5. "http" \notin parts' => Returned'
      BY <1>0, <3>2 DEF Idle, OwnerInv, Returned
    <3> QED
      BY <2>2, <3>2, <3>3, <3>4, <3>5 DEF StopInv
  <2>3. CASE ~ stopped /\ ~ stopped'
    <3>1. ~ Join
      BY <2>3 DEF Join, ServerInv, ThreadInv
    <3>2. main' = "destroyed" => main = "destroyed"
      BY <1>2, <3>1 DEF ServerNext, Executor, User, ShutdownFn, RunAgain,
         ThreadReturns, Listen, ListenEnds, RunSet, EmplaceThrows,
         RequestThrows, RunService, HttpEnd, Upgrade, RunWs, Connect,
         CallShutdown, ShutdownHttp, ShutdownWs, ResetWork, Destruct,
         HttpStep, WsStep, owner
    <3> QED
      BY <1>0, <2>3, <3>2 DEF StopInv
  <2> QED
    BY <2>1, <2>2, <2>3
<1> QED
  BY <1>1, <1>2

LEMMA ServerInvStep ==
    ServerInv /\ [ServerNext]_serverVars => ServerInv'
  BY PartsInvStep, ThreadInvStep, OwnerInvStep, StopInvStep DEF ServerInv

LEMMA ServerInvAlways == ServerSpec => []ServerInv
  BY ServerInvInit, ServerInvStep, PTL DEF ServerSpec

-----------------------------------------------------------------------------
(* The server and the client as a whole *)

\* The variables keep their types.
THEOREM ServerTyped == ServerSpec => []ServerTypeOK
<1>1. ServerInv => ServerTypeOK
  <2> SUFFICES ASSUME ServerInv
               PROVE  ServerTypeOK
    OBVIOUS
  <2>1. SetTypeOK /\ Ws!ServiceTypeOK
    BY WsInvImplies DEF ServerInv, PartsInv, SetInv
  <2>2. running \in 0..2 /\ catching \in 0..2 /\ running + catching \in 0..2
    BY DEF ServerInv, ThreadInv
  <2> QED
    BY <2>1, <2>2 DEF ServerTypeOK, ServerInv, OwnerInv
<1> QED
  BY <1>1, ServerInvAlways, PTL

\* The io_context stops when no session, no handler and no accept is left and
\* not before: until then it has work, and a thread for it, which is in run()
\* or reports an exception.
THEOREM ServerWorks ==
    ServerSpec => [](IF stopped THEN Idle ELSE Work /\ running + catching > 0)
<1>1. ServerInit => (~ stopped => Work)
  BY DEF ServerInit, SetInit, Work
<1>2. (~ stopped => Work) /\ [ServerNext]_serverVars => (~ stopped => Work)'
  <2> SUFFICES ASSUME ~ stopped => Work, [ServerNext]_serverVars, ~ stopped'
               PROVE  Work'
    OBVIOUS
  <2>1. CASE stopped' = (stopped \/ ~ Work')
    BY <2>1
  <2>2. CASE UNCHANGED serverVars
    BY <2>2 DEF serverVars, setVars, wsVars, Work, InCallback, Returned,
       Ws!SessionBusy
  <2> QED
    BY <2>1, <2>2, Counted
<1>3. ServerInv /\ (~ stopped => Work) =>
          IF stopped THEN Idle ELSE Work /\ running + catching > 0
  BY DEF ServerInv, ThreadInv, StopInv
<1> QED
  BY <1>1, <1>2, <1>3, ServerInvAlways, PTL DEF ServerSpec

\* Before the first call of shutdown() the io_context does not run out of
\* work, however few sessions there are and whatever handlers throw, unless
\* the listener has met an error.
THEOREM ServerStays == ServerSpec => []StaysUntilShutdown
<1>1. ServerInv => StaysUntilShutdown
  BY DEF ServerInv, OwnerInv, StopInv, Idle, StaysUntilShutdown
<1> QED
  BY <1>1, ServerInvAlways, PTL

\* After a shutdown() in a callback, and in a client after any, the parts are
\* destroyed only when nothing is queued that would use them.
THEOREM ServerClean == ServerSpec => []CleanAfterCallback
<1>1. ServerInv => CleanAfterCallback
  <2> SUFFICES ASSUME ServerInv, main = "destroyed",
                      by \in Callback \/ "http" \notin parts
               PROVE  /\ queue = <<>>
                      /\ \A i \in DOMAIN wsQueue :
                             wsQueue[i].kind = "connect"
    BY DEF CleanAfterCallback
  <2>1. queue = <<>> /\ OnlyConnects
    BY DEF ServerInv, StopInv
  <2>2. wsQueue \in Seq(Ws!Lambda)
    BY WsInvImplies DEF ServerInv, PartsInv, Ws!ServiceTypeOK
  <2>3. DOMAIN wsQueue = 1..Len(wsQueue)
    BY <2>2
  <2> QED
    BY <2>1, <2>3 DEF OnlyConnects
<1> QED
  BY <1>1, ServerInvAlways, PTL

\* The sessions are destroyed before the server or the client is, whoever
\* calls shutdown() and whenever.
THEOREM ServerDestroyed == ServerSpec => []SessionsDestroyedFirst
<1>1. ServerInv => SessionsDestroyedFirst
  BY DEF ServerInv, StopInv, Idle, SessionsDestroyedFirst
<1> QED
  BY <1>1, ServerInvAlways, PTL
=============================================================================
