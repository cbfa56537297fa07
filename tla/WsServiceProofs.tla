-------------------------- MODULE WsServiceProofs ---------------------------
(***************************************************************************)
(* Proofs about ws_service_base and ws_handler_interface, for any          *)
(* sessions, threads and bounds.                                           *)
(*                                                                         *)
(* LockInv adds to the types and to LockWhileSessions what they rest on: a *)
(* lambda that is past is_shutdown() finds a lock and shutdown_ not set,   *)
(* and the lambda that runs in the strand of a session is the only one     *)
(* queued there.                                                           *)
(*                                                                         *)
(* The later parts add one invariant each: EndInv for the callback of the  *)
(* service, LeaveInv for the sessions that leave map_, FinishInv for       *)
(* shutdown_finished(), PassedInv for the lambda of on_shutdown(), and     *)
(* CloseInv for what its loop has closed; FinishInv and CloseInv are about *)
(* one thread, where no session goes on beside the loop.                   *)
(***************************************************************************)
EXTENDS WsService, SequenceTheorems, TLAPS

\* A queued lambda of on_shutdown() comes from a shutdown().
Announced == \A i \in 1..Len(queue) : queue[i].kind = "shutdown" => ~ runLock

LockInv ==
    /\ ServiceTypeOK
    /\ LockWhileSessions
    /\ phase = "connect" => (runLock \/ shutdownLock) /\ ~ shutdown
    /\ shutdown => ~ runLock
    /\ Announced
    /\ phase # "wait" => queue # <<>>
    /\ at # None => phase \in {"loop", "checked"}
    /\ phase = "checked" => at # None
    /\ at # None /\ phase = "loop" => Len(calls[at]) = 1
    /\ ~ manyThreads /\ phase = "checked" => SessionBusy(at)

-----------------------------------------------------------------------------
(* What the queues do *)

LEMMA Appended ==
    ASSUME NEW S, NEW q \in Seq(S), NEW e \in S
    PROVE  /\ Append(q, e) \in Seq(S) /\ Append(q, e) # <<>>
           /\ Len(q) \in Nat /\ Len(Append(q, e)) = Len(q) + 1
           /\ \A i \in 1..Len(q) : Append(q, e)[i] = q[i]
           /\ Append(q, e)[Len(q) + 1] = e
<1>1. Len(q) \in Nat
  BY LenProperties
<1>2. /\ Append(q, e) \in Seq(S)
      /\ Append(q, e) # <<>>
      /\ Len(Append(q, e)) = Len(q) + 1
      /\ \A i \in 1..Len(q) : Append(q, e)[i] = q[i]
      /\ Append(q, e)[Len(q) + 1] = e
  BY AppendProperties
<1> QED
  BY <1>1, <1>2

LEMMA SingletonTail ==
    ASSUME NEW S, NEW q \in Seq(S), Len(q) = 1
    PROVE  Tail(q) = <<>>
<1>1. q # <<>>
  BY EmptySeq
<1>2. Tail(q) \in Seq(S) /\ Len(Tail(q)) = 0
  BY <1>1, HeadTailProperties
<1> QED
  BY <1>2, EmptySeq

LEMMA DispatchTyped ==
    ASSUME NEW k \in Act \cup {"connect", "shutdown", "erase"},
           NEW s \in Session \cup {None},
           LockInv, Dispatch(k, s),
           runLock' => runLock /\ k # "shutdown"
    PROVE  queue' \in Seq(Lambda) /\ queue' # <<>> /\ Announced'
<1> DEFINE l == [kind |-> k, to |-> s]
<1>1. l \in Lambda /\ l.kind = k
  BY DEF Lambda
<1>2. queue \in Seq(Lambda) /\ queue' = Append(queue, l)
  BY DEF LockInv, ServiceTypeOK, Dispatch
<1> HIDE DEF l
<1>3. /\ queue' \in Seq(Lambda) /\ queue' # <<>>
      /\ Len(queue') = Len(queue) + 1
      /\ \A i \in 1..Len(queue) : queue'[i] = queue[i]
      /\ queue'[Len(queue) + 1] = l
      /\ Len(queue) \in Nat
  BY <1>1, <1>2, Appended
<1>4. Announced'
  <2> SUFFICES ASSUME NEW i \in 1..Len(queue'), queue'[i].kind = "shutdown",
                      runLock'
               PROVE  FALSE
    BY DEF Announced
  <2>1. CASE i \in 1..Len(queue)
    BY <2>1, <1>3 DEF LockInv, Announced
  <2>2. CASE i = Len(queue) + 1
    BY <2>2, <1>1, <1>3
  <2> QED
    BY <2>1, <2>2, <1>3
<1> QED
  BY <1>3, <1>4

LEMMA LeaveTyped ==
    ASSUME LockInv, queue # <<>>, Leave, runLock' = runLock
    PROVE  /\ queue' \in Seq(Lambda) /\ phase' = "wait" /\ todo' = {}
           /\ at' = None /\ ended' \in Nat
           /\ connects' = connects /\ made' = made
           /\ manyThreads' = manyThreads /\ Announced'
<1>1. queue \in Seq(Lambda) /\ queue' = Tail(queue)
  BY DEF LockInv, ServiceTypeOK, Leave
<1>2. /\ queue' \in Seq(Lambda) /\ Len(queue) \in Nat
      /\ Len(queue') = Len(queue) - 1
      /\ \A i \in 1..Len(queue') : queue'[i] = queue[i + 1]
  BY <1>1, HeadTailProperties, LenProperties
<1>3. Announced'
  <2> SUFFICES ASSUME NEW i \in 1..Len(queue'), queue'[i].kind = "shutdown"
               PROVE  ~ runLock
    BY DEF Announced
  <2>1. i + 1 \in 1..Len(queue) /\ queue[i + 1].kind = "shutdown"
    BY <1>2
  <2> QED
    BY <2>1 DEF LockInv, Announced
<1>4. ended' \in Nat
  BY DEF Leave, LockInv, ServiceTypeOK
<1> QED
  BY <1>2, <1>3, <1>4 DEF Leave, outer

-----------------------------------------------------------------------------
LEMMA LockInvInit == ServiceInit => LockInv
<1> SUFFICES ASSUME ServiceInit
             PROVE  LockInv
  OBVIOUS
<1>1. ServiceTypeOK
  <2>1. <<>> \in Seq(Lambda) /\ <<>> \in Seq(Act)
    OBVIOUS
  <2>2. /\ stage \in [Session -> Stage]
        /\ calls \in [Session -> Seq(Act)]
    BY <2>1 DEF ServiceInit, Stage
  <2>3. connects \in 0..MaxConnect /\ made \in 0..MaxCall /\ ended \in Nat
    BY ServiceAssumption DEF ServiceInit
  <2> QED
    BY <2>1, <2>2, <2>3 DEF ServiceInit, ServiceTypeOK
<1>2. LockWhileSessions
  BY DEF ServiceInit, LockWhileSessions
<1>3. Announced
  BY DEF ServiceInit, Announced
<1> QED
  BY <1>1, <1>2, <1>3 DEF ServiceInit, LockInv

-----------------------------------------------------------------------------
(* LockInv is kept: calls from any thread *)

LEMMA ConnectKeeps == ASSUME LockInv, Connect PROVE LockInv'
<1>1. queue' \in Seq(Lambda) /\ queue' # <<>> /\ Announced'
  BY DispatchTyped DEF Connect, locks, outer
<1>2. connects' \in 0..MaxConnect
  BY ServiceAssumption DEF Connect, LockInv, ServiceTypeOK
<1> QED
  BY <1>1, <1>2 DEF SessionBusy, Connect, Dispatch, locks, outer, sessions, LockInv,
     ServiceTypeOK, LockWhileSessions, map

LEMMA CallAllKeeps ==
    ASSUME NEW act \in Act, LockInv, CallAll(act) PROVE LockInv'
<1>1. queue' \in Seq(Lambda) /\ queue' # <<>> /\ Announced'
  BY DispatchTyped DEF CallAll, Act, locks, outer
<1>2. made' \in 0..MaxCall
  BY ServiceAssumption DEF CallAll, LockInv, ServiceTypeOK
<1> QED
  BY <1>1, <1>2 DEF SessionBusy, CallAll, Dispatch, locks, outer, sessions, LockInv,
     ServiceTypeOK, LockWhileSessions, map

LEMMA CallOneKeeps ==
    ASSUME NEW act \in Act, NEW s \in Session,
           LockInv, CallOne(act, s)
    PROVE  LockInv'
<1>1. queue' \in Seq(Lambda) /\ queue' # <<>> /\ Announced'
  BY DispatchTyped, ServiceAssumption DEF CallOne, Act, locks, outer
<1>2. made' \in 0..MaxCall
  BY ServiceAssumption DEF CallOne, LockInv, ServiceTypeOK
<1> QED
  BY <1>1, <1>2 DEF SessionBusy, CallOne, Dispatch, locks, outer, sessions, LockInv,
     ServiceTypeOK, LockWhileSessions, map

LEMMA ShutdownKeeps == ASSUME LockInv, Shutdown PROVE LockInv'
<1>1. queue' \in Seq(Lambda) /\ queue' # <<>> /\ Announced'
  BY DispatchTyped DEF Shutdown
<1> QED
  BY <1>1 DEF SessionBusy, Shutdown, Dispatch, sessions, LockInv,
     ServiceTypeOK, LockWhileSessions, map

-----------------------------------------------------------------------------
(* LockInv is kept: the strand of the service *)

LEMMA BeginTyped ==
    ASSUME NEW kinds, LockInv, Begin(kinds)
    PROVE  /\ queue # <<>> /\ Head(queue) \in Lambda
           /\ at = None /\ phase = "wait"
  BY HeadTailProperties
  DEF LockInv, ServiceTypeOK, Begin, Running

LEMMA RunsTyped ==
    ASSUME LockInv, phase # "wait"
    PROVE  queue # <<>> /\ Head(queue) \in Lambda
  BY HeadTailProperties DEF LockInv, ServiceTypeOK

\* A lambda that ends and leaves the sessions, or has them changed to others
\* that are typed, keeps LockInv if it keeps the locks with the sessions.
LEMMA LeaveKeeps ==
    ASSUME LockInv, Leave, queue # <<>>,
           runLock' = runLock,
           shutdownLock' \in BOOLEAN, shutdown' \in BOOLEAN,
           shutdown' => ~ runLock,
           stage' \in [Session -> Stage],
           calls' \in [Session -> Seq(Act)],
           stale' \in SUBSET Session,
           LockWhileSessions'
    PROVE  LockInv'
<1>1. /\ queue' \in Seq(Lambda) /\ phase' = "wait" /\ todo' = {}
      /\ at' = None /\ ended' \in Nat
      /\ connects' = connects /\ made' = made /\ Announced'
      /\ manyThreads' = manyThreads
  BY LeaveTyped
<1> QED
  BY <1>1 DEF LockInv, ServiceTypeOK

LEMMA ConnectCheckKeeps == ASSUME LockInv, ConnectCheck PROVE LockInv'
<1>1. queue # <<>> /\ at = None
  BY BeginTyped DEF ConnectCheck
<1> QED
  BY <1>1 DEF ConnectCheck, locks, outer, sessions, LockInv, ServiceTypeOK,
     LockWhileSessions, map, Announced

LEMMA ConnectEndsKeeps ==
    ASSUME LockInv, ConnectRefused \/ ConnectFails \/ EraseNothing
    PROVE  LockInv'
<1>1. queue # <<>> /\ UNCHANGED <<locks, sessions>> /\ Leave
  BY BeginTyped, RunsTyped DEF ConnectRefused, ConnectFails, EraseNothing
<1>2. LockWhileSessions'
  BY <1>1 DEF locks, outer, sessions, LockInv, LockWhileSessions, map
<1> QED
  BY <1>1, <1>2, LeaveKeeps DEF locks, outer, sessions, LockInv, ServiceTypeOK

LEMMA EmplaceKeeps ==
    ASSUME NEW s \in Session, LockInv, Emplace(s) PROVE LockInv'
<1>1. /\ queue # <<>> /\ UNCHANGED <<locks, calls, stale>> /\ Leave
      /\ runLock \/ shutdownLock
  BY RunsTyped DEF Emplace, LockInv
<1>2. stage' \in [Session -> Stage]
  BY ServiceAssumption DEF Emplace, LockInv, ServiceTypeOK, Stage
<1>3. LockWhileSessions'
  BY <1>1 DEF locks, outer, LockWhileSessions
<1> QED
  BY <1>1, <1>2, <1>3, LeaveKeeps DEF locks, outer, LockInv, ServiceTypeOK

\* The lock that is given away with the last session.
LEMMA EraseFromTyped ==
    ASSUME NEW s, LockInv, EraseFrom(s), runLock' = runLock
    PROVE  /\ stage' \in [Session -> Stage]
           /\ shutdownLock' \in BOOLEAN
           /\ LockWhileSessions'
<1>1. stage' \in [Session -> Stage]
  BY DEF EraseFrom, LockInv, ServiceTypeOK, Stage
<1>2. map' \subseteq map
  BY <1>1 DEF EraseFrom, LockInv, ServiceTypeOK, map
<1> DEFINE last == shutdown /\ map' = {}
<1>3. shutdownLock' = IF last THEN FALSE ELSE shutdownLock
  BY DEF EraseFrom
<1>4. shutdownLock' \in BOOLEAN
  <2>1. shutdownLock \in BOOLEAN
    BY DEF LockInv, ServiceTypeOK
  <2> HIDE DEF last
  <2>2. CASE last
    BY <1>3, <2>2, Zenon
  <2>3. CASE ~ last
    BY <1>3, <2>1, <2>3, Zenon
  <2> QED
    BY <2>2, <2>3
<1>5. LockWhileSessions'
  <2>1. CASE map' = {}
    BY <2>1 DEF LockWhileSessions
  <2>2. CASE map' # {}
    <3>1. shutdownLock' = shutdownLock
      BY <1>3, <2>2, Zenon
    <3> HIDE DEF last
    <3> QED
      BY <1>2, <2>2, <3>1 DEF LockInv, LockWhileSessions
  <2> QED
    BY <2>1, <2>2
<1> QED
  BY <1>1, <1>4, <1>5

LEMMA OutlivedTyped ==
    ASSUME NEW s \in Session, LockInv, Outlived(s)
    PROVE  calls' \in [Session -> Seq(Act)] /\ stale' \in SUBSET Session
<1>1. <<>> \in Seq(Act)
  OBVIOUS
<1> QED
  BY <1>1 DEF Outlived, LockInv, ServiceTypeOK

LEMMA RunEraseKeeps == ASSUME LockInv, RunErase PROVE LockInv'
<1> DEFINE s == Head(queue).to
<1>1. /\ queue # <<>> /\ UNCHANGED <<runLock, shutdown>>
      /\ Leave /\ EraseFrom(s) /\ Outlived(s) /\ s \in Session
  BY BeginTyped DEF RunErase, map
<1>2. /\ stage' \in [Session -> Stage] /\ shutdownLock' \in BOOLEAN
      /\ LockWhileSessions'
  BY <1>1, EraseFromTyped
<1>3. calls' \in [Session -> Seq(Act)] /\ stale' \in SUBSET Session
  BY <1>1, OutlivedTyped
<1> QED
  BY <1>1, <1>2, <1>3, LeaveKeeps DEF LockInv, ServiceTypeOK

LEMMA ShutdownRuns ==
    ASSUME LockInv, queue # <<>>, Head(queue).kind = "shutdown"
    PROVE  ~ runLock
<1>1. /\ Len(queue) \in Nat /\ Len(queue) # 0
      /\ Head(queue) = queue[1]
  BY EmptySeq, LenProperties DEF LockInv, ServiceTypeOK
<1> QED
  BY <1>1 DEF LockInv, Announced

LEMMA ShutdownEmptyKeeps == ASSUME LockInv, ShutdownEmpty PROVE LockInv'
<1>1. /\ queue # <<>> /\ UNCHANGED <<runLock, sessions>> /\ Leave
      /\ map = {} /\ shutdownLock' = FALSE /\ shutdown' = TRUE
  BY BeginTyped DEF ShutdownEmpty
<1>2. LockWhileSessions'
  BY <1>1 DEF sessions, LockWhileSessions, map
<1>3. ~ runLock
  BY <1>1, ShutdownRuns DEF ShutdownEmpty, Begin, Running
<1> QED
  BY <1>1, <1>2, <1>3, LeaveKeeps DEF sessions, LockInv, ServiceTypeOK

LEMMA LoopBeginKeeps == ASSUME LockInv, LoopBegin PROVE LockInv'
<1>1. queue # <<>> /\ Head(queue) \in Lambda /\ at = None
  BY BeginTyped DEF LoopBegin
<1>2. todo' \in SUBSET Session
  BY DEF LoopBegin, map
<1> QED
  BY <1>1, <1>2 DEF LoopBegin, locks, outer, sessions, LockInv, ServiceTypeOK,
     LockWhileSessions, map, Announced

LEMMA VisitNotKeeps ==
    ASSUME NEW s \in Session, LockInv, VisitNot(s) PROVE LockInv'
  BY DEF VisitNot, locks, outer, sessions, LockInv, ServiceTypeOK,
     LockWhileSessions, map, Announced

LEMMA VisitCheckKeeps ==
    ASSUME NEW s \in Session, LockInv, VisitCheck(s) PROVE LockInv'
<1>1. queue # <<>> /\ s # None
  BY RunsTyped, ServiceAssumption DEF VisitCheck
<1> QED
  BY <1>1 DEF SessionBusy, VisitCheck, locks, outer, sessions, LockInv, ServiceTypeOK,
     LockWhileSessions, map, Announced

LEMMA VisitQueueTyped ==
    ASSUME LockInv, VisitQueue
    PROVE  /\ at \in Session /\ queue # <<>>
           /\ \E c \in Act : calls' = [calls EXCEPT ![at] = Append(calls[at], c)]
           /\ calls' \in [Session -> Seq(Act)]
           /\ calls'[at] # <<>>
           /\ at' # None => at' = at /\ calls[at] = <<>> /\ Len(calls'[at]) = 1
<1> DEFINE c == IF Running({"send"}) THEN "send" ELSE "close"
<1>1. at \in Session /\ queue # <<>>
  BY RunsTyped DEF VisitQueue, LockInv, ServiceTypeOK
<1>2. c \in Act /\ calls' = [calls EXCEPT ![at] = Append(calls[at], c)]
  BY DEF VisitQueue, Act
<1> HIDE DEF c
<1>3. calls[at] \in Seq(Act) /\ calls \in [Session -> Seq(Act)]
  BY <1>1 DEF LockInv, ServiceTypeOK
<1>4. /\ Append(calls[at], c) \in Seq(Act) /\ Append(calls[at], c) # <<>>
      /\ Len(Append(calls[at], c)) = Len(calls[at]) + 1
  BY <1>2, <1>3, Appended
<1>5. calls' \in [Session -> Seq(Act)] /\ calls'[at] = Append(calls[at], c)
  BY <1>1, <1>2, <1>3, <1>4
<1>6. at' # None => at' = at /\ calls[at] = <<>>
  BY DEF VisitQueue
<1>7. calls[at] = <<>> => Len(calls'[at]) = 1
  BY <1>4, <1>5, EmptySeq
<1> QED
  BY <1>1, <1>2, <1>4, <1>5, <1>6, <1>7

LEMMA VisitQueueKeeps == ASSUME LockInv, VisitQueue PROVE LockInv'
<1>1. /\ queue # <<>> /\ calls' \in [Session -> Seq(Act)]
      /\ at' # None => at' = at /\ Len(calls'[at]) = 1
  BY VisitQueueTyped
<1>2. at' \in Session \cup {None} /\ phase' = "loop"
  BY <1>1 DEF VisitQueue, LockInv, ServiceTypeOK
<1>3. UNCHANGED <<locks, queue, todo, stage, stale, outer, ended>>
  BY DEF VisitQueue
<1> QED
  BY <1>1, <1>2, <1>3 DEF locks, outer, LockInv, ServiceTypeOK,
     LockWhileSessions, map, Announced

\* The queue of the session whose lambda ends.
LEMMA TailTyped ==
    ASSUME NEW s \in Session, LockInv, calls[s] # <<>>,
           calls' = [calls EXCEPT ![s] = Tail(@)]
    PROVE  /\ calls' \in [Session -> Seq(Act)]
           /\ Head(calls[s]) \in Act
<1>1. calls[s] \in Seq(Act)
  BY DEF LockInv, ServiceTypeOK
<1>2. Head(calls[s]) \in Act /\ Tail(calls[s]) \in Seq(Act)
  BY <1>1, HeadTailProperties
<1> QED
  BY <1>2 DEF LockInv, ServiceTypeOK

LEMMA AtTyped ==
    ASSUME LockInv, at # None, phase = "loop"
    PROVE  at \in Session /\ calls[at] # <<>>
<1>1. at \in Session /\ calls[at] \in Seq(Act) /\ Len(calls[at]) = 1
  BY DEF LockInv, ServiceTypeOK
<1>2. Len(<<>>) # 1
  OBVIOUS
<1> QED
  BY <1>1, <1>2, Zenon

LEMMA AfterTyped ==
    ASSUME NEW c, NEW x \in Stage
    PROVE  After(c, x) \in Stage /\ (After(c, x) = "none" <=> x = "none")
  BY DEF After, Stage

LEMMA VisitEndKeeps == ASSUME LockInv, VisitEnd PROVE LockInv'
<1>1. at \in Session /\ calls[at] # <<>> /\ phase = "loop" /\ at' = None
  BY AtTyped DEF VisitEnd
<1>2. calls' \in [Session -> Seq(Act)]
  BY <1>1, TailTyped DEF VisitEnd
<1> DEFINE x == After(Head(calls[at]), stage[at])
<1>3. stage' = [stage EXCEPT ![at] = x]
  BY DEF VisitEnd
<1>4. stage[at] \in Stage /\ stage \in [Session -> Stage]
  BY <1>1 DEF LockInv, ServiceTypeOK
<1>5. x \in Stage /\ (x = "none" <=> stage[at] = "none")
  BY <1>4, AfterTyped
<1> HIDE DEF x
<1>7. stage' \in [Session -> Stage] /\ map' = map
  BY <1>1, <1>3, <1>4, <1>5 DEF map
<1>6. LockWhileSessions'
  BY <1>7 DEF VisitEnd, locks, outer, LockInv, LockWhileSessions
<1> QED
  BY <1>1, <1>2, <1>6, <1>7
  DEF VisitEnd, locks, outer, LockInv, ServiceTypeOK, Announced

LEMMA VisitErasesKeeps == ASSUME LockInv, VisitErases PROVE LockInv'
<1>1. at \in Session /\ calls[at] # <<>> /\ phase = "loop" /\ at' = None
  BY AtTyped DEF VisitErases
<1>2. calls' \in [Session -> Seq(Act)]
  BY <1>1, TailTyped DEF VisitErases
<1>3. /\ stage' \in [Session -> Stage] /\ shutdownLock' \in BOOLEAN
      /\ LockWhileSessions'
  BY EraseFromTyped DEF VisitErases
<1>4. todo' \in SUBSET map'
  BY DEF VisitErases
<1> QED
  BY <1>1, <1>2, <1>3, <1>4
  DEF VisitErases, outer, LockInv, ServiceTypeOK, Announced

LEMMA LoopEndKeeps == ASSUME LockInv, LoopEnd PROVE LockInv'
<1>1. /\ queue # <<>> /\ Leave
      /\ UNCHANGED <<runLock, shutdownLock, sessions>>
  BY RunsTyped DEF LoopEnd
<1>2. LockWhileSessions'
  BY <1>1 DEF sessions, LockInv, LockWhileSessions, map
<1>3. shutdown' \in BOOLEAN /\ (shutdown' => ~ runLock)
  <2>1. CASE Running({"shutdown"})
    BY <2>1, <1>1, ShutdownRuns DEF LoopEnd, Running
  <2>2. CASE ~ Running({"shutdown"})
    BY <2>2 DEF LoopEnd, LockInv, ServiceTypeOK
  <2> QED
    BY <2>1, <2>2
<1> QED
  BY <1>1, <1>2, <1>3, LeaveKeeps DEF sessions, LockInv, ServiceTypeOK

-----------------------------------------------------------------------------
(* LockInv is kept: the sessions *)

LEMMA EraseQueuedTyped ==
    ASSUME LockInv, NEW l \in Lambda, l.kind = "erase",
           queue' = Append(queue, l), runLock' = runLock
    PROVE  queue' \in Seq(Lambda) /\ queue' # <<>> /\ Announced'
<1>1. /\ queue' \in Seq(Lambda) /\ queue' # <<>>
      /\ Len(queue) \in Nat /\ Len(queue') = Len(queue) + 1
      /\ \A i \in 1..Len(queue) : queue'[i] = queue[i]
      /\ queue'[Len(queue) + 1] = l
  BY Appended DEF LockInv, ServiceTypeOK
<1>2. ASSUME NEW i \in 1..Len(queue'), queue'[i].kind = "shutdown"
      PROVE  ~ runLock
  <2>1. CASE i \in 1..Len(queue)
    BY <2>1, <1>1, <1>2 DEF LockInv, Announced
  <2>2. CASE i = Len(queue) + 1
    BY <2>2, <1>1, <1>2
  <2> QED
    BY <2>1, <2>2, <1>1
<1> QED
  BY <1>1, <1>2 DEF Announced

LEMMA SessionStepKeeps ==
    ASSUME NEW s \in Session, LockInv, SessionStep(s),
           stage' \in [Session -> Stage], calls' \in [Session -> Seq(Act)],
           map' = map,
           at # None /\ phase = "loop" => calls'[at] = calls[at]
    PROVE  LockInv'
<1>1. queue' \in Seq(Lambda) /\ Announced' /\ (queue # <<>> => queue' # <<>>)
  <2>1. CASE queue' = queue
    BY <2>1 DEF SessionStep, locks, outer, LockInv, ServiceTypeOK, Announced
  <2>2. CASE queue' # queue
    <3> DEFINE l == [kind |-> "erase", to |-> s]
    <3>1. queue' = Append(queue, l) /\ runLock' = runLock
      BY <2>2 DEF SessionStep, locks
    <3>2. l \in Lambda /\ l.kind = "erase"
      BY DEF Lambda
    <3> HIDE DEF l
    <3> QED
      BY <3>1, <3>2, EraseQueuedTyped
  <2> QED
    BY <2>1, <2>2
<1> QED
  BY <1>1
  DEF SessionStep, Beside, locks, outer, LockInv, ServiceTypeOK, LockWhileSessions

LEMMA RunStaleQueues ==
    ASSUME NEW s \in Session, RunStale(s)
    PROVE  /\ \/ queue' = queue
              \/ \E l \in Lambda : l.kind = "erase" /\ queue' = Append(queue, l)
           /\ UNCHANGED <<runLock, shutdownLock, shutdown, phase, todo, at>>
           /\ UNCHANGED <<stage, calls, manyThreads, connects, made, ended>>
<1>1. [kind |-> "erase", to |-> s] \in Lambda
  BY DEF Lambda
<1> QED
  BY <1>1 DEF RunStale, locks, outer

LEMMA RunStaleKeeps ==
    ASSUME NEW s \in Session, LockInv, RunStale(s) PROVE LockInv'
<1>1. /\ UNCHANGED <<runLock, shutdownLock, shutdown, phase, todo, at>>
      /\ UNCHANGED <<stage, calls, manyThreads, connects, made, ended>>
      /\ map' = map /\ stale' \in SUBSET Session
  BY RunStaleQueues DEF map, RunStale, LockInv, ServiceTypeOK
<1>2. queue' \in Seq(Lambda) /\ Announced' /\ (queue # <<>> => queue' # <<>>)
  <2>1. CASE queue' = queue
    BY <1>1, <2>1 DEF LockInv, ServiceTypeOK, Announced
  <2>2. CASE queue' # queue
    <3>1. PICK l \in Lambda : l.kind = "erase" /\ queue' = Append(queue, l)
      BY <2>2, RunStaleQueues
    <3> QED
      BY <1>1, <3>1, EraseQueuedTyped
  <2> QED
    BY <2>1, <2>2
<1> QED
  BY <1>1, <1>2 DEF SessionBusy, LockInv, ServiceTypeOK, LockWhileSessions

LEMMA BecomeTyped ==
    ASSUME NEW s \in Session, NEW x \in Stage, LockInv, Become(s, x),
           stage[s] # "none", x # "none"
    PROVE  stage' \in [Session -> Stage] /\ map' = map
  BY DEF Become, LockInv, ServiceTypeOK, map

LEMMA SessionEndsKeeps ==
    ASSUME NEW s \in Session, LockInv,
           Accepted(s) \/ Closes(s) \/ SessionEnds(s) \/ Drained(s)
    PROVE  LockInv'
<1>1. PICK x \in {"open", "closing", "draining", "done"} : Become(s, x)
  BY DEF Accepted, Closes, SessionEnds, Drained
<1>2. stage[s] # "none" /\ calls' = calls /\ SessionStep(s)
  BY DEF Accepted, Closes, SessionEnds, Drained
<1>3. stage' \in [Session -> Stage] /\ map' = map
  BY <1>1, <1>2, BecomeTyped DEF Stage
<1> QED
  BY <1>2, <1>3, SessionStepKeeps DEF LockInv, ServiceTypeOK

LEMMA RunCallKeeps ==
    ASSUME NEW s \in Session, LockInv, RunCall(s) PROVE LockInv'
<1> DEFINE x == After(Head(calls[s]), stage[s])
<1>1. /\ calls[s] # <<>> /\ ~ InLoop(s) /\ SessionStep(s)
      /\ calls' = [calls EXCEPT ![s] = Tail(@)]
      /\ stage' = [stage EXCEPT ![s] = x]
  BY DEF RunCall, Become
<1>2. stage[s] \in Stage /\ stage \in [Session -> Stage]
  BY DEF LockInv, ServiceTypeOK
<1>3. x \in Stage /\ (x = "none" <=> stage[s] = "none")
  BY <1>2, AfterTyped
<1> HIDE DEF x
<1>4. stage' \in [Session -> Stage] /\ map' = map
  BY <1>1, <1>2, <1>3 DEF map
<1>5. calls' \in [Session -> Seq(Act)]
  BY <1>1, TailTyped
<1>6. at # None /\ phase = "loop" => calls'[at] = calls[at]
  BY <1>1 DEF InLoop, LockInv, ServiceTypeOK
<1> QED
  BY <1>1, <1>4, <1>5, <1>6, SessionStepKeeps

-----------------------------------------------------------------------------
(* The theorems *)

LEMMA LockInvStep == LockInv /\ [ServiceNext]_serviceVars => LockInv'
<1> SUFFICES ASSUME LockInv, [ServiceNext]_serviceVars
             PROVE  LockInv'
  OBVIOUS
<1>1. CASE UNCHANGED serviceVars
  BY <1>1 DEF SessionBusy, serviceVars, LockInv, ServiceTypeOK, LockWhileSessions, map,
     Announced
<1>2. CASE Connect \/ Shutdown
  BY <1>2, ConnectKeeps, ShutdownKeeps
<1>3. CASE \E act \in Act : CallAll(act)
  BY <1>3, CallAllKeeps
<1>4. CASE \E act \in Act, s \in Session : CallOne(act, s)
  BY <1>4, CallOneKeeps
<1>5. CASE StrandStep
  BY <1>5, ConnectCheckKeeps, ConnectEndsKeeps, RunEraseKeeps,
     ShutdownEmptyKeeps, LoopBeginKeeps, VisitEndKeeps, VisitErasesKeeps,
     LoopEndKeeps, EmplaceKeeps, VisitNotKeeps, VisitCheckKeeps,
     VisitQueueKeeps
  DEF StrandStep
<1>6. CASE \E s \in Session : SessionNext(s) \/ RunStale(s)
  BY <1>6, SessionEndsKeeps, RunCallKeeps, RunStaleKeeps DEF SessionNext
<1> QED
  BY <1>1, <1>2, <1>3, <1>4, <1>5, <1>6 DEF ServiceNext

LEMMA LockInvAlways == ServiceSpec => []LockInv
  BY LockInvInit, LockInvStep, PTL DEF ServiceSpec

\* The state of a service keeps its types.
THEOREM ServiceTyped == ServiceSpec => []ServiceTypeOK
  BY LockInvAlways, PTL DEF LockInv

\* A service with sessions has run_lock_ or shutdown_lock_: the make_lock()
\* of on_erase() does not throw for a session that is in map_.
THEOREM ServiceLocked == ServiceSpec => []LockWhileSessions
  BY LockInvAlways, PTL DEF LockInv

LEMMA NoEmplaceStep ==
    LockInv /\ [ServiceNext]_serviceVars
        => [shutdown => map' \subseteq map]_serviceVars
<1> SUFFICES ASSUME LockInv, ServiceNext, shutdown
             PROVE  map' \subseteq map
  OBVIOUS
<1>1. CASE \E s \in Session : Emplace(s)
  BY <1>1 DEF Emplace, LockInv
<1>2. CASE stage' = stage
  BY <1>2 DEF map
<1>3. ASSUME NEW s \in Session, NEW x,
             stage' = [stage EXCEPT ![s] = x],
             stage[s] = "none" => x = "none"
      PROVE  map' \subseteq map
  BY <1>3 DEF LockInv, ServiceTypeOK, map
<1>4. CASE RunErase
  BY <1>4 DEF RunErase, EraseFrom, LockInv, ServiceTypeOK, map
<1>9. CASE \E s \in Session : RunStale(s)
  BY <1>9, <1>2 DEF RunStale
<1>5. CASE VisitEnd \/ VisitErases
  BY <1>5, <1>3, AtTyped, AfterTyped
  DEF VisitEnd, VisitErases, EraseFrom, LockInv, ServiceTypeOK
<1>6. CASE \E s \in Session : SessionNext(s)
  <2>1. PICK s \in Session : SessionNext(s)
    BY <1>6
  <2>2. CASE RunCall(s)
    BY <2>2, <1>3, AfterTyped DEF RunCall, Become, LockInv, ServiceTypeOK
  <2>3. CASE Accepted(s) \/ Closes(s) \/ SessionEnds(s) \/ Drained(s)
    BY <2>3, <1>3 DEF Accepted, Closes, SessionEnds, Drained, Become
  <2> QED
    BY <2>1, <2>2, <2>3 DEF SessionNext
<1>7. CASE \/ Connect \/ Shutdown \/ \E act \in Act : CallAll(act)
           \/ \E act \in Act, s \in Session : CallOne(act, s)
  BY <1>7, <1>2 DEF Connect, Shutdown, CallAll, CallOne, Dispatch, sessions
<1>8. CASE \/ ConnectCheck \/ ConnectRefused \/ ConnectFails
           \/ EraseNothing \/ ShutdownEmpty \/ LoopBegin \/ LoopEnd
           \/ VisitQueue \/ \E s \in Session : VisitNot(s) \/ VisitCheck(s)
  BY <1>8, <1>2 DEF ConnectCheck, ConnectRefused, ConnectFails, EraseNothing,
     ShutdownEmpty, LoopBegin, LoopEnd, VisitNot, VisitCheck, VisitQueue,
     sessions
<1> QED
  BY <1>1, <1>4, <1>5, <1>6, <1>7, <1>8, <1>9 DEF ServiceNext, StrandStep

\* After the lambda of on_shutdown() no session is emplaced, because
\* shutdown_ and the two steps of a connect are in one strand, and run_lock_
\* is given away before.
THEOREM ServiceNoLateSession == ServiceSpec => NoSessionAfterShutdown
  BY LockInvAlways, NoEmplaceStep, PTL DEF ServiceSpec, NoSessionAfterShutdown

-----------------------------------------------------------------------------
(* The end of the service.  With one thread a lambda of on_erase() is      *)
(* queued for a session that has ended, and for each such session once: so *)
(* the erasure finds no call that is still queued at the session.          *)

Ended == {s \in Session : stage[s] = "done" /\ calls[s] = <<>>}

EraseInv ==
    /\ \A i \in 1..Len(queue) :
           queue[i].kind = "erase" => queue[i].to \in Ended
    /\ \A i, j \in 1..Len(queue) :
           /\ queue[i].kind = "erase" /\ queue[j].kind = "erase"
           /\ queue[i].to = queue[j].to
           => i = j

OneErase == ~ manyThreads => EraseInv /\ stale = {}

FreeHaveNoCalls == \A s \in Session : stage[s] = "none" => calls[s] = <<>>

VisitedLives == at # None => stage[at] # "none"

EndedOnce == ended = IF Busy THEN 0 ELSE 1

EndInv == LockInv /\ OneErase /\ FreeHaveNoCalls /\ VisitedLives /\ EndedOnce

LEMMA EndInvInit == ServiceInit => EndInv
<1> SUFFICES ASSUME ServiceInit
             PROVE  EndInv
  OBVIOUS
<1>1. OneErase
  BY DEF ServiceInit, OneErase, EraseInv
<1>2. FreeHaveNoCalls /\ VisitedLives
  BY DEF ServiceInit, FreeHaveNoCalls, VisitedLives
<1>3. EndedOnce
  BY DEF ServiceInit, EndedOnce, Busy
<1> QED
  BY <1>1, <1>2, <1>3, LockInvInit DEF EndInv

LEMMA EraseInvSame ==
    ASSUME EraseInv, queue' = queue,
           Ended \subseteq Ended'
    PROVE  EraseInv'
  BY DEF EraseInv

LEMMA EraseInvAppend ==
    ASSUME EraseInv, queue \in Seq(Lambda), NEW l \in Lambda,
           queue' = Append(queue, l),
           l.kind = "erase" => l.to \in Ended' /\ l.to \notin Ended,
           Ended \subseteq Ended'
    PROVE  EraseInv'
<1>1. /\ Len(queue) \in Nat /\ Len(queue') = Len(queue) + 1
      /\ \A i \in 1..Len(queue) : queue'[i] = queue[i]
      /\ queue'[Len(queue) + 1] = l
  BY Appended
<1>2. ASSUME NEW i \in 1..Len(queue'), queue'[i].kind = "erase"
      PROVE  /\ queue'[i].to \in Ended'
             /\ i = Len(queue) + 1 <=> queue'[i].to \notin Ended
  <2>1. CASE i \in 1..Len(queue)
    <3>1. queue[i].to \in Ended /\ queue'[i] = queue[i]
      BY <2>1, <1>1, <1>2 DEF EraseInv
    <3>2. i # Len(queue) + 1
      BY <2>1, <1>1
    <3> QED
      BY <3>1, <3>2
  <2>2. CASE i = Len(queue) + 1
    BY <2>2, <1>1, <1>2
  <2> QED
    BY <2>1, <2>2, <1>1
<1>3. ASSUME NEW i \in 1..Len(queue'), NEW j \in 1..Len(queue'),
             queue'[i].kind = "erase", queue'[j].kind = "erase",
             queue'[i].to = queue'[j].to
      PROVE  i = j
  <2>1. i = Len(queue) + 1 <=> j = Len(queue) + 1
    BY <1>2, <1>3
  <2>2. CASE i \in 1..Len(queue) /\ j \in 1..Len(queue)
    BY <2>2, <1>1, <1>3 DEF EraseInv
  <2> QED
    BY <2>1, <2>2, <1>1
<1> QED
  BY <1>2, <1>3 DEF EraseInv

LEMMA EraseInvTail ==
    ASSUME EraseInv, queue \in Seq(Lambda), queue # <<>>,
           queue' = Tail(queue),
           \A s \in Ended :
               \/ s \in Ended'
               \/ Head(queue).kind = "erase" /\ s = Head(queue).to
    PROVE  EraseInv'
<1>1. /\ Len(queue) \in Nat /\ Len(queue) # 0
      /\ Len(queue') = Len(queue) - 1 /\ Head(queue) = queue[1]
      /\ \A i \in 1..Len(queue') : queue'[i] = queue[i + 1]
  BY HeadTailProperties, LenProperties, EmptySeq
<1>2. ASSUME NEW i \in 1..Len(queue'), queue'[i].kind = "erase"
      PROVE  queue'[i].to \in Ended'
  <2>1. /\ i + 1 \in 1..Len(queue) /\ 1 \in 1..Len(queue) /\ i + 1 # 1
        /\ queue'[i] = queue[i + 1]
    BY <1>1
  <2>2. queue[i + 1].to \in Ended
    BY <2>1, <1>2 DEF EraseInv
  <2>3. queue[1].kind = "erase" => queue[i + 1].to # queue[1].to
    BY <2>1, <1>2 DEF EraseInv
  <2>4. \/ queue[i + 1].to \in Ended'
        \/ queue[1].kind = "erase" /\ queue[i + 1].to = queue[1].to
    BY <1>1, <2>2
  <2> QED
    BY <2>1, <2>2, <2>3, <2>4
<1>3. ASSUME NEW i \in 1..Len(queue'), NEW j \in 1..Len(queue'),
             queue'[i].kind = "erase", queue'[j].kind = "erase",
             queue'[i].to = queue'[j].to
      PROVE  i = j
  <2>1. i + 1 \in 1..Len(queue) /\ j + 1 \in 1..Len(queue)
    BY <1>1
  <2>2. i + 1 = j + 1
    BY <2>1, <1>1, <1>3 DEF EraseInv
  <2> QED
    BY <2>2, <1>1
<1> QED
  BY <1>2, <1>3 DEF EraseInv

\* A step that only queues a lambda, or changes neither the queue nor the
\* sessions.
LEMMA DispatchEnds ==
    ASSUME NEW k \in Act \cup {"connect", "shutdown"},
           NEW s \in Session \cup {None},
           EndInv, Dispatch(k, s)
    PROVE  OneErase' /\ FreeHaveNoCalls' /\ VisitedLives' /\ EndedOnce'
<1> DEFINE l == [kind |-> k, to |-> s]
<1>1. l \in Lambda /\ l.kind # "erase"
  BY DEF Lambda, Act
<1>2. /\ queue \in Seq(Lambda) /\ queue' = Append(queue, l)
      /\ stage' = stage /\ calls' = calls /\ ended' = ended /\ Busy
      /\ stale' = stale /\ at' = at /\ manyThreads' = manyThreads
  BY DEF EndInv, LockInv, ServiceTypeOK, Dispatch, sessions
<1> HIDE DEF l
<1>3. Ended' = Ended
  BY <1>2 DEF Ended
<1>4. OneErase'
  BY <1>1, <1>2, <1>3, EraseInvAppend DEF EndInv, OneErase
<1>5. queue' # <<>>
  BY <1>1, <1>2, Appended
<1> QED
  BY <1>2, <1>4, <1>5
  DEF EndInv, FreeHaveNoCalls, VisitedLives, EndedOnce, Busy

LEMMA LeaveEnds ==
    ASSUME EndInv, Leave, queue # <<>>,
           ~ manyThreads =>
               /\ stale' = {}
               /\ \A s \in Ended :
                      \/ s \in Ended'
                      \/ Head(queue).kind = "erase" /\ s = Head(queue).to
    PROVE  OneErase' /\ VisitedLives' /\ EndedOnce'
<1>1. /\ queue \in Seq(Lambda) /\ queue' = Tail(queue) /\ at' = None
      /\ manyThreads' = manyThreads
  BY DEF EndInv, LockInv, ServiceTypeOK, Leave, outer
<1>2. OneErase'
  BY <1>1, EraseInvTail DEF EndInv, OneErase
<1>3. ended = 0
  BY DEF EndInv, EndedOnce, Busy
<1>4. EndedOnce'
  BY <1>3 DEF Leave, EndedOnce
<1> QED
  BY <1>1, <1>2, <1>4 DEF VisitedLives

LEMMA LoopEnds ==
    ASSUME EndInv, queue # <<>>, queue' = queue, ended' = ended,
           stale' = stale, manyThreads' = manyThreads,
           ~ manyThreads => Ended \subseteq Ended'
    PROVE  OneErase' /\ EndedOnce'
  BY EraseInvSame DEF EndInv, OneErase, EndedOnce, Busy

LEMMA SessionStepEnds ==
    ASSUME NEW s \in Session, EndInv, SessionStep(s),
           stage[s] # "none", stage'[s] # "none", s \notin Ended,
           Ended \subseteq Ended'
    PROVE  OneErase' /\ EndedOnce'
<1>1. /\ Busy /\ Busy' /\ ended' = ended /\ stale' = stale
      /\ manyThreads' = manyThreads
  <2>1. runLock \/ shutdownLock
    BY DEF EndInv, LockInv, LockWhileSessions, map
  <2> QED
    BY <2>1 DEF SessionStep, locks, outer, Busy
<1>2. OneErase'
  <2>1. CASE queue' = queue
    BY <1>1, <2>1, EraseInvSame DEF EndInv, OneErase
  <2>2. CASE queue' # queue
    <3> DEFINE l == [kind |-> "erase", to |-> s]
    <3>1. queue' = Append(queue, l) /\ queue \in Seq(Lambda)
      BY <2>2 DEF SessionStep, EndInv, LockInv, ServiceTypeOK
    <3>2. l \in Lambda /\ l.to = s
      BY DEF Lambda
    <3>3. s \in Ended'
      BY <2>2 DEF SessionStep, SessionBusy, Ended
    <3> HIDE DEF l
    <3> QED
      BY <1>1, <3>1, <3>2, <3>3, EraseInvAppend DEF EndInv, OneErase
  <2> QED
    BY <2>1, <2>2
<1> QED
  BY <1>1, <1>2 DEF EndInv, EndedOnce

LEMMA EmplaceEnds == ASSUME NEW s \in Session, EndInv, Emplace(s) PROVE EndInv'
<1>1. /\ LockInv /\ queue # <<>> /\ Leave /\ calls' = calls
      /\ stale' = stale
  BY RunsTyped DEF EndInv, Emplace
<1>2. PICK x \in Stage1 : stage' = [stage EXCEPT ![s] = x]
  BY DEF Emplace
<1>3. /\ stage[s] = "none" /\ x # "none" /\ stage \in [Session -> Stage]
  BY <1>1, <1>2, ServiceAssumption DEF Emplace, LockInv, ServiceTypeOK
<1>4. Ended \subseteq Ended'
  BY <1>1, <1>2, <1>3 DEF Ended
<1>5. FreeHaveNoCalls'
  BY <1>1, <1>2, <1>3 DEF EndInv, FreeHaveNoCalls
<1>6. OneErase' /\ VisitedLives' /\ EndedOnce'
  BY <1>1, <1>4, LeaveEnds DEF EndInv, OneErase
<1>7. LockInv'
  BY EmplaceKeeps DEF EndInv
<1> QED
  BY <1>5, <1>6, <1>7 DEF EndInv

LEMMA RunEraseEnds == ASSUME EndInv, RunErase PROVE EndInv'
<1> DEFINE s == Head(queue).to
<1>1. /\ LockInv /\ queue # <<>> /\ Head(queue).kind = "erase" /\ Leave
      /\ calls' = [calls EXCEPT ![s] = <<>>]
      /\ stage' = [stage EXCEPT ![s] = "none"]
      /\ stale' = IF SessionBusy(s) THEN stale \cup {s} ELSE stale
      /\ stage \in [Session -> Stage] /\ calls \in [Session -> Seq(Act)]
      /\ s \in Session
  BY BeginTyped DEF EndInv, RunErase, Begin, Running, EraseFrom, Outlived,
     LockInv, ServiceTypeOK, map
<1>2. ~ manyThreads => s \in Ended
  <2>1. /\ Len(queue) \in Nat /\ Len(queue) # 0 /\ Head(queue) = queue[1]
    BY <1>1, LenProperties, EmptySeq DEF LockInv, ServiceTypeOK
  <2> QED
    BY <1>1, <2>1 DEF EndInv, OneErase, EraseInv
<1> HIDE DEF s
<1>3. \A t \in Ended : t \in Ended' \/ t = s
  BY <1>1 DEF Ended
<1>4. FreeHaveNoCalls'
  BY <1>1 DEF EndInv, FreeHaveNoCalls
<1>5. ~ manyThreads => stale' = {}
  BY <1>1, <1>2 DEF Ended, SessionBusy, EndInv, OneErase
<1>6. OneErase' /\ VisitedLives' /\ EndedOnce'
  BY <1>1, <1>3, <1>5, LeaveEnds DEF s
<1>7. LockInv'
  BY RunEraseKeeps DEF EndInv
<1> QED
  BY <1>4, <1>6, <1>7 DEF EndInv

LEMMA VisitCheckEnds ==
    ASSUME NEW s \in Session, EndInv, VisitCheck(s) PROVE EndInv'
<1>1. LockInv /\ queue # <<>> /\ SessionBusy(s) /\ at' = s
  BY RunsTyped DEF EndInv, VisitCheck
<1>2. /\ UNCHANGED <<queue, stage, calls, stale, ended, manyThreads>>
  BY DEF VisitCheck, sessions, outer
<1>3. Ended' = Ended
  BY <1>2 DEF Ended
<1>4. FreeHaveNoCalls' /\ VisitedLives'
  BY <1>1, <1>2 DEF EndInv, FreeHaveNoCalls, VisitedLives, SessionBusy
<1>5. LockInv'
  BY VisitCheckKeeps DEF EndInv
<1> QED
  BY <1>1, <1>2, <1>3, <1>4, <1>5, LoopEnds DEF EndInv

LEMMA VisitQueueEnds == ASSUME EndInv, VisitQueue PROVE EndInv'
<1>1. /\ LockInv /\ at \in Session /\ queue # <<>> /\ phase = "checked"
      /\ at # None /\ at' \in {at, None}
  BY VisitQueueTyped DEF EndInv, LockInv, VisitQueue
<1>2. PICK c : calls' = [calls EXCEPT ![at] = Append(calls[at], c)]
  BY <1>1, VisitQueueTyped
<1>3. UNCHANGED <<queue, stage, stale, ended, manyThreads>>
  BY DEF VisitQueue, outer
<1>4. stage[at] # "none"
  BY <1>1 DEF EndInv, VisitedLives
<1>5. \A t \in Session : t # at => calls'[t] = calls[t]
  BY <1>1, <1>2 DEF LockInv, ServiceTypeOK
<1>6. ~ manyThreads => Ended \subseteq Ended'
  BY <1>1, <1>3, <1>5 DEF LockInv, SessionBusy, Ended
<1>7. FreeHaveNoCalls' /\ VisitedLives'
  BY <1>1, <1>3, <1>4, <1>5 DEF EndInv, FreeHaveNoCalls, VisitedLives
<1>8. LockInv'
  BY <1>1, VisitQueueKeeps
<1> QED
  BY <1>1, <1>3, <1>6, <1>7, <1>8, LoopEnds DEF EndInv

LEMMA RunStaleEnds ==
    ASSUME NEW s \in Session, EndInv, RunStale(s) PROVE EndInv'
<1>1. /\ UNCHANGED <<runLock, shutdownLock, at, stage, calls>>
      /\ UNCHANGED <<manyThreads, ended>>
      /\ queue' = queue \/ \E l \in Lambda : queue' = Append(queue, l)
  BY RunStaleQueues
<1>2. manyThreads
  BY DEF RunStale, EndInv, OneErase
<1>3. Busy' = Busy
  <2>1. CASE queue' = queue
    BY <1>1, <2>1 DEF Busy
  <2>2. CASE queue' # queue
    <3>1. Busy
      BY <2>2 DEF RunStale
    <3>2. queue' # <<>>
      BY <1>1, <2>2, Appended DEF EndInv, LockInv, ServiceTypeOK
    <3> QED
      BY <3>1, <3>2 DEF Busy
  <2> QED
    BY <2>1, <2>2
<1>4. LockInv'
  BY RunStaleKeeps DEF EndInv
<1> QED
  BY <1>1, <1>2, <1>3, <1>4
  DEF EndInv, OneErase, FreeHaveNoCalls, VisitedLives, EndedOnce

\* The lambda in the strand of the session ends.
LEMMA VisitEndEnds ==
    ASSUME EndInv, VisitEnd \/ VisitErases PROVE EndInv'
<1>1. /\ LockInv /\ queue # <<>> /\ queue' = queue /\ ended' = ended
      /\ at # None /\ calls' = [calls EXCEPT ![at] = Tail(calls[at])]
      /\ phase = "loop" /\ at' = None /\ UNCHANGED <<stale, manyThreads>>
  BY RunsTyped DEF EndInv, VisitEnd, VisitErases, outer
<1>2. at \in Session /\ calls[at] # <<>> /\ calls[at] \in Seq(Act)
      /\ Len(calls[at]) = 1
  BY <1>1, AtTyped DEF LockInv, ServiceTypeOK
<1>3. Tail(calls[at]) = <<>>
  BY <1>2, SingletonTail
<1>4. at \notin Ended /\ stage[at] # "none"
  BY <1>2 DEF Ended, EndInv, FreeHaveNoCalls
<1>5. PICK x : stage' = [stage EXCEPT ![at] = x]
  BY DEF VisitEnd, VisitErases, EraseFrom
<1>6. stage \in [Session -> Stage] /\ calls \in [Session -> Seq(Act)]
  BY <1>1 DEF LockInv, ServiceTypeOK
<1>7. Ended \subseteq Ended'
  BY <1>1, <1>4, <1>5, <1>6 DEF Ended
<1>8. FreeHaveNoCalls' /\ VisitedLives'
  BY <1>1, <1>2, <1>3, <1>5, <1>6 DEF EndInv, FreeHaveNoCalls, VisitedLives
<1>9. LockInv'
  BY VisitEndKeeps, VisitErasesKeeps DEF EndInv
<1> QED
  BY <1>1, <1>7, <1>8, <1>9, LoopEnds DEF EndInv

LEMMA SessionEndsEnds ==
    ASSUME NEW s \in Session, EndInv, SessionNext(s) PROVE EndInv'
<1>1. LockInv' /\ LockInv
  BY SessionEndsKeeps, RunCallKeeps DEF EndInv, SessionNext
<1>2. SessionStep(s) /\ stage \in [Session -> Stage]
      /\ calls \in [Session -> Seq(Act)]
  BY <1>1 DEF SessionNext, Accepted, Closes, SessionEnds, Drained, RunCall,
     LockInv, ServiceTypeOK
<1>3. /\ stage[s] # "none" /\ s \notin Ended
      /\ \E x : x # "none" /\ stage' = [stage EXCEPT ![s] = x]
      /\ \A t \in Session : t # s => calls'[t] = calls[t]
  <2>1. CASE Accepted(s) \/ Closes(s) \/ SessionEnds(s) \/ Drained(s)
    BY <2>1 DEF Accepted, Closes, SessionEnds, Drained, Become, Ended
  <2>2. CASE RunCall(s)
    <3>1. stage[s] # "none" /\ s \notin Ended
      BY <2>2 DEF RunCall, Ended, EndInv, FreeHaveNoCalls
    <3>2. stage' = [stage EXCEPT ![s] = After(Head(calls[s]), stage[s])]
      BY <2>2 DEF RunCall, Become
    <3>3. After(Head(calls[s]), stage[s]) # "none"
      BY <3>1 DEF After
    <3>4. \A t \in Session : t # s => calls'[t] = calls[t]
      BY <2>2, <1>2 DEF RunCall
    <3> QED
      BY <3>1, <3>2, <3>3, <3>4
  <2> QED
    BY <2>1, <2>2 DEF SessionNext
<1>4. stage'[s] # "none" /\ \A t \in Session : t # s => stage'[t] = stage[t]
  BY <1>2, <1>3
<1>5. Ended \subseteq Ended'
  BY <1>3, <1>4 DEF Ended
<1>6. FreeHaveNoCalls'
  BY <1>3, <1>4 DEF EndInv, FreeHaveNoCalls
<1>8. VisitedLives'
  BY <1>2, <1>4 DEF EndInv, VisitedLives, SessionStep, LockInv, ServiceTypeOK
<1>7. OneErase' /\ EndedOnce'
  BY <1>2, <1>3, <1>4, <1>5, SessionStepEnds
<1> QED
  BY <1>1, <1>6, <1>7, <1>8 DEF EndInv

LEMMA EndInvStep == EndInv /\ [ServiceNext]_serviceVars => EndInv'
<1> SUFFICES ASSUME EndInv, [ServiceNext]_serviceVars
             PROVE  EndInv'
  OBVIOUS
<1>0. LockInv /\ LockInv'
  BY LockInvStep DEF EndInv
<1>1. CASE UNCHANGED serviceVars
  BY <1>0, <1>1 DEF serviceVars, EndInv, OneErase, EraseInv, Ended,
     FreeHaveNoCalls, VisitedLives, EndedOnce, Busy
<1>2. CASE \/ Connect \/ Shutdown \/ \E act \in Act : CallAll(act)
           \/ \E act \in Act, s \in Session : CallOne(act, s)
  <2>1. \E k \in Act \cup {"connect", "shutdown"}, s \in Session \cup {None} :
           Dispatch(k, s)
    BY <1>2, ServiceAssumption DEF Connect, Shutdown, CallAll, CallOne
  <2> QED
    BY <1>0, <2>1, DispatchEnds DEF EndInv
<1>3. CASE \/ ConnectRefused \/ ConnectFails \/ EraseNothing
           \/ ShutdownEmpty \/ LoopEnd
  <2>1. /\ Leave /\ queue # <<>>
        /\ stage' = stage /\ calls' = calls /\ stale' = stale
    BY <1>0, <1>3, RunsTyped, BeginTyped
    DEF ConnectRefused, ConnectFails, EraseNothing, ShutdownEmpty, LoopEnd,
        sessions
  <2>2. Ended' = Ended
    BY <2>1 DEF Ended
  <2>3. FreeHaveNoCalls'
    BY <2>1 DEF EndInv, FreeHaveNoCalls
  <2> QED
    BY <1>0, <2>1, <2>2, <2>3, LeaveEnds DEF EndInv, OneErase
<1>4. CASE \/ ConnectCheck \/ LoopBegin \/ \E s \in Session : VisitNot(s)
  <2>1. /\ queue' = queue /\ ended' = ended /\ queue # <<>>
        /\ stage' = stage /\ calls' = calls /\ stale' = stale
        /\ at' = at /\ manyThreads' = manyThreads
    BY <1>0, <1>4, RunsTyped, BeginTyped
    DEF ConnectCheck, LoopBegin, VisitNot, sessions, outer
  <2>2. Ended' = Ended
    BY <2>1 DEF Ended
  <2>3. FreeHaveNoCalls' /\ VisitedLives'
    BY <2>1 DEF EndInv, FreeHaveNoCalls, VisitedLives
  <2> QED
    BY <1>0, <2>1, <2>2, <2>3, LoopEnds DEF EndInv
<1>5. CASE \/ RunErase \/ VisitQueue \/ VisitEnd \/ VisitErases
           \/ \E s \in Session : Emplace(s) \/ VisitCheck(s)
  BY <1>5, RunEraseEnds, VisitQueueEnds, VisitEndEnds, EmplaceEnds,
     VisitCheckEnds
<1>6. CASE \E s \in Session : SessionNext(s) \/ RunStale(s)
  BY <1>6, SessionEndsEnds, RunStaleEnds
<1> QED
  BY <1>1, <1>2, <1>3, <1>4, <1>5, <1>6 DEF ServiceNext, StrandStep

\* The callback of the service is called at most once, when no lambda and no
\* session is left; with one thread no handler outlives its session.
THEOREM ServiceEnds == ServiceSpec => []ServiceEndsLast
<1>1. EndInv => ServiceEndsLast
  <2> SUFFICES ASSUME EndInv
               PROVE  ~ Busy => map = {}
    BY DEF EndInv, EndedOnce, OneErase, ServiceEndsLast
  <2> QED
    BY DEF EndInv, LockInv, LockWhileSessions, Busy
<1> QED
  BY <1>1, EndInvInit, EndInvStep, PTL DEF ServiceSpec

-----------------------------------------------------------------------------
(* The end of the sessions: each that has ended has its lambda of          *)
(* on_erase(), so that no session stays in map_ for ever.                  *)

EraseQueued(s) ==
    \E i \in 1..Len(queue) : queue[i].kind = "erase" /\ queue[i].to = s

LeavingInv == \A s \in Ended : EraseQueued(s)

\* A step that leaves the queue as it is, or adds to it.
LEMMA QueuedKept ==
    ASSUME NEW s, queue \in Seq(Lambda), EraseQueued(s),
           queue' = queue \/ \E l \in Lambda : queue' = Append(queue, l)
    PROVE  EraseQueued(s)'
<1>1. CASE queue' = queue
  BY <1>1 DEF EraseQueued
<1>2. ASSUME NEW l \in Lambda, queue' = Append(queue, l)
      PROVE  EraseQueued(s)'
  <2>1. /\ Len(queue) \in Nat /\ Len(queue') = Len(queue) + 1
        /\ \A i \in 1..Len(queue) : queue'[i] = queue[i]
    BY <1>2, Appended
  <2>2. \A i \in 1..Len(queue) : i \in 1..Len(queue')
    BY <2>1
  <2> QED
    BY <2>1, <2>2 DEF EraseQueued
<1> QED
  BY <1>1, <1>2

LEMMA LeavingKept ==
    ASSUME LockInv, LeavingInv, Ended' \subseteq Ended,
           queue' = queue \/ \E l \in Lambda : queue' = Append(queue, l)
    PROVE  LeavingInv'
  BY QueuedKept DEF LeavingInv, LockInv, ServiceTypeOK

LEMMA LeaveLeaving ==
    ASSUME LockInv, LeavingInv, Leave, queue # <<>>, Ended' \subseteq Ended,
           Head(queue).kind = "erase" => Head(queue).to \notin Ended'
    PROVE  LeavingInv'
<1>1. queue \in Seq(Lambda) /\ queue' = Tail(queue)
  BY DEF LockInv, ServiceTypeOK, Leave
<1>2. /\ Len(queue) \in Nat /\ Len(queue) # 0
      /\ Len(queue') = Len(queue) - 1 /\ Head(queue) = queue[1]
      /\ \A i \in 1..Len(queue') : queue'[i] = queue[i + 1]
  BY <1>1, HeadTailProperties, LenProperties, EmptySeq
<1> SUFFICES ASSUME NEW s \in Ended'
             PROVE  EraseQueued(s)'
  BY DEF LeavingInv
<1>3. PICK i \in 1..Len(queue) : queue[i].kind = "erase" /\ queue[i].to = s
  BY DEF LeavingInv, EraseQueued
<1>4. i # 1
  BY <1>2, <1>3
<1>5. i - 1 \in 1..Len(queue') /\ (i - 1) + 1 = i
  BY <1>2, <1>4
<1>6. queue'[i - 1] = queue[i]
  BY <1>2, <1>5
<1> QED
  BY <1>3, <1>5, <1>6 DEF EraseQueued

\* What the strand runs between two steps of it.
KindInv ==
    /\ phase = "connect" => Running({"connect"})
    /\ phase \in {"loop", "checked"} => Running(Act \cup {"shutdown"})

LEMMA RunningKept ==
    ASSUME NEW kinds, LockInv, Running(kinds),
           queue' = queue \/ \E l \in Lambda : queue' = Append(queue, l)
    PROVE  Running(kinds)'
<1>1. CASE queue' = queue
  BY <1>1 DEF Running
<1>2. ASSUME NEW l \in Lambda, queue' = Append(queue, l)
      PROVE  Running(kinds)'
  <2>1. queue # <<>> /\ queue \in Seq(Lambda)
    BY DEF Running, LockInv, ServiceTypeOK
  <2>2. queue' # <<>> /\ Head(queue') = Head(queue)
    BY <1>2, <2>1, HeadTailAppend, Appended
  <2> QED
    BY <2>2 DEF Running
<1> QED
  BY <1>1, <1>2

LEMMA KindKept ==
    ASSUME LockInv, KindInv, phase' = phase,
           queue' = queue \/ \E l \in Lambda : queue' = Append(queue, l)
    PROVE  KindInv'
  BY RunningKept DEF KindInv

LeaveInv == LockInv /\ KindInv /\ LeavingInv

LEMMA LeaveInvInit == ServiceInit => LeaveInv
<1>1. ServiceInit => KindInv /\ LeavingInv
  BY DEF ServiceInit, KindInv, LeavingInv, Ended
<1> QED
  BY <1>1, LockInvInit DEF LeaveInv

LEMMA LeavingStrand ==
    ASSUME LeaveInv, StrandStep
    PROVE  KindInv' /\ LeavingInv'
<1>0. /\ LockInv /\ KindInv /\ LeavingInv
      /\ stage \in [Session -> Stage] /\ calls \in [Session -> Seq(Act)]
  BY DEF LeaveInv, LockInv, ServiceTypeOK
<1>1. CASE ConnectCheck \/ LoopBegin \/ \E s \in Session : VisitNot(s)
  <2>1. queue' = queue /\ stage' = stage /\ calls' = calls
    BY <1>1 DEF ConnectCheck, LoopBegin, VisitNot, sessions
  <2>2. LeavingInv'
    BY <1>0, <2>1, LeavingKept DEF Ended
  <2>3. KindInv'
    <3>1. CASE ConnectCheck \/ LoopBegin
      BY <2>1, <3>1 DEF ConnectCheck, LoopBegin, Begin, Running, KindInv
    <3>2. CASE \E s \in Session : VisitNot(s)
      BY <1>0, <2>1, <3>2, KindKept DEF VisitNot
    <3> QED
      BY <1>1, <3>1, <3>2
  <2> QED
    BY <2>2, <2>3
<1>2. CASE \/ ConnectRefused \/ ConnectFails \/ EraseNothing
           \/ ShutdownEmpty \/ LoopEnd
  <2>1. /\ Leave /\ queue # <<>> /\ stage' = stage /\ calls' = calls
    BY <1>0, <1>2, RunsTyped, BeginTyped
    DEF ConnectRefused, ConnectFails, EraseNothing, ShutdownEmpty, LoopEnd,
        sessions
  <2>3. Ended' = Ended
    BY <2>1 DEF Ended
  <2>2. Head(queue).kind = "erase" => Head(queue).to \notin Ended'
    <3>1. CASE EraseNothing
      BY <2>3, <3>1 DEF EraseNothing, map, Ended
    <3>2. CASE ConnectRefused \/ ConnectFails \/ ShutdownEmpty \/ LoopEnd
      BY <1>0, <3>2 DEF ConnectRefused, ConnectFails, ShutdownEmpty, LoopEnd,
         Begin, Running, KindInv, Act
    <3> QED
      BY <1>2, <3>1, <3>2
  <2>4. LeavingInv'
    BY <1>0, <2>1, <2>2, <2>3, LeaveLeaving
  <2> QED
    BY <2>1, <2>4 DEF Leave, KindInv
<1>3. CASE \E s \in Session : Emplace(s)
  <2>1. PICK s \in Session : Emplace(s)
    BY <1>3
  <2>2. PICK x \in Stage1 : stage' = [stage EXCEPT ![s] = x]
    BY <2>1 DEF Emplace
  <2>3. /\ Leave /\ calls' = calls /\ queue # <<>>
        /\ Head(queue).kind # "erase"
    BY <1>0, <2>1 DEF Emplace, KindInv, Running
  <2>4. x # "done"
    BY <2>2, ServiceAssumption
  <2>5. Ended' \subseteq Ended
    BY <1>0, <2>2, <2>3, <2>4 DEF Ended
  <2>6. LeavingInv'
    BY <1>0, <2>3, <2>5, LeaveLeaving
  <2> QED
    BY <2>3, <2>6 DEF Leave, KindInv
<1>4. CASE RunErase
  <2>1. /\ Leave /\ queue # <<>>
        /\ calls' = [calls EXCEPT ![Head(queue).to] = <<>>]
        /\ stage' = [stage EXCEPT ![Head(queue).to] = "none"]
    BY <1>0, <1>4, BeginTyped DEF RunErase, EraseFrom, Outlived
  <2>2. Ended' \subseteq Ended /\ Head(queue).to \notin Ended'
    BY <1>0, <2>1 DEF Ended
  <2>3. LeavingInv'
    BY <1>0, <2>1, <2>2, LeaveLeaving
  <2> QED
    BY <2>1, <2>3 DEF Leave, KindInv
<1>5. CASE \E s \in Session : VisitCheck(s)
  <2>1. /\ phase = "loop" /\ queue' = queue /\ stage' = stage
        /\ calls' = calls
    BY <1>5 DEF VisitCheck, sessions
  <2>2. KindInv'
    BY <1>0, <1>5, <2>1 DEF VisitCheck, KindInv, Running
  <2> QED
    BY <1>0, <2>1, <2>2, LeavingKept DEF Ended
<1>7. CASE VisitQueue
  <2>1. /\ at \in Session /\ calls'[at] # <<>>
        /\ \E c : calls' = [calls EXCEPT ![at] = Append(calls[at], c)]
    BY <1>0, <1>7, VisitQueueTyped
  <2>2. /\ phase = "checked" /\ phase' = "loop"
        /\ queue' = queue /\ stage' = stage
    BY <1>7 DEF VisitQueue
  <2>3. Ended' \subseteq Ended
    BY <1>0, <2>1, <2>2 DEF Ended
  <2>4. KindInv'
    BY <1>0, <2>2 DEF KindInv, Running
  <2> QED
    BY <1>0, <2>2, <2>3, <2>4, LeavingKept
<1>6. CASE VisitEnd \/ VisitErases
  <2>1. /\ at \in Session /\ queue' = queue /\ phase' = phase
        /\ calls' = [calls EXCEPT ![at] = Tail(calls[at])]
    BY <1>0, <1>6, AtTyped DEF VisitEnd, VisitErases
  <2>2. PICK x : x # "done" /\ stage' = [stage EXCEPT ![at] = x]
    BY <1>6 DEF VisitEnd, VisitErases, EraseFrom, After
  <2>3. Ended' \subseteq Ended
    BY <1>0, <2>1, <2>2 DEF Ended
  <2> QED
    BY <1>0, <2>1, <2>3, LeavingKept, KindKept
<1> QED
  BY <1>1, <1>2, <1>3, <1>4, <1>5, <1>6, <1>7 DEF LeaveInv, StrandStep

LEMMA LeavingStale ==
    ASSUME NEW s \in Session, LeaveInv, RunStale(s)
    PROVE  KindInv' /\ LeavingInv'
<1>1. /\ UNCHANGED <<phase, stage, calls>>
      /\ queue' = queue \/ \E l \in Lambda : queue' = Append(queue, l)
  BY RunStaleQueues
<1> QED
  BY <1>1, LeavingKept, KindKept DEF LeaveInv, Ended

\* The last lock of a session queues the lambda.
LEMMA LeavingSession ==
    ASSUME NEW s \in Session, LeaveInv, SessionNext(s)
    PROVE  KindInv' /\ LeavingInv'
<1>1. /\ LockInv /\ KindInv /\ LeavingInv /\ queue \in Seq(Lambda)
      /\ stage \in [Session -> Stage] /\ calls \in [Session -> Seq(Act)]
  BY DEF LeaveInv, LockInv, ServiceTypeOK
<1>2. /\ SessionStep(s)
      /\ \A t \in Session :
             t # s => stage'[t] = stage[t] /\ calls'[t] = calls[t]
  BY <1>1 DEF SessionNext, Accepted, Closes, SessionEnds, Drained, RunCall,
     Become
<1>3. Ended' \subseteq Ended \cup {s}
  BY <1>2 DEF Ended
<1> DEFINE l == [kind |-> "erase", to |-> s]
<1>4. l \in Lambda /\ l.kind = "erase" /\ l.to = s
  BY DEF Lambda
<1>5. queue' = IF SessionBusy(s)' THEN queue ELSE Append(queue, l)
  BY <1>2 DEF SessionStep
<1> HIDE DEF l
<1>6. queue' = queue \/ \E e \in Lambda : queue' = Append(queue, e)
  BY <1>4, <1>5
<1>7. KindInv'
  BY <1>1, <1>2, <1>6, KindKept DEF SessionStep
<1>8. LeavingInv'
  <2>1. CASE SessionBusy(s)'
    <3>1. s \notin Ended'
      BY <2>1 DEF SessionBusy, Ended
    <3> QED
      BY <1>1, <1>3, <1>6, <3>1, LeavingKept
  <2>2. CASE ~ SessionBusy(s)'
    <3>1. /\ Len(queue) \in Nat /\ Len(queue') = Len(queue) + 1
          /\ queue'[Len(queue) + 1] = l
      BY <1>1, <1>4, <1>5, <2>2, Appended
    <3>2. Len(queue) + 1 \in 1..Len(queue')
      BY <3>1
    <3>3. EraseQueued(s)'
      BY <1>4, <3>1, <3>2 DEF EraseQueued
    <3>4. \A t \in Ended : EraseQueued(t)'
      BY <1>1, <1>6, QueuedKept DEF LeavingInv
    <3> QED
      BY <1>3, <3>3, <3>4 DEF LeavingInv
  <2> QED
    BY <2>1, <2>2
<1> QED
  BY <1>7, <1>8

LEMMA DispatchTo ==
    ASSUME NEW k \in Act \cup {"connect", "shutdown"},
           NEW s \in Session \cup {None}, Dispatch(k, s)
    PROVE  /\ \E l \in Lambda : queue' = Append(queue, l)
           /\ UNCHANGED <<manyThreads, phase, todo, at, stage, calls, ended>>
<1>1. [kind |-> k, to |-> s] \in Lambda
  BY DEF Lambda
<1> QED
  BY <1>1 DEF Dispatch, sessions

LEMMA CallsDispatch ==
    ASSUME \/ Connect \/ Shutdown \/ \E act \in Act : CallAll(act)
           \/ \E act \in Act, s \in Session : CallOne(act, s)
    PROVE  /\ \E l \in Lambda : queue' = Append(queue, l)
           /\ UNCHANGED <<manyThreads, phase, todo, at, stage, calls, ended>>
<1>1. \E k \in Act \cup {"connect", "shutdown"}, s \in Session \cup {None} :
          Dispatch(k, s)
  BY ServiceAssumption DEF Connect, Shutdown, CallAll, CallOne
<1> QED
  BY <1>1, DispatchTo

LEMMA LeaveInvStep == LeaveInv /\ [ServiceNext]_serviceVars => LeaveInv'
<1> SUFFICES ASSUME LeaveInv, [ServiceNext]_serviceVars
             PROVE  KindInv' /\ LeavingInv'
  BY LockInvStep DEF LeaveInv
<1>0. LockInv /\ KindInv /\ LeavingInv
  BY DEF LeaveInv
<1>1. CASE UNCHANGED serviceVars
  BY <1>0, <1>1, LeavingKept, KindKept DEF serviceVars, Ended
<1>2. CASE \/ Connect \/ Shutdown \/ \E act \in Act : CallAll(act)
           \/ \E act \in Act, s \in Session : CallOne(act, s)
  BY <1>0, <1>2, CallsDispatch, LeavingKept, KindKept DEF Ended
<1>3. CASE StrandStep
  BY <1>3, LeavingStrand
<1>4. CASE \E s \in Session : SessionNext(s) \/ RunStale(s)
  BY <1>4, LeavingSession, LeavingStale
<1> QED
  BY <1>1, <1>2, <1>3, <1>4 DEF ServiceNext

-----------------------------------------------------------------------------
(* With one thread shutdown_finished() is called when the last session has *)
(* been erased: nothing ends inside the loop of the shutdown, so the loop  *)
(* is over a map_ that stays what it was.                                  *)

FinishInv ==
    ~ manyThreads =>
        /\ shutdown /\ map = {} => ~ shutdownLock
        /\ phase \in {"loop", "checked"} /\ Running({"shutdown"}) => map # {}
        /\ at # None /\ phase = "loop" => stage[at] \notin {"none", "done"}

OneThreadInv == LeaveInv /\ FinishInv

LEMMA RunningBack ==
    ASSUME NEW kinds, LockInv, queue # <<>>, Running(kinds)',
           queue' = queue \/ \E l \in Lambda : queue' = Append(queue, l)
    PROVE  Running(kinds)
<1>1. CASE queue' = queue
  BY <1>1 DEF Running
<1>2. ASSUME NEW l \in Lambda, queue' = Append(queue, l)
      PROVE  Running(kinds)
  <2>1. queue \in Seq(Lambda)
    BY DEF LockInv, ServiceTypeOK
  <2>2. Head(queue') = Head(queue)
    BY <1>2, <2>1, HeadTailAppend
  <2> QED
    BY <2>2 DEF Running
<1> QED
  BY <1>1, <1>2

\* A step beside the strand, or one in the loop that leaves the sessions.
LEMMA FinishKept ==
    ASSUME OneThreadInv, phase' = phase, manyThreads' = manyThreads,
           ~ manyThreads => stage' = stage,
           ~ manyThreads => at' \in {at, None},
           shutdown' = shutdown, shutdownLock' => shutdownLock \/ ~ shutdown,
           queue' = queue \/ \E l \in Lambda : queue' = Append(queue, l)
    PROVE  FinishInv'
<1> SUFFICES ASSUME ~ manyThreads
             PROVE  FinishInv'
  BY DEF FinishInv
<1>1. LockInv /\ FinishInv /\ stage' = stage /\ map' = map
  BY DEF OneThreadInv, LeaveInv, map
<1>2. phase # "wait" /\ Running({"shutdown"})' => Running({"shutdown"})
  BY <1>1, RunningBack DEF LockInv
<1> QED
  BY <1>1, <1>2 DEF FinishInv

\* A lambda that ends and keeps what the last erase needs.
LEMMA FinishLeave ==
    ASSUME OneThreadInv, Leave,
           ~ manyThreads /\ shutdown' /\ map' = {} => ~ shutdownLock'
    PROVE  FinishInv'
  BY DEF Leave, FinishInv, outer

LEMMA FinishStrand ==
    ASSUME OneThreadInv, StrandStep
    PROVE  FinishInv'
<1>0. LockInv /\ KindInv /\ FinishInv
  BY DEF OneThreadInv, LeaveInv
<1>1. CASE ConnectCheck \/ \E s \in Session : VisitNot(s) \/ VisitCheck(s)
  <2>1. /\ UNCHANGED <<shutdown, shutdownLock, stage, queue, manyThreads>>
        /\ \/ phase' = phase /\ at' = at
           \/ phase' = "connect"
           \/ phase = "loop" /\ phase' = "checked"
    BY <1>1 DEF ConnectCheck, VisitNot, VisitCheck, locks, sessions, outer
  <2> QED
    BY <1>0, <2>1 DEF FinishInv, map, Running
<1>2. CASE LoopBegin
  <2>1. /\ UNCHANGED <<shutdown, shutdownLock, stage, queue, manyThreads, at>>
        /\ Running({"shutdown"}) => map # {}
        /\ at = None
    BY <1>0, <1>2 DEF LoopBegin, locks, sessions, outer, Begin, Running, Act,
       LockInv
  <2> QED
    BY <1>0, <2>1 DEF FinishInv, map, Running
<1>3. CASE ConnectRefused \/ ConnectFails \/ EraseNothing
  <2>1. Leave /\ UNCHANGED <<shutdown, shutdownLock, stage, manyThreads>>
    BY <1>3 DEF ConnectRefused, ConnectFails, EraseNothing, locks, sessions,
       Leave, outer
  <2> QED
    BY <1>0, <2>1, FinishLeave DEF FinishInv, map
<1>4. CASE ShutdownEmpty
  <2>1. Leave /\ shutdownLock' = FALSE
    BY <1>4 DEF ShutdownEmpty
  <2> QED
    BY <2>1, FinishLeave
<1>5. CASE LoopEnd
  <2>1. /\ Leave /\ UNCHANGED <<shutdownLock, stage, manyThreads>>
        /\ shutdown' = (shutdown \/ Running({"shutdown"})) /\ phase = "loop"
    BY <1>5 DEF LoopEnd, locks, sessions, Leave, outer
  <2> QED
    BY <1>0, <2>1, FinishLeave DEF FinishInv, map
<1>6. CASE \E s \in Session : Emplace(s)
  <2>1. PICK s \in Session : Emplace(s)
    BY <1>6
  <2>2. PICK x \in Stage1 : stage' = [stage EXCEPT ![s] = x]
    BY <2>1 DEF Emplace
  <2>3. s \in map'
    BY <1>0, <2>2, ServiceAssumption DEF map, LockInv, ServiceTypeOK
  <2>4. Leave
    BY <2>1 DEF Emplace
  <2> QED
    BY <2>3, <2>4, FinishLeave
<1>7. CASE RunErase
  <2>1. Leave /\ shutdown' = shutdown
        /\ shutdownLock' = IF shutdown /\ map' = {} THEN FALSE
                           ELSE shutdownLock
    BY <1>7 DEF RunErase, EraseFrom
  <2> QED
    BY <2>1, FinishLeave
<1>8. CASE VisitQueue
  <2> SUFFICES ASSUME ~ manyThreads
               PROVE  FinishInv'
    BY <1>8 DEF FinishInv, VisitQueue, outer
  <2>1. /\ UNCHANGED <<shutdown, shutdownLock, stage, queue, manyThreads>>
        /\ at' = at /\ calls[at] = <<>> /\ phase = "checked"
    BY <1>8 DEF VisitQueue, locks, outer
  <2>2. stage[at] \notin {"none", "done"}
    BY <1>0, <2>1 DEF LockInv, SessionBusy
  <2> QED
    BY <1>0, <2>1, <2>2 DEF FinishInv, map, Running
<1>9. CASE VisitEnd \/ VisitErases
  <2> SUFFICES ASSUME ~ manyThreads
               PROVE  FinishInv'
    BY <1>9 DEF FinishInv, VisitEnd, VisitErases, outer
  <2>1. at \in Session /\ stage[at] \notin {"none", "done"} /\ at' = None
    BY <1>0, <1>9, AtTyped DEF FinishInv, VisitEnd, VisitErases
  <2>2. /\ VisitEnd
        /\ UNCHANGED <<shutdown, shutdownLock, queue, manyThreads, phase>>
    BY <1>9, <2>1 DEF VisitEnd, VisitErases, locks, outer
  <2>3. stage' = [stage EXCEPT ![at] = After(Head(calls[at]), stage[at])]
    BY <2>2 DEF VisitEnd
  <2>4. After(Head(calls[at]), stage[at]) # "none"
    BY <2>1 DEF After
  <2>5. map' = map
    BY <1>0, <2>1, <2>3, <2>4 DEF map, LockInv, ServiceTypeOK
  <2> QED
    BY <1>0, <2>1, <2>2, <2>5 DEF FinishInv, Running
<1> QED
  BY <1>1, <1>2, <1>3, <1>4, <1>5, <1>6, <1>7, <1>8, <1>9 DEF StrandStep

LEMMA FinishSession ==
    ASSUME NEW s \in Session, OneThreadInv, SessionNext(s)
    PROVE  FinishInv'
<1>0. LockInv /\ FinishInv
  BY DEF OneThreadInv, LeaveInv
<1> SUFFICES ASSUME ~ manyThreads
             PROVE  FinishInv'
  BY DEF FinishInv, SessionNext, Accepted, Closes, SessionEnds, Drained,
     RunCall, SessionStep, outer
<1>1. SessionStep(s) /\ stage \in [Session -> Stage]
  BY <1>0 DEF SessionNext, Accepted, Closes, SessionEnds, Drained, RunCall,
     LockInv, ServiceTypeOK
<1>2. phase = "wait" /\ at = None
  BY <1>0, <1>1 DEF SessionStep, Beside, LockInv
<1>3. UNCHANGED <<shutdown, shutdownLock, phase, at, manyThreads>>
  BY <1>1 DEF SessionStep, locks, outer
<1>4. PICK x : /\ stage' = [stage EXCEPT ![s] = x]
               /\ x = "none" => stage[s] = "none"
  BY DEF SessionNext, Accepted, Closes, SessionEnds, Drained, RunCall, Become,
     After
<1>5. map \subseteq map'
  BY <1>1, <1>4 DEF map
<1> QED
  BY <1>0, <1>2, <1>3, <1>5 DEF FinishInv

LEMMA OneThreadInit == ServiceInit => OneThreadInv
<1>1. ServiceInit => FinishInv
  BY DEF ServiceInit, FinishInv
<1> QED
  BY <1>1, LeaveInvInit DEF OneThreadInv

LEMMA OneThreadStep ==
    OneThreadInv /\ [ServiceNext]_serviceVars => OneThreadInv'
<1> SUFFICES ASSUME OneThreadInv, [ServiceNext]_serviceVars
             PROVE  FinishInv'
  BY LeaveInvStep DEF OneThreadInv
<1>0. LockInv /\ FinishInv
  BY DEF OneThreadInv, LeaveInv
<1>1. CASE UNCHANGED serviceVars
  BY <1>1, FinishKept DEF serviceVars
<1>2. CASE Connect \/ (\E act \in Act : CallAll(act))
           \/ \E act \in Act, s \in Session : CallOne(act, s)
  <2>1. /\ \E l \in Lambda : queue' = Append(queue, l)
        /\ UNCHANGED <<manyThreads, phase, at, stage>>
    BY <1>2, CallsDispatch
  <2>2. UNCHANGED <<shutdown, shutdownLock>>
    BY <1>2 DEF Connect, CallAll, CallOne, locks
  <2> QED
    BY <2>1, <2>2, FinishKept
<1>3. CASE Shutdown
  <2>1. /\ \E l \in Lambda : queue' = Append(queue, l)
        /\ UNCHANGED <<manyThreads, phase, at, stage>>
    BY <1>3, CallsDispatch
  <2>2. ~ shutdown /\ shutdown' = shutdown
    BY <1>0, <1>3 DEF Shutdown, LockInv
  <2> QED
    BY <2>1, <2>2, FinishKept
<1>4. CASE StrandStep
  BY <1>4, FinishStrand
<1>5. CASE \E s \in Session : SessionNext(s)
  BY <1>5, FinishSession
<1>6. CASE \E s \in Session : RunStale(s)
  BY <1>6, RunStaleQueues, FinishKept
<1> QED
  BY <1>1, <1>2, <1>3, <1>4, <1>5, <1>6 DEF ServiceNext

\* With one thread shutdown_finished() has been called when shutdown_ is set
\* and map_ is empty: by the last erase, or by the shutdown itself.
THEOREM ServiceFinished == ServiceSpec => []FinishedWhenErased
<1>1. OneThreadInv => FinishedWhenErased
  BY DEF OneThreadInv, FinishInv, FinishedWhenErased
<1> QED
  BY <1>1, OneThreadInit, OneThreadStep, PTL DEF ServiceSpec

-----------------------------------------------------------------------------
(* After shutdown() the service has something to do until its callback is  *)
(* called.                                                                 *)

ShutQueued == \E i \in 1..Len(queue) : queue[i].kind = "shutdown"

\* The lambda of on_shutdown() is for all sessions, and is queued from
\* shutdown() on until shutdown_ is set.
PassedInv ==
    /\ \A i \in 1..Len(queue) :
           queue[i].kind = "shutdown" => queue[i].to = None
    /\ ~ runLock => shutdown \/ ShutQueued

LEMMA PassedSame ==
    ASSUME PassedInv, queue' = queue, runLock' = runLock, shutdown => shutdown'
    PROVE  PassedInv'
  BY DEF PassedInv, ShutQueued

LEMMA PassedAppend ==
    ASSUME PassedInv, queue \in Seq(Lambda), shutdown' = shutdown,
           NEW l \in Lambda, queue' = Append(queue, l),
           l.kind = "shutdown" => l.to = None,
           runLock' = runLock \/ l.kind = "shutdown"
    PROVE  PassedInv'
<1>1. /\ Len(queue) \in Nat /\ Len(queue') = Len(queue) + 1
      /\ \A i \in 1..Len(queue) : queue'[i] = queue[i]
      /\ queue'[Len(queue) + 1] = l
  BY Appended
<1>2. \A i \in 1..Len(queue') : i \in 1..Len(queue) \/ i = Len(queue) + 1
  BY <1>1
<1>3. /\ \A i \in 1..Len(queue) : i \in 1..Len(queue')
      /\ Len(queue) + 1 \in 1..Len(queue')
  BY <1>1
<1>4. \A i \in 1..Len(queue') : queue'[i].kind = "shutdown" => queue'[i].to = None
  BY <1>1, <1>2 DEF PassedInv
<1>5. (ShutQueued => ShutQueued') /\ (l.kind = "shutdown" => ShutQueued')
  BY <1>1, <1>3 DEF ShutQueued
<1> QED
  BY <1>4, <1>5 DEF PassedInv

LEMMA PassedLeave ==
    ASSUME PassedInv, queue \in Seq(Lambda), queue # <<>>, Leave,
           runLock' = runLock, shutdown => shutdown',
           Head(queue).kind = "shutdown" => shutdown'
    PROVE  PassedInv'
<1>1. queue' = Tail(queue)
  BY DEF Leave
<1>2. /\ Len(queue) \in Nat /\ Len(queue) # 0
      /\ Len(queue') = Len(queue) - 1 /\ Head(queue) = queue[1]
      /\ \A i \in 1..Len(queue') : queue'[i] = queue[i + 1]
  BY <1>1, HeadTailProperties, LenProperties, EmptySeq
<1>3. \A i \in 1..Len(queue') : i + 1 \in 1..Len(queue)
  BY <1>2
<1>4. \A i \in 1..Len(queue) :
          i = 1 \/ (i - 1 \in 1..Len(queue') /\ queue'[i - 1] = queue[i])
  <2> TAKE i \in 1..Len(queue)
  <2>1. i # 1 => i - 1 \in 1..Len(queue') /\ (i - 1) + 1 = i
    BY <1>2
  <2> QED
    BY <1>2, <2>1
<1>5. \A i \in 1..Len(queue') : queue'[i].kind = "shutdown" => queue'[i].to = None
  BY <1>2, <1>3 DEF PassedInv
<1>6. Head(queue).kind # "shutdown" /\ ShutQueued => ShutQueued'
  BY <1>2, <1>4 DEF ShutQueued
<1> QED
  BY <1>5, <1>6 DEF PassedInv

LEMMA PassedStrand ==
    ASSUME LockInv, KindInv, PassedInv, StrandStep
    PROVE  PassedInv'
<1>0. queue \in Seq(Lambda)
  BY DEF LockInv, ServiceTypeOK
<1>1. CASE \/ ConnectCheck \/ LoopBegin \/ VisitEnd \/ VisitErases
           \/ VisitQueue \/ \E s \in Session : VisitNot(s) \/ VisitCheck(s)
  BY <1>1, PassedSame DEF ConnectCheck, LoopBegin, VisitEnd, VisitErases,
     VisitNot, VisitCheck, VisitQueue, locks
<1>2. CASE \/ ConnectRefused \/ ConnectFails \/ RunErase \/ EraseNothing
           \/ \E s \in Session : Emplace(s)
  <2>1. Leave /\ UNCHANGED <<runLock, shutdown>>
    BY <1>2 DEF ConnectRefused, ConnectFails, RunErase, EraseNothing, Emplace,
       locks
  <2>2. queue # <<>> /\ Head(queue).kind # "shutdown"
    BY <1>2 DEF ConnectRefused, ConnectFails, RunErase, EraseNothing, Emplace,
       Begin, Running, KindInv
  <2> QED
    BY <1>0, <2>1, <2>2, PassedLeave
<1>3. CASE ShutdownEmpty \/ LoopEnd
  <2>1. Leave /\ runLock' = runLock /\ queue # <<>>
    BY <1>3, RunsTyped DEF ShutdownEmpty, LoopEnd, Begin, Running
  <2>2. /\ shutdown => shutdown'
        /\ Head(queue).kind = "shutdown" => shutdown'
    BY <1>3, <2>1 DEF ShutdownEmpty, LoopEnd, Running
  <2> QED
    BY <1>0, <2>1, <2>2, PassedLeave
<1> QED
  BY <1>1, <1>2, <1>3 DEF StrandStep

LEMMA PassedStep ==
    LeaveInv /\ PassedInv /\ [ServiceNext]_serviceVars => PassedInv'
<1> SUFFICES ASSUME LeaveInv, PassedInv, [ServiceNext]_serviceVars
             PROVE  PassedInv'
  OBVIOUS
<1>0. LockInv /\ KindInv /\ queue \in Seq(Lambda)
  BY DEF LeaveInv, LockInv, ServiceTypeOK
<1>1. CASE UNCHANGED serviceVars
  BY <1>1, PassedSame DEF serviceVars
<1>2. ASSUME NEW k \in Act \cup {"connect", "shutdown"},
             NEW s \in Session \cup {None}, Dispatch(k, s),
             k = "shutdown" => s = None, shutdown' = shutdown,
             runLock' = runLock \/ k = "shutdown"
      PROVE  PassedInv'
  <2> DEFINE l == [kind |-> k, to |-> s]
  <2>1. l \in Lambda /\ l.kind = k /\ l.to = s
    BY DEF Lambda
  <2>2. queue' = Append(queue, l)
    BY <1>2 DEF Dispatch
  <2> HIDE DEF l
  <2> QED
    BY <1>0, <1>2, <2>1, <2>2, PassedAppend
<1>3. CASE Connect \/ Shutdown
  BY <1>2, <1>3 DEF Connect, Shutdown, locks
<1>4. CASE \/ \E act \in Act : CallAll(act)
           \/ \E act \in Act, s \in Session : CallOne(act, s)
  BY <1>2, <1>4 DEF CallAll, CallOne, locks, Act
<1>5. CASE StrandStep
  BY <1>0, <1>5, PassedStrand
<1>6. CASE \E s \in Session : SessionNext(s)
  <2>1. PICK s \in Session : SessionStep(s)
    BY <1>6 DEF SessionNext, Accepted, Closes, SessionEnds, Drained, RunCall
  <2>2. UNCHANGED <<runLock, shutdown>>
    BY <2>1 DEF SessionStep, locks
  <2> DEFINE l == [kind |-> "erase", to |-> s]
  <2>3. l \in Lambda /\ l.kind = "erase"
    BY DEF Lambda
  <2>4. queue' = queue \/ queue' = Append(queue, l)
    BY <2>1 DEF SessionStep
  <2> HIDE DEF l
  <2> QED
    BY <1>0, <2>2, <2>3, <2>4, PassedSame, PassedAppend
<1>7. CASE \E s \in Session : RunStale(s)
  <2>1. /\ UNCHANGED <<runLock, shutdown>>
        /\ \/ queue' = queue
           \/ \E l \in Lambda : l.kind = "erase" /\ queue' = Append(queue, l)
    BY <1>7, RunStaleQueues
  <2> QED
    BY <1>0, <2>1, PassedSame, PassedAppend
<1> QED
  BY <1>1, <1>3, <1>4, <1>5, <1>6, <1>7 DEF ServiceNext

LEMMA PassedInit == ServiceInit => PassedInv
<1> SUFFICES ASSUME ServiceInit
             PROVE  PassedInv
  OBVIOUS
<1>1. runLock /\ queue = <<>>
  BY DEF ServiceInit
<1>2. \A i \in 1..Len(queue) : FALSE
  BY <1>1
<1> QED
  BY <1>1, <1>2 DEF PassedInv

\* With one thread the service does not get stuck in its shutdown: until the
\* callback is called a lambda is queued, or a session has not ended.
THEOREM ServiceNotStuck ==
    ServiceSpec => [](~ manyThreads /\ ~ runLock /\ ended = 0 =>
                          queue # <<>> \/ \E s \in Session : SessionBusy(s))
<1>1. EndInv /\ OneThreadInv /\ PassedInv =>
          (~ manyThreads /\ ~ runLock /\ ended = 0 =>
               queue # <<>> \/ \E s \in Session : SessionBusy(s))
  <2> SUFFICES ASSUME EndInv, OneThreadInv, PassedInv, ~ manyThreads,
                      ~ runLock, ended = 0, queue = <<>>,
                      \A s \in Session : ~ SessionBusy(s)
               PROVE  FALSE
    OBVIOUS
  <2>1. \A i \in 1..Len(queue) : FALSE
    OBVIOUS
  <2>2. shutdown
    BY <2>1 DEF PassedInv, ShutQueued
  <2>3. \A s \in Session : s \notin Ended
    BY <2>1 DEF OneThreadInv, LeaveInv, LeavingInv, EraseQueued
  <2>4. map = {}
    BY <2>3 DEF SessionBusy, Ended, map
  <2>5. ~ shutdownLock
    BY <2>2, <2>4 DEF OneThreadInv, FinishInv
  <2> QED
    BY <2>5 DEF EndInv, EndedOnce, Busy
<1>2. LeaveInv /\ PassedInv /\ [ServiceNext]_serviceVars => PassedInv'
  BY PassedStep
<1>3. OneThreadInv => LeaveInv
  BY DEF OneThreadInv
<1> QED
  BY <1>1, <1>2, <1>3, EndInvInit, EndInvStep, OneThreadInit, OneThreadStep,
     PassedInit, PTL DEF ServiceSpec

-----------------------------------------------------------------------------
(* With one thread the shutdown closes all sessions of a client, none of   *)
(* which is in a handshake when it is in map_: the loop reaches every open *)
(* session, and runs the close in the strand of the session at once.       *)

CloseInv ==
    /\ \A s \in Session : stage[s] # "handshake"
    /\ \A s \in Session : s # at => calls[s] = <<>>
    /\ at # None /\ phase = "loop" /\ Running({"shutdown"}) =>
           Head(calls[at]) = "close"
    /\ phase \in {"loop", "checked"} /\ Running({"shutdown"}) =>
           \A s \in Session : stage[s] = "open" => s \in todo \/ s = at
    /\ shutdown => \A s \in Session : stage[s] # "open"

ClientInv ==
    /\ OneThreadInv /\ PassedInv
    /\ "handshake" \notin Stage1
    /\ ~ manyThreads => CloseInv

LEMMA CloseKept ==
    ASSUME LockInv, CloseInv,
           UNCHANGED <<phase, todo, at, stage, calls, shutdown>>,
           queue' = queue \/ \E l \in Lambda : queue' = Append(queue, l)
    PROVE  CloseInv'
<1>1. phase # "wait" /\ Running({"shutdown"})' => Running({"shutdown"})
  BY RunningBack DEF LockInv
<1> QED
  BY <1>1 DEF CloseInv

LEMMA CloseLeave ==
    ASSUME CloseInv, Leave, at = None,
           \A s \in Session : calls'[s] \in {calls[s], <<>>},
           \A s \in Session : stage'[s] # "handshake",
           shutdown' => \A s \in Session : stage'[s] # "open"
    PROVE  CloseInv'
  BY DEF CloseInv, Leave

\* A lambda that ends leaves no session open behind a shutdown.
LEMMA CloseEnds ==
    ASSUME ClientInv, CloseInv,
           \/ ConnectRefused \/ ConnectFails \/ RunErase \/ EraseNothing
           \/ ShutdownEmpty \/ LoopEnd \/ \E s \in Session : Emplace(s)
    PROVE  CloseInv'
<1>0. /\ LockInv /\ stage \in [Session -> Stage]
      /\ "handshake" \notin Stage1
  BY DEF ClientInv, OneThreadInv, LeaveInv, LockInv, ServiceTypeOK
<1>1. Leave /\ at = None
  BY <1>0 DEF ConnectRefused, ConnectFails, RunErase, EraseNothing,
     ShutdownEmpty, LoopEnd, Emplace, Begin, LockInv
<1>7. \A s \in Session : calls'[s] \in {calls[s], <<>>}
  <2>1. CASE RunErase
    BY <1>0, <2>1 DEF RunErase, Outlived, LockInv, ServiceTypeOK
  <2>2. CASE ~ RunErase
    BY <2>2 DEF ConnectRefused, ConnectFails, EraseNothing, ShutdownEmpty,
       LoopEnd, Emplace, sessions
  <2> QED
    BY <2>1, <2>2
<1>2. CASE ConnectRefused \/ ConnectFails \/ EraseNothing
  BY <1>1, <1>2, <1>7, CloseLeave
  DEF ConnectRefused, ConnectFails, EraseNothing, sessions, locks, CloseInv
<1>3. CASE RunErase
  <2>1. /\ shutdown' = shutdown
        /\ \A s \in Session : stage'[s] = stage[s] \/ stage'[s] = "none"
    BY <1>0, <1>3 DEF RunErase, EraseFrom
  <2> QED
    BY <1>1, <1>7, <2>1, CloseLeave DEF CloseInv
<1>4. CASE ShutdownEmpty
  <2>1. stage' = stage /\ \A s \in Session : stage[s] = "none"
    BY <1>4 DEF ShutdownEmpty, sessions, map
  <2> QED
    BY <1>1, <1>7, <2>1, CloseLeave
<1>5. CASE LoopEnd
  <2>1. /\ stage' = stage /\ phase = "loop" /\ todo = {}
        /\ shutdown' = (shutdown \/ Running({"shutdown"}))
    BY <1>5 DEF LoopEnd, sessions
  <2>2. shutdown' => \A s \in Session : stage[s] # "open"
    BY <1>0, <1>1, <2>1, ServiceAssumption DEF CloseInv
  <2> QED
    BY <1>1, <1>7, <2>1, <2>2, CloseLeave DEF CloseInv
<1>6. CASE \E s \in Session : Emplace(s)
  <2>1. PICK s \in Session, x \in Stage1 :
            /\ stage' = [stage EXCEPT ![s] = x]
            /\ phase = "connect" /\ shutdown' = shutdown
    BY <1>6 DEF Emplace, locks
  <2>2. ~ shutdown'
    BY <1>0, <2>1 DEF LockInv
  <2>3. \A t \in Session : stage'[t] # "handshake"
    BY <1>0, <2>1 DEF CloseInv
  <2> QED
    BY <1>1, <1>7, <2>2, <2>3, CloseLeave
<1> QED
  BY <1>2, <1>3, <1>4, <1>5, <1>6

LEMMA CloseLoop ==
    ASSUME ClientInv, CloseInv, ~ manyThreads,
           \/ LoopBegin \/ VisitQueue \/ VisitEnd \/ VisitErases
           \/ \E s \in Session : VisitNot(s) \/ VisitCheck(s)
    PROVE  CloseInv'
<1>0. /\ LockInv /\ FinishInv /\ PassedInv /\ queue \in Seq(Lambda)
      /\ stage \in [Session -> Stage] /\ calls \in [Session -> Seq(Act)]
      /\ None \notin Session
  BY ServiceAssumption
  DEF ClientInv, OneThreadInv, LeaveInv, LockInv, ServiceTypeOK
<1>1. CASE LoopBegin
  <2>1. /\ UNCHANGED <<queue, at, stage, calls, shutdown>> /\ at = None
    BY <1>0, <1>1 DEF LoopBegin, locks, sessions, Begin, LockInv
  <2>2. Running({"shutdown"}) => Head(queue).to = None
    <3> SUFFICES ASSUME Running({"shutdown"})
                 PROVE  Head(queue).to = None
      OBVIOUS
    <3>1. /\ Len(queue) \in Nat /\ Len(queue) # 0 /\ Head(queue) = queue[1]
          /\ Head(queue).kind = "shutdown"
      BY <1>0, HeadTailProperties, LenProperties, EmptySeq DEF Running
    <3> QED
      BY <1>0, <3>1 DEF PassedInv
  <2>3. Running({"shutdown"}) => todo' = map
    BY <1>1, <2>2 DEF LoopBegin
  <2>4. \A s \in Session : stage[s] = "open" => s \in map
    BY DEF map
  <2> QED
    BY <2>1, <2>3, <2>4 DEF CloseInv, Running
<1>2. CASE \E s \in Session : VisitNot(s)
  <2>1. PICK s \in Session : VisitNot(s)
    BY <1>2
  <2>2. /\ UNCHANGED <<queue, phase, at, stage, calls, shutdown>>
        /\ todo' = todo \ {s}
    BY <2>1 DEF VisitNot, locks, sessions
  <2>3. Running({"shutdown"}) => stage[s] # "open"
    BY <2>1 DEF VisitNot, Running, Act, SessionBusy
  <2> QED
    BY <2>2, <2>3 DEF CloseInv, Running
<1>5. CASE \E s \in Session : VisitCheck(s)
  <2>1. PICK s \in Session : VisitCheck(s)
    BY <1>5
  <2>2. /\ UNCHANGED <<queue, stage, calls, shutdown>> /\ todo' = todo \ {s}
        /\ at = None /\ at' = s /\ phase = "loop" /\ phase' = "checked"
    BY <2>1 DEF VisitCheck, locks, sessions
  <2> QED
    BY <1>0, <2>2 DEF CloseInv, Running
<1>3. CASE VisitQueue
  <2> DEFINE c == IF Running({"send"}) THEN "send" ELSE "close"
  <2>1. at \in Session
    BY <1>0, <1>3, VisitQueueTyped
  <2>2. /\ UNCHANGED <<queue, stage, shutdown, todo>> /\ at' = at
        /\ calls[at] = <<>> /\ phase = "checked"
    BY <1>3 DEF VisitQueue, locks
  <2>3. calls' = [calls EXCEPT ![at] = Append(calls[at], c)]
    BY <1>3 DEF VisitQueue
  <2>4. Running({"shutdown"}) => c = "close"
    BY DEF Running
  <2> HIDE DEF c
  <2>5. Head(calls'[at]) = c /\ \A t \in Session : t # at => calls'[t] = calls[t]
    <3>1. calls'[at] = Append(<<>>, c)
      BY <1>0, <2>1, <2>2, <2>3
    <3>2. Head(calls'[at]) = c
      BY <3>1
    <3> QED
      BY <1>0, <2>1, <2>3, <3>2
  <2> QED
    BY <1>0, <2>1, <2>2, <2>4, <2>5 DEF CloseInv, Running
<1>4. CASE VisitEnd \/ VisitErases
  <2>1. /\ at \in Session /\ calls[at] # <<>> /\ at' = None /\ at # None
        /\ phase = "loop"
    BY <1>0, <1>4, AtTyped DEF VisitEnd, VisitErases
  <2>2. VisitEnd
    BY <1>0, <1>4, <2>1 DEF FinishInv, VisitErases
  <2> DEFINE x == After(Head(calls[at]), stage[at])
  <2>3. /\ UNCHANGED <<queue, phase, todo, shutdown>>
        /\ stage' = [stage EXCEPT ![at] = x]
        /\ calls' = [calls EXCEPT ![at] = Tail(calls[at])]
    BY <2>2 DEF VisitEnd, locks
  <2>4. /\ x # "handshake"
        /\ x = "open" => stage[at] = "open"
        /\ Running({"shutdown"}) => x # "open"
    BY <2>1 DEF After, CloseInv
  <2>5. Tail(calls[at]) = <<>>
    BY <1>0, <2>1, SingletonTail DEF LockInv
  <2> HIDE DEF x
  <2>6. /\ \A s \in Session : stage'[s] = IF s = at THEN x ELSE stage[s]
        /\ \A s \in Session : calls'[s] = IF s = at THEN <<>> ELSE calls[s]
    BY <1>0, <2>1, <2>3, <2>5
  <2> QED
    BY <2>1, <2>3, <2>4, <2>6 DEF CloseInv, Running
<1> QED
  BY <1>1, <1>2, <1>3, <1>4, <1>5

\* With one thread a session does not go on beside the strand of the service,
\* and has no call that was left to it.
LEMMA CloseSession ==
    ASSUME ClientInv, CloseInv, ~ manyThreads,
           NEW s \in Session, SessionNext(s)
    PROVE  CloseInv'
<1>0. LockInv /\ stage \in [Session -> Stage] /\ None \notin Session
  BY ServiceAssumption
  DEF ClientInv, OneThreadInv, LeaveInv, LockInv, ServiceTypeOK
<1>1. SessionStep(s)
  BY DEF SessionNext, Accepted, Closes, SessionEnds, Drained, RunCall
<1>2. /\ phase = "wait" /\ phase' = "wait" /\ at = None /\ at' = None
      /\ shutdown' = shutdown
  BY <1>0, <1>1 DEF SessionStep, Beside, LockInv, locks
<1>3. calls[s] = <<>> /\ stage[s] # "handshake"
  BY <1>0, <1>2 DEF CloseInv
<1>4. calls' = calls /\ \E x \in {"closing", "draining", "done"} :
          stage' = [stage EXCEPT ![s] = x]
  BY <1>3 DEF SessionNext, Accepted, Closes, SessionEnds, Drained, RunCall,
     Become
<1>5. \A t \in Session : stage'[t] \in {"open", "handshake"} =>
          stage'[t] = stage[t]
  BY <1>0, <1>4
<1> QED
  BY <1>2, <1>4, <1>5 DEF CloseInv

LEMMA ClientStep ==
    ClientInv /\ [ServiceNext]_serviceVars => ClientInv'
<1> SUFFICES ASSUME ClientInv, [ServiceNext]_serviceVars
             PROVE  ~ manyThreads' => CloseInv'
  BY OneThreadStep, PassedStep DEF ClientInv, OneThreadInv
<1>0. LockInv
  BY DEF ClientInv, OneThreadInv, LeaveInv
<1>1. manyThreads' = manyThreads
  BY CallsDispatch DEF serviceVars, ServiceNext, StrandStep, SessionNext,
     SessionStep, Accepted, Closes, SessionEnds, Drained, RunCall,
     ConnectCheck, ConnectRefused, ConnectFails, RunErase, ShutdownEmpty,
     EraseNothing, LoopBegin, VisitQueue, VisitEnd, VisitErases, LoopEnd,
     Emplace, VisitNot, VisitCheck, RunStale, Leave, outer
<1> SUFFICES ASSUME ~ manyThreads
             PROVE  CloseInv'
  BY <1>1
<1>2. CloseInv
  BY DEF ClientInv
<1>3. CASE UNCHANGED serviceVars
  BY <1>0, <1>2, <1>3, CloseKept DEF serviceVars
<1>4. CASE \/ Connect \/ Shutdown \/ \E act \in Act : CallAll(act)
           \/ \E act \in Act, s \in Session : CallOne(act, s)
  <2>1. /\ \E l \in Lambda : queue' = Append(queue, l)
        /\ UNCHANGED <<phase, todo, at, stage, calls>>
    BY <1>4, CallsDispatch
  <2>2. shutdown' = shutdown
    BY <1>4 DEF Connect, Shutdown, CallAll, CallOne, locks
  <2> QED
    BY <1>0, <1>2, <2>1, <2>2, CloseKept
<1>5. CASE ConnectCheck
  <2>1. /\ phase' = "connect"
        /\ UNCHANGED <<queue, at, stage, calls, shutdown>>
    BY <1>5 DEF ConnectCheck, locks, sessions
  <2> QED
    BY <1>2, <2>1 DEF CloseInv, Running
<1>6. CASE StrandStep /\ ~ ConnectCheck
  BY <1>2, <1>6, CloseEnds, CloseLoop DEF StrandStep
<1>7. CASE \E s \in Session : SessionNext(s)
  BY <1>2, <1>7, CloseSession
<1>8. CASE \E s \in Session : RunStale(s)
  BY <1>0, <1>2, <1>8, CloseKept, RunStaleQueues
<1> QED
  BY <1>3, <1>4, <1>5, <1>6, <1>7, <1>8 DEF ServiceNext

\* "Accept no new sessions, send close to all session": with one thread this
\* is true of a client, whose sessions are open when they are emplaced.
\* Without the assumption it is not: a handshake misses the shutdown.
THEOREM ServiceClosesAll ==
    "handshake" \notin Stage1 =>
        (ServiceSpec => [](~ manyThreads => ShutdownClosesAll))
<1>1. ("handshake" \notin Stage1) /\ ServiceInit => ClientInv
  <2> SUFFICES ASSUME "handshake" \notin Stage1, ServiceInit
               PROVE  CloseInv
    BY OneThreadInit, PassedInit DEF ClientInv
  <2> QED
    BY DEF ServiceInit, CloseInv
<1>2. ClientInv /\ [ServiceNext]_serviceVars => ClientInv'
  BY ClientStep
<1>3. ClientInv => (~ manyThreads => ShutdownClosesAll)
  BY DEF ClientInv, CloseInv, ShutdownClosesAll, map
<1> QED
  BY <1>1, <1>2, <1>3, PTL DEF ServiceSpec
=============================================================================
