------------------------- MODULE HttpSessionsProofs --------------------------
(***************************************************************************)
(* Proofs about http_sessions and its shutdown, for any sessions and any   *)
(* number of connections.                                                  *)
(*                                                                         *)
(* SetInv adds to the properties what they rest on: which of the two locks *)
(* the caller of shutdown() has at which point, that an insertion under    *)
(* way has a lock like a session, that the lambda of the shutdown is still *)
(* queued as long as there is something left for it, and that the erase of *)
(* a session that has ended is.                                            *)
(***************************************************************************)
EXTENDS HttpSessions, SequenceTheorems, TLAPS

\* The lambda of shutdown() is queued.
Shutting == \E i \in 1..Len(queue) : queue[i].kind = "shutdown"

EraseOf(s) == [kind |-> "erase", to |-> s]

\* The lambda of async_erase(s) is queued.
Leaving(s) == \E i \in 1..Len(queue) : queue[i] = EraseOf(s)

\* shutdown_lock_ is empty until shutdown() has moved run_lock_ to it.
CallerInv ==
    /\ caller \in {"idle", "listener", "moved"} => ~ shutdownLock
    /\ caller \notin {"idle", "listener"} => ~ runLock

Held ==
    set # {} \/ inserting => runLock \/ caller = "moved" \/ shutdownLock

\* While the lambda of shutdown() has not run there may be live sessions, and
\* it gives back the lock of an empty set.
ShutInv ==
    caller = "done" /\ ~ Shutting =>
        /\ ~ inserting /\ \A s \in Session : stage[s] # "live"
        /\ set = {} => ~ shutdownLock

LeavingInv == \A s \in Session : stage[s] = "done" => Leaving(s)

SetInv ==
    /\ SetTypeOK
    /\ inserting => Runs("emplace")
    /\ CallerInv
    /\ Held
    /\ ShutInv
    /\ LeavingInv
    /\ lost = 0

-----------------------------------------------------------------------------
(* What the queue does *)

LEMMA LambdasTyped ==
    /\ [kind |-> "emplace", to |-> None] \in Lambda
    /\ [kind |-> "shutdown", to |-> None] \in Lambda
    /\ \A s \in Session : EraseOf(s) \in Lambda
  BY DEF Lambda, EraseOf

\* What is queued stays queued behind a new lambda, ...
LEMMA AppendKeeps ==
    ASSUME queue \in Seq(Lambda), NEW l \in Lambda,
           queue' = Append(queue, l)
    PROVE  /\ queue' \in Seq(Lambda) /\ queue' # <<>>
           /\ \A i \in 1..Len(queue) :
                  i \in 1..Len(queue') /\ queue'[i] = queue[i]
           /\ Len(queue') \in 1..Len(queue') /\ queue'[Len(queue')] = l
           /\ Shutting => Shutting'
           /\ l.kind = "shutdown" => Shutting'
           /\ \A s \in Session : Leaving(s) => Leaving(s)'
           /\ \A s \in Session : l = EraseOf(s) => Leaving(s)'
           /\ \A k : Runs(k) => Runs(k)'
<1>1. /\ queue' \in Seq(Lambda) /\ queue' # <<>>
      /\ Len(queue) \in Nat /\ Len(queue') = Len(queue) + 1
      /\ \A i \in 1..Len(queue) : queue'[i] = queue[i]
      /\ queue'[Len(queue) + 1] = l
  BY AppendProperties, LenProperties
<1>2. /\ \A i \in 1..Len(queue) : i \in 1..Len(queue')
      /\ Len(queue') \in 1..Len(queue') /\ queue'[Len(queue')] = l
  BY <1>1
<1>3. /\ Shutting => Shutting'
      /\ l.kind = "shutdown" => Shutting'
      /\ \A s \in Session : Leaving(s) => Leaving(s)'
      /\ \A s \in Session : l = EraseOf(s) => Leaving(s)'
  BY <1>1, <1>2 DEF Shutting, Leaving, EraseOf
<1>4. \A k : Runs(k) => Runs(k)'
  <2>1. queue # <<>> => Head(queue') = Head(queue)
    BY HeadTailAppend
  <2> QED
    BY <1>1, <2>1 DEF Runs
<1> QED
  BY <1>1, <1>2, <1>3, <1>4

\* ... and when the one that runs ends, all the others do.
LEMMA TailKeeps ==
    ASSUME queue \in Seq(Lambda), queue # <<>>, queue' = Tail(queue)
    PROVE  /\ queue' \in Seq(Lambda)
           /\ Head(queue) \in Lambda
           /\ Head(queue).kind # "shutdown" /\ Shutting => Shutting'
           /\ \A s \in Session :
                  Head(queue) # EraseOf(s) /\ Leaving(s) => Leaving(s)'
<1>1. /\ Len(queue) \in Nat /\ Len(queue) # 0
      /\ queue' \in Seq(Lambda) /\ Len(queue') = Len(queue) - 1
      /\ Head(queue) \in Lambda /\ Head(queue) = queue[1]
      /\ \A i \in 1..Len(queue') : queue'[i] = queue[i + 1]
  BY HeadTailProperties, LenProperties, EmptySeq
<1>2. \A i \in 1..Len(queue) :
          i = 1 \/ (i - 1 \in 1..Len(queue') /\ queue'[i - 1] = queue[i])
  <2> TAKE i \in 1..Len(queue)
  <2>1. i # 1 => i - 1 \in 1..Len(queue') /\ (i - 1) + 1 = i
    BY <1>1
  <2> QED
    BY <1>1, <2>1
<1> QED
  BY <1>1, <1>2 DEF Shutting, Leaving

\* Nothing queued, nothing due.
LEMMA EmptyQueue ==
    ASSUME queue = <<>>
    PROVE  ~ Shutting /\ \A s \in Session : ~ Leaving(s)
  BY EmptySeq DEF Shutting, Leaving

-----------------------------------------------------------------------------
(* SetInv is kept: the listener and the caller of shutdown() *)

LEMMA SetInvInit == SetInit => SetInv
<1> SUFFICES ASSUME SetInit
             PROVE  SetInv
  OBVIOUS
<1>1. SetTypeOK
  <2>1. <<>> \in Seq(Lambda)
    OBVIOUS
  <2>2. stage \in [Session -> Stage]
    BY DEF SetInit, Stage
  <2>3. accepts \in 0..MaxAccept
    BY SetAssumption DEF SetInit
  <2> QED
    BY <2>1, <2>2, <2>3 DEF SetInit, SetTypeOK
<1>2. \A s \in Session : stage[s] = "none"
  BY DEF SetInit
<1> QED
  BY <1>1, <1>2 DEF SetInit, SetInv, CallerInv, Held, ShutInv, LeavingInv, set

\* What looks at the queue only stays true while it does not change.
LEMMA SameQueue ==
    ASSUME SetInv, queue' = queue
    PROVE  /\ Shutting' = Shutting /\ Runs("emplace")' = Runs("emplace")
           /\ \A s \in Session : Leaving(s)' = Leaving(s)
  BY DEF Shutting, Leaving, Runs, EraseOf

LEMMA AcceptKeeps == ASSUME SetInv, Accept PROVE SetInv'
<1> DEFINE l == [kind |-> "emplace", to |-> None]
<1>1. /\ accepts' \in 0..MaxAccept
      /\ accepting' \in {"armed", "bad", "failed", "ended"}
  BY SetAssumption DEF Accept, SetInv, SetTypeOK
<1>2. /\ UNCHANGED <<acceptor, locks, inserting, stage, lost>>
      /\ queue' = Append(queue, l) \/ queue' = queue
  BY DEF Accept
<1>3. l \in Lambda /\ queue \in Seq(Lambda)
  BY LambdasTyped DEF SetInv, SetTypeOK
<1> HIDE DEF l
<1>4. /\ queue' \in Seq(Lambda)
      /\ Shutting => Shutting'
      /\ Runs("emplace") => Runs("emplace")'
      /\ \A s \in Session : Leaving(s) => Leaving(s)'
  BY <1>2, <1>3, AppendKeeps, SameQueue
<1> QED
  BY <1>1, <1>2, <1>4 DEF locks, SetInv, SetTypeOK, CallerInv, Held, ShutInv,
     LeavingInv, set

LEMMA AcceptEndsKeeps ==
    ASSUME SetInv, AcceptEnds \/ AcceptFails PROVE SetInv'
<1>1. /\ accepting' \in {"failed", "ended"}
      /\ UNCHANGED <<acceptor, accepts, locks, strand, stage, lost>>
  BY DEF AcceptEnds, AcceptFails
<1> QED
  BY <1>1, SameQueue DEF strand, locks, SetInv, SetTypeOK, CallerInv, Held,
     ShutInv, LeavingInv, set

LEMMA CallerKeeps ==
    ASSUME SetInv, CloseListener \/ TakeLock \/ StoreLock \/ Terminate
    PROVE  SetInv'
<1>1. UNCHANGED <<accepting, accepts, strand, stage, lost>>
  BY DEF CloseListener, TakeLock, StoreLock, Terminate, listenerVars
<1>2. queue' = queue /\ inserting' = inserting
  BY <1>1 DEF strand
<1>3. /\ Runs("emplace")' = Runs("emplace")
      /\ \A s \in Session : Leaving(s)' = Leaving(s)
  BY <1>2, SameQueue
<1>4. caller' # "done" /\ SetTypeOK'
  BY <1>1, <1>2 DEF SetInv, SetTypeOK, CloseListener, TakeLock, StoreLock,
     Terminate, Goto, listenerVars
<1>5. CallerInv' /\ Held'
  BY <1>1, <1>2 DEF SetInv, SetTypeOK, CallerInv, Held, CloseListener,
     TakeLock, StoreLock, Terminate, Goto, set, Busy
<1> QED
  BY <1>1, <1>2, <1>3, <1>4, <1>5 DEF SetInv, ShutInv, LeavingInv

LEMMA DeferKeeps == ASSUME SetInv, Defer PROVE SetInv'
<1> DEFINE l == [kind |-> "shutdown", to |-> None]
<1>1. l \in Lambda /\ queue \in Seq(Lambda) /\ queue' = Append(queue, l)
  BY LambdasTyped DEF SetInv, SetTypeOK, Defer
<1>2. /\ queue' \in Seq(Lambda) /\ Shutting'
      /\ Runs("emplace") => Runs("emplace")'
      /\ \A s \in Session : Leaving(s) => Leaving(s)'
  BY <1>1, AppendKeeps
<1> QED
  BY <1>2 DEF Defer, Goto, listenerVars, SetInv, SetTypeOK, CallerInv, Held,
     ShutInv, LeavingInv, set

-----------------------------------------------------------------------------
(* SetInv is kept: the strand of the set *)

LEMMA EmplaceCheckKeeps == ASSUME SetInv, EmplaceCheck PROVE SetInv'
<1>1. queue' = queue /\ Runs("emplace") /\ runLock
  BY DEF EmplaceCheck
<1>2. caller \notin {"moved", "stored", "done", "terminated"}
  BY <1>1 DEF SetInv, CallerInv
<1> QED
  BY <1>1, <1>2, SameQueue DEF EmplaceCheck, locks, listenerVars, SetInv,
     SetTypeOK, CallerInv, Held, ShutInv, LeavingInv, set

\* A lambda of another kind than shutdown() ends.
LEMMA LeaveKeeps ==
    ASSUME SetInv, Leave, queue # <<>>, Head(queue).kind # "shutdown",
           stage' \in [Session -> Stage],
           shutdownLock' \in BOOLEAN, shutdownLock' => shutdownLock,
           Held',
           \A s \in Session :
               /\ stage'[s] = "live" => stage[s] = "live" \/ inserting
               /\ stage'[s] = "done" =>
                      stage[s] = "done" /\ Head(queue) # EraseOf(s),
           runLock \/ set' # {} \/ set' = set \/ ~ shutdownLock'
    PROVE  SetInv'
<1>1. queue \in Seq(Lambda) /\ queue' = Tail(queue) /\ inserting' = FALSE
  BY DEF Leave, SetInv, SetTypeOK
<1>2. /\ queue' \in Seq(Lambda)
      /\ Shutting => Shutting'
      /\ \A s \in Session :
             Head(queue) # EraseOf(s) /\ Leaving(s) => Leaving(s)'
  BY <1>1, TailKeeps
<1>3. SetTypeOK'
  BY <1>1, <1>2 DEF Leave, SetInv, SetTypeOK, listenerVars
<1>4. CallerInv'
  BY DEF Leave, SetInv, CallerInv
<1>5. ShutInv'
  <2> SUFFICES ASSUME caller' = "done", ~ Shutting'
               PROVE  /\ \A s \in Session : stage'[s] # "live"
                      /\ set' = {} => ~ shutdownLock'
    BY <1>1 DEF ShutInv
  <2>1. caller = "done" /\ ~ Shutting
    BY <1>2 DEF Leave
  <2>2. ~ inserting /\ \A s \in Session : stage[s] # "live"
    BY <2>1 DEF SetInv, ShutInv
  <2>3. ~ runLock /\ (set = {} => ~ shutdownLock)
    BY <2>1 DEF SetInv, ShutInv, CallerInv
  <2> QED
    BY <2>2, <2>3
<1>6. LeavingInv'
  BY <1>2 DEF SetInv, LeavingInv
<1> QED
  BY <1>1, <1>3, <1>4, <1>5, <1>6 DEF Leave, SetInv

LEMMA EmplaceRefusedKeeps == ASSUME SetInv, EmplaceRefused PROVE SetInv'
<1>1. /\ Leave /\ queue # <<>> /\ Head(queue).kind = "emplace"
      /\ shutdownLock' = shutdownLock /\ stage' = stage
  BY DEF EmplaceRefused, Runs
<1>2. set' = set
  BY <1>1 DEF set
<1>3. Held'
  BY <1>1, <1>2 DEF Leave, SetInv, Held
<1> QED
  BY <1>1, <1>2, <1>3, LeaveKeeps DEF SetInv, SetTypeOK, EraseOf

LEMMA InsertKeeps == ASSUME NEW s \in Session, SetInv, Insert(s) PROVE SetInv'
<1>1. /\ Leave /\ queue # <<>> /\ Head(queue).kind = "emplace"
      /\ shutdownLock' = shutdownLock /\ inserting
      /\ stage' = [stage EXCEPT ![s] = "live"]
  BY DEF Insert, Runs, SetInv
<1>2. stage' \in [Session -> Stage] /\ stage'[s] = "live"
  BY <1>1 DEF SetInv, SetTypeOK, Stage
<1>3. s \in set' /\ Held'
  BY <1>1, <1>2 DEF Leave, SetInv, Held, set
<1>4. \A t \in Session : stage'[t] = "done" => stage[t] = "done"
  BY <1>1 DEF SetInv, SetTypeOK
<1> QED
  BY <1>1, <1>2, <1>3, <1>4, LeaveKeeps DEF SetInv, SetTypeOK, EraseOf

LEMMA InsertFailsKeeps == ASSUME SetInv, InsertFails PROVE SetInv'
<1>1. /\ Leave /\ queue # <<>> /\ Head(queue).kind = "emplace"
      /\ shutdownLock' = (shutdownLock /\ (runLock \/ set # {}))
      /\ inserting /\ stage' = stage
  BY DEF InsertFails, Runs, SetInv
<1>2. set' = set
  BY <1>1 DEF set
<1>3. Held'
  BY <1>1, <1>2 DEF Leave, SetInv, Held
<1>4. shutdownLock' \in BOOLEAN /\ (shutdownLock' => shutdownLock)
  BY <1>1 DEF SetInv, SetTypeOK
<1> QED
  BY <1>1, <1>2, <1>3, <1>4, LeaveKeeps DEF SetInv, SetTypeOK, EraseOf

LEMMA EraseKept == ASSUME SetInv, Erase PROVE SetInv'
<1> DEFINE s == Head(queue).to
<1>1. /\ Leave /\ queue # <<>> /\ Head(queue).kind = "erase"
      /\ shutdownLock' = (shutdownLock /\ (runLock \/ set' # {}))
      /\ stage' = [stage EXCEPT ![s] = "none"]
  BY DEF Erase, Runs
<1>2. Head(queue) \in Lambda
  BY <1>1, HeadTailProperties DEF SetInv, SetTypeOK
<1>3. s \in Session /\ Head(queue) = EraseOf(s)
  BY <1>1, <1>2 DEF Lambda, EraseOf
<1> HIDE DEF s
<1>4. /\ stage' \in [Session -> Stage]
      /\ \A t \in Session : stage'[t] = IF t = s THEN "none" ELSE stage[t]
  BY <1>1, <1>3 DEF SetInv, SetTypeOK, Stage
<1>5. set' \subseteq set
  BY <1>4 DEF set
<1>6. ~ inserting /\ inserting' = FALSE
  BY <1>1 DEF SetInv, Runs, Leave
<1>7. Held'
  BY <1>1, <1>5, <1>6 DEF Leave, SetInv, Held
<1>8. shutdownLock' \in BOOLEAN /\ (shutdownLock' => shutdownLock)
  BY <1>1 DEF SetInv, SetTypeOK
<1>9. \A t \in Session : t # s => EraseOf(t) # EraseOf(s)
  BY DEF EraseOf
<1> QED
  BY <1>1, <1>3, <1>4, <1>7, <1>8, <1>9, LeaveKeeps

\* The lambda of shutdown() leaves no live session, and no lock if there is
\* none at all.
LEMMA RunShutdownKeeps == ASSUME SetInv, RunShutdown PROVE SetInv'
<1>1. /\ Leave /\ queue # <<>> /\ Head(queue).kind = "shutdown"
      /\ shutdownLock' = (shutdownLock /\ set # {})
      /\ stage' = [s \in Session |->
                      IF stage[s] = "live" THEN "shut" ELSE stage[s]]
  BY DEF RunShutdown, Runs
<1>2. /\ stage' \in [Session -> Stage] /\ set' = set
      /\ \A s \in Session : stage'[s] # "live"
      /\ \A s \in Session : stage'[s] = "done" => stage[s] = "done"
  BY <1>1 DEF SetInv, SetTypeOK, Stage, set
<1>3. queue \in Seq(Lambda) /\ queue' = Tail(queue) /\ inserting' = FALSE
  BY <1>1 DEF Leave, SetInv, SetTypeOK
<1>4. /\ queue' \in Seq(Lambda)
      /\ \A s \in Session :
             Head(queue) # EraseOf(s) /\ Leaving(s) => Leaving(s)'
  BY <1>1, <1>3, TailKeeps
<1>5. \A s \in Session : Head(queue) # EraseOf(s)
  BY <1>1 DEF EraseOf
<1>6. SetTypeOK' /\ LeavingInv'
  BY <1>1, <1>2, <1>3, <1>4, <1>5
  DEF Leave, SetInv, SetTypeOK, LeavingInv, listenerVars
<1> QED
  BY <1>1, <1>2, <1>3, <1>6
  DEF Leave, SetInv, SetTypeOK, CallerInv, Held, ShutInv

-----------------------------------------------------------------------------
(* SetInv is kept: the sessions *)

LEMMA MoveKeeps == ASSUME NEW s \in Session, SetInv, Move(s) PROVE SetInv'
<1>1. /\ stage' \in [Session -> Stage] /\ queue' = queue
      /\ \A t \in Session :
             /\ stage'[t] = "live" => stage[t] = "live"
             /\ stage'[t] = "done" => stage[t] = "done"
             /\ stage'[t] = "none" <=> stage[t] = "none"
  BY DEF Move, SetInv, SetTypeOK, Stage, strand
<1>2. set' = set
  BY <1>1 DEF set
<1> QED
  BY <1>1, <1>2, SameQueue DEF Move, locks, strand, listenerVars, SetInv,
     SetTypeOK, CallerInv, Held, ShutInv, LeavingInv

LEMMA SessionEndsKeeps ==
    ASSUME NEW s \in Session, SetInv, SessionEnds(s) PROVE SetInv'
<1>1. /\ stage' \in [Session -> Stage] /\ stage[s] \in Alive
      /\ \A t \in Session : stage'[t] = IF t = s THEN "done" ELSE stage[t]
  BY DEF SessionEnds, SetInv, SetTypeOK, Stage
<1>2. set' = set /\ s \in set
  BY <1>1 DEF set, Alive
<1>3. Busy
  BY <1>2 DEF SetInv, Held, Busy
<1>4. queue' = Append(queue, EraseOf(s)) /\ lost' = lost
  BY <1>3 DEF SessionEnds, EraseOf
<1>5. /\ queue \in Seq(Lambda) /\ EraseOf(s) \in Lambda
  BY LambdasTyped DEF SetInv, SetTypeOK
<1>6. /\ queue' \in Seq(Lambda)
      /\ Shutting => Shutting'
      /\ \A t \in Session : Leaving(t) => Leaving(t)'
      /\ Leaving(s)'
      /\ Runs("emplace") => Runs("emplace")'
  BY <1>4, <1>5, AppendKeeps
<1> QED
  BY <1>1, <1>2, <1>4, <1>6 DEF SessionEnds, locks, listenerVars, SetInv,
     SetTypeOK, CallerInv, Held, ShutInv, LeavingInv

LEMMA SetInvStep == SetInv /\ [SetNext]_setVars => SetInv'
<1> SUFFICES ASSUME SetInv, [SetNext]_setVars
             PROVE  SetInv'
  OBVIOUS
<1>1. CASE UNCHANGED setVars
  BY <1>1, SameQueue DEF setVars, SetInv, SetTypeOK, CallerInv, Held, ShutInv,
     LeavingInv, set
<1>2. CASE Accept \/ AcceptEnds \/ AcceptFails
  BY <1>2, AcceptKeeps, AcceptEndsKeeps
<1>3. CASE CloseListener \/ TakeLock \/ StoreLock \/ Defer \/ Terminate
  BY <1>3, CallerKeeps, DeferKeeps
<1>4. CASE SetStrand
  BY <1>4, EmplaceCheckKeeps, EmplaceRefusedKeeps, InsertFailsKeeps,
     InsertKeeps, EraseKept, RunShutdownKeeps DEF SetStrand
<1>5. CASE \E s \in Session : Move(s) \/ SessionEnds(s)
  BY <1>5, MoveKeeps, SessionEndsKeeps
<1> QED
  BY <1>1, <1>2, <1>3, <1>4, <1>5 DEF SetNext

-----------------------------------------------------------------------------
(* What follows from SetInv *)

LEMMA SetInvImplies ==
    ASSUME SetInv
    PROVE  SetTypeOK /\ EraseNeverRefused /\ ShutdownShutsAll /\ LockGivenBack
<1>1. EraseNeverRefused
  BY DEF SetInv, Held, EraseNeverRefused
<1>2. DOMAIN queue = 1..Len(queue)
  BY LenProperties DEF SetInv, SetTypeOK
<1>3. ShutdownShutsAll
  BY <1>2 DEF SetInv, ShutInv, Shutting, ShutdownShutsAll
<1>4. LockGivenBack
  BY EmptyQueue DEF SetInv, ShutInv, LockGivenBack
<1> QED
  BY <1>1, <1>3, <1>4 DEF SetInv

\* The set by itself: whatever shutdown() meets, no async_erase() of a session
\* is refused, all sessions are shut, and the lock is given back.
THEOREM SetSafe ==
    SetSpec => [](EraseNeverRefused /\ ShutdownShutsAll /\ LockGivenBack)
<1>1. SetInv => EraseNeverRefused /\ ShutdownShutsAll /\ LockGivenBack
  BY SetInvImplies
<1> QED
  BY <1>1, SetInvInit, SetInvStep, PTL DEF SetSpec

\* A session that has ended leaves the set: its lambda of async_erase() is
\* queued from then on until it has run, whatever else is queued or refused.
THEOREM SetLeaves == SetSpec => []LeavingInv
<1>1. SetInv => LeavingInv
  BY DEF SetInv
<1> QED
  BY <1>1, SetInvInit, SetInvStep, PTL DEF SetSpec

-----------------------------------------------------------------------------
(* The std::terminate() in shutdown() *)

\* Before the first connection there is nothing but shutdown() itself.
NoConnection ==
    accepts = 0 =>
        /\ set = {}
        /\ \A i \in 1..Len(queue) : queue[i].kind = "shutdown"
        /\ caller # "done" => queue = <<>>
        /\ caller = "stored" => shutdownLock

ThrowInv ==
    caller = "terminated" => set = {} /\ ~ Busy /\ accepts > 0

ThrowsInv == SetInv /\ NoConnection /\ ThrowInv

LEMMA ThrowsInit == SetInit => ThrowsInv
<1> SUFFICES ASSUME SetInit
             PROVE  NoConnection /\ ThrowInv
  BY SetInvInit DEF ThrowsInv
<1>1. set = {} /\ queue = <<>> /\ caller = "idle"
  BY DEF SetInit, set
<1>2. \A i \in 1..Len(queue) : FALSE
  BY <1>1
<1> QED
  BY <1>1, <1>2 DEF NoConnection, ThrowInv

\* The lambda that runs before the first connection is that of shutdown().
LEMMA OnlyShutdownRuns ==
    ASSUME ThrowsInv, accepts = 0, NEW k, Runs(k) \/ inserting
    PROVE  Runs("shutdown") /\ ~ inserting /\ caller = "done"
<1>1. queue # <<>>
  BY DEF ThrowsInv, SetInv, Runs
<1>2. Head(queue) = queue[1] /\ 1 \in 1..Len(queue)
  BY <1>1, LenProperties, EmptySeq DEF ThrowsInv, SetInv, SetTypeOK
<1>3. Runs("shutdown") /\ caller = "done"
  BY <1>1, <1>2 DEF ThrowsInv, NoConnection, Runs
<1> QED
  BY <1>3 DEF ThrowsInv, SetInv, Runs

LEMMA NoConnectionStep ==
    ASSUME ThrowsInv, [SetNext]_setVars PROVE NoConnection'
<1> SUFFICES ASSUME accepts' = 0
             PROVE  /\ set' = {}
                    /\ \A i \in 1..Len(queue') : queue'[i].kind = "shutdown"
                    /\ caller' # "done" => queue' = <<>>
                    /\ caller' = "stored" => shutdownLock'
  BY DEF NoConnection
<1>1. accepts = 0 /\ ~ Accept
  <2>1. accepts \in Nat
    BY SetAssumption DEF ThrowsInv, SetInv, SetTypeOK
  <2>2. ~ Accept
    BY <2>1 DEF Accept
  <2>3. accepts' = accepts
    BY <2>2 DEF setVars, SetNext, AcceptEnds, AcceptFails, CloseListener,
       TakeLock, StoreLock, Defer, Terminate, SetStrand, EmplaceCheck,
       EmplaceRefused, InsertFails, Erase, RunShutdown, Insert, Leave, Move,
       SessionEnds, listenerVars
  <2> QED
    BY <2>2, <2>3
<1>2. /\ set = {} /\ queue \in Seq(Lambda)
      /\ \A s \in Session : stage[s] = "none"
      /\ \A i \in 1..Len(queue) : queue[i].kind = "shutdown"
      /\ caller # "done" => queue = <<>>
      /\ caller = "stored" => shutdownLock
  BY <1>1 DEF ThrowsInv, SetInv, SetTypeOK, NoConnection, set
<1>3. CASE UNCHANGED setVars \/ AcceptEnds \/ AcceptFails
           \/ CloseListener \/ TakeLock \/ StoreLock \/ Terminate
  <2>1. /\ queue' = queue /\ stage' = stage
        /\ caller = "done" => caller' = "done"
    BY <1>3 DEF setVars, AcceptEnds, AcceptFails, CloseListener, TakeLock,
       StoreLock, Terminate, Goto, locks, strand
  <2>2. caller' = "stored" => shutdownLock'
    BY <1>2, <1>3 DEF setVars, AcceptEnds, AcceptFails, CloseListener,
       TakeLock, StoreLock, Terminate, Goto, locks
  <2>3. set' = {}
    BY <1>2, <2>1 DEF set
  <2> QED
    BY <1>2, <2>1, <2>2, <2>3
<1>4. CASE Defer
  <2>1. /\ queue = <<>> /\ UNCHANGED stage /\ caller' = "done"
        /\ queue' = Append(queue, [kind |-> "shutdown", to |-> None])
    BY <1>2, <1>4 DEF Defer, Goto
  <2>2. queue' = <<[kind |-> "shutdown", to |-> None]>>
    BY <2>1
  <2>3. \A i \in 1..Len(queue') : queue'[i].kind = "shutdown"
    BY <2>2
  <2> QED
    BY <1>2, <2>1, <2>3 DEF set
<1>5. CASE SetStrand
  <2>1. RunShutdown
    BY <1>1, <1>5, OnlyShutdownRuns DEF SetStrand, EmplaceCheck,
       EmplaceRefused, InsertFails, Erase, Insert, Runs
  <2>2. /\ queue' = Tail(queue) /\ queue # <<>> /\ caller' = "done"
        /\ stage' = [s \in Session |->
                        IF stage[s] = "live" THEN "shut" ELSE stage[s]]
    BY <1>1, <2>1, OnlyShutdownRuns DEF RunShutdown, Leave, Runs
  <2>3. \A i \in 1..Len(queue') : queue'[i].kind = "shutdown"
    <3>1. /\ Len(queue) \in Nat /\ Len(queue') = Len(queue) - 1
          /\ \A i \in 1..Len(queue') : queue'[i] = queue[i + 1]
      BY <1>2, <2>2, HeadTailProperties, LenProperties
    <3>2. \A i \in 1..Len(queue') : i + 1 \in 1..Len(queue)
      BY <3>1
    <3> QED
      BY <1>2, <3>1, <3>2
  <2> QED
    BY <1>2, <2>2, <2>3 DEF set
<1>6. CASE \E s \in Session : Move(s) \/ SessionEnds(s)
  BY <1>2, <1>6 DEF Move, SessionEnds, Alive
<1> QED
  BY <1>1, <1>3, <1>4, <1>5, <1>6 DEF SetNext

LEMMA ThrowStep == ASSUME ThrowsInv, [SetNext]_setVars PROVE ThrowInv'
<1> SUFFICES ASSUME caller' = "terminated"
             PROVE  set' = {} /\ ~ Busy' /\ accepts' > 0
  BY DEF ThrowInv
<1>1. CASE Terminate
  <2>1. ~ Busy /\ caller = "stored" /\ UNCHANGED <<accepts, stage>> /\ ~ Busy'
    BY <1>1 DEF Terminate, Goto, listenerVars, strand, Busy
  <2>2. set = {} /\ accepts > 0
    BY <2>1 DEF ThrowsInv, SetInv, SetTypeOK, Held, NoConnection, Busy
  <2> QED
    BY <2>1, <2>2 DEF set
<1>2. CASE ~ Terminate
  <2>1. caller = "terminated"
    BY <1>2 DEF setVars, SetNext, Accept, AcceptEnds, AcceptFails,
       CloseListener, TakeLock, StoreLock, Defer, Goto, SetStrand,
       EmplaceCheck, EmplaceRefused, InsertFails, Erase, RunShutdown,
       Insert, Leave, Move, SessionEnds, locks
  <2>2. /\ \A s \in Session : stage[s] = "none"
        /\ ~ Busy /\ queue = <<>> /\ ~ inserting /\ accepts > 0
    BY <2>1 DEF ThrowsInv, SetInv, ThrowInv, Runs, Busy, set
  <2>3. CASE UNCHANGED setVars \/ Accept \/ AcceptEnds \/ AcceptFails
    <3>1. /\ UNCHANGED <<stage, queue, locks>>
          /\ accepts' \in {accepts, accepts + 1}
      BY <2>2, <2>3 DEF setVars, Accept, AcceptEnds, AcceptFails, strand, locks
    <3> QED
      BY <2>2, <3>1 DEF locks, Busy, set, ThrowsInv, SetInv, SetTypeOK
  <2>4. ~ SetStrand /\ ~ \E s \in Session : Move(s) \/ SessionEnds(s)
    BY <2>2 DEF SetStrand, EmplaceCheck, EmplaceRefused, InsertFails, Erase,
       RunShutdown, Insert, Runs, Move, SessionEnds, Alive
  <2> QED
    BY <1>2, <2>1, <2>3, <2>4
    DEF SetNext, CloseListener, TakeLock, StoreLock, Defer, Goto
<1> QED
  BY <1>1, <1>2

\* When shutdown() ends the program, because make_lock() throws in a function
\* that is noexcept, the set is empty and no lambda is left that would use
\* it, and there has been a connection: a server without one never does.
THEOREM SetThrowsIdle ==
    SetSpec => [](~ ShutdownNoThrow => set = {} /\ ~ Busy /\ accepts > 0)
<1>1. ThrowsInv /\ [SetNext]_setVars => ThrowsInv'
  BY NoConnectionStep, ThrowStep, SetInvStep DEF ThrowsInv
<1>2. ThrowsInv => (~ ShutdownNoThrow => set = {} /\ ~ Busy /\ accepts > 0)
  BY DEF ThrowsInv, ThrowInv, ShutdownNoThrow
<1> QED
  BY <1>1, <1>2, ThrowsInit, PTL DEF SetSpec
=============================================================================
