----------------------- MODULE WsServiceHandlerProofs ------------------------
(***************************************************************************)
(* Proofs about ws_service_handler, for any names and any number of calls. *)
(*                                                                         *)
(* HandlerInv is inductive: the lambda of a callback, which holds an       *)
(* iterator, belongs to a service that has ended and is the only one for   *)
(* it, and the lambda of the shutdown is queued only after run_lock_ has   *)
(* been moved. LeavingInv is the converse for the time before the lambda   *)
(* of the shutdown: a service that has ended has its lambda.               *)
(***************************************************************************)
EXTENDS WsServiceHandler, SequenceTheorems, TLAPS

OpenInv ==
    runLock => /\ ~ shutdown
               /\ \A i \in DOMAIN queue : queue[i].kind # "shutdown"

HandlerInv ==
    /\ HandlerTypeOK
    /\ IteratorValid
    /\ FinishedWithoutServices
    /\ OpenInv

-----------------------------------------------------------------------------
(* What the queue does *)

\* A new lambda comes last, ...
LEMMA AppendLambda ==
    ASSUME queue \in Seq(Lambda), NEW l \in Lambda,
           queue' = Append(queue, l)
    PROVE  /\ queue' \in Seq(Lambda)
           /\ \A i \in DOMAIN queue : queue'[i] = queue[i]
           /\ \E k : /\ k \notin DOMAIN queue /\ queue'[k] = l
                     /\ DOMAIN queue' = DOMAIN queue \cup {k}
<1>1. /\ queue' \in Seq(Lambda) /\ Len(queue) \in Nat
      /\ Len(queue') = Len(queue) + 1
      /\ \A i \in 1..Len(queue) : queue'[i] = queue[i]
      /\ queue'[Len(queue) + 1] = l
      /\ DOMAIN queue = 1..Len(queue) /\ DOMAIN queue' = 1..Len(queue')
  BY AppendProperties, LenProperties
<1>2. /\ Len(queue) + 1 \notin DOMAIN queue
      /\ DOMAIN queue' = DOMAIN queue \cup {Len(queue) + 1}
  BY <1>1
<1> QED
  BY <1>1, <1>2

\* ... and the one that runs was the first one.
LEMMA TailLambda ==
    ASSUME queue \in Seq(Lambda), queue # <<>>, queue' = Tail(queue)
    PROVE  /\ queue' \in Seq(Lambda)
           /\ Head(queue) = queue[1] /\ 1 \in DOMAIN queue
           /\ Head(queue) \in Lambda
           /\ \A i \in DOMAIN queue' :
                  /\ i + 1 \in DOMAIN queue /\ i + 1 # 1
                  /\ queue'[i] = queue[i + 1]
           /\ \A i, j \in DOMAIN queue' : i + 1 = j + 1 => i = j
<1>1. /\ Len(queue) \in Nat /\ Len(queue) # 0
      /\ queue' \in Seq(Lambda) /\ Len(queue') = Len(queue) - 1
      /\ Head(queue) \in Lambda /\ Head(queue) = queue[1]
      /\ \A i \in 1..Len(queue') : queue'[i] = queue[i + 1]
      /\ DOMAIN queue = 1..Len(queue) /\ DOMAIN queue' = 1..Len(queue')
  BY HeadTailProperties, LenProperties, EmptySeq
<1> QED
  BY <1>1

LEMMA LambdaTyped ==
    /\ \A l \in Lambda : l.kind # "shutdown" => l.to \in Name
    /\ \A k \in Call \cup {"erased"}, n \in Name :
           [kind |-> k, to |-> n] \in Lambda
    /\ [kind |-> "shutdown", to |-> None] \in Lambda
  BY DEF Lambda, Call

\* IteratorValid while the strand does not run: what is added is no lambda of
\* a callback, or the first one for a service that has ended.
LEMMA IteratorAppend ==
    ASSUME HandlerInv, NEW l \in Lambda, queue' = Append(queue, l),
           \A n \in Name : life[n] = "ended" => life'[n] = "ended",
           l.kind = "erased" =>
               /\ life'[l.to] = "ended"
               /\ life[l.to] # "ended"
    PROVE  IteratorValid'
<1>1. PICK k : /\ k \notin DOMAIN queue /\ queue'[k] = l
               /\ DOMAIN queue' = DOMAIN queue \cup {k}
  BY AppendLambda DEF HandlerInv, HandlerTypeOK
<1>2. \A i \in DOMAIN queue : queue'[i] = queue[i] /\ queue[i] \in Lambda
  BY AppendLambda, ElementOfSeq, LenProperties DEF HandlerInv, HandlerTypeOK
<1>3. ASSUME NEW i \in DOMAIN queue, queue[i].kind = "erased"
      PROVE  /\ life[queue[i].to] = "ended" /\ life'[queue[i].to] = "ended"
             /\ l.kind = "erased" => l.to # queue[i].to
  BY <1>2, <1>3, LambdaTyped DEF HandlerInv, IteratorValid
<1>4. ASSUME NEW i \in DOMAIN queue', queue'[i].kind = "erased"
      PROVE  life'[queue'[i].to] = "ended"
  BY <1>1, <1>2, <1>3, <1>4
<1>5. ASSUME NEW i \in DOMAIN queue', NEW j \in DOMAIN queue',
             queue'[i].kind = "erased", queue'[j].kind = "erased",
             queue'[j].to = queue'[i].to
      PROVE  j = i
  <2>1. CASE i \in DOMAIN queue /\ j \in DOMAIN queue
    BY <1>2, <1>5, <2>1 DEF HandlerInv, IteratorValid
  <2>2. CASE i = k \/ j = k
    BY <1>1, <1>2, <1>3, <1>5, <2>2
  <2> QED
    BY <1>1, <2>1, <2>2
<1> QED
  BY <1>4, <1>5 DEF IteratorValid

\* IteratorValid when a lambda has run: the service of the others is left.
LEMMA IteratorTail ==
    ASSUME HandlerInv, queue # <<>>, queue' = Tail(queue),
           \A n \in Name :
               life[n] = "ended" =>
                   \/ life'[n] = "ended"
                   \/ Runs("erased") /\ n = Head(queue).to
    PROVE  IteratorValid'
<1>1. /\ Head(queue) = queue[1] /\ 1 \in DOMAIN queue
      /\ \A i \in DOMAIN queue' :
             /\ i + 1 \in DOMAIN queue /\ i + 1 # 1
             /\ queue'[i] = queue[i + 1]
      /\ \A i, j \in DOMAIN queue' : i + 1 = j + 1 => i = j
  BY TailLambda DEF HandlerInv, HandlerTypeOK
<1>2. \A i \in DOMAIN queue : queue[i] \in Lambda
  BY ElementOfSeq, LenProperties DEF HandlerInv, HandlerTypeOK
<1>3. ASSUME NEW i \in DOMAIN queue', queue'[i].kind = "erased"
      PROVE  life'[queue'[i].to] = "ended"
  <2>1. /\ i + 1 \in DOMAIN queue /\ i + 1 # 1
        /\ queue[i + 1].kind = "erased" /\ queue'[i] = queue[i + 1]
    BY <1>1, <1>3
  <2>2. queue[i + 1].to \in Name /\ life[queue[i + 1].to] = "ended"
    BY <1>2, <2>1, LambdaTyped DEF HandlerInv, IteratorValid
  <2>3. Runs("erased") => queue[i + 1].to # Head(queue).to
    BY <1>1, <2>1 DEF Runs, HandlerInv, IteratorValid
  <2> QED
    BY <2>1, <2>2, <2>3
<1>4. ASSUME NEW i \in DOMAIN queue', NEW j \in DOMAIN queue',
             queue'[i].kind = "erased", queue'[j].kind = "erased",
             queue'[j].to = queue'[i].to
      PROVE  j = i
  <2>1. i + 1 \in DOMAIN queue /\ j + 1 \in DOMAIN queue
    BY <1>1
  <2>2. i + 1 = j + 1
    BY <1>1, <1>4, <2>1 DEF HandlerInv, IteratorValid
  <2> QED
    BY <1>1, <2>2
<1> QED
  BY <1>3, <1>4 DEF IteratorValid

\* OpenInv when a lambda is added or has run.
LEMMA OpenKept ==
    ASSUME HandlerInv, shutdown' = shutdown \/ ~ runLock',
           runLock' => runLock,
           \/ queue' = queue
           \/ queue # <<>> /\ queue' = Tail(queue)
           \/ \E l \in Lambda : /\ queue' = Append(queue, l)
                                /\ l.kind # "shutdown" \/ ~ runLock'
    PROVE  OpenInv'
<1> SUFFICES ASSUME runLock'
             PROVE  /\ ~ shutdown'
                    /\ \A i \in DOMAIN queue' : queue'[i].kind # "shutdown"
  BY DEF OpenInv
<1>1. /\ ~ shutdown' /\ queue \in Seq(Lambda)
      /\ \A i \in DOMAIN queue : queue[i].kind # "shutdown"
  BY DEF HandlerInv, OpenInv, HandlerTypeOK
<1>2. CASE queue' = queue
  BY <1>1, <1>2
<1>3. CASE queue # <<>> /\ queue' = Tail(queue)
  BY <1>1, <1>3, TailLambda
<1>4. CASE \E l \in Lambda : /\ queue' = Append(queue, l)
                             /\ l.kind # "shutdown"
  BY <1>1, <1>4, AppendLambda
<1> QED
  BY <1>2, <1>3, <1>4

-----------------------------------------------------------------------------
(* HandlerInv is kept *)

LEMMA HandlerInvInit == HandlerInit => HandlerInv
<1> SUFFICES ASSUME HandlerInit
             PROVE  HandlerInv
  OBVIOUS
<1>1. HandlerTypeOK
  <2>1. <<>> \in Seq(Lambda)
    OBVIOUS
  <2>2. calls \in 0..MaxCall /\ life \in [Name -> Life]
    BY HandlerAssumption DEF HandlerInit, Life
  <2> QED
    BY <2>1, <2>2 DEF HandlerInit, HandlerTypeOK
<1>2. DOMAIN queue = {}
  BY EmptySeq DEF HandlerInit
<1> QED
  BY <1>1, <1>2
  DEF HandlerInit, HandlerInv, IteratorValid, FinishedWithoutServices, OpenInv

LEMMA FinishTyped ==
    ASSUME HandlerTypeOK, NEW called \in BOOLEAN, Finish(called)
    PROVE  /\ shutdownLock' \in BOOLEAN /\ repeated' \in Nat
           /\ called => ~ shutdownLock'
<1>1. shutdownLock' \in BOOLEAN /\ (called => ~ shutdownLock')
  BY Zenon DEF Finish
<1>2. repeated' = repeated \/ repeated' = repeated + 1
  BY Zenon DEF Finish
<1>3. repeated' \in Nat
  BY <1>2 DEF HandlerTypeOK
<1> QED
  BY <1>1, <1>3

LEMMA CallKeeps ==
    ASSUME HandlerInv, NEW k \in Call, NEW n \in Name, CallIt(k, n)
    PROVE  HandlerInv'
<1> DEFINE l == [kind |-> k, to |-> n]
<1>1. /\ queue' = Append(queue, l) /\ l \in Lambda
      /\ l.kind # "erased" /\ l.kind # "shutdown"
      /\ UNCHANGED <<runLock, shutdownLock, shutdown, life, told, repeated>>
      /\ calls' \in 0..MaxCall
  BY LambdaTyped, HandlerAssumption
  DEF CallIt, Dispatch, locks, Call, HandlerInv, HandlerTypeOK
<1>2. IteratorValid'
  <2> HIDE DEF l
  <2> QED
    BY <1>1, IteratorAppend
<1>3. OpenInv'
  <2> HIDE DEF l
  <2> QED
    BY <1>1, OpenKept
<1>4. HandlerTypeOK'
  <2>1. queue' \in Seq(Lambda)
    BY <1>1, AppendLambda DEF HandlerInv, HandlerTypeOK
  <2> QED
    BY <1>1, <2>1 DEF HandlerInv, HandlerTypeOK
<1>5. FinishedWithoutServices'
  BY <1>1 DEF HandlerInv, FinishedWithoutServices, services
<1> QED
  BY <1>2, <1>3, <1>4, <1>5 DEF HandlerInv

LEMMA ShutdownKeeps == ASSUME HandlerInv, Shutdown PROVE HandlerInv'
<1> DEFINE l == [kind |-> "shutdown", to |-> None]
<1>1. /\ queue' = Append(queue, l) /\ l \in Lambda /\ l.kind = "shutdown"
      /\ runLock' = FALSE /\ shutdownLock' = TRUE
      /\ UNCHANGED <<shutdown, life, told, calls, repeated>>
  BY LambdaTyped DEF Shutdown, Dispatch
<1>2. IteratorValid'
  <2> HIDE DEF l
  <2> QED
    BY <1>1, IteratorAppend
<1>3. OpenInv'
  BY <1>1 DEF OpenInv
<1>4. HandlerTypeOK'
  <2>1. queue' \in Seq(Lambda)
    BY <1>1, AppendLambda DEF HandlerInv, HandlerTypeOK
  <2> QED
    BY <1>1, <2>1 DEF HandlerInv, HandlerTypeOK
<1>5. FinishedWithoutServices'
  BY <1>1 DEF Shutdown, HandlerInv, OpenInv, FinishedWithoutServices
<1> QED
  BY <1>2, <1>3, <1>4, <1>5 DEF HandlerInv

\* Every lambda of the strand leaves the queue to the others, and an ended
\* service alone unless it is its own.
LEMMA StrandKeeps == ASSUME HandlerInv, HandlerStrand PROVE HandlerInv'
<1>0. /\ queue # <<>> /\ queue' = Tail(queue)
      /\ UNCHANGED <<runLock, calls>>
  BY DEF HandlerStrand, Add, Erase, Connect, Erased, RunShutdown, Runs, Leave
<1>1. /\ queue' \in Seq(Lambda) /\ Head(queue) \in Lambda
      /\ Head(queue).kind # "shutdown" => Head(queue).to \in Name
      /\ Head(queue) = queue[1] /\ 1 \in DOMAIN queue
  BY <1>0, TailLambda, LambdaTyped DEF HandlerInv, HandlerTypeOK
<1>2. CASE Add
  <2>1. /\ Head(queue).to \in Name
        /\ UNCHANGED <<shutdownLock, shutdown, told, repeated>>
    BY <1>1, <1>2 DEF Add, Runs
  <2>2. /\ life' \in [Name -> Life] /\ services \subseteq services'
        /\ \A n \in Name : life[n] = "ended" => life'[n] = "ended"
    BY <1>2, <2>1 DEF Add, HandlerInv, HandlerTypeOK, Life, services
  <2>3. IteratorValid' /\ OpenInv'
    BY <1>0, <2>1, <2>2, IteratorTail, OpenKept
  <2> QED
    BY <1>0, <1>1, <2>1, <2>2, <2>3
    DEF HandlerInv, HandlerTypeOK, FinishedWithoutServices
<1>3. CASE Erase
  <2>1. /\ Head(queue).to \in Name
        /\ UNCHANGED <<shutdownLock, shutdown, repeated>>
    BY <1>1, <1>3 DEF Erase, Runs
  <2>2. /\ life' \in [Name -> Life] /\ told' \in SUBSET Name
        /\ services = services'
        /\ \A n \in Name : life[n] = "ended" => life'[n] = "ended"
    BY <1>3, <2>1 DEF Erase, HandlerInv, HandlerTypeOK, Life, services
  <2>3. IteratorValid' /\ OpenInv'
    BY <1>0, <2>1, <2>2, IteratorTail, OpenKept
  <2> QED
    BY <1>0, <1>1, <2>1, <2>2, <2>3
    DEF HandlerInv, HandlerTypeOK, FinishedWithoutServices
<1>4. CASE Connect
  <2>1. UNCHANGED <<shutdownLock, shutdown, life, told, repeated>>
    BY <1>4 DEF Connect, locks
  <2>2. IteratorValid' /\ OpenInv'
    BY <1>0, <2>1, IteratorTail, OpenKept
  <2> QED
    BY <1>0, <1>1, <2>1, <2>2
    DEF HandlerInv, HandlerTypeOK, FinishedWithoutServices, services
<1>5. CASE Erased
  <2>1. /\ Runs("erased") /\ Head(queue).to \in Name
        /\ shutdown' = shutdown
        /\ life' = [life EXCEPT ![Head(queue).to] = "none"]
        /\ told' = told \ {Head(queue).to}
    BY <1>1, <1>5 DEF Erased, Runs
  <2>2. /\ life' \in [Name -> Life] /\ told' \in SUBSET Name
        /\ \A n \in Name :
               life[n] = "ended" => life'[n] = "ended" \/ n = Head(queue).to
    BY <2>1 DEF HandlerInv, HandlerTypeOK, Life
  <2>3. IteratorValid' /\ OpenInv'
    BY <1>0, <2>1, <2>2, IteratorTail, OpenKept
  <2>4. /\ shutdownLock' \in BOOLEAN /\ repeated' \in Nat
        /\ shutdown /\ services' = {} => ~ shutdownLock'
    <3>1. (services' = {} /\ shutdown) \in BOOLEAN
      OBVIOUS
    <3> QED
      BY <1>5, <3>1, FinishTyped DEF Erased, HandlerInv
  <2> QED
    BY <1>0, <1>1, <2>1, <2>2, <2>3, <2>4
    DEF HandlerInv, HandlerTypeOK, FinishedWithoutServices
<1>6. CASE RunShutdown
  <2>1. /\ Runs("shutdown") /\ shutdown' = TRUE /\ told' = told
        /\ life' = [n \in Name |->
                       IF life[n] = "running" THEN "closing" ELSE life[n]]
    BY <1>6 DEF RunShutdown
  <2>2. /\ life' \in [Name -> Life] /\ services' = services
        /\ \A n \in Name : life[n] = "ended" => life'[n] = "ended"
    BY <2>1 DEF HandlerInv, HandlerTypeOK, Life, services
  <2>3. ~ runLock
    BY <1>1, <2>1 DEF Runs, HandlerInv, OpenInv
  <2>4. IteratorValid' /\ OpenInv'
    BY <1>0, <2>2, <2>3, IteratorTail DEF OpenInv
  <2>5. /\ shutdownLock' \in BOOLEAN /\ repeated' \in Nat
        /\ services = {} => ~ shutdownLock'
    <3>1. (services = {}) \in BOOLEAN
      OBVIOUS
    <3> QED
      BY <1>6, <3>1, FinishTyped DEF RunShutdown, HandlerInv
  <2> QED
    BY <1>0, <1>1, <2>1, <2>2, <2>4, <2>5
    DEF HandlerInv, HandlerTypeOK, FinishedWithoutServices
<1> QED
  BY <1>2, <1>3, <1>4, <1>5, <1>6 DEF HandlerStrand

LEMMA EndKeeps ==
    ASSUME HandlerInv, NEW n \in Name, ServiceEnds(n)
    PROVE  HandlerInv'
<1> DEFINE l == [kind |-> "erased", to |-> n]
<1>1. /\ UNCHANGED <<runLock, shutdownLock, shutdown, told, calls, repeated>>
      /\ life[n] = "closing" /\ life' = [life EXCEPT ![n] = "ended"]
      /\ queue' = Append(queue, l) \/ queue' = queue
      /\ l \in Lambda /\ l.kind = "erased" /\ l.to = n
  BY LambdaTyped DEF ServiceEnds, Dispatch, locks
<1>2. /\ life' \in [Name -> Life] /\ services' = services
      /\ \A m \in Name : life[m] = "ended" => life'[m] = "ended"
      /\ life'[n] = "ended"
  BY <1>1 DEF HandlerInv, HandlerTypeOK, Life, services
<1> HIDE DEF l
<1>3. CASE queue' = Append(queue, l)
  <2>1. IteratorValid'
    BY <1>1, <1>2, <1>3, IteratorAppend
  <2>2. OpenInv'
    BY <1>1, <1>3, OpenKept
  <2>3. queue' \in Seq(Lambda)
    BY <1>1, <1>3, AppendLambda DEF HandlerInv, HandlerTypeOK
  <2> QED
    BY <1>1, <1>2, <2>1, <2>2, <2>3
    DEF HandlerInv, HandlerTypeOK, FinishedWithoutServices
<1>4. CASE queue' = queue
  <2>1. \A i \in DOMAIN queue : queue[i] \in Lambda
    BY ElementOfSeq, LenProperties DEF HandlerInv, HandlerTypeOK
  <2>2. IteratorValid'
    BY <1>2, <1>4, <2>1, LambdaTyped DEF HandlerInv, IteratorValid
  <2>3. OpenInv'
    BY <1>1, <1>4, OpenKept
  <2> QED
    BY <1>1, <1>2, <1>4, <2>2, <2>3
    DEF HandlerInv, HandlerTypeOK, FinishedWithoutServices
<1> QED
  BY <1>1, <1>3, <1>4

LEMMA HandlerInvStep ==
    HandlerInv /\ [HandlerNext]_handlerVars => HandlerInv'
<1>1. ASSUME HandlerInv, UNCHANGED handlerVars
      PROVE  HandlerInv'
  BY <1>1 DEF handlerVars, HandlerInv, HandlerTypeOK, IteratorValid,
     FinishedWithoutServices, OpenInv, services
<1> QED
  BY <1>1, CallKeeps, ShutdownKeeps, StrandKeeps, EndKeeps DEF HandlerNext

LEMMA HandlerInvAlways == HandlerSpec => []HandlerInv
  BY HandlerInvInit, HandlerInvStep, PTL DEF HandlerSpec

-----------------------------------------------------------------------------
(* The theorems *)

\* The variables keep their types.
THEOREM HandlerTyped == HandlerSpec => []HandlerTypeOK
  BY HandlerInvAlways, PTL DEF HandlerInv

\* The iterator in the lambda of erase_service()'s callback, which holds no
\* lock, is valid when the lambda runs, and no other lambda has it.
THEOREM HandlerIterators == HandlerSpec => []IteratorValid
  BY HandlerInvAlways, PTL DEF HandlerInv

\* Once the shutdown has run and the map is empty, shutdown_finished() has
\* been called.
THEOREM HandlerFinished == HandlerSpec => []FinishedWithoutServices
  BY HandlerInvAlways, PTL DEF HandlerInv

\* No step takes a service out of the map before its last lock is destroyed.
LEMMA DestroyedStep ==
    HandlerInv /\ [HandlerNext]_handlerVars =>
        [\A n \in Name : life[n] # "none" /\ life'[n] = "none" =>
             life[n] = "ended"]_handlerVars
<1> SUFFICES ASSUME HandlerInv, HandlerNext, NEW n \in Name,
                    life[n] # "none", life'[n] = "none"
             PROVE  life[n] = "ended"
  OBVIOUS
<1>0. life \in [Name -> Life]
  BY DEF HandlerInv, HandlerTypeOK
<1>1. CASE Erased
  <2>1. /\ 1 \in DOMAIN queue /\ queue[1].kind = "erased"
        /\ Head(queue) = queue[1]
    BY <1>1, TailLambda DEF Erased, Runs, Leave, HandlerInv, HandlerTypeOK
  <2>2. life[queue[1].to] = "ended"
    BY <2>1 DEF HandlerInv, IteratorValid
  <2>3. n = queue[1].to
    BY <1>0, <1>1, <2>1 DEF Erased
  <2> QED
    BY <2>2, <2>3
<1>2. CASE HandlerStrand /\ ~ Erased
  BY <1>0, <1>2 DEF HandlerStrand, Add, Erase, Connect, RunShutdown
<1>3. CASE \/ \E kind \in Call, m \in Name : CallIt(kind, m)
           \/ Shutdown
           \/ \E m \in Name : ServiceEnds(m)
  BY <1>0, <1>3 DEF CallIt, Shutdown, ServiceEnds
<1> QED
  BY <1>1, <1>2, <1>3 DEF HandlerNext

\* A service is destroyed only when it has ended.
THEOREM HandlerDestroys == HandlerSpec => DestroyedAfterEnd
  BY HandlerInvAlways, DestroyedStep, PTL DEF HandlerSpec, DestroyedAfterEnd

-----------------------------------------------------------------------------
(* A service that has ended leaves the map *)

ErasedOf(n) == [kind |-> "erased", to |-> n]

\* The lambda of the callback of service n is queued.
Leaving(n) == \E i \in DOMAIN queue : queue[i] = ErasedOf(n)

\* Before the shutdown has run only erase_service() shuts a service down.
LeavingInv ==
    ~ shutdown =>
        \A n \in Name :
            /\ life[n] \in {"closing", "ended"} => n \in told
            /\ life[n] = "ended" => Leaving(n)

\* Only by being run does the lambda leave the queue.
LEMMA LeavingKept ==
    ASSUME queue \in Seq(Lambda), NEW n, Leaving(n),
           \/ queue' = queue
           \/ \E l \in Lambda : queue' = Append(queue, l)
           \/ /\ queue # <<>> /\ queue' = Tail(queue)
              /\ Head(queue) # ErasedOf(n)
    PROVE  Leaving(n)'
<1>1. PICK i \in DOMAIN queue : queue[i] = ErasedOf(n)
  BY DEF Leaving
<1> HIDE DEF ErasedOf
<1>2. CASE queue' = queue
  BY <1>1, <1>2 DEF Leaving, ErasedOf
<1>3. CASE \E l \in Lambda : queue' = Append(queue, l)
  <2>1. i \in DOMAIN queue' /\ queue'[i] = queue[i]
    BY <1>1, <1>3, AppendLambda
  <2> QED
    BY <1>1, <2>1 DEF Leaving, ErasedOf
<1>4. CASE /\ queue # <<>> /\ queue' = Tail(queue)
           /\ Head(queue) # ErasedOf(n)
  <2>1. /\ Len(queue) \in Nat /\ Len(queue') = Len(queue) - 1
        /\ Head(queue) = queue[1] /\ queue' \in Seq(Lambda)
        /\ \A j \in 1..Len(queue') : queue'[j] = queue[j + 1]
        /\ DOMAIN queue = 1..Len(queue) /\ DOMAIN queue' = 1..Len(queue')
    BY <1>4, HeadTailProperties, LenProperties, EmptySeq
  <2>2. i \in 1..Len(queue) /\ i # 1
    BY <1>1, <1>4, <2>1
  <2>3. i - 1 \in DOMAIN queue' /\ queue'[i - 1] = queue[i]
    BY <2>1, <2>2
  <2> QED
    BY <1>1, <2>3 DEF Leaving, ErasedOf
<1> QED
  BY <1>2, <1>3, <1>4

LEMMA LeavingStep ==
    HandlerInv /\ LeavingInv /\ [HandlerNext]_handlerVars => LeavingInv'
<1> SUFFICES ASSUME HandlerInv, LeavingInv, [HandlerNext]_handlerVars,
                    ~ shutdown', NEW n \in Name
             PROVE  /\ life'[n] \in {"closing", "ended"} => n \in told'
                    /\ life'[n] = "ended" => Leaving(n)'
  BY DEF LeavingInv
<1>0. queue \in Seq(Lambda) /\ life \in [Name -> Life] /\ told \subseteq Name
  BY DEF HandlerInv, HandlerTypeOK
<1>s. shutdown' = shutdown
  BY DEF HandlerNext, HandlerStrand, CallIt, Shutdown, Add, Erase, Connect,
     Erased, RunShutdown, ServiceEnds, locks, handlerVars
<1>i. /\ life[n] \in {"closing", "ended"} => n \in told
      /\ life[n] = "ended" => Leaving(n)
  BY <1>s DEF LeavingInv
<1>1. CASE UNCHANGED handlerVars
  BY <1>0, <1>1, <1>i, LeavingKept DEF handlerVars
<1>2. CASE Shutdown \/ \E kind \in Call, m \in Name : CallIt(kind, m)
  <2>1. /\ UNCHANGED <<life, told>>
        /\ \E l \in Lambda : queue' = Append(queue, l)
    BY <1>2, LambdaTyped DEF Shutdown, CallIt, Dispatch
  <2> QED
    BY <1>0, <1>i, <2>1, LeavingKept
<1>3. CASE HandlerStrand
  <2>1. queue # <<>> /\ queue' = Tail(queue)
    BY <1>3
    DEF HandlerStrand, Add, Erase, Connect, Erased, RunShutdown, Runs, Leave
  <2>2. CASE Erased
    <3>1. /\ life' = [life EXCEPT ![Head(queue).to] = "none"]
          /\ told' = told \ {Head(queue).to}
      BY <2>2 DEF Erased
    <3>2. CASE n = Head(queue).to
      BY <1>0, <3>1, <3>2
    <3>3. CASE n # Head(queue).to
      <4>1. life'[n] = life[n] /\ (n \in told => n \in told')
        BY <1>0, <3>1, <3>3
      <4>2. Head(queue) # ErasedOf(n)
        BY <3>3 DEF ErasedOf
      <4> QED
        BY <1>0, <1>i, <2>1, <4>1, <4>2, LeavingKept
    <3> QED
      BY <3>2, <3>3
  <2>3. CASE ~ Erased
    <3>1. Add \/ Erase \/ Connect
      BY <1>3, <2>3 DEF HandlerStrand, RunShutdown
    <3>2. Head(queue).kind # "erased"
      BY <3>1 DEF Add, Erase, Connect, Runs
    <3>3. Head(queue) # ErasedOf(n)
      BY <3>2 DEF ErasedOf
    <3>4. /\ life'[n] = "ended" => life[n] = "ended"
          /\ life'[n] \in {"closing", "ended"} => n \in told'
      BY <1>0, <1>i, <3>1 DEF Add, Erase, Connect, services
    <3> QED
      BY <1>0, <1>i, <2>1, <3>3, <3>4, LeavingKept
  <2> QED
    BY <2>2, <2>3
<1>4. ASSUME NEW m \in Name, ServiceEnds(m)
      PROVE  /\ life'[n] \in {"closing", "ended"} => n \in told'
             /\ life'[n] = "ended" => Leaving(n)'
  <2>1. /\ told' = told /\ life[m] = "closing"
        /\ life' = [life EXCEPT ![m] = "ended"]
        /\ m \in told
    BY <1>4, <1>s DEF ServiceEnds, LeavingInv
  <2>2. queue' = Append(queue, ErasedOf(m)) /\ ErasedOf(m) \in Lambda
    BY <1>4, <2>1, LambdaTyped DEF ServiceEnds, Dispatch, ErasedOf
  <2>3. CASE n = m
    <3>1. Leaving(n)'
      <4> HIDE DEF ErasedOf
      <4>1. \E k \in DOMAIN queue' : queue'[k] = ErasedOf(m)
        BY <1>0, <2>2, AppendLambda
      <4> QED
        BY <2>3, <4>1 DEF Leaving, ErasedOf
    <3> QED
      BY <2>1, <2>3, <3>1
  <2>4. CASE n # m
    <3>1. life'[n] = life[n]
      BY <1>0, <2>1, <2>4
    <3> QED
      BY <1>0, <1>i, <2>1, <2>2, <3>1, LeavingKept
  <2> QED
    BY <2>3, <2>4
<1> QED
  BY <1>1, <1>2, <1>3, <1>4 DEF HandlerNext

\* As long as the lambda of the shutdown has not run, every service that has
\* ended is on its way out of the map: its callback was set before, and its
\* lambda is queued, however often erase_service() was called. Afterwards
\* this is not so, as that lambda shuts the services down without a callback.
THEOREM HandlerLeaves ==
    HandlerSpec =>
        [](~ shutdown => \A n \in Name : life[n] = "ended" => Leaving(n))
<1>1. HandlerInit => LeavingInv
  BY DEF HandlerInit, LeavingInv
<1>2. LeavingInv =>
          (~ shutdown => \A n \in Name : life[n] = "ended" => Leaving(n))
  BY DEF LeavingInv
<1> QED
  BY <1>1, <1>2, HandlerInvInit, HandlerInvStep, LeavingStep, PTL
     DEF HandlerSpec
=============================================================================
