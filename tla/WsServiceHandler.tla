-------------------------- MODULE WsServiceHandler --------------------------
(***************************************************************************)
(* ws_service_handler (src/ws_service_handler.cpp) with the functions of   *)
(* ws_handler_interface it uses: the map from names to services, and its   *)
(* shutdown.                                                               *)
(*                                                                         *)
(* A service is reduced to what WsService shows of it: after shutdown() it *)
(* ends, and then the callback it was given is called once.  What the      *)
(* handler does with a connection is a matter of the service.              *)
(***************************************************************************)
EXTENDS Naturals, SequencesExt

CONSTANTS
    Name,         \* the names of services
    None,         \* no name
    MaxCall       \* bounds the calls of add_service(), erase_service() and
                  \* the two connects

ASSUME HandlerAssumption ==
    /\ None \notin Name
    /\ MaxCall \in Nat

VARIABLES
    runLock,      \* run_lock_.is_locked()
    shutdownLock, \* shutdown_lock_.is_locked()
    shutdown,     \* shutdown_
    queue,        \* the lambdas of strand_
    life,         \* the life of the service with each name
    told,         \* the services whose callback erases them
    calls,        \* calls so far
    repeated      \* calls of shutdown_finished() that threw

locks == <<runLock, shutdownLock, shutdown>>
handlerVars == <<runLock, shutdownLock, shutdown, queue, life, told, calls,
                 repeated>>

\* run_lock_ of the service is locked; shutdown() was called; its last lock
\* was destroyed.
Life == {"none", "running", "closing", "ended"}

Call == {"add", "erase", "connect"}

Lambda == [kind : Call \cup {"erased"}, to : Name]
              \cup [kind : {"shutdown"}, to : {None}]

\* services_
services == {n \in Name : life[n] # "none"}

\* lock_count_ # 0: the lambda of the callback holds no lock.
Busy ==
    \/ runLock \/ shutdownLock
    \/ \E i \in DOMAIN queue : queue[i].kind # "erased"

HandlerInit ==
    /\ runLock = TRUE /\ shutdownLock = FALSE
    /\ shutdown = FALSE
    /\ queue = <<>>
    /\ life = [n \in Name |-> "none"]
    /\ told = {}
    /\ calls = 0
    /\ repeated = 0

-----------------------------------------------------------------------------
(* Calls from any thread *)

Dispatch(kind, n) == queue' = Append(queue, [kind |-> kind, to |-> n])

\* add_service(), erase_service(), on_server_connect(), on_client_connect();
\* without a lock of the handler they do nothing but report the exception.
CallIt(kind, n) ==
    /\ calls < MaxCall
    /\ calls' = calls + 1
    /\ Busy
    /\ Dispatch(kind, n)
    /\ UNCHANGED <<locks, life, told, repeated>>

\* shutdown() and on_shutdown(); without run_lock_ it does nothing.
Shutdown ==
    /\ runLock
    /\ runLock' = FALSE
    /\ shutdownLock' = TRUE
    /\ Dispatch("shutdown", None)
    /\ UNCHANGED <<shutdown, life, told, calls, repeated>>

-----------------------------------------------------------------------------
(* The strand of the handler *)

Runs(kind) == queue # <<>> /\ Head(queue).kind = kind

\* The lambda that runs ends.
Leave ==
    /\ queue' = Tail(queue)
    /\ UNCHANGED <<runLock, calls>>

\* shutdown_finished(), if it is called
Finish(called) ==
    /\ shutdownLock' = (shutdownLock /\ ~ called)
    /\ repeated' = IF called /\ ~ shutdownLock THEN repeated + 1 ELSE repeated

\* A name is given once.
Add ==
    /\ Runs("add")
    /\ LET n == Head(queue).to
       IN  life' = IF life[n] = "none" THEN [life EXCEPT ![n] = "running"]
                                       ELSE life
    /\ UNCHANGED <<shutdownLock, shutdown, told, repeated>>
    /\ Leave

\* Wrong on purpose: the service is not shut down but erased.
EraseAtOnce ==
    /\ Runs("erase")
    /\ life' = [life EXCEPT ![Head(queue).to] = "none"]
    /\ UNCHANGED <<shutdownLock, shutdown, told, repeated>>
    /\ Leave

\* Wrong on purpose: a service that has ended is told again.
EraseAgain ==
    /\ Runs("erase")
    /\ LET n == Head(queue).to
       IN  /\ life' = IF life[n] = "running"
                      THEN [life EXCEPT ![n] = "closing"] ELSE life
           /\ told' = told \cup {n}
           /\ queue' = IF life[n] = "ended"
                       THEN Append(Tail(queue), [kind |-> "erased", to |-> n])
                       ELSE Tail(queue)
    /\ UNCHANGED <<runLock, calls, shutdownLock, shutdown, repeated>>

\* Wrong on purpose: shutdown() without a callback.
EraseUntold ==
    /\ Runs("erase")
    /\ LET n == Head(queue).to
       IN  life' = IF life[n] = "running"
                   THEN [life EXCEPT ![n] = "closing"] ELSE life
    /\ UNCHANGED <<shutdownLock, shutdown, told, repeated>>
    /\ Leave

\* The service gets the callback and is shut down, unless it has been
\* already: an end that has passed is not told any more.
Erase ==
    /\ Runs("erase")
    /\ LET n == Head(queue).to
       IN  /\ life' = IF life[n] = "running"
                      THEN [life EXCEPT ![n] = "closing"] ELSE life
           /\ told' = IF n \in services THEN told \cup {n} ELSE told
    /\ UNCHANGED <<shutdownLock, shutdown, repeated>>
    /\ Leave

\* A service with that name, if there is one, gets the connection.
Connect ==
    /\ Runs("connect")
    /\ UNCHANGED <<locks, life, told, repeated>>
    /\ Leave

\* Wrong on purpose: shutdown_finished() is left to the shutdown.
ErasedOnly ==
    /\ Runs("erased")
    /\ life' = [life EXCEPT ![Head(queue).to] = "none"]
    /\ told' = told \ {Head(queue).to}
    /\ UNCHANGED <<shutdownLock, shutdown, repeated>>
    /\ Leave

\* The lambda of the callback
Erased ==
    /\ Runs("erased")
    /\ life' = [life EXCEPT ![Head(queue).to] = "none"]
    /\ told' = told \ {Head(queue).to}
    /\ Finish(services' = {} /\ shutdown)
    /\ UNCHANGED shutdown
    /\ Leave

\* The lambda of on_shutdown(): shutdown() of all services, without callback
RunShutdown ==
    /\ Runs("shutdown")
    /\ Finish(services = {})
    /\ life' = [n \in Name |->
                   IF life[n] = "running" THEN "closing" ELSE life[n]]
    /\ shutdown' = TRUE
    /\ UNCHANGED told
    /\ Leave

HandlerStrand ==
    Add \/ Erase \/ Connect \/ Erased \/ RunShutdown

-----------------------------------------------------------------------------
(* The services *)

\* Wrong on purpose: the callback is called when its iterator has been moved
\* from.
ServiceEndsMoved(n) ==
    /\ life[n] = "closing"
    /\ life' = [life EXCEPT ![n] = "ended"]
    /\ IF n \in told THEN Dispatch("erased", None) ELSE queue' = queue
    /\ UNCHANGED <<locks, told, calls, repeated>>

\* The last lock of the service is destroyed, its callback called.
ServiceEnds(n) ==
    /\ life[n] = "closing"
    /\ life' = [life EXCEPT ![n] = "ended"]
    /\ IF n \in told THEN Dispatch("erased", n) ELSE queue' = queue
    /\ UNCHANGED <<locks, told, calls, repeated>>

HandlerNext ==
    \/ \E kind \in Call, n \in Name : CallIt(kind, n)
    \/ Shutdown
    \/ HandlerStrand
    \/ \E n \in Name : ServiceEnds(n)

\* The executor runs what is queued.  That a service that was shut down ends
\* is not assumed: a session that stays open or closing keeps it for ever.
HandlerFairness == WF_handlerVars(HandlerStrand)

HandlerSpec == HandlerInit /\ [][HandlerNext]_handlerVars /\ HandlerFairness

-----------------------------------------------------------------------------
(* Properties *)

HandlerTypeOK ==
    /\ runLock \in BOOLEAN /\ shutdownLock \in BOOLEAN
    /\ shutdown \in BOOLEAN
    /\ queue \in Seq(Lambda)
    /\ life \in [Name -> Life]
    /\ told \in SUBSET Name
    /\ calls \in 0..MaxCall
    /\ repeated \in Nat

\* The lambda of the callback holds an iterator and no lock: its service is
\* still in the map and has ended, and no second lambda erases it, although
\* erase_service() is called again and the handler is shut down meanwhile.
IteratorValid ==
    \A i \in DOMAIN queue : queue[i].kind = "erased" =>
        /\ life[queue[i].to] = "ended"
        /\ \A j \in DOMAIN queue :
               queue[j].kind = "erased" /\ queue[j].to = queue[i].to => j = i

\* A service is destroyed only when it has ended.
DestroyedAfterEnd ==
    [][\A n \in Name : life[n] # "none" /\ life'[n] = "none" =>
           life[n] = "ended"]_handlerVars

\* When the shutdown has run and no service is left, shutdown_finished() has
\* been called, whichever of the erases and the shutdown came last.
FinishedWithoutServices == shutdown /\ services = {} => ~ shutdownLock

\* erase_service() of a service that runs removes it, so that its name can be
\* given again, whatever the shutdown and other erases do meanwhile, if the
\* service ends once it has been shut down.
EraseCompletes ==
    \A n \in Name :
        []<>(life[n] # "closing") =>
            (Runs("erase") /\ Head(queue).to = n /\ life[n] = "running"
                 ~> life[n] = "none")
=============================================================================
