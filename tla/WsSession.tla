----------------------------- MODULE WsSession ------------------------------
(***************************************************************************)
(* ws_session (src/ws_session.cpp): one WebSocket session, from its        *)
(* emplacement in the map of its service to its destruction.               *)
(*                                                                         *)
(* The handlers of strand_ exclude each other, so each of them is one      *)
(* step; a method they call is a function from session states to session   *)
(* states, composed as the handler calls it.  The library below (the       *)
(* Beast stream, the Asio timer and socket) is external: it completes      *)
(* pending operations, in any order and with any outcome the handlers      *)
(* distinguish, and a stream whose operation fails is not open any more.   *)
(* The lock in the capture of a handler is its presence among the pending  *)
(* operations or in a queue: the module AsyncLocker has the counter.       *)
(***************************************************************************)
EXTENDS Naturals, SequencesExt

CONSTANTS
    Role,           \* among "client" (start() runs), "server" (do_accept())
    WriteMax,       \* the capacity of write_list_ (64 in the code)
    MaxCall,        \* bounds the calls of send() and close()
    MaxRecv,        \* bounds the messages of the peer
    MaxPending      \* bounds what the peer's frames leave pending

ASSUME SessionAssumption ==
    /\ Role \subseteq {"client", "server"}
    /\ WriteMax \in Nat \ {0}
    /\ MaxCall \in Nat
    /\ MaxRecv \in Nat
    /\ MaxPending \in Nat

CloseFrame == 0              \* among the frames: message n is n
OnOpen     == 0              \* among the callbacks: message n is n
OnClose    == MaxRecv + 1

Op == {"accept", "read", "write", "close"}

VARIABLES
    role,       \* an element of Role, for good
    manyThreads,\* whether the executor has more than one thread
    ses,        \* the members of the session that its strand protects
    life,       \* "new" | "running" | "gone", the entry of map_
    erases,     \* on_erase() lambdas queued on the strand of the service
    calls,      \* lambdas of send() and close() queued on strand_
    made,       \* calls of send() and close() so far
    pc,         \* where the strand of the service is in make_lock()
    told,       \* the callbacks the service got, in order
    peer        \* "live" | "silent"

outer == <<role, manyThreads, life, erases, calls, made, pc, told, peer>>
wsVars == <<role, manyThreads, ses, life, erases, calls, made, pc, told, peer>>

SessionState == [
    stream : {"connecting", "open", "closing", "replying", "closed"},
    socket : BOOLEAN,                   \* close_socket() has not run
    ops : SUBSET Op,                    \* outstanding operations
    pings : Nat,                        \* outstanding async_ping operations
    timer : {"idle", "armed", "expired"},
    aborted : Nat,                      \* queued handlers of cancelled waits
    waitOnPong : BOOLEAN,               \* wait_on_pong_
    isOpen : BOOLEAN,                   \* is_open_
    closeReason : BOOLEAN,              \* close_reason_ is set
    writeList : Seq(1..MaxCall),        \* write_list_
    accepted : Seq(1..MaxCall),         \* what send() has ever pushed on it
    wire : Seq(0..MaxCall),             \* frames whose writing was initiated
    received : Nat,                     \* messages async_read has delivered
    hq : Seq(Nat)]                      \* queue of handler_strand_

\* The constructor.  A client session gets a stream whose handshake is done.
NewSession(r) == [
    stream |-> IF r = "client" THEN "open" ELSE "connecting",
    socket |-> TRUE, ops |-> {}, pings |-> 0, timer |-> "idle",
    aborted |-> 0, waitOnPong |-> FALSE, isOpen |-> FALSE,
    closeReason |-> FALSE, writeList |-> <<>>, accepted |-> <<>>,
    wire |-> <<>>, received |-> 0, hq |-> <<>>]

WsInit ==
    /\ role \in Role
    /\ manyThreads \in BOOLEAN
    /\ ses = NewSession(role)
    /\ life = "new" /\ erases = 0
    /\ calls = <<>> /\ made = 0 /\ pc = "idle"
    /\ told = <<>>
    /\ peer = "live"

\* ws_.is_open(): false from the first close frame, sent or received, on.
IsOpen(s) == s.stream = "open"

\* lock_count_ # 0
Busy == \/ ses.ops # {} \/ ses.pings > 0
        \/ ses.timer # "idle" \/ ses.aborted > 0
        \/ ses.hq # <<>> \/ calls # <<>>

-----------------------------------------------------------------------------
(* The methods of the session *)

\* A wait that has expired is not cancelled: its handler is already queued.
StopTimer(s) ==
    IF s.timer = "armed"
    THEN [s EXCEPT !.timer = "idle", !.aborted = @ + 1] ELSE s

DoTimer(s) == [s EXCEPT !.timer = "armed"]

\* Wrong on purpose: the cancelled wait is not started again.
RestartTimerOnce(s) == StopTimer(s)

RestartTimer(s) ==
    IF s.timer = "armed" /\ IsOpen(s) THEN DoTimer(StopTimer(s))
                                      ELSE StopTimer(s)

StartTimer(s) == RestartTimer(DoTimer(s))

Activity(s) == RestartTimer([s EXCEPT !.waitOnPong = FALSE])

CloseSocket(s) == StopTimer([s EXCEPT !.socket = FALSE])

DoRead(s) ==
    IF IsOpen(s)
    THEN [RestartTimer(s) EXCEPT !.ops = @ \cup {"read"}] ELSE s

\* async_close ends the use of the stream, async_write takes the front.
DoWrite(s) ==
    IF s.closeReason
    THEN [s EXCEPT !.stream = "closing", !.ops = @ \cup {"close"},
                   !.wire = Append(@, CloseFrame)]
    ELSE [s EXCEPT !.ops = @ \cup {"write"},
                   !.wire = Append(@, Head(s.writeList))]

\* Wrong on purpose: starts a write although one is outstanding.
SendTwice(s, n) ==
    IF ~ IsOpen(s) THEN StopTimer(s)
    ELSE IF s.closeReason \/ Len(s.writeList) = WriteMax THEN s
    ELSE DoWrite([s EXCEPT !.writeList = Append(@, n),
                           !.accepted = Append(@, n)])

\* The lambda of send().  A full write_list_ throws: nothing changes.
Send(s, n) ==
    LET pushed == [s EXCEPT !.writeList = Append(@, n),
                            !.accepted = Append(@, n)]
    IN  IF ~ IsOpen(s) THEN StopTimer(s)
        ELSE IF s.closeReason \/ Len(s.writeList) = WriteMax THEN s
        ELSE IF s.writeList = <<>> THEN DoWrite(pushed)
        ELSE pushed

\* Wrong on purpose: leaves the close frame to the next write.
CloseLater(s) ==
    IF ~ IsOpen(s) THEN StopTimer(s) ELSE [s EXCEPT !.closeReason = TRUE]

\* Wrong on purpose: is_open() is not asked, also during the handshake.
CloseAlways(s) ==
    LET noted == [s EXCEPT !.closeReason = TRUE]
    IN  IF s.closeReason THEN s
        ELSE IF s.writeList = <<>> THEN DoWrite(noted)
        ELSE noted

\* The lambda of close()
Close(s) ==
    LET noted == [s EXCEPT !.closeReason = TRUE]
    IN  IF ~ IsOpen(s) THEN StopTimer(s)
        ELSE IF s.closeReason THEN s
        ELSE IF s.writeList = <<>> THEN DoWrite(noted)
        ELSE noted

\* is_open_ = true; on_open()
Opened(s) == [s EXCEPT !.isOpen = TRUE, !.hq = Append(@, OnOpen)]

\* on_text() and on_binary()
OnMessage(s) == [s EXCEPT !.received = @ + 1,
                          !.hq = Append(@, s.received + 1)]

DoAccept(s) == [StartTimer(s) EXCEPT !.ops = @ \cup {"accept"}]

StartClient(s) == DoRead(Opened(StartTimer(s)))

-----------------------------------------------------------------------------
(* Steps *)

\* A step of another strand than the one that is inside make_lock() needs a
\* second thread.
OtherStrand == life = "running" /\ (pc = "idle" \/ manyThreads)

\* Wrong on purpose: only the operations on the stream hold a lock.
LeaveOps(s) ==
    /\ OtherStrand
    /\ ses' = s
    /\ erases' = IF ses'.ops # {} THEN erases ELSE erases + 1
    /\ UNCHANGED <<role, manyThreads, life, made, pc, peer>>

\* A handler of strand_ leaves the state s, and then its lock is destroyed:
\* the one that brings lock_count_ to zero calls on_erase().
Leave(s) ==
    /\ OtherStrand
    /\ ses' = s
    /\ erases' = IF Busy' THEN erases ELSE erases + 1
    /\ UNCHANGED <<role, manyThreads, life, made, pc, peer>>

Handler(s) == UNCHANGED <<calls, told>> /\ Leave(s)

\* The handler of operation o runs; the stream is left in the status st.
Done(o, st) == [ses EXCEPT !.ops = @ \ {o}, !.stream = st]

Failed(o) == Done(o, "closed")

Aborts == ~ ses.socket     \* operation_aborted is a possible outcome

Start ==
    /\ life = "new"
    /\ life' = "running"
    /\ ses' = IF role = "server" THEN DoAccept(ses) ELSE StartClient(ses)
    /\ UNCHANGED <<role, manyThreads, erases, calls, made, pc, told, peer>>

AcceptOk ==
    /\ "accept" \in ses.ops
    /\ Handler(DoRead(Opened(Done("accept", "open"))))

AcceptFails == "accept" \in ses.ops /\ Handler(Failed("accept"))

\* A frame is not left pending behind too many others.
Room == ses.aborted + ses.pings < MaxPending

\* A message is complete.
ReadMessage ==
    /\ "read" \in ses.ops
    /\ peer = "live"
    /\ ses.stream \in {"open", "closing"}
    /\ ses.received < MaxRecv
    /\ Handler(DoRead(OnMessage(Activity(Done("read", ses.stream)))))

\* An error after which the stream is still open.
ReadBad ==
    /\ "read" \in ses.ops
    /\ peer = "live"
    /\ IsOpen(ses)
    /\ Room
    /\ Handler(DoRead(Close(Activity(Done("read", "open")))))

ReadFails ==
    /\ "read" \in ses.ops
    /\ \/ Handler(Activity(Failed("read")))
       \/ Aborts /\ Handler(Failed("read"))

\* The closing handshake is finished: error::closed.
ReadClosed ==
    /\ "read" \in ses.ops
    /\ ses.stream = "replying"
    /\ peer = "live"
    /\ Handler(StopTimer(Failed("read")))

\* control_callback, called inside a pending read for a ping or a pong ...
PeerControl ==
    /\ "read" \in ses.ops
    /\ peer = "live"
    /\ IsOpen(ses)
    /\ Room
    /\ Handler(Activity(ses))

\* ... and for a close frame, which Beast then answers.
PeerClose ==
    /\ "read" \in ses.ops
    /\ peer = "live"
    /\ ses.stream \in {"open", "closing"}
    /\ Handler([Activity(ses) EXCEPT !.stream = "replying"])

\* Wrong on purpose: a close() noted during the last write is forgotten.
WriteDoneNoClose ==
    /\ "write" \in ses.ops
    /\ LET s == [Done("write", ses.stream) EXCEPT !.writeList = Tail(@)]
       IN  Handler(IF IsOpen(s) /\ s.writeList # <<>> THEN DoWrite(s) ELSE s)

WriteDone ==
    /\ "write" \in ses.ops
    /\ LET s == [Done("write", ses.stream) EXCEPT !.writeList = Tail(@)]
       IN  Handler(IF IsOpen(s) /\ (s.writeList # <<>> \/ s.closeReason)
                   THEN DoWrite(s) ELSE s)

WriteFails ==
    /\ "write" \in ses.ops
    /\ \/ Handler(Close(Failed("write")))
       \/ Aborts /\ Handler(Failed("write"))

\* The handler of async_close does the same with and without an error.
CloseDone == "close" \in ses.ops /\ Handler(StopTimer(Failed("close")))

\* Wrong on purpose: the handler of a ping runs after its error as well.
PingDoneTwice ==
    /\ ses.pings > 0
    /\ Handler([ses EXCEPT !.pings = @ - 2])

PingDone ==
    /\ ses.pings > 0
    /\ Handler([ses EXCEPT !.pings = @ - 1])

PingFails ==
    /\ ses.pings > 0
    /\ Handler(Close([ses EXCEPT !.pings = @ - 1, !.stream = "closed"]))

TimerExpires ==
    /\ life = "running"
    /\ ses.timer = "armed"
    /\ ses' = [ses EXCEPT !.timer = "expired"]
    /\ UNCHANGED outer

\* Wrong on purpose: every expiry counts as the first one.
TimerPingsAgain ==
    /\ ses.timer = "expired"
    /\ ~ ses.waitOnPong
    /\ IsOpen(ses)
    /\ Handler(DoTimer([ses EXCEPT !.timer = "idle", !.pings = @ + 1]))

\* The handler of the timer: the first expiry, on an open stream ...
TimerPings ==
    /\ ses.timer = "expired"
    /\ ~ ses.waitOnPong
    /\ IsOpen(ses)
    /\ Handler(DoTimer(RestartTimer(
           [ses EXCEPT !.timer = "idle", !.waitOnPong = TRUE,
                       !.pings = @ + 1])))

\* ... on one that is not open ...
TimerIgnored ==
    /\ ses.timer = "expired"
    /\ ~ ses.waitOnPong
    /\ ~ IsOpen(ses)
    /\ Handler([ses EXCEPT !.timer = "idle"])

\* ... and the second expiry.
TimerCloses ==
    /\ ses.timer = "expired"
    /\ ses.waitOnPong
    /\ Handler(CloseSocket([ses EXCEPT !.timer = "idle"]))

TimerAborted ==
    /\ ses.aborted > 0
    /\ Handler([ses EXCEPT !.aborted = @ - 1])

\* A lambda of send() or of close() runs.
RunCall ==
    /\ calls # <<>>
    /\ calls' = Tail(calls)
    /\ Leave(IF Head(calls) = CloseFrame THEN Close(ses)
                                         ELSE Send(ses, Head(calls)))
    /\ UNCHANGED told

\* handler_strand_ runs service_.on_open(), on_text() or on_binary().
RunCallback ==
    /\ ses.hq # <<>>
    /\ told' = Append(told, Head(ses.hq))
    /\ UNCHANGED calls
    /\ Leave([ses EXCEPT !.hq = Tail(@)])

-----------------------------------------------------------------------------
(* The strand of the service, which finds the session in map_ *)

\* send() or close(): make_lock() reads lock_count_ ...
CallCheck ==
    /\ life = "running"
    /\ pc = "idle"
    /\ Busy
    /\ made < MaxCall
    /\ pc' = "checked"
    /\ UNCHANGED <<role, manyThreads, ses, life, erases, calls, made>>
    /\ UNCHANGED <<told, peer>>

\* ... increments it, and the lambda is dispatched.
CallQueue ==
    /\ pc = "checked"
    /\ pc' = "idle"
    /\ made' = made + 1
    /\ \E c \in {CloseFrame, made + 1} : calls' = Append(calls, c)
    /\ UNCHANGED <<role, manyThreads, ses, life, erases, told, peer>>

\* Wrong on purpose: the destructor does not ask for is_open_.
EraseAnySession ==
    /\ life = "running"
    /\ pc = "idle"
    /\ erases > 0
    /\ erases' = erases - 1
    /\ life' = "gone"
    /\ told' = Append(told, OnClose)
    /\ UNCHANGED <<role, manyThreads, ses, calls, made, pc, peer>>

\* The lambda of on_erase(), and the destructor.
EraseSession ==
    /\ life = "running"
    /\ pc = "idle"
    /\ erases > 0
    /\ erases' = erases - 1
    /\ life' = "gone"
    /\ told' = IF ses.isOpen THEN Append(told, OnClose) ELSE told
    /\ UNCHANGED <<role, manyThreads, ses, calls, made, pc, peer>>

\* The peer or the network dies: no segment arrives any more.
FallSilent ==
    /\ peer' = "silent"
    /\ UNCHANGED <<role, manyThreads, ses, life, erases, calls, made>>
    /\ UNCHANGED <<pc, told>>

WsNext ==
    \/ Start \/ AcceptOk \/ AcceptFails
    \/ ReadMessage \/ ReadBad \/ ReadFails \/ ReadClosed
    \/ PeerControl \/ PeerClose
    \/ WriteDone \/ WriteFails \/ CloseDone \/ PingDone \/ PingFails
    \/ TimerExpires \/ TimerPings \/ TimerIgnored \/ TimerCloses
    \/ TimerAborted \/ RunCall \/ RunCallback
    \/ CallCheck \/ CallQueue \/ EraseSession \/ FallSilent

-----------------------------------------------------------------------------
(* Fairness *)

\* On a failed stream or a closed socket every operation completes.
Broken == ses.stream = "closed" \/ ~ ses.socket

\* What the executor has queued.
Queued ==
    \/ Start \/ TimerPings \/ TimerIgnored \/ TimerCloses \/ TimerAborted
    \/ RunCall \/ RunCallback \/ CallQueue \/ EraseSession

\* What the library completes without the peer.
Completes == Broken /\ (ReadFails \/ WriteFails \/ CloseDone \/ PingFails)

\* The executor runs what is queued, time passes, and the library completes
\* what is pending on a broken stream: some of it goes on as long as there is
\* any.  Nothing is assumed of the peer.
LocalFairness == WF_wsVars(Queued \/ TimerExpires \/ Completes)

\* A peer that has not fallen silent reads, and answers a close frame.
PeerFairness ==
    /\ WF_wsVars(peer = "live" /\ WriteDone)
    /\ WF_wsVars(peer = "live" /\ (PingDone \/ CloseDone))
    /\ WF_wsVars((ses.stream = "closing" /\ PeerClose) \/ ReadClosed)

WsSpec == WsInit /\ [][WsNext]_wsVars /\ LocalFairness /\ PeerFairness

-----------------------------------------------------------------------------
(* Properties *)

WsTypeOK ==
    /\ role \in Role /\ manyThreads \in BOOLEAN
    /\ ses \in SessionState
    /\ life \in {"new", "running", "gone"}
    /\ erases \in Nat
    /\ calls \in Seq(0..MaxCall)
    /\ made \in 0..MaxCall
    /\ pc \in {"idle", "checked"}
    /\ told \in Seq(Nat)
    /\ peer \in {"live", "silent"}

\* With one thread on_erase() is called exactly once, by the last of all the
\* handlers, and the destructor finds no operation, no queued handler and no
\* queued call that would still use the session.  With several, the service
\* may queue a call after the last lock (the module AsyncLocker).
ErasedAfterLast ==
    ~ manyThreads =>
        /\ life = "running" => erases = IF Busy THEN 0 ELSE 1
        /\ life = "gone" => ~ Busy /\ erases = 0

\* While the stream is open and the socket not closed, a wait of the
\* activity timer is pending or its handler is queued: none of the restarts
\* loses the timer.
TimerLive ==
    life = "running" /\ IsOpen(ses) /\ ses.socket => ses.timer # "idle"

\* A client session never loses its timer.
ClientTimerLive == role = "client" => TimerLive

\* An open session reads, and it writes exactly when there is something to
\* write: no message and no close() waits for a write that nobody starts.
NoStuckQueue ==
    life = "running" /\ IsOpen(ses) =>
        /\ "read" \in ses.ops
        /\ "write" \in ses.ops <=> ses.writeList # <<>>
        /\ ses.closeReason => "write" \in ses.ops

\* The messages send() accepted are written in their order, none twice and
\* none left out, and nothing is written after the close frame.
WireInOrder ==
    LET sent == IF CloseFrame \in Range(ses.wire) THEN Front(ses.wire)
                                                 ELSE ses.wire
        left == IF "write" \in ses.ops THEN Tail(ses.writeList)
                                       ELSE ses.writeList
    IN  /\ IsPrefix(sent, ses.accepted)
        /\ IsOpen(ses) => ses.accepted = sent \o left
        /\ \A i \in DOMAIN ses.wire :
               ses.wire[i] = CloseFrame => i = Len(ses.wire)

\* The service gets on_open() first, then every message that was read, in
\* order, and on_close() last and once, although the three come from two
\* strands; a session that was never opened gets no callback at all.
CallbacksInOrder ==
    LET due == IF ses.isOpen
               THEN [i \in 1..(ses.received + 1) |-> i - 1] ELSE <<>>
        end == IF life = "gone" /\ ses.isOpen THEN <<OnClose>> ELSE <<>>
    IN  (life = "gone" => ses.hq = <<>>) /\ told \o ses.hq = due \o end

\* A client session whose peer falls silent while the stream is open is
\* destroyed, unless it is closed from this side meanwhile.
OpenSilentPeerDropped ==
    (~ manyThreads /\ role = "client" /\ peer = "silent"
         /\ life = "running" /\ IsOpen(ses))
        ~> (life = "gone" \/ ses.closeReason)

\* A session that is closed from this side is destroyed, if its peer reads
\* what is left to write and answers the close frame.
CloseCompletes ==
    (~ manyThreads /\ life = "running" /\ ses.closeReason)
        ~> (life = "gone" \/ peer = "silent")

\* "If no message is incomming after a second period of this time, the
\* session is considerd to be dead and will be closed."
SilentPeerDropped ==
    (~ manyThreads /\ peer = "silent" /\ life = "running")
        ~> life = "gone"
=============================================================================
