---------------------------- MODULE HttpSession -----------------------------
(***************************************************************************)
(* http_session (src/http_session.cpp) with http_response: one HTTP        *)
(* session, from its emplacement in the set of http_sessions to its        *)
(* destruction.                                                            *)
(*                                                                         *)
(* The handlers of strand_ exclude each other; a handler is one step, and  *)
(* the do_read() it ends with two more, because the strand of the set,     *)
(* which calls do_close() at the shutdown, is not strand_ and may run in   *)
(* another thread.  Every call on the socket or the timer is atomic.  A    *)
(* request handler answers before it returns, as those of the library do,  *)
(* or throws.                                                              *)
(***************************************************************************)
EXTENDS Naturals, SequencesExt

CONSTANTS
    Limit,        \* queue::limit (64 in the code)
    MaxRequest    \* bounds the requests of the peer

ASSUME HttpAssumption ==
    /\ Limit \in Nat \ {0}
    /\ MaxRequest \in Nat

VARIABLES
    http,      \* the members of the session
    got,       \* requests read so far
    pc,        \* where strand_ is: "idle", or in do_read(): "read", "wait"
    closer,    \* where the set is in do_close(): "none", "shut", "done"
    life,      \* "new" | "running" | "gone", the entry of set_
    erases     \* lambdas of async_erase() queued on the strand of the set

httpVars == <<http, got, pc, closer, life, erases>>

\* A response; last means need_eof(), the end of the connection.
Response == [to : Nat, last : BOOLEAN]

HttpState == [
    sock : {"open", "shut", "closed", "moved"},
    ops : SUBSET {"read", "write", "badWrite"}, \* outstanding operations
    timer : {"idle", "armed", "expired"},
    aborted : Nat,                  \* queued handlers of cancelled waits
    items : Seq(Response),          \* queue_.items_
    answered : Seq(Response),       \* what response() ever got
    wire : Seq(Response)]           \* responses whose writing was initiated

HttpInit ==
    /\ http = [sock |-> "open", ops |-> {}, timer |-> "idle", aborted |-> 0,
               items |-> <<>>, answered |-> <<>>, wire |-> <<>>]
    /\ got = 0
    /\ pc = "idle" /\ closer = "none"
    /\ life = "new" /\ erases = 0

\* lock_count_ # 0
Busy == \/ http.ops # {} \/ http.timer # "idle" \/ http.aborted > 0
        \/ pc # "idle"

-----------------------------------------------------------------------------
(* The methods of the session *)

DoTimer(s) == [s EXCEPT !.timer = "armed"]

\* timer_.cancel(): a wait that has expired is not cancelled, its handler is
\* already queued.
StopTimer(s) ==
    IF s.timer = "armed"
    THEN [s EXCEPT !.timer = "idle", !.aborted = @ + 1] ELSE s

\* socket_.shutdown() of both directions: the socket is still open, what was
\* received can be read.
Shut(s) == [s EXCEPT !.sock = IF @ = "open" THEN "shut" ELSE @]

\* Wrong on purpose: only the timer is stopped.
DoCloseTimer(s) == StopTimer(s)

DoClose(s) == StopTimer(Shut(s))

\* (*items_.front())(): async_write, which fails if the socket is not open
\* in both directions any more.
StartWrite(s) ==
    [s EXCEPT !.ops = @ \cup {IF s.sock = "open" THEN "write" ELSE "badWrite"},
              !.wire = Append(@, Head(s.items))]

\* A circular buffer that is full loses its front.
PushBack(items, r) ==
    Append(IF Len(items) = Limit THEN Tail(items) ELSE items, r)

IsFull(s) == Len(s.items) >= Limit

\* http_response::operator() and queue::response()
Respond(s, r) ==
    LET t == [s EXCEPT !.items = PushBack(@, r), !.answered = Append(@, r)]
    IN  IF Len(t.items) = 1 THEN StartWrite(t) ELSE t

\* Wrong on purpose: the next response is not started.
PopOnly(s) == [s EXCEPT !.items = Tail(@)]

\* queue::on_write()
PopFront(s) ==
    LET t == [s EXCEPT !.items = Tail(@)]
    IN  IF t.items # <<>> THEN StartWrite(t) ELSE t

-----------------------------------------------------------------------------
(* The handlers in strand_ *)

\* Wrong on purpose: the waits of the timer hold no lock.
LeaveOps(s) ==
    /\ http' = s
    /\ pc' = "idle"
    /\ erases' = IF http'.ops # {} THEN erases ELSE erases + 1
    /\ UNCHANGED <<closer, life>>

\* A handler leaves the state s and its lock is destroyed: the one that
\* brings lock_count_ to zero calls async_erase().
Leave(s) ==
    /\ http' = s
    /\ pc' = "idle"
    /\ erases' = IF Busy' THEN erases ELSE erases + 1
    /\ UNCHANGED <<closer, life>>

\* The handler goes on with do_read().
ThenRead(s) ==
    /\ http' = s
    /\ pc' = "read"
    /\ UNCHANGED <<closer, life, erases>>

\* The handler of the operation o runs.
Done(o) == [http EXCEPT !.ops = @ \ {o}]

Handles(o) == pc = "idle" /\ o \in http.ops

\* do_read(): the socket is not open any more, or no wait is cancelled by
\* expires_after() because it has expired or was stopped ...
ReadNot ==
    /\ pc = "read"
    /\ http.sock \in {"closed", "moved"} \/ http.timer # "armed"
    /\ Leave(http)
    /\ UNCHANGED got

\* ... or a wait is cancelled, ...
ReadCancel ==
    /\ pc = "read"
    /\ http.sock \in {"open", "shut"}
    /\ http.timer = "armed"
    /\ http' = StopTimer(http)
    /\ pc' = "wait"
    /\ UNCHANGED <<got, closer, life, erases>>

\* Wrong on purpose: the timer is not restarted.
ReadUntimed ==
    /\ pc = "wait"
    /\ Leave([http EXCEPT !.ops = @ \cup {"read"}])
    /\ UNCHANGED got

\* ... a new one started, and async_read.
ReadStart ==
    /\ pc = "wait"
    /\ Leave([DoTimer(http) EXCEPT !.ops = @ \cup {"read"}])
    /\ UNCHANGED got

\* A request is read.
Request ==
    /\ Handles("read")
    /\ got < MaxRequest
    /\ got' = got + 1

\* Wrong on purpose: reads on with a full queue.
AnswerAlways ==
    /\ Request
    /\ \E b \in BOOLEAN :
           ThenRead(Respond(Done("read"), [to |-> got + 1, last |-> b]))

\* The request handler answers it, and the next one is read unless the queue
\* is full; ...
Answer ==
    /\ Request
    /\ \E b \in BOOLEAN :
           LET s == Respond(Done("read"), [to |-> got + 1, last |-> b])
           IN  IF IsFull(s) THEN Leave(DoClose(s)) ELSE ThenRead(s)

\* ... or throws, and executor::run() catches it; ...
AnswerThrows == Request /\ Leave(Done("read"))

\* ... or it is an upgrade: the socket moves to the WebSocket handler.
Upgrade ==
    /\ Request
    /\ Leave(DoClose([Done("read") EXCEPT !.sock = "moved"]))

\* The end of the stream or an error.
ReadFails ==
    /\ Handles("read")
    /\ Leave(DoClose(Done("read")))
    /\ UNCHANGED got

\* operation_aborted, after the timer has closed the socket.
ReadAborted ==
    /\ Handles("read")
    /\ http.sock = "closed"
    /\ Leave(Done("read"))
    /\ UNCHANGED got

\* on_write(): the response was written.
WriteDone ==
    /\ Handles("write")
    /\ LET s == Done("write")
           t == PopFront(s)
       IN  IF Head(s.items).last THEN Leave(DoClose(s))
           ELSE IF IsFull(s) THEN ThenRead(t)
           ELSE Leave(t)
    /\ UNCHANGED got

WriteFails ==
    /\ \E o \in {"write", "badWrite"} : Handles(o) /\ Leave(DoClose(Done(o)))
    /\ UNCHANGED got

WriteAborted ==
    /\ http.sock = "closed"
    /\ \E o \in {"write", "badWrite"} : Handles(o) /\ Leave(Done(o))
    /\ UNCHANGED got

\* The handler of the timer closes the socket, if it still has one.
TimerCloses ==
    /\ pc = "idle"
    /\ http.timer = "expired"
    /\ Leave([http EXCEPT !.timer = "idle",
                          !.sock = IF @ = "moved" THEN @ ELSE "closed"])
    /\ UNCHANGED got

\* Wrong on purpose: runs for a wait that was not cancelled, too.
TimerAbortedAny ==
    /\ pc = "idle"
    /\ life = "running"
    /\ Leave([http EXCEPT !.aborted = @ - 1])
    /\ UNCHANGED got

TimerAborted ==
    /\ pc = "idle"
    /\ http.aborted > 0
    /\ Leave([http EXCEPT !.aborted = @ - 1])
    /\ UNCHANGED got

\* Time passes.
TimerExpires ==
    /\ http.timer = "armed"
    /\ http' = [http EXCEPT !.timer = "expired"]
    /\ UNCHANGED <<got, pc, closer, life, erases>>

-----------------------------------------------------------------------------
(* The strand of the set *)

\* run(): the wait do_timer() starts is cancelled and restarted by do_read().
Run ==
    /\ life = "new"
    /\ life' = "running"
    /\ http' = [DoTimer(StopTimer(DoTimer(http))) EXCEPT !.ops = {"read"}]
    /\ UNCHANGED <<got, pc, closer, erases>>

\* Wrong on purpose: the socket is left as it is.
CloseShutNot ==
    /\ life = "running"
    /\ closer = "none"
    /\ closer' = "shut"
    /\ UNCHANGED <<http, got, pc, life, erases>>

\* do_close() at the shutdown of the set: socket_.shutdown() ...
CloseShut ==
    /\ life = "running"
    /\ closer = "none"
    /\ closer' = "shut"
    /\ http' = Shut(http)
    /\ UNCHANGED <<got, pc, life, erases>>

\* ... and stop_timer()
CloseCancel ==
    /\ closer = "shut"
    /\ closer' = "done"
    /\ http' = StopTimer(http)
    /\ UNCHANGED <<got, pc, life, erases>>

\* The lambda of async_erase(), and the destructor.
Erase ==
    /\ life = "running"
    /\ closer # "shut"
    /\ erases > 0
    /\ erases' = erases - 1
    /\ life' = "gone"
    /\ UNCHANGED <<http, got, pc, closer>>

HttpNext ==
    \/ Run \/ ReadNot \/ ReadCancel \/ ReadStart
    \/ Answer \/ AnswerThrows \/ Upgrade \/ ReadFails \/ ReadAborted
    \/ WriteDone \/ WriteFails \/ WriteAborted
    \/ TimerCloses \/ TimerAborted \/ TimerExpires
    \/ CloseShut \/ CloseCancel \/ Erase

\* The executor runs what is queued, time passes, and what is outstanding on
\* a socket that is not open in both directions completes.  Nothing is
\* assumed of the peer.
HttpFairness ==
    /\ WF_httpVars(Run)
    /\ WF_httpVars(ReadNot \/ ReadCancel \/ ReadStart)
    /\ WF_httpVars(http.sock \in {"shut", "closed"} /\ ReadFails)
    /\ WF_httpVars(http.sock \in {"shut", "closed"} /\ WriteFails)
    /\ WF_httpVars("badWrite" \in http.ops /\ WriteFails)
    /\ WF_httpVars(TimerCloses)
    /\ WF_httpVars(TimerAborted)
    /\ WF_httpVars(TimerExpires)
    /\ WF_httpVars(CloseCancel)
    /\ WF_httpVars(Erase)

HttpSpec == HttpInit /\ [][HttpNext]_httpVars /\ HttpFairness

-----------------------------------------------------------------------------
(* Properties *)

HttpTypeOK ==
    /\ http \in HttpState
    /\ got \in 0..MaxRequest
    /\ pc \in {"idle", "read", "wait"}
    /\ closer \in {"none", "shut", "done"}
    /\ life \in {"new", "running", "gone"}
    /\ erases \in Nat

\* async_erase() is called exactly once, by the last of all the handlers: the
\* destructor finds no operation and no wait that would use the session.
HttpErasedAfterLast ==
    /\ life = "running" => erases = IF Busy THEN 0 ELSE 1
    /\ life = "gone" => ~ Busy /\ erases = 0

\* The responses are written in the order of the requests, one after the
\* other, and nothing is written after a response that ends the connection;
\* the circular buffer drops none at its front, and on_write() finds its
\* response there.  It does not say that each of them is written: the request
\* that fills the queue closes the socket, and what waits then is lost.  (The
\* comments in do_read() and on_write() have the reading stop until there is
\* room again.)
ResponsesInOrder ==
    /\ IsPrefix(http.wire, http.answered)
    /\ IsSuffix(http.items, http.answered)
    /\ Len(http.wire) + Len(http.items) =
           Len(http.answered) + IF http.items = <<>> THEN 0 ELSE 1
    /\ \A i \in DOMAIN http.wire : http.wire[i].last => i = Len(http.wire)
    /\ http.ops \cap {"write", "badWrite"} # {} => http.items # <<>>

\* While the socket is open a response that waits is being written, and only
\* one: no request is left unanswered because nobody starts a write.
NoStuckResponse ==
    /\ http.sock = "open" /\ http.items # <<>> => "write" \in http.ops
    /\ ~ {"write", "badWrite"} \subseteq http.ops

\* A session with an open socket always has a wait of its timer, outside the
\* restart itself: whatever the peer, the request handler or the set do, the
\* session cannot be forgotten.
OpenHasTimer ==
    life = "running" /\ http.sock = "open" /\ pc # "wait" =>
        http.timer # "idle"

\* "Session is closed after this time without receiving": when no request
\* comes any more the session is destroyed, unless its socket has moved to a
\* WebSocket session with a response still being written.
HttpEnds ==
    life = "running" ~>
        life = "gone" \/ (http.sock = "moved" /\ "write" \in http.ops)
=============================================================================
