-------------------------- MODULE WsSessionProofs ---------------------------
(***************************************************************************)
(* Proofs about ws_session, for both roles, any number of threads and all  *)
(* bounds.  The inductive invariant SesInv says of the session state what  *)
(* NoStuckQueue and ClientTimerLive say, and what they rest on before the  *)
(* stream is open: nothing is queued, written or closed before the accept, *)
(* and a write is outstanding only while its message is in write_list_.    *)
(* The methods are functions of the session state, so each has a lemma     *)
(* about its result, and a step is proved from the lemmas of the methods   *)
(* that its handler calls.                                                 *)
(*                                                                         *)
(* LifeInv is about one thread: on_erase() is called once, by the last of  *)
(* the handlers. WsNotForgotten follows from both: what is left to do goes *)
(* on without the peer, except in the closing handshake.                   *)
(***************************************************************************)
EXTENDS WsSession, SequenceTheorems, TLAPS

\* Nothing but the accept happens on a stream that is not open yet.
Fresh(s) ==
    /\ s.stream = "connecting" => /\ s.ops \subseteq {"accept"} /\ s.pings = 0
                                  /\ s.writeList = <<>> /\ ~ s.closeReason
    /\ "accept" \in s.ops => s.stream = "connecting"

\* A write is outstanding for the front of write_list_, and an open stream
\* with something to write has one.
Writes(s) ==
    /\ "write" \in s.ops => s.writeList # <<>>
    /\ IsOpen(s) => /\ s.writeList # <<>> => "write" \in s.ops
                    /\ s.closeReason => "write" \in s.ops

Reads(s) == IsOpen(s) => "read" \in s.ops

Timed(s) == IsOpen(s) /\ s.socket => s.timer # "idle"

\* Two states that differ in the timer only.
SameButTimer(s, t) ==
    /\ t.stream = s.stream /\ t.socket = s.socket /\ t.ops = s.ops
    /\ t.pings = s.pings /\ t.waitOnPong = s.waitOnPong
    /\ t.isOpen = s.isOpen /\ t.closeReason = s.closeReason
    /\ t.writeList = s.writeList /\ t.accepted = s.accepted
    /\ t.wire = s.wire /\ t.received = s.received /\ t.hq = s.hq

-----------------------------------------------------------------------------
(* The methods *)

LEMMA AppendNonEmpty ==
    ASSUME NEW S, NEW q \in Seq(S), NEW e \in S
    PROVE  Append(q, e) \in Seq(S) /\ Append(q, e) # <<>>
  BY AppendProperties, Zenon

LEMMA StopTimerLemma ==
    ASSUME NEW s \in SessionState
    PROVE  /\ StopTimer(s) \in SessionState
           /\ SameButTimer(s, StopTimer(s))
           /\ StopTimer(s).timer = IF s.timer = "armed" THEN "idle"
                                                      ELSE s.timer
<1> DEFINE t == [s EXCEPT !.timer = "idle", !.aborted = @ + 1]
<1>1. s.aborted + 1 \in Nat
  BY DEF SessionState
<1>2. t \in SessionState
  BY <1>1 DEF SessionState
<1>3. SameButTimer(s, t) /\ t.timer = "idle"
  BY DEF SessionState, SameButTimer
<1> HIDE DEF t
<1> QED
  BY <1>2, <1>3 DEF StopTimer, SameButTimer, t

LEMMA DoTimerLemma ==
    ASSUME NEW s \in SessionState
    PROVE  /\ DoTimer(s) \in SessionState
           /\ SameButTimer(s, DoTimer(s))
           /\ DoTimer(s).timer = "armed"
  BY DEF SessionState, DoTimer, SameButTimer

\* restart_timer() keeps the timer of an open stream going.
LEMMA RestartTimerLemma ==
    ASSUME NEW s \in SessionState
    PROVE  /\ RestartTimer(s) \in SessionState
           /\ SameButTimer(s, RestartTimer(s))
           /\ IsOpen(s) /\ s.timer # "idle" => RestartTimer(s).timer # "idle"
<1>1. StopTimer(s) \in SessionState
  BY StopTimerLemma
<1> QED
  BY <1>1, StopTimerLemma, DoTimerLemma DEF RestartTimer, SameButTimer

LEMMA ActivityLemma ==
    ASSUME NEW s \in SessionState
    PROVE  /\ Activity(s) \in SessionState
           /\ Activity(s).stream = s.stream /\ Activity(s).ops = s.ops
           /\ Activity(s).pings = s.pings /\ Activity(s).socket = s.socket
           /\ Activity(s).writeList = s.writeList
           /\ Activity(s).closeReason = s.closeReason
           /\ IsOpen(s) /\ s.timer # "idle" => Activity(s).timer # "idle"
<1> DEFINE t == [s EXCEPT !.waitOnPong = FALSE]
<1>1. /\ t \in SessionState
      /\ t.stream = s.stream /\ t.ops = s.ops /\ t.pings = s.pings
      /\ t.socket = s.socket /\ t.writeList = s.writeList
      /\ t.closeReason = s.closeReason /\ t.timer = s.timer
  BY DEF SessionState
<1>2. Activity(s) = RestartTimer(t)
  BY DEF Activity
<1> HIDE DEF t
<1> QED
  BY <1>1, <1>2, RestartTimerLemma DEF SameButTimer, IsOpen

LEMMA DoReadLemma ==
    ASSUME NEW s \in SessionState
    PROVE  LET t == DoRead(s)
           IN  /\ t \in SessionState
               /\ t.stream = s.stream /\ t.pings = s.pings
               /\ t.socket = s.socket /\ t.writeList = s.writeList
               /\ t.closeReason = s.closeReason
               /\ t.ops = IF IsOpen(s) THEN s.ops \cup {"read"} ELSE s.ops
               /\ IsOpen(s) /\ s.timer # "idle" => t.timer # "idle"
<1>1. CASE ~ IsOpen(s)
  BY <1>1 DEF DoRead
<1>2. CASE IsOpen(s)
  <2> DEFINE r == RestartTimer(s)
  <2>1. /\ r \in SessionState /\ SameButTimer(s, r)
        /\ s.timer # "idle" => r.timer # "idle"
    BY <1>2, RestartTimerLemma
  <2>2. DoRead(s) = [r EXCEPT !.ops = @ \cup {"read"}]
    BY <1>2 DEF DoRead
  <2> HIDE DEF r
  <2>3. r.ops \cup {"read"} \in SUBSET Op
    BY <2>1 DEF SessionState, Op
  <2>4. DoRead(s) \in SessionState
    BY <2>1, <2>2, <2>3 DEF SessionState
  <2>5. LET t == DoRead(s)
        IN  /\ t.stream = r.stream /\ t.pings = r.pings
            /\ t.socket = r.socket /\ t.writeList = r.writeList
            /\ t.closeReason = r.closeReason /\ t.timer = r.timer
            /\ t.ops = r.ops \cup {"read"}
    BY <2>1, <2>2 DEF SessionState
  <2> QED
    BY <1>2, <2>1, <2>4, <2>5 DEF SameButTimer
<1> QED
  BY <1>1, <1>2

LEMMA DoWriteLemma ==
    ASSUME NEW s \in SessionState, s.closeReason \/ s.writeList # <<>>
    PROVE  LET t == DoWrite(s)
           IN  /\ t \in SessionState
               /\ t.pings = s.pings /\ t.socket = s.socket
               /\ t.timer = s.timer /\ t.writeList = s.writeList
               /\ t.closeReason = s.closeReason
               /\ t.stream = IF s.closeReason THEN "closing" ELSE s.stream
               /\ t.ops = s.ops \cup {IF s.closeReason THEN "close"
                                                       ELSE "write"}
<1>1. CASE s.closeReason
  <2> DEFINE w == Append(s.wire, CloseFrame)
  <2>1. w \in Seq(0..MaxCall)
    BY SessionAssumption DEF SessionState, CloseFrame
  <2>2. DoWrite(s) = [s EXCEPT !.stream = "closing",
                               !.ops = s.ops \cup {"close"}, !.wire = w]
    BY <1>1 DEF DoWrite, SessionState
  <2> HIDE DEF w
  <2>3. s.ops \cup {"close"} \in SUBSET Op
    BY DEF SessionState, Op
  <2>4. DoWrite(s) \in SessionState
    BY <2>1, <2>2, <2>3 DEF SessionState
  <2>5. LET t == DoWrite(s)
        IN  /\ t.pings = s.pings /\ t.socket = s.socket
            /\ t.timer = s.timer /\ t.writeList = s.writeList
            /\ t.closeReason = s.closeReason
            /\ t.stream = "closing" /\ t.ops = s.ops \cup {"close"}
    BY <2>2 DEF SessionState
  <2> QED
    BY <1>1, <2>4, <2>5
<1>2. CASE ~ s.closeReason
  <2> DEFINE w == Append(s.wire, Head(s.writeList))
  <2>1. Head(s.writeList) \in 1..MaxCall /\ s.wire \in Seq(0..MaxCall)
    <3>1. /\ s.writeList \in Seq(1..MaxCall) /\ s.writeList # <<>>
          /\ s.wire \in Seq(0..MaxCall)
      BY <1>2 DEF SessionState
    <3> QED
      BY <3>1, HeadTailProperties
  <2>2. Head(s.writeList) \in 0..MaxCall
    BY <2>1, SessionAssumption
  <2>3. w \in Seq(0..MaxCall)
    BY <2>1, <2>2
  <2>4. DoWrite(s) = [s EXCEPT !.ops = s.ops \cup {"write"}, !.wire = w]
    BY <1>2 DEF DoWrite, SessionState
  <2> HIDE DEF w
  <2>5. s.ops \cup {"write"} \in SUBSET Op
    BY DEF SessionState, Op
  <2>6. DoWrite(s) \in SessionState
    BY <2>3, <2>4, <2>5 DEF SessionState
  <2>7. LET t == DoWrite(s)
        IN  /\ t.pings = s.pings /\ t.socket = s.socket
            /\ t.timer = s.timer /\ t.writeList = s.writeList
            /\ t.closeReason = s.closeReason
            /\ t.stream = s.stream /\ t.ops = s.ops \cup {"write"}
    BY <2>4 DEF SessionState
  <2> QED
    BY <1>2, <2>6, <2>7
<1> QED
  BY <1>1, <1>2 DEF SessionState

\* The lambda of close() keeps what is true of the writes of the session.
LEMMA CloseLemma ==
    ASSUME NEW s \in SessionState
    PROVE  LET t == Close(s)
           IN  /\ t \in SessionState
               /\ t.pings = s.pings /\ t.socket = s.socket
               /\ t.writeList = s.writeList
               /\ t.ops \in {s.ops, s.ops \cup {"close"}}
               /\ t.stream \in {s.stream, "closing"}
               /\ ~ IsOpen(s) => /\ t.stream = s.stream /\ t.ops = s.ops
                                 /\ t.closeReason = s.closeReason
               /\ IsOpen(s) => t.timer = s.timer
               /\ Writes(s) => Writes(t)
<1>1. CASE ~ IsOpen(s)
  BY <1>1, StopTimerLemma DEF Close, SameButTimer, IsOpen, Writes
<1>2. CASE IsOpen(s) /\ s.closeReason
  BY <1>2 DEF Close
<1>3. CASE IsOpen(s) /\ ~ s.closeReason
  <2> DEFINE n == [s EXCEPT !.closeReason = TRUE]
  <2>1. /\ n \in SessionState /\ n.closeReason
        /\ n.pings = s.pings /\ n.socket = s.socket /\ n.timer = s.timer
        /\ n.writeList = s.writeList /\ n.ops = s.ops
        /\ n.stream = s.stream
    BY DEF SessionState
  <2>2. Close(s) = IF s.writeList = <<>> THEN DoWrite(n) ELSE n
    BY <1>3 DEF Close
  <2> HIDE DEF n
  <2>3. CASE s.writeList = <<>>
    <3>1. Close(s) = DoWrite(n)
      BY <2>2, <2>3
    <3> QED
      BY <3>1, <2>1, <1>3, DoWriteLemma DEF Writes, IsOpen
  <2>4. CASE s.writeList # <<>>
    BY <2>4, <2>1, <2>2, <1>3 DEF Writes, IsOpen
  <2> QED
    BY <2>3, <2>4
<1> QED
  BY <1>1, <1>2, <1>3

\* The lambda of send() does, too.
LEMMA SendLemma ==
    ASSUME NEW s \in SessionState, NEW n \in 1..MaxCall, Writes(s)
    PROVE  LET t == Send(s, n)
           IN  /\ t \in SessionState
               /\ t.pings = s.pings /\ t.socket = s.socket
               /\ t.stream = s.stream /\ t.closeReason = s.closeReason
               /\ t.ops \in {s.ops, s.ops \cup {"write"}}
               /\ ~ IsOpen(s) => t.ops = s.ops /\ t.writeList = s.writeList
               /\ IsOpen(s) => t.timer = s.timer
               /\ Writes(t)
<1>1. CASE ~ IsOpen(s)
  BY <1>1, StopTimerLemma DEF Send, SameButTimer, IsOpen, Writes
<1>2. CASE IsOpen(s) /\ (s.closeReason \/ Len(s.writeList) = WriteMax)
  BY <1>2 DEF Send
<1>3. CASE IsOpen(s) /\ ~ (s.closeReason \/ Len(s.writeList) = WriteMax)
  <2> DEFINE l == Append(s.writeList, n)
             a == Append(s.accepted, n)
             q == [s EXCEPT !.writeList = l, !.accepted = a]
  <2>1. l \in Seq(1..MaxCall) /\ a \in Seq(1..MaxCall) /\ l # <<>>
    <3>1. s.writeList \in Seq(1..MaxCall) /\ s.accepted \in Seq(1..MaxCall)
      BY DEF SessionState
    <3> QED
      BY <3>1, AppendNonEmpty, Zenon
  <2>2. Send(s, n) = IF s.writeList = <<>> THEN DoWrite(q) ELSE q
    BY <1>3 DEF Send, SessionState
  <2> HIDE DEF l, a
  <2>3. /\ q \in SessionState /\ q.closeReason = s.closeReason
        /\ q.pings = s.pings /\ q.socket = s.socket /\ q.timer = s.timer
        /\ q.writeList = l /\ q.ops = s.ops /\ q.stream = s.stream
    BY <2>1 DEF SessionState
  <2> HIDE DEF q
  <2>4. CASE s.writeList = <<>>
    <3>1. Send(s, n) = DoWrite(q)
      BY <2>2, <2>4
    <3> QED
      BY <3>1, <2>1, <2>3, <1>3, DoWriteLemma DEF Writes, IsOpen
  <2>5. CASE s.writeList # <<>>
    BY <2>5, <2>1, <2>2, <2>3, <1>3 DEF Writes, IsOpen
  <2> QED
    BY <2>4, <2>5
<1> QED
  BY <1>1, <1>2, <1>3

LEMMA OpenedLemma ==
    ASSUME NEW s \in SessionState
    PROVE  LET t == Opened(s)
           IN  /\ t \in SessionState
               /\ t.stream = s.stream /\ t.ops = s.ops /\ t.pings = s.pings
               /\ t.socket = s.socket /\ t.writeList = s.writeList
               /\ t.closeReason = s.closeReason /\ t.timer = s.timer
               /\ t.hq # <<>>
<1> DEFINE q == Append(s.hq, OnOpen)
<1>1. q \in Seq(Nat) /\ q # <<>>
  <2>1. s.hq \in Seq(Nat) /\ OnOpen \in Nat
    BY DEF SessionState, OnOpen
  <2> QED
    BY <2>1, AppendNonEmpty, Zenon
<1>2. Opened(s) = [s EXCEPT !.isOpen = TRUE, !.hq = q]
  BY DEF Opened, SessionState
<1> HIDE DEF q
<1> QED
  BY <1>1, <1>2 DEF SessionState

LEMMA OnMessageLemma ==
    ASSUME NEW s \in SessionState
    PROVE  LET t == OnMessage(s)
           IN  /\ t \in SessionState
               /\ t.stream = s.stream /\ t.ops = s.ops /\ t.pings = s.pings
               /\ t.socket = s.socket /\ t.writeList = s.writeList
               /\ t.closeReason = s.closeReason /\ t.timer = s.timer
<1> DEFINE r == s.received + 1
           q == Append(s.hq, r)
<1>1. r \in Nat /\ q \in Seq(Nat)
  BY DEF SessionState
<1>2. OnMessage(s) = [s EXCEPT !.received = r, !.hq = q]
  BY DEF OnMessage, SessionState
<1> HIDE DEF q, r
<1> QED
  BY <1>1, <1>2 DEF SessionState

LEMMA DoneLemma ==
    ASSUME ses \in SessionState, NEW o \in Op,
           NEW st \in {"connecting", "open", "closing", "replying", "closed"}
    PROVE  LET t == Done(o, st)
           IN  /\ t \in SessionState
               /\ t.stream = st /\ t.ops = ses.ops \ {o}
               /\ t.pings = ses.pings /\ t.socket = ses.socket
               /\ t.writeList = ses.writeList /\ t.timer = ses.timer
               /\ t.closeReason = ses.closeReason
  BY DEF Done, SessionState

-----------------------------------------------------------------------------
(* The invariant of the session state *)

Good(s) ==
    /\ s \in SessionState
    /\ Fresh(s) /\ Writes(s) /\ Reads(s)
    /\ role = "client" => Timed(s) /\ s.stream # "connecting"

SesInv ==
    /\ WsTypeOK
    /\ life = "new" => ses = NewSession(role)
    /\ life # "new" => Good(ses)
    /\ pc = "checked" => made < MaxCall

LEMMA SesInvInit == WsInit => SesInv
<1> SUFFICES ASSUME WsInit PROVE SesInv
  OBVIOUS
<1>1. ses \in SessionState
  BY DEF WsInit, NewSession, SessionState, Op
<1> QED
  BY <1>1, SessionAssumption DEF WsInit, SesInv, WsTypeOK

\* start() and do_accept()
LEMMA StartGood ==
    ASSUME SesInv, Start
    PROVE  /\ Good(ses') /\ ses'.ops # {} /\ ~ ses'.closeReason
           /\ ses'.stream \in {"connecting", "open"}
<1>1. ses = NewSession(role) /\ ses \in SessionState /\ role' = role
      /\ role \in {"client", "server"}
  BY SessionAssumption DEF SesInv, Start, WsTypeOK
<1>2. /\ ses.ops = {} /\ ses.pings = 0 /\ ses.writeList = <<>>
      /\ ~ ses.closeReason
      /\ ses.stream = IF role = "client" THEN "open" ELSE "connecting"
  BY <1>1 DEF NewSession
<1> DEFINE a == DoTimer(ses)
           b == StartTimer(ses)
<1>3. /\ a \in SessionState /\ SameButTimer(ses, a) /\ a.timer = "armed"
      /\ b = RestartTimer(a)
  BY <1>1, DoTimerLemma DEF StartTimer
<1> HIDE DEF a
<1>4. /\ b \in SessionState /\ SameButTimer(a, b)
      /\ IsOpen(a) => b.timer # "idle"
  BY <1>3, RestartTimerLemma
<1> HIDE DEF b
<1>5. /\ b.ops = {} /\ b.pings = 0 /\ b.writeList = <<>>
      /\ ~ b.closeReason /\ b.stream = ses.stream
      /\ IsOpen(ses) => b.timer # "idle"
  BY <1>2, <1>3, <1>4 DEF SameButTimer, IsOpen
<1>6. CASE role = "server"
  <2>1. ses' = [b EXCEPT !.ops = b.ops \cup {"accept"}]
    BY <1>1, <1>4, <1>6 DEF Start, DoAccept, b, SessionState
  <2>2. /\ ses' \in SessionState /\ ses'.ops = {"accept"}
        /\ ses'.pings = 0 /\ ses'.writeList = <<>> /\ ~ ses'.closeReason
        /\ ses'.stream = "connecting"
    BY <1>2, <1>4, <1>5, <1>6, <2>1 DEF SessionState, Op
  <2> QED
    BY <2>2, <1>6 DEF Good, Fresh, Writes, Reads, IsOpen
<1>7. CASE role = "client"
  <2>1. ses' = DoRead(Opened(b))
    BY <1>1, <1>7 DEF Start, StartClient, b
  <2> DEFINE c == Opened(b)
  <2>2. /\ c \in SessionState /\ c.stream = "open" /\ c.ops = {}
        /\ c.writeList = <<>> /\ ~ c.closeReason /\ c.timer # "idle"
    BY <1>2, <1>4, <1>5, <1>7, OpenedLemma DEF IsOpen
  <2> HIDE DEF c
  <2>3. ses' = DoRead(c)
    BY <2>1 DEF c
  <2>4. LET t == DoRead(c)
        IN  /\ t \in SessionState /\ t.stream = "open" /\ t.ops = {"read"}
            /\ t.writeList = <<>> /\ ~ t.closeReason /\ t.timer # "idle"
    BY <2>2, DoReadLemma DEF IsOpen
  <2> QED
    BY <2>3, <2>4 DEF Good, Fresh, Writes, Reads, Timed, IsOpen
<1> QED
  BY <1>1, <1>6, <1>7

\* What a handler of a running session starts from.
LEMMA Running ==
    ASSUME SesInv, life = "running"
    PROVE  /\ ses \in SessionState /\ Fresh(ses) /\ Writes(ses)
           /\ Reads(ses)
           /\ role = "client" => Timed(ses) /\ ses.stream # "connecting"
  BY DEF SesInv, Good

LEMMA HandlerLemma ==
    ASSUME NEW s, Handler(s)
    PROVE  ses' = s /\ life = "running" /\ UNCHANGED <<role, life>>
  BY DEF Handler, Leave, OtherStrand

LEMMA LeaveLemma ==
    ASSUME NEW s, Leave(s)
    PROVE  ses' = s /\ life = "running" /\ UNCHANGED <<role, life>>
  BY DEF Leave, OtherStrand

LEMMA AcceptOkGood == ASSUME SesInv, AcceptOk PROVE Good(ses')
<1> DEFINE a == Done("accept", "open")
           b == Opened(a)
<1>1. /\ "accept" \in ses.ops /\ ses' = DoRead(b) /\ life = "running"
      /\ role' = role
  BY HandlerLemma DEF AcceptOk
<1>2. /\ ses \in SessionState /\ ses.stream = "connecting"
      /\ ses.ops \subseteq {"accept"} /\ ses.writeList = <<>>
      /\ ~ ses.closeReason /\ role # "client"
  BY <1>1, Running DEF Fresh
<1>3. /\ a \in SessionState /\ a.stream = "open" /\ a.ops = {}
      /\ a.writeList = <<>> /\ ~ a.closeReason
  BY <1>2, DoneLemma DEF Op
<1> HIDE DEF a
<1>4. /\ b \in SessionState /\ b.stream = "open" /\ b.ops = {}
      /\ b.writeList = <<>> /\ ~ b.closeReason
  BY <1>3, OpenedLemma
<1> HIDE DEF b
<1>5. LET t == DoRead(b)
      IN  /\ t \in SessionState /\ t.stream = "open" /\ t.ops = {"read"}
          /\ t.writeList = <<>> /\ ~ t.closeReason
  BY <1>4, DoReadLemma DEF IsOpen
<1> QED
  BY <1>1, <1>2, <1>5 DEF Good, Fresh, Writes, Reads, IsOpen

\* The operations whose handlers do not go on leave a stream that is not
\* open: nothing is left to keep up.
LEMMA BrokenGood ==
    ASSUME NEW s \in SessionState, s.stream \notin {"open", "connecting"},
           "accept" \notin s.ops, Writes(s)
    PROVE  Good(s)
  BY DEF Good, Fresh, Reads, Timed, IsOpen

LEMMA FailedLemma ==
    ASSUME SesInv, life = "running", NEW o \in Op
    PROVE  LET t == Failed(o)
           IN  /\ t \in SessionState /\ t.stream = "closed"
               /\ o \in ses.ops => "accept" \notin t.ops
               /\ Writes(t) /\ t.socket = ses.socket
<1>1. ses \in SessionState /\ Fresh(ses) /\ Writes(ses)
  BY Running
<1>2. Failed(o) = Done(o, "closed")
  BY DEF Failed
<1> QED
  BY <1>1, <1>2, DoneLemma DEF Fresh, Writes, IsOpen, Op

\* A handler that ends an operation, with an error or with the session.
LEMMA FailsGood ==
    ASSUME SesInv, life = "running", NEW o \in ses.ops
    PROVE  /\ Good(Failed(o)) /\ Good(StopTimer(Failed(o)))
           /\ Good(Activity(Failed(o))) /\ Good(Close(Failed(o)))
<1> DEFINE t == Failed(o)
<1>0. o \in Op
  BY Running DEF SessionState
<1>1. /\ t \in SessionState /\ t.stream = "closed"
      /\ "accept" \notin t.ops /\ Writes(t)
  BY <1>0, FailedLemma
<1> HIDE DEF t
<1>2. Good(t)
  BY <1>1, BrokenGood
<1>3. Good(StopTimer(t))
  <2>1. /\ StopTimer(t) \in SessionState /\ StopTimer(t).stream = "closed"
        /\ "accept" \notin StopTimer(t).ops /\ Writes(StopTimer(t))
    BY <1>1, StopTimerLemma DEF SameButTimer, Writes, IsOpen
  <2> QED
    BY <2>1, BrokenGood
<1>4. Good(Activity(t))
  <2>1. /\ Activity(t) \in SessionState /\ Activity(t).stream = "closed"
        /\ "accept" \notin Activity(t).ops /\ Writes(Activity(t))
    BY <1>1, ActivityLemma DEF Writes, IsOpen
  <2> QED
    BY <2>1, BrokenGood
<1>5. Good(Close(t))
  <2>1. /\ Close(t) \in SessionState /\ Close(t).stream = "closed"
        /\ "accept" \notin Close(t).ops /\ Writes(Close(t))
    BY <1>1, CloseLemma DEF IsOpen
  <2> QED
    BY <2>1, BrokenGood
<1> QED
  BY <1>2, <1>3, <1>4, <1>5 DEF t

LEMMA AcceptFailsGood == ASSUME SesInv, AcceptFails PROVE Good(ses')
  BY HandlerLemma, FailsGood DEF AcceptFails

LEMMA ReadFailsGood == ASSUME SesInv, ReadFails PROVE Good(ses')
  BY HandlerLemma, FailsGood DEF ReadFails

LEMMA ReadClosedGood == ASSUME SesInv, ReadClosed PROVE Good(ses')
  BY HandlerLemma, FailsGood DEF ReadClosed

LEMMA WriteFailsGood == ASSUME SesInv, WriteFails PROVE Good(ses')
  BY HandlerLemma, FailsGood DEF WriteFails

LEMMA CloseDoneGood == ASSUME SesInv, CloseDone PROVE Good(ses')
  BY HandlerLemma, FailsGood DEF CloseDone

\* async_read with a message: the next read keeps the session reading.
LEMMA ReadMessageGood == ASSUME SesInv, ReadMessage PROVE Good(ses')
<1> DEFINE a == Done("read", ses.stream)
           b == Activity(a)
           c == OnMessage(b)
<1>1. /\ "read" \in ses.ops /\ ses' = DoRead(c) /\ life = "running"
      /\ ses.stream \in {"open", "closing"}
  BY HandlerLemma DEF ReadMessage
<1>2. /\ ses \in SessionState /\ Writes(ses) /\ "accept" \notin ses.ops
      /\ role = "client" => Timed(ses)
  BY <1>1, Running DEF Fresh
<1>3. /\ a \in SessionState /\ a.stream = ses.stream
      /\ a.ops = ses.ops \ {"read"} /\ a.writeList = ses.writeList
      /\ a.closeReason = ses.closeReason /\ a.socket = ses.socket
      /\ a.timer = ses.timer
  BY <1>1, <1>2, DoneLemma DEF Op
<1> HIDE DEF a
<1>4. /\ b \in SessionState /\ b.stream = a.stream /\ b.ops = a.ops
      /\ b.writeList = a.writeList /\ b.closeReason = a.closeReason
      /\ b.socket = a.socket
      /\ IsOpen(a) /\ a.timer # "idle" => b.timer # "idle"
  BY <1>3, ActivityLemma
<1> HIDE DEF b
<1>5. /\ c \in SessionState /\ c.stream = b.stream /\ c.ops = b.ops
      /\ c.writeList = b.writeList /\ c.closeReason = b.closeReason
      /\ c.socket = b.socket /\ c.timer = b.timer
  BY <1>4, OnMessageLemma
<1> HIDE DEF c
<1>6. /\ c.stream = ses.stream /\ c.ops = ses.ops \ {"read"}
      /\ c.writeList = ses.writeList /\ c.closeReason = ses.closeReason
      /\ c.socket = ses.socket
      /\ IsOpen(ses) /\ ses.timer # "idle" => c.timer # "idle"
  BY <1>3, <1>4, <1>5 DEF IsOpen
<1> DEFINE t == DoRead(c)
<1>7. /\ t \in SessionState /\ t.stream = c.stream /\ t.socket = c.socket
      /\ t.writeList = c.writeList /\ t.closeReason = c.closeReason
      /\ t.ops = IF IsOpen(c) THEN c.ops \cup {"read"} ELSE c.ops
      /\ IsOpen(c) /\ c.timer # "idle" => t.timer # "idle"
  BY <1>5, DoReadLemma
<1>8. ses' = t
  BY <1>1
<1> HIDE DEF t
<1> QED
  BY <1>1, <1>2, <1>6, <1>7, <1>8
     DEF Good, Fresh, Writes, Reads, Timed, IsOpen

\* async_read with an error on a stream that stays open: close(), and the
\* next read unless the close frame is already on its way.
LEMMA ReadBadGood == ASSUME SesInv, ReadBad PROVE Good(ses')
<1> DEFINE a == Done("read", "open")
           b == Activity(a)
           c == Close(b)
<1>1. /\ "read" \in ses.ops /\ ses' = DoRead(c) /\ life = "running"
      /\ ses.stream = "open"
  BY HandlerLemma DEF ReadBad, IsOpen
<1>2. /\ ses \in SessionState /\ Writes(ses) /\ "accept" \notin ses.ops
      /\ role = "client" => Timed(ses)
  BY <1>1, Running DEF Fresh
<1>3. /\ a \in SessionState /\ a.stream = "open"
      /\ a.ops = ses.ops \ {"read"} /\ a.writeList = ses.writeList
      /\ a.closeReason = ses.closeReason /\ a.socket = ses.socket
      /\ a.timer = ses.timer
  BY <1>2, DoneLemma DEF Op
<1> HIDE DEF a
<1>4. /\ b \in SessionState /\ b.stream = "open" /\ b.ops = a.ops
      /\ b.writeList = a.writeList /\ b.closeReason = a.closeReason
      /\ b.socket = a.socket
      /\ a.timer # "idle" => b.timer # "idle"
  BY <1>3, ActivityLemma DEF IsOpen
<1>5. Writes(b) /\ "accept" \notin b.ops
  BY <1>1, <1>2, <1>3, <1>4 DEF Writes, IsOpen
<1> HIDE DEF b
<1>6. /\ c \in SessionState /\ c.stream \in {"open", "closing"}
      /\ "accept" \notin c.ops /\ Writes(c) /\ c.socket = b.socket
      /\ c.timer = b.timer
  BY <1>4, <1>5, CloseLemma DEF IsOpen
<1> HIDE DEF c
<1>7. LET t == DoRead(c)
      IN  /\ t \in SessionState /\ t.stream = c.stream
          /\ t.writeList = c.writeList /\ t.closeReason = c.closeReason
          /\ t.socket = c.socket
          /\ t.ops = IF IsOpen(c) THEN c.ops \cup {"read"} ELSE c.ops
          /\ IsOpen(c) /\ c.timer # "idle" => t.timer # "idle"
  BY <1>6, DoReadLemma
<1> QED
  BY <1>1, <1>2, <1>3, <1>4, <1>6, <1>7
     DEF Good, Fresh, Writes, Reads, Timed, IsOpen

\* The control callback for a ping or a pong.
LEMMA PeerControlGood == ASSUME SesInv, PeerControl PROVE Good(ses')
<1>1. /\ "read" \in ses.ops /\ ses' = Activity(ses) /\ life = "running"
      /\ IsOpen(ses)
  BY HandlerLemma DEF PeerControl
<1>2. /\ ses \in SessionState /\ Writes(ses) /\ "accept" \notin ses.ops
      /\ role = "client" => Timed(ses)
  BY <1>1, Running DEF Fresh
<1> QED
  BY <1>1, <1>2, ActivityLemma
     DEF Good, Fresh, Writes, Reads, Timed, IsOpen

LEMMA PeerCloseGood == ASSUME SesInv, PeerClose PROVE Good(ses')
<1> DEFINE a == Activity(ses)
<1>1. /\ "read" \in ses.ops /\ ses' = [a EXCEPT !.stream = "replying"]
      /\ life = "running"
  BY HandlerLemma DEF PeerClose
<1>2. ses \in SessionState /\ Writes(ses) /\ "accept" \notin ses.ops
  BY <1>1, Running DEF Fresh
<1>3. a \in SessionState /\ a.ops = ses.ops /\ a.writeList = ses.writeList
  BY <1>2, ActivityLemma
<1> HIDE DEF a
<1>4. /\ ses' \in SessionState /\ ses'.stream = "replying"
      /\ ses'.ops = ses.ops /\ ses'.writeList = ses.writeList
  BY <1>1, <1>3 DEF SessionState
<1>5. Writes(ses')
  BY <1>2, <1>4 DEF Writes, IsOpen
<1> QED
  BY <1>2, <1>4, <1>5, BrokenGood

\* The handler of async_write: the next write starts if anything is left.
LEMMA WriteDoneGood == ASSUME SesInv, WriteDone PROVE Good(ses')
<1> DEFINE a == Done("write", ses.stream)
           l == Tail(a.writeList)
           b == [a EXCEPT !.writeList = l]
<1>1. /\ "write" \in ses.ops /\ life = "running"
      /\ ses' = IF IsOpen(b) /\ (b.writeList # <<>> \/ b.closeReason)
                THEN DoWrite(b) ELSE b
  <2>1. [a EXCEPT !.writeList = Tail(@)] = b
    BY Running, DoneLemma DEF WriteDone, Handler, Leave, OtherStrand,
       SessionState, Op
  <2> QED
    BY <2>1, HandlerLemma DEF WriteDone
<1>2. /\ ses \in SessionState /\ Writes(ses) /\ "accept" \notin ses.ops
      /\ role = "client" => Timed(ses)
      /\ Reads(ses) /\ ses.writeList # <<>> /\ ses.stream # "connecting"
  BY <1>1, Running DEF Fresh, Writes
<1>3. /\ a \in SessionState /\ a.stream = ses.stream
      /\ a.ops = ses.ops \ {"write"} /\ a.writeList = ses.writeList
      /\ a.closeReason = ses.closeReason /\ a.socket = ses.socket
      /\ a.timer = ses.timer
  <2>1. "write" \in Op /\ ses.stream \in {"connecting", "open", "closing",
                                         "replying", "closed"}
    BY <1>2 DEF Op, SessionState
  <2> QED
    BY <2>1, <1>2, DoneLemma
<1>4. l \in Seq(1..MaxCall)
  <2>1. a.writeList \in Seq(1..MaxCall) /\ a.writeList # <<>>
    BY <1>2, <1>3 DEF SessionState
  <2> QED
    BY <2>1, HeadTailProperties
<1> HIDE DEF a, l
<1>5. /\ b \in SessionState /\ b.stream = ses.stream
      /\ b.ops = ses.ops \ {"write"} /\ b.writeList = l
      /\ b.closeReason = ses.closeReason /\ b.socket = ses.socket
      /\ b.timer = ses.timer
  BY <1>3, <1>4 DEF SessionState
<1> HIDE DEF b
<1>6. CASE IsOpen(b) /\ (b.writeList # <<>> \/ b.closeReason)
  <2>1. ses' = DoWrite(b)
    BY <1>1, <1>6
  <2>2. /\ ses' \in SessionState
        /\ ses'.socket = b.socket /\ ses'.timer = b.timer
        /\ ses'.writeList = b.writeList /\ ses'.closeReason = b.closeReason
        /\ ses'.stream = IF b.closeReason THEN "closing" ELSE b.stream
        /\ ses'.ops = b.ops \cup {IF b.closeReason THEN "close" ELSE "write"}
    BY <2>1, <1>5, <1>6, DoWriteLemma
  <2> QED
    BY <2>2, <1>2, <1>5, <1>6 DEF Good, Fresh, Writes, Reads, Timed, IsOpen
<1>7. CASE ~ (IsOpen(b) /\ (b.writeList # <<>> \/ b.closeReason))
  <2>1. ses' = b
    BY <1>1, <1>7
  <2> QED
    BY <2>1, <1>2, <1>5, <1>7 DEF Good, Fresh, Writes, Reads, Timed, IsOpen
<1> QED
  BY <1>6, <1>7

LEMMA PingDoneGood == ASSUME SesInv, PingDone PROVE Good(ses')
<1>1. /\ ses' = [ses EXCEPT !.pings = @ - 1] /\ life = "running"
      /\ ses.pings > 0
  BY HandlerLemma DEF PingDone
<1>2. Good(ses) /\ ses \in SessionState
  BY <1>1 DEF SesInv, Good
<1>3. ses.pings - 1 \in Nat /\ ses.stream # "connecting"
  BY <1>1, <1>2 DEF SessionState, Good, Fresh
<1>4. /\ ses' \in SessionState /\ ses'.stream = ses.stream
      /\ ses'.ops = ses.ops /\ ses'.writeList = ses.writeList
      /\ ses'.closeReason = ses.closeReason /\ ses'.socket = ses.socket
      /\ ses'.timer = ses.timer
  BY <1>1, <1>2, <1>3 DEF SessionState
<1> QED
  BY <1>2, <1>3, <1>4 DEF Good, Fresh, Writes, Reads, Timed, IsOpen

LEMMA PingFailsGood == ASSUME SesInv, PingFails PROVE Good(ses')
<1> DEFINE a == [ses EXCEPT !.pings = @ - 1, !.stream = "closed"]
<1>1. ses' = Close(a) /\ life = "running" /\ ses.pings > 0
  BY HandlerLemma DEF PingFails
<1>2. Good(ses) /\ ses \in SessionState
  BY <1>1 DEF SesInv, Good
<1>3. ses.pings - 1 \in Nat /\ ses.stream # "connecting"
  BY <1>1, <1>2 DEF SessionState, Good, Fresh
<1>4. /\ a \in SessionState /\ a.stream = "closed"
      /\ a.ops = ses.ops /\ a.writeList = ses.writeList
  BY <1>2, <1>3 DEF SessionState
<1> HIDE DEF a
<1>5. Writes(a) /\ "accept" \notin a.ops
  BY <1>2, <1>3, <1>4 DEF Good, Fresh, Writes, IsOpen
<1>6. /\ Close(a) \in SessionState /\ Close(a).stream = "closed"
      /\ "accept" \notin Close(a).ops /\ Writes(Close(a))
  BY <1>4, <1>5, CloseLemma DEF IsOpen
<1> QED
  BY <1>1, <1>6, BrokenGood

\* A state that differs in the timer from a good one, and has a wait where
\* one is needed, is good.
LEMMA TimerGood ==
    ASSUME NEW s, NEW t \in SessionState, Good(s), SameButTimer(s, t),
           role = "client" => Timed(t)
    PROVE  Good(t)
  BY DEF Good, SameButTimer, Fresh, Writes, Reads, IsOpen

LEMMA TimerExpiresGood == ASSUME SesInv, TimerExpires PROVE Good(ses')
<1>1. ses' = [ses EXCEPT !.timer = "expired"] /\ Good(ses)
  BY DEF TimerExpires, SesInv
<1>2. /\ ses' \in SessionState /\ SameButTimer(ses, ses')
      /\ ses'.timer = "expired"
  BY <1>1 DEF Good, SessionState, SameButTimer
<1> QED
  BY <1>1, <1>2, TimerGood DEF Timed

\* The first expiry: the ping, and the timer again.
LEMMA TimerPingsGood == ASSUME SesInv, TimerPings PROVE Good(ses')
<1> DEFINE a == [ses EXCEPT !.timer = "idle", !.waitOnPong = TRUE,
                            !.pings = @ + 1]
           b == RestartTimer(a)
<1>1. ses' = DoTimer(b) /\ life = "running" /\ IsOpen(ses)
  BY HandlerLemma DEF TimerPings
<1>2. Good(ses) /\ ses \in SessionState
  BY <1>1 DEF SesInv, Good
<1>3. ses.pings + 1 \in Nat
  BY <1>2 DEF SessionState
<1>4. /\ a \in SessionState /\ a.stream = ses.stream
      /\ a.ops = ses.ops /\ a.writeList = ses.writeList
      /\ a.closeReason = ses.closeReason
  BY <1>2, <1>3 DEF SessionState
<1> HIDE DEF a
<1>5. b \in SessionState /\ SameButTimer(a, b)
  BY <1>4, RestartTimerLemma
<1> HIDE DEF b
<1>6. /\ DoTimer(b) \in SessionState /\ SameButTimer(b, DoTimer(b))
      /\ DoTimer(b).timer = "armed"
  BY <1>5, DoTimerLemma
<1> QED
  BY <1>1, <1>2, <1>4, <1>5, <1>6
     DEF Good, Fresh, Writes, Reads, Timed, IsOpen, SameButTimer

LEMMA TimerIgnoredGood == ASSUME SesInv, TimerIgnored PROVE Good(ses')
<1>1. /\ ses' = [ses EXCEPT !.timer = "idle"] /\ ~ IsOpen(ses)
      /\ life = "running"
  BY HandlerLemma DEF TimerIgnored
<1>2. Good(ses)
  BY <1>1 DEF SesInv
<1>3. ses' \in SessionState /\ SameButTimer(ses, ses')
  BY <1>1, <1>2 DEF Good, SessionState, SameButTimer
<1> QED
  BY <1>1, <1>2, <1>3, TimerGood DEF Timed, SameButTimer, IsOpen

\* The second expiry: without a socket no timer is needed.
LEMMA TimerClosesGood == ASSUME SesInv, TimerCloses PROVE Good(ses')
<1> DEFINE a == [ses EXCEPT !.timer = "idle"]
           b == [a EXCEPT !.socket = FALSE]
<1>1. ses' = StopTimer(b) /\ life = "running"
  BY HandlerLemma DEF TimerCloses, CloseSocket
<1>2. Good(ses) /\ ses \in SessionState
  BY <1>1 DEF SesInv, Good
<1>3. /\ b \in SessionState /\ b.stream = ses.stream /\ ~ b.socket
      /\ b.ops = ses.ops /\ b.writeList = ses.writeList
      /\ b.closeReason = ses.closeReason /\ b.pings = ses.pings
  BY <1>2 DEF SessionState
<1> HIDE DEF b
<1>4. StopTimer(b) \in SessionState /\ SameButTimer(b, StopTimer(b))
  BY <1>3, StopTimerLemma
<1> QED
  BY <1>1, <1>2, <1>3, <1>4
     DEF Good, Fresh, Writes, Reads, Timed, IsOpen, SameButTimer

LEMMA TimerAbortedGood == ASSUME SesInv, TimerAborted PROVE Good(ses')
<1>1. /\ ses' = [ses EXCEPT !.aborted = @ - 1] /\ ses.aborted > 0
      /\ life = "running"
  BY HandlerLemma DEF TimerAborted
<1>2. Good(ses) /\ ses \in SessionState
  BY <1>1 DEF SesInv, Good
<1>3. ses.aborted - 1 \in Nat
  BY <1>1, <1>2 DEF SessionState
<1>4. /\ ses' \in SessionState /\ SameButTimer(ses, ses')
      /\ ses'.timer = ses.timer
  BY <1>1, <1>2, <1>3 DEF SessionState, SameButTimer
<1> QED
  BY <1>2, <1>4, TimerGood DEF Good, Timed, SameButTimer, IsOpen

\* The lambdas of send() and close()
LEMMA RunCallGood == ASSUME SesInv, RunCall PROVE Good(ses')
<1>1. /\ ses' = IF Head(calls) = CloseFrame THEN Close(ses)
                                           ELSE Send(ses, Head(calls))
      /\ life = "running" /\ calls # <<>>
  BY LeaveLemma DEF RunCall
<1>2. Good(ses) /\ ses \in SessionState /\ Writes(ses)
  BY <1>1 DEF SesInv, Good
<1>3. CASE Head(calls) = CloseFrame
  <2>1. ses' = Close(ses)
    BY <1>1, <1>3
  <2>2. /\ ses' \in SessionState
        /\ ses'.pings = ses.pings /\ ses'.socket = ses.socket
        /\ ses'.writeList = ses.writeList
        /\ ses'.ops \in {ses.ops, ses.ops \cup {"close"}}
        /\ ses'.stream \in {ses.stream, "closing"}
        /\ ~ IsOpen(ses) => /\ ses'.stream = ses.stream
                            /\ ses'.ops = ses.ops
                            /\ ses'.closeReason = ses.closeReason
        /\ IsOpen(ses) => ses'.timer = ses.timer
        /\ Writes(ses')
    BY <2>1, <1>2, CloseLemma
  <2> QED
    BY <2>2, <1>2 DEF Good, Fresh, Reads, Timed, IsOpen
<1>4. CASE Head(calls) # CloseFrame
  <2>1. Head(calls) \in 1..MaxCall
    <3>1. calls \in Seq(0..MaxCall) /\ calls # <<>>
      BY <1>1 DEF SesInv, WsTypeOK
    <3>2. Head(calls) \in 0..MaxCall
      BY <3>1, HeadTailProperties
    <3> QED
      BY <3>2, <1>4, SessionAssumption DEF CloseFrame
  <2>2. ses' = Send(ses, Head(calls))
    BY <1>1, <1>4
  <2>3. /\ ses' \in SessionState
        /\ ses'.pings = ses.pings /\ ses'.socket = ses.socket
        /\ ses'.stream = ses.stream /\ ses'.closeReason = ses.closeReason
        /\ ses'.ops \in {ses.ops, ses.ops \cup {"write"}}
        /\ ~ IsOpen(ses) => /\ ses'.ops = ses.ops
                            /\ ses'.writeList = ses.writeList
        /\ IsOpen(ses) => ses'.timer = ses.timer
        /\ Writes(ses')
    BY <2>1, <2>2, <1>2, SendLemma
  <2> QED
    BY <2>3, <1>2 DEF Good, Fresh, Reads, Timed, IsOpen
<1> QED
  BY <1>3, <1>4

LEMMA RunCallbackGood == ASSUME SesInv, RunCallback PROVE Good(ses')
<1> DEFINE q == Tail(ses.hq)
<1>1. /\ ses' = [ses EXCEPT !.hq = Tail(@)] /\ life = "running"
      /\ ses.hq # <<>>
  BY LeaveLemma DEF RunCallback
<1>2. Good(ses) /\ ses \in SessionState
  BY <1>1 DEF SesInv, Good
<1>3. q \in Seq(Nat) /\ ses' = [ses EXCEPT !.hq = q]
  <2>1. ses.hq \in Seq(Nat)
    BY <1>2 DEF SessionState
  <2>2. q \in Seq(Nat)
    BY <2>1, <1>1, HeadTailProperties
  <2> QED
    BY <2>2, <1>1, <1>2 DEF SessionState
<1> HIDE DEF q
<1>4. /\ ses' \in SessionState /\ ses'.stream = ses.stream
      /\ ses'.ops = ses.ops /\ ses'.writeList = ses.writeList
      /\ ses'.closeReason = ses.closeReason /\ ses'.socket = ses.socket
      /\ ses'.timer = ses.timer /\ ses'.pings = ses.pings
  BY <1>2, <1>3 DEF SessionState
<1> QED
  BY <1>2, <1>4 DEF Good, Fresh, Writes, Reads, Timed, IsOpen

-----------------------------------------------------------------------------
(* Every step keeps the invariant *)

\* The steps of strand_ that end in Handler
Strand ==
    \/ AcceptOk \/ AcceptFails
    \/ ReadMessage \/ ReadBad \/ ReadFails \/ ReadClosed
    \/ PeerControl \/ PeerClose
    \/ WriteDone \/ WriteFails \/ CloseDone \/ PingDone \/ PingFails
    \/ TimerPings \/ TimerIgnored \/ TimerCloses \/ TimerAborted

LEMMA StrandIsHandler == Strand => \E s : Handler(s)
  BY DEF Strand, AcceptOk, AcceptFails, ReadMessage, ReadBad, ReadFails,
     ReadClosed, PeerControl, PeerClose, WriteDone, WriteFails, CloseDone,
     PingDone, PingFails, TimerPings, TimerIgnored, TimerCloses, TimerAborted

LEMMA StrandGood == ASSUME SesInv, Strand PROVE Good(ses')
  BY AcceptOkGood, AcceptFailsGood, ReadMessageGood, ReadBadGood,
     ReadFailsGood, ReadClosedGood, PeerControlGood, PeerCloseGood,
     WriteDoneGood, WriteFailsGood, CloseDoneGood, PingDoneGood,
     PingFailsGood, TimerPingsGood, TimerIgnoredGood, TimerClosesGood,
     TimerAbortedGood DEF Strand

LEMMA SesInvStep == SesInv /\ [WsNext]_wsVars => SesInv'
<1> SUFFICES ASSUME SesInv, [WsNext]_wsVars PROVE SesInv'
  OBVIOUS
<1>t. /\ role \in Role /\ manyThreads \in BOOLEAN
      /\ ses \in SessionState /\ life \in {"new", "running", "gone"}
      /\ erases \in Nat
      /\ calls \in Seq(0..MaxCall) /\ made \in 0..MaxCall
      /\ pc \in {"idle", "checked"} /\ told \in Seq(Nat)
      /\ peer \in {"live", "silent"}
  BY DEF SesInv, WsTypeOK
<1>g. ASSUME Good(ses'), UNCHANGED role PROVE Good(ses)'
  BY <1>g DEF Good
<1>1. CASE UNCHANGED wsVars
  BY <1>1 DEF wsVars, SesInv, WsTypeOK, Good
<1>2. CASE Start
  <2>1. Good(ses')
    BY <1>2, StartGood
  <2> QED
    BY <2>1, <1>2, <1>t, <1>g DEF Start, SesInv, WsTypeOK, Good
<1>3. CASE Strand
  <2>1. PICK s : Handler(s)
    BY <1>3, StrandIsHandler
  <2>2. Good(ses')
    BY <1>3, StrandGood
  <2>3. /\ life = "running" /\ erases' \in {erases, erases + 1}
        /\ UNCHANGED <<role, manyThreads, life, made, pc, peer, calls, told>>
    BY <2>1 DEF Handler, Leave, OtherStrand
  <2> QED
    BY <2>2, <2>3, <1>t, <1>g DEF SesInv, WsTypeOK, Good
<1>4. CASE TimerExpires
  <2>1. Good(ses')
    BY <1>4, TimerExpiresGood
  <2> QED
    BY <2>1, <1>4, <1>t, <1>g
       DEF TimerExpires, outer, SesInv, WsTypeOK, Good
<1>5. CASE RunCall
  <2>1. Good(ses')
    BY <1>5, RunCallGood
  <2>2. /\ life = "running" /\ erases' \in {erases, erases + 1}
        /\ UNCHANGED <<role, manyThreads, life, made, pc, peer, told>>
        /\ calls # <<>> /\ calls' = Tail(calls)
    BY <1>5 DEF RunCall, Leave, OtherStrand
  <2>3. calls' \in Seq(0..MaxCall)
    BY <2>2, <1>t, HeadTailProperties
  <2> QED
    BY <2>1, <2>2, <2>3, <1>t, <1>g DEF SesInv, WsTypeOK, Good
<1>6. CASE RunCallback
  <2>1. Good(ses')
    BY <1>6, RunCallbackGood
  <2>2. /\ life = "running" /\ erases' \in {erases, erases + 1}
        /\ UNCHANGED <<role, manyThreads, life, made, pc, peer, calls>>
        /\ ses.hq # <<>> /\ told' = Append(told, Head(ses.hq))
    BY <1>6 DEF RunCallback, Leave, OtherStrand
  <2>3. told' \in Seq(Nat)
    <3>1. ses.hq \in Seq(Nat)
      BY <1>t DEF SessionState
    <3>2. Head(ses.hq) \in Nat
      BY <3>1, <2>2, HeadTailProperties
    <3> QED
      BY <3>2, <2>2, <1>t, AppendNonEmpty
  <2> QED
    BY <2>1, <2>2, <2>3, <1>t, <1>g DEF SesInv, WsTypeOK, Good
<1>7. CASE CallCheck
  BY <1>7, <1>t, SessionAssumption DEF CallCheck, SesInv, WsTypeOK, Good
<1>8. CASE CallQueue
  <2>1. made < MaxCall
    BY <1>8 DEF CallQueue, SesInv
  <2>2. made + 1 \in 0..MaxCall /\ CloseFrame \in 0..MaxCall
    BY <2>1, <1>t, SessionAssumption DEF CloseFrame
  <2>3. calls' \in Seq(0..MaxCall)
    <3>1. PICK c \in 0..MaxCall : calls' = Append(calls, c)
      BY <2>2, <1>8 DEF CallQueue
    <3> QED
      BY <3>1, <1>t, AppendNonEmpty
  <2> QED
    BY <2>2, <2>3, <1>8, <1>t DEF CallQueue, SesInv, WsTypeOK, Good
<1>9. CASE EraseSession
  <2>1. told' \in Seq(Nat)
    <3>1. OnClose \in Nat
      BY SessionAssumption DEF OnClose
    <3>2. Append(told, OnClose) \in Seq(Nat)
      BY <3>1, <1>t, AppendNonEmpty
    <3> QED
      BY <3>2, <1>9, <1>t DEF EraseSession
  <2>2. erases' \in Nat
    BY <1>9, <1>t DEF EraseSession
  <2> QED
    BY <2>1, <2>2, <1>9, <1>t DEF EraseSession, SesInv, WsTypeOK, Good
<1>10. CASE FallSilent
  BY <1>10, <1>t DEF FallSilent, SesInv, WsTypeOK, Good
<1> QED
  BY <1>1, <1>2, <1>3, <1>4, <1>5, <1>6, <1>7, <1>8, <1>9, <1>10
     DEF WsNext, Strand

-----------------------------------------------------------------------------
(* Theorems *)

\* Every handler leaves the session in a state of the declared type.
THEOREM WsTyped == WsSpec => []WsTypeOK
<1>1. SesInv => WsTypeOK
  BY DEF SesInv
<1> QED
  BY <1>1, SesInvInit, SesInvStep, PTL DEF WsSpec

\* No message and no close() waits for a write that nobody starts, and an
\* open session is reading.
THEOREM WsNoStuckQueue == WsSpec => []NoStuckQueue
<1>1. SesInv => NoStuckQueue
  BY DEF SesInv, Good, Reads, Writes, NoStuckQueue
<1> QED
  BY <1>1, SesInvInit, SesInvStep, PTL DEF WsSpec

\* The activity timer of an open client session is never lost.
THEOREM WsClientTimer == WsSpec => []ClientTimerLive
<1>1. SesInv => ClientTimerLive
  BY DEF SesInv, Good, Timed, ClientTimerLive, TimerLive
<1> QED
  BY <1>1, SesInvInit, SesInvStep, PTL DEF WsSpec

-----------------------------------------------------------------------------
(* The end of the session, on one thread *)

\* Between the two halves of make_lock() nothing else runs.
LifeInv ==
    ~ manyThreads =>
        /\ ErasedAfterLast
        /\ life = "new" => erases = 0 /\ pc = "idle"
        /\ pc = "checked" => life = "running" /\ Busy

LEMMA LifeInvInit == WsInit => LifeInv
  BY DEF WsInit, LifeInv, ErasedAfterLast

\* Every handler of strand_ runs for something that holds a lock.
LEMMA StrandBusy == ASSUME WsTypeOK, Strand PROVE Busy
  BY DEF Strand, AcceptOk, AcceptFails, ReadMessage, ReadBad, ReadFails,
     ReadClosed, PeerControl, PeerClose, WriteDone, WriteFails, CloseDone,
     PingDone, PingFails, TimerPings, TimerIgnored, TimerCloses, TimerAborted,
     Busy

\* The executor keeps its number of threads.
LEMMA SameThreads ==
    ASSUME [WsNext]_wsVars PROVE manyThreads' = manyThreads
<1>1. CASE Strand
  <2>1. PICK s : Handler(s)
    BY <1>1, StrandIsHandler
  <2> QED
    BY <2>1 DEF Handler, Leave
<1>2. CASE RunCall \/ RunCallback
  BY <1>2 DEF RunCall, RunCallback, Leave
<1>3. CASE TimerExpires \/ UNCHANGED wsVars
  BY <1>3 DEF TimerExpires, outer, wsVars
<1>4. CASE Start \/ CallCheck \/ CallQueue \/ EraseSession \/ FallSilent
  BY <1>4 DEF Start, CallCheck, CallQueue, EraseSession, FallSilent
<1> QED
  BY <1>1, <1>2, <1>3, <1>4 DEF WsNext, Strand

LEMMA LifeInvStep == SesInv /\ LifeInv /\ [WsNext]_wsVars => LifeInv'
<1> SUFFICES ASSUME SesInv, LifeInv, [WsNext]_wsVars, ~ manyThreads
             PROVE  LifeInv'
  BY SameThreads DEF LifeInv
<1>t. WsTypeOK /\ erases \in Nat /\ ses \in SessionState
  BY DEF SesInv, WsTypeOK
<1>1. CASE UNCHANGED wsVars
  BY <1>1 DEF wsVars, LifeInv, ErasedAfterLast, Busy
<1>2. CASE Start
  <2>1. Good(ses') /\ ses'.ops # {}
    BY <1>2, StartGood
  <2> QED
    BY <2>1, <1>2 DEF Start, LifeInv, ErasedAfterLast, Busy
<1>3. CASE Strand
  <2>1. PICK s : Handler(s)
    BY <1>3, StrandIsHandler
  <2>2. Busy
    BY <1>3, <1>t, StrandBusy
  <2>3. /\ life = "running" /\ life' = "running" /\ pc = "idle"
        /\ pc' = "idle" /\ erases' = IF Busy' THEN erases ELSE erases + 1
    BY <2>1 DEF Handler, Leave, OtherStrand
  <2> QED
    BY <2>2, <2>3 DEF LifeInv, ErasedAfterLast
<1>4. CASE TimerExpires
  <2>1. Busy /\ Busy' /\ UNCHANGED <<life, pc, erases>>
    BY <1>4, <1>t DEF TimerExpires, Busy, outer, SessionState
  <2> QED
    BY <2>1 DEF LifeInv, ErasedAfterLast
<1>5. CASE RunCall
  <2>1. Busy /\ life = "running" /\ life' = "running" /\ pc = "idle"
        /\ pc' = "idle" /\ erases' = IF Busy' THEN erases ELSE erases + 1
    BY <1>5 DEF RunCall, Leave, OtherStrand, Busy
  <2> QED
    BY <2>1 DEF LifeInv, ErasedAfterLast
<1>6. CASE RunCallback
  <2>1. Busy /\ life = "running" /\ life' = "running" /\ pc = "idle"
        /\ pc' = "idle" /\ erases' = IF Busy' THEN erases ELSE erases + 1
    BY <1>6 DEF RunCallback, Leave, OtherStrand, Busy
  <2> QED
    BY <2>1 DEF LifeInv, ErasedAfterLast
<1>7. CASE CallCheck
  BY <1>7 DEF CallCheck, LifeInv, ErasedAfterLast, Busy
<1>8. CASE CallQueue
  <2>1. Busy /\ Busy' /\ UNCHANGED <<life, erases>> /\ pc' = "idle"
        /\ life = "running"
    <3>1. calls \in Seq(0..MaxCall) /\ \E c : calls' = Append(calls, c)
      BY <1>8 DEF CallQueue, SesInv, WsTypeOK
    <3> QED
      BY <3>1, <1>8 DEF CallQueue, LifeInv, Busy
  <2> QED
    BY <2>1 DEF LifeInv, ErasedAfterLast
<1>9. CASE EraseSession
  <2>1. life = "running" /\ erases = 1 /\ ~ Busy
    BY <1>9, <1>t DEF EraseSession, LifeInv, ErasedAfterLast
  <2>2. life' = "gone" /\ erases' = 0 /\ ~ Busy' /\ pc' = "idle"
    BY <2>1, <1>9 DEF EraseSession, Busy
  <2> QED
    BY <2>2 DEF LifeInv, ErasedAfterLast
<1>10. CASE FallSilent
  BY <1>10 DEF FallSilent, LifeInv, ErasedAfterLast, Busy
<1> QED
  BY <1>1, <1>2, <1>3, <1>4, <1>5, <1>6, <1>7, <1>8, <1>9, <1>10
     DEF WsNext, Strand

\* On an executor with one thread on_erase() is called exactly once, after
\* the last handler, and the destructor finds nothing pending.
THEOREM WsErasedAfterLast == WsSpec => []ErasedAfterLast
<1>1. LifeInv => ErasedAfterLast
  BY DEF LifeInv, ErasedAfterLast
<1> QED
  BY <1>1, LifeInvStep, SesInvInit, SesInvStep, LifeInvInit, PTL DEF WsSpec

\* What brings the session further without its peer: a queued handler, a
\* wait that expires, an operation that a broken stream or socket completes.
WsDue ==
    \/ erases > 0 \/ pc # "idle" \/ calls # <<>> \/ ses.hq # <<>>
    \/ ses.timer # "idle" \/ ses.aborted > 0
    \/ Broken /\ (ses.ops \ {"accept"} # {} \/ ses.pings > 0)

\* On an executor with one thread a session in the map of its service is
\* forgotten by everybody but its peer only inside the closing handshake; a
\* server session, whose first timer start is lost, also during the opening
\* handshake and afterwards.
THEOREM WsNotForgotten ==
    WsSpec => [](~ manyThreads /\ life = "running" =>
                     \/ WsDue
                     \/ ses.stream \in {"closing", "replying"}
                     \/ role = "server" /\ ses.stream \in {"connecting", "open"})
<1> DEFINE Left == \/ WsDue
                   \/ ses.stream \in {"closing", "replying"}
                   \/ role = "server" /\ ses.stream \in {"connecting", "open"}
<1>1. SesInv /\ LifeInv => (~ manyThreads /\ life = "running" => Left)
  <2> SUFFICES ASSUME SesInv, LifeInv, ~ manyThreads, life = "running",
                      ~ WsDue
               PROVE  Left
    OBVIOUS
  <2>1. /\ ses.stream \in {"connecting", "open", "closing", "replying",
                            "closed"}
        /\ ses.pings \in Nat /\ ses.aborted \in Nat /\ erases \in Nat
        /\ role \in {"server", "client"}
    BY SessionAssumption DEF SesInv, WsTypeOK, SessionState
  <2>2. Busy /\ (ses.ops # {} \/ ses.pings > 0)
    BY <2>1 DEF WsDue, Busy, LifeInv, ErasedAfterLast
  <2>3. Good(ses)
    BY DEF SesInv
  <2>4. ses.stream = "closed" => "accept" \notin ses.ops
    BY <2>3 DEF Good, Fresh
  <2>5. ses.stream # "closed"
    BY <2>2, <2>4 DEF WsDue, Broken
  <2>6. role = "client" => ses.stream # "connecting"
    BY <2>3 DEF Good
  <2>7. role = "client" => ses.stream # "open"
    <3> SUFFICES ASSUME role = "client", ses.stream = "open" PROVE FALSE
      OBVIOUS
    <3>1. ses.socket
      BY <2>2, <2>3 DEF WsDue, Broken, Good, Fresh
    <3> QED
      BY <2>3, <3>1 DEF WsDue, Good, Timed, IsOpen
  <2> QED
    BY <2>1, <2>5, <2>6, <2>7
<1> QED
  BY <1>1, SesInvInit, SesInvStep, LifeInvInit, LifeInvStep, PTL DEF WsSpec
=============================================================================
