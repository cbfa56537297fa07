------------------------ MODULE WsSessionOrderProofs ------------------------
(***************************************************************************)
(* Proof that ws_session keeps the order of the callbacks it makes into    *)
(* its service, and of the frames it writes, for both roles, any number of *)
(* threads and all bounds.                                                 *)
(*                                                                         *)
(* Callbacks. Two strands are involved: strand_ queues a callback when the *)
(* session opens or has read a message, and handler_strand_ runs what is   *)
(* queued. What the service was told, followed by what is queued, is what  *)
(* is due (OrderInv). A handler that neither opens the session nor         *)
(* delivers a message is silent: it changes nothing of what is due.        *)
(* on_close() comes last because on_erase() was called with nothing        *)
(* pending and, since an open stream has a read pending, nothing can       *)
(* become pending again.                                                   *)
(*                                                                         *)
(* Frames. The wire carries the first of the accepted messages,            *)
(* write_list_ holds the rest, and the message that is being written is in *)
(* both (WireInv). A handler that does not touch the list or the stream is *)
(* tacit; the others push, write the front, pop what was written, or write *)
(* the close frame, after which the stream is not open and nothing is      *)
(* written any more.                                                       *)
(*                                                                         *)
(* Refinement. Every step of the session is one that WsService has for a   *)
(* session (ServiceStep), seen through StageOf and CallsOf. A handler      *)
(* turns the session (Turn): it may open it once and close it once, and    *)
(* what it leaves without a lock has called on_erase(), which is the last  *)
(* step the service sees (LeaveStep).                                      *)
(***************************************************************************)
EXTENDS WsSessionProofs, WsSessionStages

\* What the service is told of a session, before on_close().
Calls(n) == [i \in 1..(n + 1) |-> i - 1]

Due(s) == IF s.isOpen THEN Calls(s.received) ELSE <<>>

\* Only an opened session reads, and it is opened once.
Heard(s) ==
    /\ IsOpen(s) \/ "read" \in s.ops => s.isOpen
    /\ ~ s.isOpen => s.received = 0
    /\ "accept" \in s.ops => ~ s.isOpen

\* No handler of the session is pending or queued; lambdas of send() and
\* close() may be, if the executor has several threads.
Still(s) ==
    /\ s.ops = {} /\ s.pings = 0
    /\ s.timer = "idle" /\ s.aborted = 0
    /\ s.hq = <<>>

\* From s to t nothing is due to the service, and no operation is started
\* that could deliver something.
Silent(s, t) ==
    /\ t.isOpen = s.isOpen /\ t.received = s.received /\ t.hq = s.hq
    /\ IsOpen(t) => IsOpen(s)
    /\ "read" \in t.ops => "read" \in s.ops \/ IsOpen(s)
    /\ "accept" \in t.ops => "accept" \in s.ops

OrderInv ==
    /\ SesInv
    /\ life = "new" => erases = 0
    /\ life # "new" => Heard(ses)
    /\ erases > 0 \/ life = "gone" => Still(ses)
    /\ life # "gone" => told \o ses.hq = Due(ses)
    /\ life = "gone" => told = IF ses.isOpen THEN Append(Due(ses), OnClose)
                                             ELSE <<>>

-----------------------------------------------------------------------------
(* What is due *)

LEMMA CallsLemma ==
    ASSUME NEW n \in Nat
    PROVE  /\ Calls(n) \in Seq(Nat)
           /\ Calls(0) = <<OnOpen>>
           /\ Calls(n + 1) = Append(Calls(n), n + 1)
<1>1. ASSUME NEW m \in Nat, NEW f \in [1..m -> Nat]
      PROVE  f \in Seq(Nat) /\ Len(f) = m
  BY <1>1
<1>2. ASSUME NEW k \in Nat
      PROVE  Calls(k) \in Seq(Nat) /\ Len(Calls(k)) = k + 1
  <2>1. k + 1 \in Nat /\ Calls(k) \in [1..(k + 1) -> Nat]
    BY DEF Calls
  <2> QED
    BY <2>1, <1>1
<1>3. Calls(0) = <<OnOpen>>
  <2>1. <<OnOpen>> \in Seq(Nat) /\ Len(<<OnOpen>>) = 1 /\ <<OnOpen>>[1] = 0
    BY DEF OnOpen
  <2>2. Calls(0) \in Seq(Nat) /\ Len(Calls(0)) = 1 /\ Calls(0)[1] = 0
    BY <1>2 DEF Calls
  <2> QED
    BY <2>1, <2>2, SeqEqual
<1>4. Calls(n + 1) = Append(Calls(n), n + 1)
  <2> DEFINE a == Append(Calls(n), n + 1)
  <2>1. /\ Calls(n) \in Seq(Nat) /\ Len(Calls(n)) = n + 1
        /\ Calls(n + 1) \in Seq(Nat) /\ Len(Calls(n + 1)) = n + 2
    BY <1>2
  <2>2. /\ a \in Seq(Nat) /\ Len(a) = n + 2 /\ a[n + 2] = n + 1
        /\ \A i \in 1..(n + 1) : a[i] = Calls(n)[i]
    BY <2>1, AppendProperties
  <2> HIDE DEF a
  <2>3. \A i \in 1..(n + 2) : a[i] = i - 1
    BY <2>2 DEF Calls
  <2>4. \A i \in 1..(n + 2) : Calls(n + 1)[i] = i - 1
    BY DEF Calls
  <2>5. Calls(n + 1) = a
    BY <2>1, <2>2, <2>3, <2>4, SeqEqual
  <2> QED
    BY <2>5 DEF a
<1> QED
  BY <1>2, <1>3, <1>4

LEMMA Associative ==
    ASSUME NEW t \in Seq(Nat), NEW q \in Seq(Nat), NEW r \in Seq(Nat)
    PROVE  (t \o q) \o r = t \o (q \o r)
  OBVIOUS

\* A callback is queued behind the ones before it ...
LEMMA Queues ==
    ASSUME NEW t \in Seq(Nat), NEW q \in Seq(Nat), NEW c \in Nat
    PROVE  t \o Append(q, c) = Append(t \o q, c)
<1>1. t \o q \in Seq(Nat) /\ <<c>> \in Seq(Nat)
  BY ConcatProperties
<1>2. Append(q, c) = q \o <<c>> /\ Append(t \o q, c) = (t \o q) \o <<c>>
  BY <1>1, AppendIsConcat
<1> QED
  BY <1>1, <1>2, Associative

\* ... and runs before the ones behind it.
LEMMA Runs ==
    ASSUME NEW t \in Seq(Nat), NEW q \in Seq(Nat), q # <<>>
    PROVE  Append(t, Head(q)) \o Tail(q) = t \o q
<1>1. Head(q) \in Nat /\ Tail(q) \in Seq(Nat) /\ <<Head(q)>> \o Tail(q) = q
  BY HeadTailProperties
<1> DEFINE h == <<Head(q)>>
           r == Tail(q)
<1>2. Append(t, Head(q)) = t \o h /\ h \in Seq(Nat)
  BY <1>1, AppendIsConcat
<1>3. h \o r = q /\ r \in Seq(Nat)
  BY <1>1
<1> HIDE DEF h, r
<1>4. (t \o h) \o r = t \o (h \o r)
  BY <1>2, <1>3, Associative
<1>5. Append(t, Head(q)) \o r = t \o q
  BY <1>2, <1>3, <1>4
<1> QED
  BY <1>5 DEF r

-----------------------------------------------------------------------------
(* The methods that are silent *)

LEMMA SameSilent ==
    ASSUME NEW s, NEW t, SameButTimer(s, t) PROVE Silent(s, t)
  BY DEF SameButTimer, Silent, IsOpen

LEMMA SilentTwice ==
    ASSUME NEW s, NEW t, NEW u, Silent(s, t), Silent(t, u)
    PROVE  Silent(s, u)
  BY DEF Silent

LEMMA SilentStopTimer ==
    ASSUME NEW s \in SessionState PROVE Silent(s, StopTimer(s))
  BY StopTimerLemma, SameSilent

LEMMA SilentDoTimer ==
    ASSUME NEW s \in SessionState PROVE Silent(s, DoTimer(s))
  BY DoTimerLemma, SameSilent

LEMMA SilentRestartTimer ==
    ASSUME NEW s \in SessionState PROVE Silent(s, RestartTimer(s))
  BY RestartTimerLemma, SameSilent

LEMMA SilentActivity ==
    ASSUME NEW s \in SessionState PROVE Silent(s, Activity(s))
<1> DEFINE t == [s EXCEPT !.waitOnPong = FALSE]
<1>1. t \in SessionState /\ Silent(s, t)
  BY DEF SessionState, Silent, IsOpen
<1>2. Activity(s) = RestartTimer(t)
  BY DEF Activity
<1> HIDE DEF t
<1> QED
  BY <1>1, <1>2, SilentRestartTimer, SilentTwice

LEMMA SilentDoRead ==
    ASSUME NEW s \in SessionState PROVE Silent(s, DoRead(s))
<1>1. CASE ~ IsOpen(s)
  BY <1>1 DEF DoRead, Silent
<1>2. CASE IsOpen(s)
  <2> DEFINE r == RestartTimer(s)
             t == [r EXCEPT !.ops = @ \cup {"read"}]
  <2>1. r \in SessionState /\ Silent(s, r)
    BY RestartTimerLemma, SilentRestartTimer
  <2>2. DoRead(s) = t
    BY <1>2 DEF DoRead
  <2> HIDE DEF r
  <2>3. /\ t.isOpen = r.isOpen /\ t.received = r.received /\ t.hq = r.hq
        /\ t.stream = r.stream /\ t.ops = r.ops \cup {"read"}
    BY <2>1 DEF SessionState
  <2> HIDE DEF t
  <2> QED
    BY <2>1, <2>2, <2>3, <1>2 DEF Silent, IsOpen
<1> QED
  BY <1>1, <1>2

LEMMA SilentDoWrite ==
    ASSUME NEW s \in SessionState PROVE Silent(s, DoWrite(s))
<1>1. CASE s.closeReason
  <2> DEFINE w == Append(s.wire, CloseFrame)
             t == [s EXCEPT !.stream = "closing",
                            !.ops = s.ops \cup {"close"}, !.wire = w]
  <2>1. DoWrite(s) = t
    BY <1>1 DEF DoWrite, SessionState
  <2> HIDE DEF w
  <2>2. /\ t.isOpen = s.isOpen /\ t.received = s.received /\ t.hq = s.hq
        /\ t.stream = "closing" /\ t.ops = s.ops \cup {"close"}
    BY DEF SessionState
  <2> HIDE DEF t
  <2> QED
    BY <2>1, <2>2 DEF Silent, IsOpen
<1>2. CASE ~ s.closeReason
  <2> DEFINE w == Append(s.wire, Head(s.writeList))
             t == [s EXCEPT !.ops = s.ops \cup {"write"}, !.wire = w]
  <2>1. DoWrite(s) = t
    BY <1>2 DEF DoWrite, SessionState
  <2> HIDE DEF w
  <2>2. /\ t.isOpen = s.isOpen /\ t.received = s.received /\ t.hq = s.hq
        /\ t.stream = s.stream /\ t.ops = s.ops \cup {"write"}
    BY DEF SessionState
  <2> HIDE DEF t
  <2> QED
    BY <2>1, <2>2 DEF Silent, IsOpen
<1> QED
  BY <1>1, <1>2 DEF SessionState

LEMMA SilentClose ==
    ASSUME NEW s \in SessionState PROVE Silent(s, Close(s))
<1> DEFINE n == [s EXCEPT !.closeReason = TRUE]
<1>1. n \in SessionState /\ Silent(s, n)
  BY DEF SessionState, Silent, IsOpen
<1>2. Silent(s, s)
  BY DEF Silent
<1>3. Close(s) \in {StopTimer(s), s, DoWrite(n), n}
  BY DEF Close
<1> HIDE DEF n
<1> QED
  BY <1>1, <1>2, <1>3, SilentStopTimer, SilentDoWrite, SilentTwice

LEMMA SilentSend ==
    ASSUME NEW s \in SessionState, NEW c \in 1..MaxCall
    PROVE  Silent(s, Send(s, c))
<1> DEFINE l == Append(s.writeList, c)
           a == Append(s.accepted, c)
           n == [s EXCEPT !.writeList = l, !.accepted = a]
<1>1. l \in Seq(1..MaxCall) /\ a \in Seq(1..MaxCall)
  <2>1. s.writeList \in Seq(1..MaxCall) /\ s.accepted \in Seq(1..MaxCall)
    BY DEF SessionState
  <2> QED
    BY <2>1, AppendNonEmpty, Zenon
<1>2. Send(s, c) \in {StopTimer(s), s, DoWrite(n), n}
  BY DEF Send, SessionState
<1> HIDE DEF l, a
<1>3. n \in SessionState /\ Silent(s, n)
  BY <1>1 DEF SessionState, Silent, IsOpen
<1>4. Silent(s, s)
  BY DEF Silent
<1> HIDE DEF n
<1> QED
  BY <1>2, <1>3, <1>4, SilentStopTimer, SilentDoWrite, SilentTwice

LEMMA SilentDone ==
    ASSUME ses \in SessionState, NEW o \in Op,
           NEW st \in {"connecting", "open", "closing", "replying", "closed"},
           st = "open" => IsOpen(ses)
    PROVE  Silent(ses, Done(o, st))
  BY DEF Done, SessionState, Silent, IsOpen

-----------------------------------------------------------------------------
(* The handlers that are silent *)

Quiet ==
    \/ AcceptFails \/ ReadBad \/ ReadFails \/ ReadClosed
    \/ PeerControl \/ PeerClose
    \/ WriteDone \/ WriteFails \/ CloseDone \/ PingDone \/ PingFails
    \/ TimerPings \/ TimerIgnored \/ TimerCloses \/ TimerAborted

\* The handlers after which the stream is closed.
LEMMA FailsSilent ==
    ASSUME ses \in SessionState, NEW o \in ses.ops
    PROVE  /\ Silent(ses, Failed(o)) /\ Silent(ses, StopTimer(Failed(o)))
           /\ Silent(ses, Activity(Failed(o)))
           /\ Silent(ses, Close(Failed(o)))
<1> DEFINE t == Failed(o)
<1>1. o \in Op
  BY DEF SessionState
<1>2. t \in SessionState /\ Silent(ses, t)
  BY <1>1, DoneLemma, SilentDone DEF Failed
<1> HIDE DEF t
<1>3. /\ Silent(ses, StopTimer(t)) /\ Silent(ses, Activity(t))
      /\ Silent(ses, Close(t))
  BY <1>2, SilentStopTimer, SilentActivity, SilentClose, SilentTwice
<1> QED
  BY <1>2, <1>3 DEF t

LEMMA ReadBadSilent ==
    ASSUME ses \in SessionState, ReadBad PROVE Silent(ses, ses')
<1> DEFINE a == Done("read", "open")
           b == Activity(a)
           c == Close(b)
<1>1. ses' = DoRead(c) /\ IsOpen(ses)
  BY HandlerLemma DEF ReadBad
<1>2. a \in SessionState /\ Silent(ses, a)
  BY <1>1, DoneLemma, SilentDone DEF Op
<1> HIDE DEF a
<1>3. b \in SessionState /\ Silent(ses, b)
  BY <1>2, ActivityLemma, SilentActivity, SilentTwice
<1> HIDE DEF b
<1>4. c \in SessionState /\ Silent(ses, c)
  BY <1>3, CloseLemma, SilentClose, SilentTwice
<1> HIDE DEF c
<1> QED
  BY <1>1, <1>4, SilentDoRead, SilentTwice

LEMMA PeerCloseSilent ==
    ASSUME ses \in SessionState, PeerClose PROVE Silent(ses, ses')
<1> DEFINE a == Activity(ses)
           t == [a EXCEPT !.stream = "replying"]
<1>1. ses' = t
  BY HandlerLemma DEF PeerClose
<1>2. a \in SessionState /\ Silent(ses, a)
  BY ActivityLemma, SilentActivity
<1> HIDE DEF a
<1>3. Silent(a, t)
  BY <1>2 DEF SessionState, Silent, IsOpen
<1> HIDE DEF t
<1> QED
  BY <1>1, <1>2, <1>3, SilentTwice

LEMMA WriteDoneSilent ==
    ASSUME SesInv, WriteDone PROVE Silent(ses, ses')
<1> DEFINE a == Done("write", ses.stream)
           l == Tail(a.writeList)
           b == [a EXCEPT !.writeList = l]
<1>1. "write" \in ses.ops /\ ses \in SessionState /\ ses.writeList # <<>>
      /\ ses' = IF IsOpen(b) /\ (b.writeList # <<>> \/ b.closeReason)
                THEN DoWrite(b) ELSE b
  <2>1. "write" \in ses.ops /\ life = "running"
    BY DEF WriteDone, Handler, Leave, OtherStrand
  <2>2. ses \in SessionState /\ ses.writeList # <<>>
    BY <2>1, Running DEF Writes
  <2>3. [a EXCEPT !.writeList = Tail(@)] = b
    BY <2>2, DoneLemma DEF SessionState, Op
  <2> QED
    BY <2>1, <2>2, <2>3, HandlerLemma DEF WriteDone
<1>2. /\ a \in SessionState /\ Silent(ses, a)
      /\ a.writeList = ses.writeList
  <2>1. "write" \in Op /\ ses.stream \in {"connecting", "open", "closing",
                                         "replying", "closed"}
    BY <1>1 DEF Op, SessionState
  <2> QED
    BY <2>1, <1>1, DoneLemma, SilentDone DEF IsOpen
<1>3. l \in Seq(1..MaxCall)
  <2>1. a.writeList \in Seq(1..MaxCall) /\ a.writeList # <<>>
    BY <1>1, <1>2 DEF SessionState
  <2> QED
    BY <2>1, HeadTailProperties
<1> HIDE DEF a, l
<1>4. b \in SessionState /\ Silent(a, b)
  BY <1>2, <1>3 DEF SessionState, Silent, IsOpen
<1> HIDE DEF b
<1> QED
  BY <1>1, <1>2, <1>4, SilentDoWrite, SilentTwice

LEMMA PingSilent ==
    ASSUME ses \in SessionState, PingDone \/ PingFails
    PROVE  Silent(ses, ses')
<1>1. CASE PingDone
  <2>1. ses' = [ses EXCEPT !.pings = @ - 1]
    BY <1>1, HandlerLemma DEF PingDone
  <2> QED
    BY <2>1 DEF SessionState, Silent, IsOpen
<1>2. CASE PingFails
  <2> DEFINE a == [ses EXCEPT !.pings = @ - 1, !.stream = "closed"]
  <2>1. ses' = Close(a) /\ ses.pings > 0
    BY <1>2, HandlerLemma DEF PingFails
  <2>2. ses.pings - 1 \in Nat
    BY <2>1 DEF SessionState
  <2>3. a \in SessionState /\ Silent(ses, a)
    BY <2>2 DEF SessionState, Silent, IsOpen
  <2> HIDE DEF a
  <2> QED
    BY <2>1, <2>3, SilentClose, SilentTwice
<1> QED
  BY <1>1, <1>2

LEMMA TimerSilent ==
    ASSUME ses \in SessionState,
           TimerPings \/ TimerIgnored \/ TimerCloses \/ TimerAborted
    PROVE  Silent(ses, ses')
<1>1. CASE TimerPings
  <2> DEFINE a == [ses EXCEPT !.timer = "idle", !.waitOnPong = TRUE,
                              !.pings = @ + 1]
             b == RestartTimer(a)
  <2>1. ses' = DoTimer(b)
    BY <1>1, HandlerLemma DEF TimerPings
  <2>2. ses.pings + 1 \in Nat
    BY DEF SessionState
  <2>3. a \in SessionState /\ Silent(ses, a)
    BY <2>2 DEF SessionState, Silent, IsOpen
  <2> HIDE DEF a
  <2>4. b \in SessionState /\ Silent(a, b)
    BY <2>3, RestartTimerLemma, SilentRestartTimer
  <2> HIDE DEF b
  <2> QED
    BY <2>1, <2>3, <2>4, SilentDoTimer, SilentTwice
<1>2. CASE TimerIgnored
  <2>1. ses' = [ses EXCEPT !.timer = "idle"]
    BY <1>2, HandlerLemma DEF TimerIgnored
  <2> QED
    BY <2>1 DEF SessionState, Silent, IsOpen
<1>3. CASE TimerCloses
  <2> DEFINE a == [ses EXCEPT !.timer = "idle"]
             b == [a EXCEPT !.socket = FALSE]
  <2>1. ses' = StopTimer(b)
    BY <1>3, HandlerLemma DEF TimerCloses, CloseSocket
  <2>2. b \in SessionState /\ Silent(ses, b)
    BY DEF SessionState, Silent, IsOpen
  <2> HIDE DEF b
  <2> QED
    BY <2>1, <2>2, SilentStopTimer, SilentTwice
<1>4. CASE TimerAborted
  <2>1. ses' = [ses EXCEPT !.aborted = @ - 1]
    BY <1>4, HandlerLemma DEF TimerAborted
  <2> QED
    BY <2>1 DEF SessionState, Silent, IsOpen
<1> QED
  BY <1>1, <1>2, <1>3, <1>4

LEMMA QuietSilent == ASSUME SesInv, Quiet PROVE Silent(ses, ses')
<1>1. ses \in SessionState
  BY DEF SesInv, WsTypeOK
<1>2. CASE AcceptFails \/ ReadFails \/ ReadClosed \/ WriteFails \/ CloseDone
  BY <1>1, <1>2, HandlerLemma, FailsSilent
     DEF AcceptFails, ReadFails, ReadClosed, WriteFails, CloseDone
<1>3. CASE PeerControl
  BY <1>1, <1>3, HandlerLemma, SilentActivity DEF PeerControl
<1> QED
  BY <1>1, <1>2, <1>3, ReadBadSilent, PeerCloseSilent, WriteDoneSilent,
     PingSilent, TimerSilent DEF Quiet

-----------------------------------------------------------------------------
(* Every step keeps the invariant *)

\* on_open() is due first.
LEMMA OpenDue ==
    ASSUME NEW s \in SessionState, NEW t, Silent(Opened(s), t),
           ~ s.isOpen, s.received = 0, told \in Seq(Nat),
           told \o s.hq = <<>>, "accept" \notin s.ops
    PROVE  Heard(t) /\ told \o t.hq = Due(t)
<1> DEFINE q == Append(s.hq, OnOpen)
           u == Opened(s)
<1>1. s.hq \in Seq(Nat) /\ OnOpen \in Nat
  BY DEF SessionState, OnOpen
<1>2. told \o q = <<OnOpen>>
  <2>1. told \o q = Append(<<>>, OnOpen)
    BY <1>1, Queues
  <2> QED
    BY <2>1
<1>3. u = [s EXCEPT !.isOpen = TRUE, !.hq = q]
  BY DEF Opened, SessionState
<1> HIDE DEF q, u
<1>4. u.isOpen /\ u.received = 0 /\ u.hq = q /\ u.ops = s.ops
  BY <1>3 DEF SessionState
<1>5. t.isOpen /\ t.received = 0 /\ t.hq = q /\ "accept" \notin t.ops
  BY <1>4 DEF Silent, u
<1> QED
  BY <1>2, <1>5, CallsLemma DEF Heard, Due

\* A message is due after the ones that were read before it.
LEMMA MessageDue ==
    ASSUME NEW s \in SessionState, NEW t, Silent(OnMessage(s), t),
           s.isOpen, told \in Seq(Nat), told \o s.hq = Due(s),
           "accept" \notin s.ops
    PROVE  Heard(t) /\ told \o t.hq = Due(t)
<1> DEFINE r == s.received + 1
           q == Append(s.hq, r)
           u == OnMessage(s)
<1>1. s.hq \in Seq(Nat) /\ r \in Nat /\ s.received \in Nat
  BY DEF SessionState
<1>2. told \o q = Calls(r)
  <2>1. told \o q = Append(told \o s.hq, r)
    BY <1>1, Queues
  <2>2. told \o s.hq = Calls(s.received)
    BY DEF Due
  <2>3. Calls(r) = Append(Calls(s.received), r)
    BY <1>1, CallsLemma
  <2> QED
    BY <2>1, <2>2, <2>3
<1>3. u = [s EXCEPT !.received = r, !.hq = q]
  BY DEF OnMessage, SessionState
<1> HIDE DEF q, u, r
<1>4. u.isOpen /\ u.received = r /\ u.hq = q /\ u.ops = s.ops
  BY <1>3 DEF SessionState
<1>5. t.isOpen /\ t.received = r /\ t.hq = q /\ "accept" \notin t.ops
  BY <1>4 DEF Silent, u
<1> QED
  BY <1>2, <1>5 DEF Heard, Due

LEMMA SilentDue ==
    ASSUME NEW s, NEW t, Silent(s, t), Heard(s), told \o s.hq = Due(s)
    PROVE  Heard(t) /\ told \o t.hq = Due(t)
  BY DEF Silent, Heard, Due

\* start() and do_accept()
LEMMA StartDue ==
    ASSUME OrderInv, Start PROVE Heard(ses') /\ told \o ses'.hq = Due(ses')
<1>1. /\ ses = NewSession(role) /\ ses \in SessionState
      /\ role \in {"client", "server"} /\ told \in Seq(Nat)
      /\ told \o ses.hq = Due(ses)
  BY SessionAssumption DEF OrderInv, SesInv, Start, WsTypeOK
<1>2. /\ ~ ses.isOpen /\ ses.received = 0 /\ ses.ops = {}
      /\ ses.stream = IF role = "client" THEN "open" ELSE "connecting"
  BY <1>1 DEF NewSession
<1>3. told \o ses.hq = <<>>
  BY <1>1, <1>2 DEF Due
<1> DEFINE b == StartTimer(ses)
<1>4. b \in SessionState /\ SameButTimer(ses, b)
  <2> DEFINE a == DoTimer(ses)
  <2>1. a \in SessionState /\ SameButTimer(ses, a) /\ b = RestartTimer(a)
    BY <1>1, DoTimerLemma DEF StartTimer
  <2> HIDE DEF a, b
  <2>2. b \in SessionState /\ SameButTimer(a, b)
    BY <2>1, RestartTimerLemma
  <2> QED
    BY <2>1, <2>2 DEF SameButTimer
<1> HIDE DEF b
<1>5. /\ ~ b.isOpen /\ b.received = 0 /\ b.ops = {} /\ b.hq = ses.hq
      /\ b.stream = ses.stream
  BY <1>2, <1>4 DEF SameButTimer
<1>6. CASE role = "server"
  <2>1. ses' = [b EXCEPT !.ops = b.ops \cup {"accept"}]
    BY <1>1, <1>4, <1>6 DEF Start, DoAccept, b, SessionState
  <2>2. /\ ~ ses'.isOpen /\ ses'.received = 0 /\ ses'.ops = {"accept"}
        /\ ses'.hq = ses.hq /\ ses'.stream = "connecting"
    BY <1>2, <1>4, <1>5, <1>6, <2>1 DEF SessionState
  <2> QED
    BY <2>2, <1>3 DEF Heard, Due, IsOpen
<1>7. CASE role = "client"
  <2>1. ses' = DoRead(Opened(b))
    BY <1>1, <1>7 DEF Start, StartClient, b
  <2>2. Silent(Opened(b), ses')
    BY <2>1, <1>4, OpenedLemma, SilentDoRead
  <2> QED
    BY <2>2, <1>1, <1>3, <1>4, <1>5, OpenDue
<1> QED
  BY <1>1, <1>6, <1>7

LEMMA AcceptOkDue ==
    ASSUME OrderInv, AcceptOk PROVE Heard(ses') /\ told \o ses'.hq = Due(ses')
<1> DEFINE a == Done("accept", "open")
<1>1. /\ "accept" \in ses.ops /\ ses' = DoRead(Opened(a))
      /\ life = "running"
  BY HandlerLemma DEF AcceptOk
<1>2. /\ ses \in SessionState /\ told \in Seq(Nat)
      /\ ~ ses.isOpen /\ ses.received = 0 /\ told \o ses.hq = <<>>
  BY <1>1 DEF OrderInv, SesInv, WsTypeOK, Heard, Due
<1>3. a \in SessionState /\ a.ops = ses.ops \ {"accept"}
  BY <1>2, DoneLemma DEF Op
<1>4. a.isOpen = ses.isOpen /\ a.received = ses.received /\ a.hq = ses.hq
  BY <1>2 DEF Done, SessionState
<1> HIDE DEF a
<1>5. Silent(Opened(a), ses')
  BY <1>1, <1>3, OpenedLemma, SilentDoRead
<1> QED
  BY <1>2, <1>3, <1>4, <1>5, OpenDue

LEMMA ReadMessageDue ==
    ASSUME OrderInv, ReadMessage
    PROVE  Heard(ses') /\ told \o ses'.hq = Due(ses')
<1> DEFINE a == Done("read", ses.stream)
           b == Activity(a)
<1>1. /\ "read" \in ses.ops /\ ses' = DoRead(OnMessage(b))
      /\ life = "running"
  BY HandlerLemma DEF ReadMessage
<1>2. /\ ses \in SessionState /\ told \in Seq(Nat)
      /\ ses.isOpen /\ "accept" \notin ses.ops /\ told \o ses.hq = Due(ses)
  BY <1>1 DEF OrderInv, SesInv, WsTypeOK, Heard
<1>3. a \in SessionState /\ Silent(ses, a)
  <2>1. "read" \in Op /\ ses.stream \in {"connecting", "open", "closing",
                                        "replying", "closed"}
    BY <1>2 DEF Op, SessionState
  <2> QED
    BY <2>1, <1>2, DoneLemma, SilentDone DEF IsOpen
<1> HIDE DEF a
<1>4. b \in SessionState /\ Silent(ses, b)
  BY <1>3, ActivityLemma, SilentActivity, SilentTwice
<1> HIDE DEF b
<1>5. /\ b.isOpen /\ "accept" \notin b.ops /\ told \o b.hq = Due(b)
  BY <1>2, <1>4 DEF Silent, Due
<1>6. Silent(OnMessage(b), ses')
  BY <1>1, <1>4, OnMessageLemma, SilentDoRead
<1> QED
  BY <1>2, <1>4, <1>5, <1>6, MessageDue

\* The lambda of a call is silent.
LEMMA RunCallSilent ==
    ASSUME SesInv, RunCall PROVE Silent(ses, ses')
<1>1. /\ ses' = IF Head(calls) = CloseFrame THEN Close(ses)
                                           ELSE Send(ses, Head(calls))
      /\ calls # <<>> /\ calls \in Seq(0..MaxCall) /\ ses \in SessionState
  BY LeaveLemma DEF RunCall, SesInv, WsTypeOK
<1>2. Head(calls) \in 0..MaxCall
  BY <1>1, HeadTailProperties
<1>3. Head(calls) # CloseFrame => Head(calls) \in 1..MaxCall
  BY <1>2, SessionAssumption DEF CloseFrame
<1> QED
  BY <1>1, <1>3, SilentClose, SilentSend

\* When on_erase() has been called no handler is left, and the lambdas of
\* late calls change nothing.
LEMMA StillStops ==
    ASSUME Still(ses) PROVE ~ Strand /\ ~ TimerExpires /\ ~ RunCallback
  BY DEF Still, Strand, AcceptOk, AcceptFails, ReadMessage, ReadBad,
     ReadFails, ReadClosed, PeerControl, PeerClose, WriteDone, WriteFails,
     CloseDone, PingDone, PingFails, TimerPings, TimerIgnored, TimerCloses,
     TimerAborted, TimerExpires, RunCallback

LEMMA StillCall ==
    ASSUME SesInv, Still(ses), RunCall PROVE ses' = ses
<1>1. /\ ses' = IF Head(calls) = CloseFrame THEN Close(ses)
                                           ELSE Send(ses, Head(calls))
      /\ life = "running"
  BY LeaveLemma DEF RunCall
<1>2. ~ IsOpen(ses)
  BY <1>1, Running DEF Reads, Still
<1>3. StopTimer(ses) = ses
  BY DEF StopTimer, Still
<1> QED
  BY <1>1, <1>2, <1>3 DEF Close, Send

LEMMA StillLeave ==
    ASSUME erases = 0, NEW s, Leave(s), ses' \in SessionState, erases' > 0
    PROVE  Still(ses')
<1>1. ~ Busy'
  BY DEF Leave
<1>2. /\ ses'.ops = {} /\ ~ (ses'.pings > 0) /\ ses'.timer = "idle"
      /\ ~ (ses'.aborted > 0) /\ ses'.hq = <<>>
  BY <1>1 DEF Busy
<1>3. ses'.pings = 0 /\ ses'.aborted = 0
  BY <1>2 DEF SessionState
<1> QED
  BY <1>2, <1>3 DEF Still

LEMMA OrderInvInit == WsInit => OrderInv
<1> SUFFICES ASSUME WsInit PROVE OrderInv
  OBVIOUS
<1>1. /\ SesInv /\ told = <<>> /\ ses = NewSession(role)
      /\ life = "new" /\ erases = 0
  BY SesInvInit DEF WsInit
<1>2. ses.hq = <<>> /\ ~ ses.isOpen
  BY <1>1 DEF NewSession
<1>3. told \o ses.hq = <<>>
  BY <1>1, <1>2
<1> QED
  BY <1>1, <1>2, <1>3 DEF OrderInv, Due

LEMMA OrderInvStep == OrderInv /\ [WsNext]_wsVars => OrderInv'
<1> SUFFICES ASSUME OrderInv, [WsNext]_wsVars PROVE OrderInv'
  OBVIOUS
<1>i. SesInv /\ SesInv'
  BY SesInvStep DEF OrderInv
<1>t. /\ ses \in SessionState /\ ses' \in SessionState /\ erases \in Nat
      /\ life \in {"new", "running", "gone"} /\ told \in Seq(Nat)
      /\ ses.hq \in Seq(Nat)
  BY <1>i DEF SesInv, WsTypeOK, SessionState
<1>r. ASSUME life = "running", life' = "running", told' = told,
             Heard(ses'), told \o ses'.hq = Due(ses'),
             erases' > 0 => Still(ses')
      PROVE  OrderInv'
  BY <1>r, <1>i DEF OrderInv, Heard, Still, Due, IsOpen
<1>1. CASE UNCHANGED <<ses, told, life, erases>>
  BY <1>1, <1>i DEF OrderInv, Heard, Still, Due, IsOpen
<1>2. CASE Start
  <2>1. /\ life' = "running" /\ told' = told /\ erases' = 0
        /\ Heard(ses') /\ told \o ses'.hq = Due(ses')
    BY <1>2, StartDue DEF Start, OrderInv
  <2> QED
    BY <2>1, <1>i DEF OrderInv, Heard, Due, IsOpen
<1>3. CASE Strand
  <2>1. PICK s : Handler(s)
    BY <1>3, StrandIsHandler
  <2>2. /\ Leave(s) /\ told' = told
        /\ life = "running" /\ life' = "running"
    BY <2>1 DEF Handler, Leave, OtherStrand
  <2>3. erases = 0
    BY <1>3, <1>t, StillStops DEF OrderInv
  <2>4. erases' > 0 => Still(ses')
    BY <2>2, <2>3, <1>t, StillLeave
  <2>5. Heard(ses') /\ told \o ses'.hq = Due(ses')
    <3>1. Heard(ses) /\ told \o ses.hq = Due(ses)
      BY <2>2 DEF OrderInv
    <3>2. CASE Quiet
      BY <3>1, <3>2, <1>i, QuietSilent, SilentDue
    <3>3. CASE AcceptOk
      BY <3>3, AcceptOkDue
    <3>4. CASE ReadMessage
      BY <3>4, ReadMessageDue
    <3> QED
      BY <3>2, <3>3, <3>4, <1>3 DEF Strand, Quiet
  <2> QED
    BY <2>2, <2>4, <2>5, <1>r
<1>4. CASE TimerExpires
  <2>1. /\ ses' = [ses EXCEPT !.timer = "expired"] /\ life = "running"
        /\ UNCHANGED <<told, life, erases>>
    BY <1>4 DEF TimerExpires, outer
  <2>2. Silent(ses, ses')
    BY <2>1, <1>t DEF SessionState, Silent, IsOpen
  <2>3. ~ (erases' > 0)
    BY <2>1, <1>4, StillStops DEF OrderInv
  <2>4. Heard(ses') /\ told \o ses'.hq = Due(ses')
    BY <2>1, <2>2, SilentDue DEF OrderInv
  <2> QED
    BY <2>1, <2>3, <2>4, <1>r
<1>5. CASE RunCall
  <2>1. PICK s : Leave(s) /\ told' = told
    BY <1>5 DEF RunCall
  <2>2. life = "running" /\ life' = "running"
    BY <2>1 DEF Leave, OtherStrand
  <2>3. erases' > 0 => Still(ses')
    <3>1. CASE erases = 0
      BY <3>1, <2>1, <1>t, StillLeave
    <3>2. CASE erases > 0
      BY <3>2, <1>5, <1>i, StillCall DEF OrderInv
    <3> QED
      BY <3>1, <3>2, <1>t
  <2>4. Heard(ses') /\ told \o ses'.hq = Due(ses')
    BY <2>2, <1>5, <1>i, RunCallSilent, SilentDue DEF OrderInv
  <2> QED
    BY <2>1, <2>2, <2>3, <2>4, <1>r
<1>6. CASE RunCallback
  <2> DEFINE q == Tail(ses.hq)
  <2>1. /\ ses.hq # <<>> /\ told' = Append(told, Head(ses.hq))
        /\ life = "running" /\ life' = "running"
        /\ Leave([ses EXCEPT !.hq = Tail(@)])
    BY <1>6 DEF RunCallback, Leave, OtherStrand
  <2>2. ses' = [ses EXCEPT !.hq = q]
    BY <2>1, <1>t DEF Leave, SessionState
  <2>3. told' \o q = told \o ses.hq
    BY <2>1, <1>t, Runs
  <2> HIDE DEF q
  <2>4. /\ ses'.hq = q /\ ses'.isOpen = ses.isOpen
        /\ ses'.received = ses.received /\ ses'.ops = ses.ops
        /\ ses'.stream = ses.stream
    BY <2>2, <1>t DEF SessionState
  <2>5. told' \o ses'.hq = Due(ses') /\ Heard(ses')
    BY <2>1, <2>3, <2>4 DEF OrderInv, Due, Heard, IsOpen
  <2>6. erases = 0
    BY <1>6, <1>t, StillStops DEF OrderInv
  <2>7. erases' > 0 => Still(ses')
    BY <2>1, <2>6, <1>t, StillLeave
  <2> QED
    BY <2>1, <2>5, <2>7, <1>i DEF OrderInv, Heard, Still, Due, IsOpen
<1>7. CASE CallCheck \/ CallQueue \/ FallSilent \/ UNCHANGED wsVars
  <2>1. UNCHANGED <<ses, told, life, erases>>
    BY <1>7 DEF CallCheck, CallQueue, FallSilent, wsVars
  <2> QED
    BY <2>1, <1>1
<1>8. CASE EraseSession
  <2>1. /\ erases > 0 /\ life = "running" /\ life' = "gone"
        /\ ses' = ses
        /\ told' = IF ses.isOpen THEN Append(told, OnClose) ELSE told
    BY <1>8 DEF EraseSession
  <2>2. Still(ses) /\ Heard(ses) /\ told \o ses.hq = Due(ses)
    BY <2>1 DEF OrderInv
  <2>3. told = Due(ses)
    BY <2>2, <1>t, ConcatEmptySeq DEF Still
  <2>4. told' = IF ses.isOpen THEN Append(Due(ses), OnClose) ELSE <<>>
    BY <2>1, <2>3 DEF Due
  <2> QED
    BY <2>1, <2>2, <2>4, <1>i DEF OrderInv, Heard, Still, Due, IsOpen
<1> QED
  BY <1>2, <1>3, <1>4, <1>5, <1>6, <1>7, <1>8 DEF WsNext, Strand

\* The service gets on_open() first, then every message that was read, in
\* order, and on_close() last and once; a session that was never opened gets
\* no callback.
THEOREM WsCallbacksInOrder == WsSpec => []CallbacksInOrder
<1>1. OrderInv => CallbacksInOrder
  <2> SUFFICES ASSUME OrderInv PROVE CallbacksInOrder
    OBVIOUS
  <2>1. told \in Seq(Nat) /\ ses.received \in Nat /\ ses.hq \in Seq(Nat)
    BY DEF OrderInv, SesInv, WsTypeOK, SessionState
  <2>2. Due(ses) \in Seq(Nat)
    BY <2>1, CallsLemma, EmptySeq DEF Due
  <2>3. OnClose \in Nat
    BY SessionAssumption DEF OnClose
  <2>4. CASE life = "gone"
    <3>1. ses.hq = <<>> /\ told \o ses.hq = told
      BY <2>1, <2>4, ConcatEmptySeq DEF OrderInv, Still
    <3>2. ses.isOpen => told = Due(ses) \o <<OnClose>>
      BY <2>2, <2>3, <2>4, AppendIsConcat DEF OrderInv
    <3>3. ~ ses.isOpen => told = Due(ses) \o <<>>
      BY <2>2, <2>4, ConcatEmptySeq DEF OrderInv, Due
    <3> QED
      BY <2>4, <3>1, <3>2, <3>3 DEF CallbacksInOrder, Due, Calls
  <2>5. CASE life # "gone"
    <3>1. told \o ses.hq = Due(ses) \o <<>>
      BY <2>2, <2>5, ConcatEmptySeq DEF OrderInv
    <3> QED
      BY <2>5, <3>1 DEF CallbacksInOrder, Due, Calls
  <2> QED
    BY <2>4, <2>5
<1> QED
  BY <1>1, OrderInvInit, OrderInvStep, PTL DEF WsSpec

-----------------------------------------------------------------------------
(* The frames on the wire w, the messages a that send() accepted, and the  *)
(* write_list_ l, of which the n first messages (one or none) are being    *)
(* written                                                                 *)

\* The frames are the first of the accepted messages; a close frame is last.
Sent(w, a) ==
    \A i \in 1..Len(w) :
        /\ w[i] = CloseFrame => i = Len(w)
        /\ w[i] # CloseFrame => i <= Len(a) /\ w[i] = a[i]

\* On an open stream the rest of the accepted messages is the list.
Rest(w, a, l, n) ==
    /\ \A i \in 1..Len(w) : w[i] # CloseFrame
    /\ n <= Len(w)
    /\ Len(a) = (Len(w) - n) + Len(l)
    /\ \A j \in 1..Len(l) : a[(Len(w) - n) + j] = l[j]

\* A message is pushed on the list, ...
LEMMA PushLemma ==
    ASSUME NEW w \in Seq(0..MaxCall), NEW a \in Seq(1..MaxCall),
           NEW l \in Seq(1..MaxCall), NEW n \in {0, 1}, NEW c \in 1..MaxCall,
           Sent(w, a), Rest(w, a, l, n)
    PROVE  Sent(w, Append(a, c)) /\ Rest(w, Append(a, c), Append(l, c), n)
<1> DEFINE b == Append(a, c)
           k == Append(l, c)
<1>1. Len(w) \in Nat /\ Len(a) \in Nat /\ Len(l) \in Nat
  BY LenProperties
<1>2. /\ Len(b) = Len(a) + 1 /\ b[Len(a) + 1] = c
      /\ \A i \in 1..Len(a) : b[i] = a[i]
  BY AppendProperties
<1>3. /\ Len(k) = Len(l) + 1 /\ k[Len(l) + 1] = c
      /\ \A i \in 1..Len(l) : k[i] = l[i]
  BY AppendProperties
<1> HIDE DEF b, k
<1>4. Sent(w, b)
  BY <1>1, <1>2 DEF Sent
<1>5. ASSUME NEW j \in 1..Len(k) PROVE b[(Len(w) - n) + j] = k[j]
  <2>1. CASE j \in 1..Len(l)
    <3>1. a[(Len(w) - n) + j] = l[j] /\ (Len(w) - n) + j \in 1..Len(a)
      BY <2>1, <1>1 DEF Rest
    <3> QED
      BY <3>1, <2>1, <1>2, <1>3
  <2>2. CASE j = Len(l) + 1
    BY <2>2, <1>1, <1>2, <1>3 DEF Rest
  <2> QED
    BY <2>1, <2>2, <1>1, <1>3
<1>6. Rest(w, b, k, n)
  BY <1>1, <1>2, <1>3, <1>5 DEF Rest
<1> QED
  BY <1>4, <1>6 DEF b, k

\* ... the front of the list is written, ...
LEMMA FrameLemma ==
    ASSUME NEW w \in Seq(0..MaxCall), NEW a \in Seq(1..MaxCall),
           NEW l \in Seq(1..MaxCall), l # <<>>,
           Sent(w, a), Rest(w, a, l, 0)
    PROVE  Sent(Append(w, Head(l)), a) /\ Rest(Append(w, Head(l)), a, l, 1)
<1> DEFINE h == Head(l)
           v == Append(w, h)
<1>1. Len(w) \in Nat /\ Len(a) \in Nat /\ Len(l) \in Nat /\ Len(l) > 0
  BY LenProperties, EmptySeq
<1>2. h = l[1] /\ h \in 1..MaxCall
  <2>1. Head(l) \in 1..MaxCall
    BY HeadTailProperties
  <2> QED
    BY <2>1
<1>3. h # CloseFrame /\ h \in 0..MaxCall
  BY <1>2, SessionAssumption DEF CloseFrame
<1> HIDE DEF h
<1>4. /\ Len(v) = Len(w) + 1 /\ v[Len(w) + 1] = h
      /\ \A i \in 1..Len(w) : v[i] = w[i]
  BY <1>3, AppendProperties
<1> HIDE DEF v
<1>5. a[Len(w) + 1] = h /\ Len(w) + 1 <= Len(a)
  BY <1>1, <1>2 DEF Rest
<1>6. Sent(v, a)
  BY <1>1, <1>3, <1>4, <1>5 DEF Sent, Rest
<1>7. Rest(v, a, l, 1)
  <2>1. (Len(v) - 1) = (Len(w) - 0) /\ 1 <= Len(v)
    BY <1>1, <1>4
  <2>2. \A i \in 1..Len(v) : v[i] # CloseFrame
    <3>1. \A i \in 1..Len(w) : v[i] # CloseFrame
      BY <1>4 DEF Rest
    <3>2. \A i \in 1..Len(v) : i \in 1..Len(w) \/ i = Len(w) + 1
      BY <1>1, <1>4
    <3> QED
      BY <3>1, <3>2, <1>3, <1>4
  <2> QED
    BY <2>1, <2>2 DEF Rest
<1> QED
  BY <1>6, <1>7 DEF v, h

\* ... and leaves the list when it is written.
LEMMA PopLemma ==
    ASSUME NEW w \in Seq(0..MaxCall), NEW a \in Seq(1..MaxCall),
           NEW l \in Seq(1..MaxCall), l # <<>>, Rest(w, a, l, 1)
    PROVE  Rest(w, a, Tail(l), 0)
<1> DEFINE k == Tail(l)
<1>1. Len(w) \in Nat /\ Len(a) \in Nat /\ Len(l) \in Nat /\ Len(l) > 0
  BY LenProperties, EmptySeq
<1>2. Len(k) = Len(l) - 1 /\ \A j \in 1..Len(k) : k[j] = l[j + 1]
  BY HeadTailProperties
<1> HIDE DEF k
<1>3. ASSUME NEW j \in 1..Len(k) PROVE a[(Len(w) - 0) + j] = k[j]
  <2>1. j + 1 \in 1..Len(l) /\ (Len(w) - 1) + (j + 1) = (Len(w) - 0) + j
    BY <1>1, <1>2
  <2> QED
    BY <2>1, <1>2 DEF Rest
<1>4. Rest(w, a, k, 0)
  BY <1>1, <1>2, <1>3 DEF Rest
<1> QED
  BY <1>4 DEF k

\* Nothing follows the close frame.
LEMMA CloseFrameLemma ==
    ASSUME NEW w \in Seq(0..MaxCall), NEW a \in Seq(1..MaxCall), Sent(w, a),
           \A i \in 1..Len(w) : w[i] # CloseFrame
    PROVE  Sent(Append(w, CloseFrame), a)
<1> DEFINE v == Append(w, CloseFrame)
<1>1. Len(w) \in Nat /\ CloseFrame \in 0..MaxCall
  BY LenProperties, SessionAssumption DEF CloseFrame
<1>2. /\ Len(v) = Len(w) + 1 /\ v[Len(w) + 1] = CloseFrame
      /\ \A i \in 1..Len(w) : v[i] = w[i]
  BY <1>1, AppendProperties
<1> HIDE DEF v
<1>3. Sent(v, a)
  BY <1>1, <1>2 DEF Sent
<1> QED
  BY <1>3 DEF v

-----------------------------------------------------------------------------
(* The methods and the wire *)

Writing(s) == IF "write" \in s.ops THEN 1 ELSE 0

Wired(s) ==
    /\ Sent(s.wire, s.accepted)
    /\ IsOpen(s) => Rest(s.wire, s.accepted, s.writeList, Writing(s))
    /\ s.stream = "connecting" => s.wire = <<>> /\ s.accepted = <<>>

WireInv == SesInv /\ Wired(ses)

\* From s to t nothing is written, accepted or taken off the list, unless
\* the stream is open no more.
Tacit(s, t) ==
    /\ t.wire = s.wire /\ t.accepted = s.accepted
    /\ IsOpen(t) => /\ IsOpen(s) /\ t.writeList = s.writeList
                    /\ Writing(t) = Writing(s)
    /\ t.stream = "connecting" => s.stream = "connecting"

LEMMA TacitWired ==
    ASSUME NEW s, NEW t, Tacit(s, t), Wired(s) PROVE Wired(t)
  BY DEF Tacit, Wired

LEMMA TacitTwice ==
    ASSUME NEW s, NEW t, NEW u, Tacit(s, t), Tacit(t, u) PROVE Tacit(s, u)
  BY DEF Tacit

LEMMA SameTacit ==
    ASSUME NEW s, NEW t, SameButTimer(s, t) PROVE Tacit(s, t)
  BY DEF SameButTimer, Tacit, IsOpen, Writing

LEMMA TacitActivity ==
    ASSUME NEW s \in SessionState PROVE Tacit(s, Activity(s))
<1> DEFINE t == [s EXCEPT !.waitOnPong = FALSE]
<1>1. t \in SessionState /\ Tacit(s, t)
  BY DEF SessionState, Tacit, IsOpen, Writing
<1>2. Activity(s) = RestartTimer(t)
  BY DEF Activity
<1> HIDE DEF t
<1> QED
  BY <1>1, <1>2, RestartTimerLemma, SameTacit, TacitTwice

LEMMA TacitDoRead ==
    ASSUME NEW s \in SessionState PROVE Tacit(s, DoRead(s))
<1>1. CASE ~ IsOpen(s)
  BY <1>1 DEF DoRead, Tacit
<1>2. CASE IsOpen(s)
  <2> DEFINE r == RestartTimer(s)
             t == [r EXCEPT !.ops = @ \cup {"read"}]
  <2>1. r \in SessionState /\ Tacit(s, r)
    BY RestartTimerLemma, SameTacit
  <2>2. DoRead(s) = t
    BY <1>2 DEF DoRead
  <2> HIDE DEF r
  <2>3. Tacit(r, t)
    BY <2>1 DEF SessionState, Tacit, IsOpen, Writing
  <2> HIDE DEF t
  <2> QED
    BY <2>1, <2>2, <2>3, TacitTwice
<1> QED
  BY <1>1, <1>2

LEMMA TacitOpened ==
    ASSUME NEW s \in SessionState PROVE Tacit(s, Opened(s))
<1> DEFINE q == Append(s.hq, OnOpen)
<1>1. Opened(s) = [s EXCEPT !.isOpen = TRUE, !.hq = q]
  BY DEF Opened, SessionState
<1> HIDE DEF q
<1> QED
  BY <1>1 DEF SessionState, Tacit, IsOpen, Writing

LEMMA TacitOnMessage ==
    ASSUME NEW s \in SessionState PROVE Tacit(s, OnMessage(s))
<1> DEFINE r == s.received + 1
           q == Append(s.hq, r)
<1>1. OnMessage(s) = [s EXCEPT !.received = r, !.hq = q]
  BY DEF OnMessage, SessionState
<1> HIDE DEF q, r
<1> QED
  BY <1>1 DEF SessionState, Tacit, IsOpen, Writing

\* The next frame is written ...
LEMMA DoWriteWired ==
    ASSUME NEW s \in SessionState, IsOpen(s), Wired(s),
           s.closeReason \/ (s.writeList # <<>> /\ "write" \notin s.ops)
    PROVE  Wired(DoWrite(s))
<1>1. /\ s.wire \in Seq(0..MaxCall) /\ s.accepted \in Seq(1..MaxCall)
      /\ s.writeList \in Seq(1..MaxCall)
      /\ Sent(s.wire, s.accepted)
      /\ Rest(s.wire, s.accepted, s.writeList, Writing(s))
  BY DEF SessionState, Wired
<1>2. CASE s.closeReason
  <2> DEFINE w == Append(s.wire, CloseFrame)
             t == [s EXCEPT !.stream = "closing",
                            !.ops = s.ops \cup {"close"}, !.wire = w]
  <2>1. DoWrite(s) = t
    BY <1>2 DEF DoWrite, SessionState
  <2>2. Sent(w, s.accepted)
    <3>1. \A i \in 1..Len(s.wire) : s.wire[i] # CloseFrame
      BY <1>1 DEF Rest
    <3> QED
      BY <1>1, <3>1, CloseFrameLemma
  <2> HIDE DEF w
  <2>3. t.wire = w /\ t.accepted = s.accepted /\ t.stream = "closing"
    BY DEF SessionState
  <2> HIDE DEF t
  <2> QED
    BY <2>1, <2>2, <2>3 DEF Wired, IsOpen
<1>3. CASE ~ s.closeReason
  <2> DEFINE w == Append(s.wire, Head(s.writeList))
             t == [s EXCEPT !.ops = s.ops \cup {"write"}, !.wire = w]
  <2>1. DoWrite(s) = t
    BY <1>3 DEF DoWrite, SessionState
  <2>2. Writing(s) = 0 /\ s.writeList # <<>>
    BY <1>3 DEF Writing
  <2>3. Sent(w, s.accepted) /\ Rest(w, s.accepted, s.writeList, 1)
    BY <1>1, <2>2, FrameLemma
  <2> HIDE DEF w
  <2>4. /\ t.wire = w /\ t.accepted = s.accepted
        /\ t.writeList = s.writeList /\ t.stream = "open"
        /\ Writing(t) = 1
    BY DEF SessionState, IsOpen, Writing
  <2> HIDE DEF t
  <2> QED
    BY <2>1, <2>3, <2>4 DEF Wired
<1> QED
  BY <1>2, <1>3 DEF SessionState

\* ... by close(), if no message is left, ...
LEMMA CloseWired ==
    ASSUME NEW s \in SessionState, Wired(s) PROVE Wired(Close(s))
<1> DEFINE n == [s EXCEPT !.closeReason = TRUE]
<1>1. n \in SessionState /\ Tacit(s, n) /\ n.closeReason
      /\ n.stream = s.stream
  BY DEF SessionState, Tacit, IsOpen, Writing
<1>2. \/ Close(s) \in {StopTimer(s), s, n}
      \/ IsOpen(s) /\ Close(s) = DoWrite(n)
  BY DEF Close
<1> HIDE DEF n
<1>3. Wired(n)
  BY <1>1, TacitWired
<1>4. Wired(StopTimer(s))
  BY StopTimerLemma, SameTacit, TacitWired
<1>5. IsOpen(s) => Wired(DoWrite(n))
  BY <1>1, <1>3, DoWriteWired DEF IsOpen
<1> QED
  BY <1>2, <1>3, <1>4, <1>5

\* ... and by send(), if no message is before this one.
LEMMA SendWired ==
    ASSUME NEW s \in SessionState, NEW c \in 1..MaxCall, Wired(s), Writes(s)
    PROVE  Wired(Send(s, c))
<1>1. CASE ~ IsOpen(s)
  BY <1>1, StopTimerLemma, SameTacit, TacitWired DEF Send
<1>2. CASE IsOpen(s)
  <2> DEFINE l == Append(s.writeList, c)
             a == Append(s.accepted, c)
             n == [s EXCEPT !.writeList = l, !.accepted = a]
  <2>1. /\ s.wire \in Seq(0..MaxCall) /\ s.accepted \in Seq(1..MaxCall)
        /\ s.writeList \in Seq(1..MaxCall)
        /\ Sent(s.wire, s.accepted)
        /\ Rest(s.wire, s.accepted, s.writeList, Writing(s))
        /\ Writing(s) \in {0, 1}
    BY <1>2 DEF SessionState, Wired, Writing
  <2>2. Sent(s.wire, a) /\ Rest(s.wire, a, l, Writing(s))
    BY <2>1, PushLemma
  <2>3. l \in Seq(1..MaxCall) /\ a \in Seq(1..MaxCall) /\ l # <<>>
    BY <2>1, AppendNonEmpty
  <2>4. \/ Send(s, c) \in {s, n}
        \/ s.writeList = <<>> /\ Send(s, c) = DoWrite(n)
    BY <1>2 DEF Send, SessionState
  <2> HIDE DEF l, a
  <2>5. /\ n \in SessionState /\ n.wire = s.wire /\ n.accepted = a
        /\ n.writeList = l /\ n.stream = s.stream /\ n.ops = s.ops
    BY <2>3 DEF SessionState
  <2> HIDE DEF n
  <2>6. Wired(n)
    BY <1>2, <2>2, <2>5 DEF Wired, Writing, IsOpen
  <2>7. s.writeList = <<>> => Wired(DoWrite(n))
    BY <1>2, <2>3, <2>5, <2>6, DoWriteWired DEF Writes, IsOpen
  <2> QED
    BY <2>4, <2>6, <2>7
<1> QED
  BY <1>1, <1>2

-----------------------------------------------------------------------------
(* The handlers and the wire *)

LEMMA TacitDone ==
    ASSUME ses \in SessionState, NEW o \in Op,
           NEW st \in {"connecting", "open", "closing", "replying", "closed"},
           st = "open" => IsOpen(ses) /\ o # "write",
           st = "connecting" => ses.stream = "connecting"
    PROVE  Tacit(ses, Done(o, st))
  BY DEF Done, SessionState, Tacit, IsOpen, Writing

LEMMA FailsWired ==
    ASSUME ses \in SessionState, Wired(ses), NEW o \in ses.ops
    PROVE  /\ Wired(Failed(o)) /\ Wired(StopTimer(Failed(o)))
           /\ Wired(Activity(Failed(o))) /\ Wired(Close(Failed(o)))
<1> DEFINE t == Failed(o)
<1>1. o \in Op
  BY DEF SessionState
<1>2. t \in SessionState /\ Tacit(ses, t)
  BY <1>1, DoneLemma, TacitDone DEF Failed
<1> HIDE DEF t
<1>3. Wired(t)
  BY <1>2, TacitWired
<1>4. Wired(StopTimer(t)) /\ Wired(Activity(t)) /\ Wired(Close(t))
  BY <1>2, <1>3, StopTimerLemma, SameTacit, TacitActivity, CloseWired,
     TacitWired
<1> QED
  BY <1>3, <1>4 DEF t

LEMMA AcceptOkWired ==
    ASSUME WireInv, AcceptOk PROVE Wired(ses')
<1> DEFINE a == Done("accept", "open")
<1>1. /\ "accept" \in ses.ops /\ ses' = DoRead(Opened(a))
      /\ life = "running"
  BY HandlerLemma DEF AcceptOk
<1>2. /\ ses \in SessionState /\ ses.stream = "connecting"
      /\ ses.ops \subseteq {"accept"} /\ ses.writeList = <<>>
      /\ ses.wire = <<>> /\ ses.accepted = <<>>
  BY <1>1, Running DEF WireInv, Fresh, Wired
<1>3. a \in SessionState
  BY <1>2, DoneLemma DEF Op
<1>4. /\ a.wire = <<>> /\ a.accepted = <<>> /\ a.writeList = <<>>
      /\ a.stream = "open" /\ Writing(a) = 0
  BY <1>2 DEF Done, SessionState, Writing
<1> HIDE DEF a
<1>5. Wired(a)
  BY <1>4 DEF Wired, Sent, Rest
<1>6. Opened(a) \in SessionState /\ Wired(Opened(a))
  BY <1>3, <1>5, OpenedLemma, TacitOpened, TacitWired
<1> QED
  BY <1>1, <1>6, TacitDoRead, TacitWired

LEMMA ReadWired ==
    ASSUME WireInv, ReadMessage \/ ReadBad PROVE Wired(ses')
<1> DEFINE a == Done("read", ses.stream)
           b == Activity(a)
<1>1. /\ ses' = DoRead(OnMessage(b)) \/ ses' = DoRead(Close(b))
      /\ ses \in SessionState /\ Wired(ses)
  <2>1. CASE ReadMessage
    BY <2>1, HandlerLemma DEF ReadMessage, WireInv, SesInv, WsTypeOK
  <2>2. CASE ReadBad
    BY <2>2, HandlerLemma DEF ReadBad, IsOpen, WireInv, SesInv, WsTypeOK
  <2> QED
    BY <2>1, <2>2
<1>2. a \in SessionState /\ Wired(a)
  <2>1. "read" \in Op /\ ses.stream \in {"connecting", "open", "closing",
                                        "replying", "closed"}
    BY <1>1 DEF Op, SessionState
  <2> QED
    BY <2>1, <1>1, DoneLemma, TacitDone, TacitWired DEF IsOpen
<1> HIDE DEF a
<1>3. b \in SessionState /\ Wired(b)
  BY <1>2, ActivityLemma, TacitActivity, TacitWired
<1> HIDE DEF b
<1>4. /\ OnMessage(b) \in SessionState /\ Wired(OnMessage(b))
      /\ Close(b) \in SessionState /\ Wired(Close(b))
  BY <1>3, OnMessageLemma, TacitOnMessage, CloseLemma, CloseWired, TacitWired
<1> QED
  BY <1>1, <1>4, TacitDoRead, TacitWired

LEMMA PeerWired ==
    ASSUME WireInv, PeerControl \/ PeerClose PROVE Wired(ses')
<1> DEFINE a == Activity(ses)
           t == [a EXCEPT !.stream = "replying"]
<1>1. (ses' = a \/ ses' = t) /\ ses \in SessionState /\ Wired(ses)
  BY HandlerLemma DEF PeerControl, PeerClose, WireInv, SesInv, WsTypeOK
<1>2. a \in SessionState /\ Wired(a)
  BY <1>1, ActivityLemma, TacitActivity, TacitWired
<1> HIDE DEF a
<1>3. Tacit(a, t)
  BY <1>2 DEF SessionState, Tacit, IsOpen
<1> HIDE DEF t
<1> QED
  BY <1>1, <1>2, <1>3, TacitWired

\* The handler of async_write
LEMMA WriteDoneWired ==
    ASSUME WireInv, WriteDone PROVE Wired(ses')
<1> DEFINE a == Done("write", ses.stream)
           l == Tail(a.writeList)
           b == [a EXCEPT !.writeList = l]
<1>1. /\ "write" \in ses.ops /\ ses \in SessionState /\ Wired(ses)
      /\ ses.writeList # <<>> /\ ses.stream # "connecting"
      /\ ses' = IF IsOpen(b) /\ (b.writeList # <<>> \/ b.closeReason)
                THEN DoWrite(b) ELSE b
  <2>1. "write" \in ses.ops /\ life = "running"
    BY DEF WriteDone, Handler, Leave, OtherStrand
  <2>2. /\ ses \in SessionState /\ ses.writeList # <<>>
        /\ ses.stream # "connecting" /\ Wired(ses)
    BY <2>1, Running DEF Writes, Fresh, WireInv
  <2>3. [a EXCEPT !.writeList = Tail(@)] = b
    BY <2>2, DoneLemma DEF SessionState, Op
  <2> QED
    BY <2>1, <2>2, <2>3, HandlerLemma DEF WriteDone
<1>2. /\ a \in SessionState /\ a.writeList = ses.writeList
      /\ a.wire = ses.wire /\ a.accepted = ses.accepted
      /\ a.stream = ses.stream /\ "write" \notin a.ops
  BY <1>1 DEF Done, SessionState, Op
<1>3. l \in Seq(1..MaxCall) /\ l = Tail(ses.writeList)
  <2>1. a.writeList \in Seq(1..MaxCall) /\ a.writeList # <<>>
    BY <1>1, <1>2 DEF SessionState
  <2> QED
    BY <2>1, <1>2, HeadTailProperties
<1> HIDE DEF a, l
<1>4. /\ b \in SessionState /\ b.writeList = l
      /\ b.wire = ses.wire /\ b.accepted = ses.accepted
      /\ b.stream = ses.stream /\ "write" \notin b.ops
  BY <1>2, <1>3 DEF SessionState
<1> HIDE DEF b
<1>5. IsOpen(ses) => Rest(ses.wire, ses.accepted, l, 0)
  <2>1. /\ ses.wire \in Seq(0..MaxCall) /\ ses.accepted \in Seq(1..MaxCall)
        /\ ses.writeList \in Seq(1..MaxCall)
    BY <1>1 DEF SessionState
  <2>2. IsOpen(ses) => Rest(ses.wire, ses.accepted, ses.writeList, 1)
    BY <1>1 DEF Wired, Writing
  <2> QED
    BY <2>1, <2>2, <1>1, <1>3, PopLemma
<1>6. Wired(b)
  BY <1>1, <1>4, <1>5 DEF Wired, Writing, IsOpen
<1>7. IsOpen(b) /\ (b.writeList # <<>> \/ b.closeReason) => Wired(DoWrite(b))
  BY <1>4, <1>6, DoWriteWired
<1> QED
  BY <1>1, <1>6, <1>7

LEMMA PingWired ==
    ASSUME WireInv, PingDone \/ PingFails PROVE Wired(ses')
<1>0. ses \in SessionState /\ Wired(ses)
  BY DEF WireInv, SesInv, WsTypeOK
<1>1. CASE PingDone
  <2>1. ses' = [ses EXCEPT !.pings = @ - 1]
    BY <1>1, HandlerLemma DEF PingDone
  <2>2. Tacit(ses, ses')
    BY <2>1, <1>0 DEF SessionState, Tacit, IsOpen, Writing
  <2> QED
    BY <2>2, <1>0, TacitWired
<1>2. CASE PingFails
  <2> DEFINE a == [ses EXCEPT !.pings = @ - 1, !.stream = "closed"]
  <2>1. ses' = Close(a) /\ ses.pings > 0
    BY <1>2, HandlerLemma DEF PingFails
  <2>2. ses.pings - 1 \in Nat
    BY <2>1, <1>0 DEF SessionState
  <2>3. a \in SessionState /\ Tacit(ses, a)
    BY <2>2, <1>0 DEF SessionState, Tacit, IsOpen, Writing
  <2> HIDE DEF a
  <2> QED
    BY <2>1, <2>3, <1>0, CloseWired, TacitWired
<1> QED
  BY <1>1, <1>2

LEMMA TimerWired ==
    ASSUME WireInv,
           TimerPings \/ TimerIgnored \/ TimerCloses \/ TimerAborted
    PROVE  Wired(ses')
<1>0. ses \in SessionState /\ Wired(ses)
  BY DEF WireInv, SesInv, WsTypeOK
<1> SUFFICES Tacit(ses, ses')
  BY <1>0, TacitWired
<1>1. CASE TimerPings
  <2> DEFINE a == [ses EXCEPT !.timer = "idle", !.waitOnPong = TRUE,
                              !.pings = @ + 1]
             b == RestartTimer(a)
  <2>1. ses' = DoTimer(b)
    BY <1>1, HandlerLemma DEF TimerPings
  <2>2. ses.pings + 1 \in Nat
    BY <1>0 DEF SessionState
  <2>3. a \in SessionState /\ Tacit(ses, a)
    BY <2>2, <1>0 DEF SessionState, Tacit, IsOpen, Writing
  <2> HIDE DEF a
  <2>4. b \in SessionState /\ Tacit(a, b)
    BY <2>3, RestartTimerLemma, SameTacit
  <2> HIDE DEF b
  <2>5. Tacit(b, ses')
    BY <2>1, <2>4, DoTimerLemma, SameTacit
  <2> QED
    BY <2>3, <2>4, <2>5, TacitTwice
<1>2. CASE TimerIgnored
  <2>1. ses' = [ses EXCEPT !.timer = "idle"]
    BY <1>2, HandlerLemma DEF TimerIgnored
  <2> QED
    BY <2>1, <1>0 DEF SessionState, Tacit, IsOpen, Writing
<1>3. CASE TimerCloses
  <2> DEFINE a == [ses EXCEPT !.timer = "idle"]
             b == [a EXCEPT !.socket = FALSE]
  <2>1. ses' = StopTimer(b)
    BY <1>3, HandlerLemma DEF TimerCloses, CloseSocket
  <2>2. b \in SessionState /\ Tacit(ses, b)
    BY <1>0 DEF SessionState, Tacit, IsOpen, Writing
  <2> HIDE DEF b
  <2> QED
    BY <2>1, <2>2, StopTimerLemma, SameTacit, TacitTwice
<1>4. CASE TimerAborted
  <2>1. ses' = [ses EXCEPT !.aborted = @ - 1]
    BY <1>4, HandlerLemma DEF TimerAborted
  <2> QED
    BY <2>1, <1>0 DEF SessionState, Tacit, IsOpen, Writing
<1> QED
  BY <1>1, <1>2, <1>3, <1>4

LEMMA RunCallWired ==
    ASSUME WireInv, RunCall PROVE Wired(ses')
<1>1. /\ ses' = IF Head(calls) = CloseFrame THEN Close(ses)
                                           ELSE Send(ses, Head(calls))
      /\ calls # <<>> /\ calls \in Seq(0..MaxCall)
      /\ ses \in SessionState /\ Wired(ses) /\ Writes(ses)
  BY LeaveLemma, Running DEF RunCall, WireInv, SesInv, WsTypeOK
<1>2. Head(calls) \in 0..MaxCall
  BY <1>1, HeadTailProperties
<1>3. Head(calls) # CloseFrame => Head(calls) \in 1..MaxCall
  BY <1>2, SessionAssumption DEF CloseFrame
<1> QED
  BY <1>1, <1>3, CloseWired, SendWired

\* start() and do_accept()
LEMMA StartWired ==
    ASSUME WireInv, Start PROVE Wired(ses')
<1>1. /\ ses \in SessionState /\ Wired(ses)
      /\ ses' = IF role = "server" THEN DoAccept(ses) ELSE StartClient(ses)
      /\ role = "server" => ses.stream = "connecting"
  BY DEF WireInv, SesInv, Start, WsTypeOK, NewSession
<1> DEFINE b == StartTimer(ses)
<1>2. b \in SessionState /\ Wired(b) /\ SameButTimer(ses, b)
  <2> DEFINE a == DoTimer(ses)
  <2>1. a \in SessionState /\ SameButTimer(ses, a) /\ b = RestartTimer(a)
    BY <1>1, DoTimerLemma DEF StartTimer
  <2> HIDE DEF a, b
  <2>2. b \in SessionState /\ SameButTimer(a, b)
    BY <2>1, RestartTimerLemma
  <2>3. SameButTimer(ses, b)
    BY <2>1, <2>2 DEF SameButTimer
  <2> QED
    BY <2>2, <2>3, <1>1, SameTacit, TacitWired
<1> HIDE DEF b
<1>3. CASE role = "server"
  <2>1. ses' = [b EXCEPT !.ops = b.ops \cup {"accept"}]
    BY <1>1, <1>2, <1>3 DEF DoAccept, b, SessionState
  <2>2. Tacit(b, ses')
    BY <2>1, <1>2 DEF SessionState, Tacit, IsOpen, Writing
  <2> QED
    BY <2>2, <1>2, TacitWired
<1>4. CASE role # "server"
  <2>1. ses' = DoRead(Opened(b))
    BY <1>1, <1>4 DEF StartClient, b
  <2>2. Opened(b) \in SessionState /\ Wired(Opened(b))
    BY <1>2, OpenedLemma, TacitOpened, TacitWired
  <2> QED
    BY <2>1, <2>2, TacitDoRead, TacitWired
<1> QED
  BY <1>3, <1>4

LEMMA WireInvInit == WsInit => WireInv
<1> SUFFICES ASSUME WsInit PROVE Wired(ses)
  BY SesInvInit DEF WireInv
<1>1. /\ ses.wire = <<>> /\ ses.accepted = <<>> /\ ses.writeList = <<>>
      /\ Writing(ses) = 0
  BY DEF WsInit, NewSession, Writing
<1> QED
  BY <1>1 DEF Wired, Sent, Rest

LEMMA WireInvStep == WireInv /\ [WsNext]_wsVars => WireInv'
<1> SUFFICES ASSUME WireInv, [WsNext]_wsVars PROVE WireInv'
  OBVIOUS
<1>0. SesInv /\ SesInv' /\ ses \in SessionState /\ Wired(ses)
  BY SesInvStep DEF WireInv, SesInv, WsTypeOK
<1> SUFFICES Wired(ses')
  BY <1>0 DEF WireInv, Wired, Writing, IsOpen
<1>1. CASE Start
  BY <1>1, StartWired
<1>2. CASE AcceptFails \/ ReadFails \/ ReadClosed \/ WriteFails \/ CloseDone
  BY <1>0, <1>2, HandlerLemma, FailsWired
     DEF AcceptFails, ReadFails, ReadClosed, WriteFails, CloseDone
<1>3. CASE AcceptOk
  BY <1>3, AcceptOkWired
<1>4. CASE ReadMessage \/ ReadBad
  BY <1>4, ReadWired
<1>5. CASE PeerControl \/ PeerClose
  BY <1>5, PeerWired
<1>6. CASE WriteDone
  BY <1>6, WriteDoneWired
<1>7. CASE PingDone \/ PingFails
  BY <1>7, PingWired
<1>8. CASE TimerPings \/ TimerIgnored \/ TimerCloses \/ TimerAborted
  BY <1>8, TimerWired
<1>9. CASE TimerExpires
  <2>1. ses' = [ses EXCEPT !.timer = "expired"]
    BY <1>9 DEF TimerExpires
  <2>2. Tacit(ses, ses')
    BY <2>1, <1>0 DEF SessionState, Tacit, IsOpen, Writing
  <2> QED
    BY <2>2, <1>0, TacitWired
<1>10. CASE RunCall
  BY <1>10, RunCallWired
<1>11. CASE RunCallback
  <2> DEFINE q == Tail(ses.hq)
  <2>1. ses' = [ses EXCEPT !.hq = q]
    BY <1>11, <1>0 DEF RunCallback, Leave, SessionState
  <2> HIDE DEF q
  <2>2. Tacit(ses, ses')
    BY <2>1, <1>0 DEF SessionState, Tacit, IsOpen, Writing
  <2> QED
    BY <2>2, <1>0, TacitWired
<1>12. CASE \/ CallCheck \/ CallQueue \/ EraseSession \/ FallSilent
            \/ UNCHANGED wsVars
  <2>1. ses' = ses
    BY <1>12 DEF CallCheck, CallQueue, EraseSession, FallSilent, wsVars
  <2> QED
    BY <2>1, <1>0
<1> QED
  BY <1>1, <1>2, <1>3, <1>4, <1>5, <1>6, <1>7, <1>8, <1>9, <1>10, <1>11,
     <1>12 DEF WsNext

\* A sequence whose elements are the first ones of another is its prefix.
LEMMA FirstOnes ==
    ASSUME NEW v \in Seq(0..MaxCall), NEW a \in Seq(1..MaxCall),
           Len(v) <= Len(a), \A i \in 1..Len(v) : v[i] = a[i]
    PROVE  IsPrefix(v, a)
<1>1. Len(v) \in Nat /\ Len(a) \in Nat
  BY LenProperties
<1>2. \A i \in 1..Len(v) : v[i] \in 0..MaxCall /\ a[i] \in 0..MaxCall
  BY <1>1, ElementOfSeq
<1>3. /\ SubSeq(v, 1, Len(v)) \in Seq(0..MaxCall)
      /\ Len(SubSeq(v, 1, Len(v))) = Len(v)
      /\ \A i \in 1..Len(v) : SubSeq(v, 1, Len(v))[i] = v[i]
  BY <1>1, <1>2, SubSeqProperties
<1>4. /\ SubSeq(a, 1, Len(v)) \in Seq(0..MaxCall)
      /\ Len(SubSeq(a, 1, Len(v))) = Len(v)
      /\ \A i \in 1..Len(v) : SubSeq(a, 1, Len(v))[i] = a[i]
  BY <1>1, <1>2, SubSeqProperties
<1>5. SubSeq(v, 1, Len(v)) = SubSeq(a, 1, Len(v))
  BY <1>3, <1>4, SeqEqual
<1> QED
  BY <1>5 DEF IsPrefix

\* What Sent says: the frames before the close frame are a prefix.
LEMMA SentLemma ==
    ASSUME NEW w \in Seq(0..MaxCall), NEW a \in Seq(1..MaxCall), Sent(w, a)
    PROVE  IsPrefix(IF CloseFrame \in Range(w) THEN Front(w) ELSE w, a)
<1>1. Len(w) \in Nat /\ Len(a) \in Nat
  BY LenProperties
<1>2. CASE CloseFrame \in Range(w)
  <2> DEFINE v == Front(w)
  <2>1. PICK k \in 1..Len(w) : w[k] = CloseFrame
    BY <1>2 DEF Range
  <2>2. k = Len(w) /\ Len(w) >= 1
    BY <2>1, <1>1 DEF Sent
  <2>3. \A i \in 1..(Len(w) - 1) : w[i] \in 0..MaxCall
    <3>1. \A i \in 1..(Len(w) - 1) : i \in 1..Len(w)
      BY <1>1
    <3>2. \A i \in 1..Len(w) : w[i] \in 0..MaxCall
      BY ElementOfSeq
    <3> QED
      BY <3>1, <3>2
  <2>4. /\ v \in Seq(0..MaxCall) /\ Len(v) = Len(w) - 1
        /\ \A i \in 1..(Len(w) - 1) : v[i] = w[i]
    BY <1>1, <2>2, <2>3, SubSeqProperties DEF Front
  <2> HIDE DEF v
  <2>5. \A i \in 1..Len(v) : i <= Len(a) /\ v[i] = a[i]
    BY <1>1, <2>2, <2>4 DEF Sent
  <2>6. Len(v) <= Len(a)
    <3>1. Len(v) = 0 \/ Len(v) \in 1..Len(v)
      BY <1>1, <2>2, <2>4
    <3>2. Len(v) \in 1..Len(v) => Len(v) <= Len(a)
      BY <2>5
    <3> QED
      BY <3>1, <3>2, <1>1
  <2>7. IsPrefix(v, a)
    BY <2>4, <2>5, <2>6, FirstOnes
  <2> QED
    BY <1>2, <2>7 DEF v
<1>3. CASE CloseFrame \notin Range(w)
  <2>1. \A i \in 1..Len(w) : w[i] # CloseFrame
    BY <1>1, <1>3 DEF Range
  <2>2. \A i \in 1..Len(w) : i <= Len(a) /\ w[i] = a[i]
    BY <2>1 DEF Sent
  <2>3. Len(w) <= Len(a)
    <3>1. Len(w) = 0 \/ Len(w) \in 1..Len(w)
      BY <1>1
    <3>2. Len(w) \in 1..Len(w) => Len(w) <= Len(a)
      BY <2>2
    <3> QED
      BY <3>1, <3>2, <1>1
  <2>4. IsPrefix(w, a)
    BY <2>2, <2>3, FirstOnes
  <2> QED
    BY <1>3, <2>4
<1> QED
  BY <1>2, <1>3

\* What Rest says: the rest of the accepted messages is left to write.
LEMMA RestLemma ==
    ASSUME NEW w \in Seq(0..MaxCall), NEW a \in Seq(1..MaxCall),
           NEW l \in Seq(1..MaxCall), NEW n \in {0, 1}, n = 1 => l # <<>>,
           Sent(w, a), Rest(w, a, l, n)
    PROVE  /\ CloseFrame \notin Range(w)
           /\ a = w \o (IF n = 1 THEN Tail(l) ELSE l)
<1> DEFINE r == IF n = 1 THEN Tail(l) ELSE l
<1>1. /\ Len(w) \in Nat /\ Len(a) \in Nat /\ Len(l) \in Nat
      /\ Range(w) = {w[i] : i \in 1..Len(w)}
  BY LenProperties DEF Range
<1>2. CloseFrame \notin Range(w)
  BY <1>1 DEF Rest
<1>3. /\ r \in Seq(1..MaxCall) /\ Len(r) = Len(l) - n
      /\ \A j \in 1..Len(r) : r[j] = l[j + n]
  <2>1. CASE n = 1
    BY <2>1, HeadTailProperties
  <2>2. CASE n = 0
    BY <2>2, <1>1
  <2> QED
    BY <2>1, <2>2
<1> HIDE DEF r
<1>4. r \in Seq(0..MaxCall) /\ a \in Seq(0..MaxCall)
  <2>1. 1..MaxCall \subseteq 0..MaxCall
    BY SessionAssumption
  <2> QED
    BY <2>1, <1>3, SeqMonotonic
<1>5. /\ w \o r \in Seq(0..MaxCall) /\ Len(w \o r) = Len(w) + Len(r)
      /\ \A i \in 1..Len(w) : (w \o r)[i] = w[i]
      /\ \A i \in 1..Len(r) : (w \o r)[Len(w) + i] = r[i]
  <2>1. /\ w \o r \in Seq(0..MaxCall) /\ Len(w \o r) = Len(w) + Len(r)
        /\ \A i \in 1..(Len(w) + Len(r)) :
               (w \o r)[i] = IF i <= Len(w) THEN w[i] ELSE r[i - Len(w)]
    BY <1>4, ConcatProperties
  <2>2. Len(r) \in Nat
    BY <1>3, LenProperties
  <2> QED
    BY <2>1, <2>2, <1>1
<1>6. Len(a) = Len(w \o r)
  BY <1>1, <1>3, <1>5 DEF Rest
<1>7. ASSUME NEW i \in 1..Len(a) PROVE a[i] = (w \o r)[i]
  <2>1. CASE i \in 1..Len(w)
    BY <2>1, <1>5 DEF Sent, Rest
  <2>2. CASE i \notin 1..Len(w)
    <3> DEFINE j == i - Len(w)
    <3>1. j \in 1..Len(r) /\ i = Len(w) + j
      BY <2>2, <1>1, <1>3, <1>5, <1>6
    <3>2. j + n \in 1..Len(l) /\ (Len(w) - n) + (j + n) = i
      BY <3>1, <1>1, <1>3
    <3>3. a[i] = l[j + n]
      BY <3>2 DEF Rest
    <3> HIDE DEF j
    <3> QED
      BY <3>1, <3>3, <1>3, <1>5
  <2> QED
    BY <2>1, <2>2
<1>8. a = w \o r
  BY <1>4, <1>5, <1>6, <1>7, SeqEqual
<1> QED
  BY <1>2, <1>8 DEF r

\* The messages that send() accepted are written in their order, none twice
\* and none left out, and nothing is written after the close frame.
THEOREM WsWireInOrder == WsSpec => []WireInOrder
<1>1. WireInv => WireInOrder
  <2> SUFFICES ASSUME WireInv PROVE WireInOrder
    OBVIOUS
  <2> DEFINE w == ses.wire
             a == ses.accepted
             l == ses.writeList
  <2>1. /\ w \in Seq(0..MaxCall) /\ a \in Seq(1..MaxCall)
        /\ l \in Seq(1..MaxCall)
    BY DEF WireInv, SesInv, WsTypeOK, SessionState
  <2>2. Sent(w, a)
    BY DEF WireInv, Wired
  <2>3. Writing(ses) \in {0, 1} /\ (Writing(ses) = 1 <=> "write" \in ses.ops)
    BY DEF Writing
  <2>4. "write" \in ses.ops => l # <<>>
    BY DEF WireInv, SesInv, Good, Writes, NewSession
  <2>5. IsOpen(ses) => Rest(w, a, l, Writing(ses))
    BY DEF WireInv, Wired
  <2>6. IsPrefix(IF CloseFrame \in Range(w) THEN Front(w) ELSE w, a)
    BY <2>1, <2>2, SentLemma
  <2>7. IsOpen(ses) =>
          /\ CloseFrame \notin Range(w)
          /\ a = w \o (IF "write" \in ses.ops THEN Tail(l) ELSE l)
    BY <2>1, <2>2, <2>3, <2>4, <2>5, RestLemma
  <2>8. \A i \in DOMAIN w : w[i] = CloseFrame => i = Len(w)
    BY <2>1, <2>2 DEF Sent
  <2> QED
    BY <2>6, <2>7, <2>8 DEF WireInOrder
<1> QED
  BY <1>1, WireInvInit, WireInvStep, PTL DEF WsSpec

-----------------------------------------------------------------------------
(* The session as its service sees it *)

\* From s to t the stream goes on towards its end, if it changes at all.
Turn(s, t) ==
    \/ t.stream = s.stream /\ t.closeReason = s.closeReason
    \/ t.stream = "closed"
    \/ /\ IsOpen(s)
       /\ t.stream \in {"closing", "replying"} \/ (IsOpen(t) /\ t.closeReason)
    \/ s.stream = "closing" /\ t.stream = "replying"
    \/ s.stream = "connecting" /\ IsOpen(t) /\ ~ t.closeReason

\* close() on an open stream is noted or initiates the close frame.
LEMMA CloseOpen ==
    ASSUME NEW s \in SessionState, IsOpen(s)
    PROVE  Close(s).closeReason /\ Close(s).stream \in {"open", "closing"}
<1>1. CASE s.closeReason
  BY <1>1 DEF Close, IsOpen
<1>2. CASE ~ s.closeReason
  <2> DEFINE n == [s EXCEPT !.closeReason = TRUE]
  <2>1. n \in SessionState /\ n.closeReason /\ n.stream = "open"
    BY DEF SessionState, IsOpen
  <2>2. Close(s) = IF s.writeList = <<>> THEN DoWrite(n) ELSE n
    BY <1>2 DEF Close
  <2> HIDE DEF n
  <2> QED
    BY <2>1, <2>2, DoWriteLemma
<1> QED
  BY <1>1, <1>2

\* The handlers after which the stream is closed.
LEMMA FailsTurn ==
    ASSUME ses \in SessionState, NEW o \in ses.ops
    PROVE  /\ Failed(o).stream = "closed"
           /\ StopTimer(Failed(o)).stream = "closed"
           /\ Activity(Failed(o)).stream = "closed"
           /\ Close(Failed(o)).stream = "closed"
<1> DEFINE t == Failed(o)
<1>1. o \in Op
  BY DEF SessionState
<1>2. t \in SessionState /\ t.stream = "closed"
  BY <1>1, DoneLemma DEF Failed
<1> HIDE DEF t
<1>3. /\ StopTimer(t).stream = "closed" /\ Activity(t).stream = "closed"
      /\ Close(t).stream = "closed"
  BY <1>2, StopTimerLemma, ActivityLemma, CloseLemma
     DEF SameButTimer, IsOpen
<1> QED
  BY <1>2, <1>3 DEF t

LEMMA AcceptTurn == ASSUME SesInv, AcceptOk PROVE Turn(ses, ses')
<1> DEFINE a == Done("accept", "open")
           b == Opened(a)
<1>1. "accept" \in ses.ops /\ ses' = DoRead(b) /\ life = "running"
  BY HandlerLemma DEF AcceptOk
<1>2. ses \in SessionState /\ ses.stream = "connecting" /\ ~ ses.closeReason
  BY <1>1, Running DEF Fresh
<1>3. a \in SessionState /\ a.stream = "open" /\ ~ a.closeReason
  BY <1>2, DoneLemma DEF Op
<1> HIDE DEF a
<1>4. b \in SessionState /\ b.stream = "open" /\ ~ b.closeReason
  BY <1>3, OpenedLemma
<1> HIDE DEF b
<1>5. DoRead(b).stream = "open" /\ ~ DoRead(b).closeReason
  BY <1>4, DoReadLemma
<1> QED
  BY <1>1, <1>2, <1>5 DEF Turn, IsOpen

LEMMA ReadTurn ==
    ASSUME ses \in SessionState, ReadMessage \/ ReadBad
    PROVE  Turn(ses, ses')
<1> DEFINE a == Done("read", ses.stream)
           b == Activity(a)
<1>1. "read" \in Op /\ ses.stream \in {"connecting", "open", "closing",
                                      "replying", "closed"}
  BY DEF Op, SessionState
<1>2. /\ a \in SessionState /\ a.stream = ses.stream
      /\ a.closeReason = ses.closeReason
  BY <1>1, DoneLemma
<1>3. CASE ReadMessage
  <2> DEFINE c == OnMessage(b)
  <2>1. ses' = DoRead(c)
    BY <1>3, HandlerLemma DEF ReadMessage
  <2> HIDE DEF a
  <2>2. /\ b \in SessionState /\ b.stream = ses.stream
        /\ b.closeReason = ses.closeReason
    BY <1>2, ActivityLemma
  <2> HIDE DEF b
  <2>3. /\ c \in SessionState /\ c.stream = ses.stream
        /\ c.closeReason = ses.closeReason
    BY <2>2, OnMessageLemma
  <2> HIDE DEF c
  <2> QED
    BY <2>1, <2>3, DoReadLemma DEF Turn
<1>4. CASE ReadBad
  <2> DEFINE c == Close(b)
  <2>1. ses' = DoRead(c) /\ IsOpen(ses)
    BY <1>4, HandlerLemma DEF ReadBad, IsOpen
  <2> HIDE DEF a
  <2>2. b \in SessionState /\ IsOpen(b)
    BY <1>2, <2>1, ActivityLemma DEF IsOpen
  <2> HIDE DEF b
  <2>3. c \in SessionState /\ c.stream \in {"open", "closing"}
        /\ c.closeReason
    BY <2>2, CloseLemma, CloseOpen
  <2> HIDE DEF c
  <2> QED
    BY <2>1, <2>3, DoReadLemma DEF Turn, IsOpen
<1> QED
  BY <1>3, <1>4

LEMMA PeerTurn ==
    ASSUME ses \in SessionState, PeerControl \/ PeerClose
    PROVE  Turn(ses, ses')
<1>1. CASE PeerControl
  <2>1. ses' = Activity(ses)
    BY <1>1, HandlerLemma DEF PeerControl
  <2> QED
    BY <2>1, ActivityLemma DEF Turn
<1>2. CASE PeerClose
  <2> DEFINE a == Activity(ses)
  <2>1. /\ ses' = [a EXCEPT !.stream = "replying"]
        /\ ses.stream \in {"open", "closing"}
    BY <1>2, HandlerLemma DEF PeerClose
  <2>2. a \in SessionState
    BY ActivityLemma
  <2> HIDE DEF a
  <2>3. ses'.stream = "replying"
    BY <2>1, <2>2 DEF SessionState
  <2> QED
    BY <2>1, <2>3 DEF Turn, IsOpen
<1> QED
  BY <1>1, <1>2

LEMMA WriteDoneTurn == ASSUME SesInv, WriteDone PROVE Turn(ses, ses')
<1> DEFINE a == Done("write", ses.stream)
           l == Tail(a.writeList)
           b == [a EXCEPT !.writeList = l]
<1>1. "write" \in ses.ops /\ ses \in SessionState /\ ses.writeList # <<>>
      /\ ses' = IF IsOpen(b) /\ (b.writeList # <<>> \/ b.closeReason)
                THEN DoWrite(b) ELSE b
  <2>1. "write" \in ses.ops /\ life = "running"
    BY DEF WriteDone, Handler, Leave, OtherStrand
  <2>2. ses \in SessionState /\ ses.writeList # <<>>
    BY <2>1, Running DEF Writes
  <2>3. [a EXCEPT !.writeList = Tail(@)] = b
    BY <2>2, DoneLemma DEF SessionState, Op
  <2> QED
    BY <2>1, <2>2, <2>3, HandlerLemma DEF WriteDone
<1>2. /\ a \in SessionState /\ a.stream = ses.stream
      /\ a.closeReason = ses.closeReason /\ a.writeList = ses.writeList
  <2>1. "write" \in Op /\ ses.stream \in {"connecting", "open", "closing",
                                         "replying", "closed"}
    BY <1>1 DEF Op, SessionState
  <2> QED
    BY <2>1, <1>1, DoneLemma
<1>3. l \in Seq(1..MaxCall)
  <2>1. a.writeList \in Seq(1..MaxCall) /\ a.writeList # <<>>
    BY <1>1, <1>2 DEF SessionState
  <2> QED
    BY <2>1, HeadTailProperties
<1> HIDE DEF a, l
<1>4. /\ b \in SessionState /\ b.stream = ses.stream
      /\ b.closeReason = ses.closeReason
  BY <1>2, <1>3 DEF SessionState
<1> HIDE DEF b
<1>5. CASE IsOpen(b) /\ (b.writeList # <<>> \/ b.closeReason)
  <2>1. /\ ses'.stream = IF b.closeReason THEN "closing" ELSE b.stream
        /\ ses'.closeReason = b.closeReason
    BY <1>1, <1>4, <1>5, DoWriteLemma
  <2> QED
    BY <2>1, <1>4, <1>5 DEF Turn, IsOpen
<1>6. CASE ~ (IsOpen(b) /\ (b.writeList # <<>> \/ b.closeReason))
  BY <1>1, <1>4, <1>6 DEF Turn
<1> QED
  BY <1>5, <1>6

LEMMA PingTurn ==
    ASSUME ses \in SessionState, PingDone \/ PingFails
    PROVE  Turn(ses, ses')
<1>1. CASE PingDone
  <2>1. ses' = [ses EXCEPT !.pings = @ - 1]
    BY <1>1, HandlerLemma DEF PingDone
  <2> QED
    BY <2>1 DEF SessionState, Turn
<1>2. CASE PingFails
  <2> DEFINE a == [ses EXCEPT !.pings = @ - 1, !.stream = "closed"]
  <2>1. ses' = Close(a) /\ ses.pings > 0
    BY <1>2, HandlerLemma DEF PingFails
  <2>2. ses.pings - 1 \in Nat
    BY <2>1 DEF SessionState
  <2>3. a \in SessionState /\ a.stream = "closed"
    BY <2>2 DEF SessionState
  <2> HIDE DEF a
  <2> QED
    BY <2>1, <2>3, CloseLemma DEF Turn, IsOpen
<1> QED
  BY <1>1, <1>2

LEMMA TimerTurn ==
    ASSUME ses \in SessionState,
           TimerPings \/ TimerIgnored \/ TimerCloses \/ TimerAborted
    PROVE  Turn(ses, ses')
<1>1. CASE TimerPings
  <2> DEFINE a == [ses EXCEPT !.timer = "idle", !.waitOnPong = TRUE,
                              !.pings = @ + 1]
             b == RestartTimer(a)
  <2>1. ses' = DoTimer(b)
    BY <1>1, HandlerLemma DEF TimerPings
  <2>2. ses.pings + 1 \in Nat
    BY DEF SessionState
  <2>3. /\ a \in SessionState /\ a.stream = ses.stream
        /\ a.closeReason = ses.closeReason
    BY <2>2 DEF SessionState
  <2> HIDE DEF a
  <2>4. b \in SessionState /\ SameButTimer(a, b)
    BY <2>3, RestartTimerLemma
  <2> HIDE DEF b
  <2>5. SameButTimer(b, ses')
    BY <2>1, <2>4, DoTimerLemma
  <2> QED
    BY <2>3, <2>4, <2>5 DEF SameButTimer, Turn
<1>2. CASE TimerIgnored
  <2>1. ses' = [ses EXCEPT !.timer = "idle"]
    BY <1>2, HandlerLemma DEF TimerIgnored
  <2> QED
    BY <2>1 DEF SessionState, Turn
<1>3. CASE TimerCloses
  <2> DEFINE a == [ses EXCEPT !.timer = "idle"]
             b == [a EXCEPT !.socket = FALSE]
  <2>1. ses' = StopTimer(b)
    BY <1>3, HandlerLemma DEF TimerCloses, CloseSocket
  <2>2. /\ b \in SessionState /\ b.stream = ses.stream
        /\ b.closeReason = ses.closeReason
    BY DEF SessionState
  <2> HIDE DEF b
  <2>3. SameButTimer(b, ses')
    BY <2>1, <2>2, StopTimerLemma
  <2> QED
    BY <2>2, <2>3 DEF SameButTimer, Turn
<1>4. CASE TimerAborted
  <2>1. ses' = [ses EXCEPT !.aborted = @ - 1]
    BY <1>4, HandlerLemma DEF TimerAborted
  <2> QED
    BY <2>1 DEF SessionState, Turn
<1> QED
  BY <1>1, <1>2, <1>3, <1>4

LEMMA StrandTurn == ASSUME SesInv, Strand PROVE Turn(ses, ses')
<1>1. ses \in SessionState
  BY DEF SesInv, WsTypeOK
<1>2. CASE AcceptFails \/ ReadFails \/ ReadClosed \/ WriteFails \/ CloseDone
  BY <1>1, <1>2, HandlerLemma, FailsTurn
     DEF AcceptFails, ReadFails, ReadClosed, WriteFails, CloseDone, Turn
<1> QED
  BY <1>1, <1>2, AcceptTurn, ReadTurn, PeerTurn, WriteDoneTurn, PingTurn,
     TimerTurn DEF Strand

\* The stage depends on what the session still has to do, its stream and
\* its close_reason_.
LEMMA PendingStill == ASSUME ses \in SessionState PROVE Pending <=> ~ Still(ses)
  BY DEF SessionState, Pending, Still

LEMMA StageCases ==
    ASSUME life = "running", ses \in SessionState
    PROVE  StageOf = IF Still(ses) THEN "done"
                     ELSE IF ses.stream = "connecting" THEN "handshake"
                     ELSE IF IsOpen(ses) /\ ~ ses.closeReason THEN "open"
                     ELSE IF ses.stream = "closed" THEN "draining"
                     ELSE "closing"
  BY PendingStill DEF StageOf, IsOpen

LEMMA SameStage ==
    ASSUME UNCHANGED <<ses, life>> PROVE StageOf' = StageOf
  BY DEF StageOf, Pending, IsOpen

\* A call is queued for the service when it is queued on strand_.
LEMMA CallsOfLemma ==
    ASSUME calls \in Seq(0..MaxCall)
    PROVE  /\ CallsOf \in Seq({"send", "close"})
           /\ Len(CallsOf) = Len(calls)
           /\ \A i \in 1..Len(calls) :
                  CallsOf[i] = IF calls[i] = CloseFrame THEN "close" ELSE "send"
           /\ CallsOf = <<>> <=> calls = <<>>
<1>1. Len(calls) \in Nat /\ DOMAIN calls = 1..Len(calls)
  BY LenProperties
<1>2. CallsOf \in [1..Len(calls) -> {"send", "close"}]
  BY <1>1 DEF CallsOf
<1>3. ASSUME NEW n \in Nat, NEW f \in [1..n -> {"send", "close"}]
      PROVE  f \in Seq({"send", "close"}) /\ Len(f) = n
  BY <1>3
<1>4. CallsOf \in Seq({"send", "close"}) /\ Len(CallsOf) = Len(calls)
  BY <1>1, <1>2, <1>3
<1>5. CallsOf = <<>> <=> calls = <<>>
  BY <1>4, EmptySeq
<1> QED
  BY <1>1, <1>4, <1>5 DEF CallsOf

LEMMA CallsOfNext ==
    (calls \in Seq(0..MaxCall) =>
        /\ CallsOf \in Seq({"send", "close"})
        /\ Len(CallsOf) = Len(calls)
        /\ \A i \in 1..Len(calls) :
               CallsOf[i] = IF calls[i] = CloseFrame THEN "close" ELSE "send"
        /\ CallsOf = <<>> <=> calls = <<>>)'
<1>1. calls \in Seq(0..MaxCall) =>
        /\ CallsOf \in Seq({"send", "close"})
        /\ Len(CallsOf) = Len(calls)
        /\ \A i \in 1..Len(calls) :
               CallsOf[i] = IF calls[i] = CloseFrame THEN "close" ELSE "send"
        /\ CallsOf = <<>> <=> calls = <<>>
  BY CallsOfLemma
<1> QED
  BY <1>1, PTL

LEMMA CallAppended ==
    ASSUME WsTypeOK, WsTypeOK', NEW c, calls' = Append(calls, c)
    PROVE  CallsOf' = Append(CallsOf,
                             IF c = CloseFrame THEN "close" ELSE "send")
<1> DEFINE n == Len(calls)
           d == calls'
           a == CallsOf'
           x == IF c = CloseFrame THEN "close" ELSE "send"
           b == Append(CallsOf, x)
<1>t. calls \in Seq(0..MaxCall) /\ calls' \in Seq(0..MaxCall) /\ n \in Nat
  BY LenProperties DEF WsTypeOK
<1>1. /\ a \in Seq({"send", "close"}) /\ Len(a) = Len(d)
      /\ \A i \in 1..Len(d) :
             a[i] = IF d[i] = CloseFrame THEN "close" ELSE "send"
  BY <1>t, CallsOfNext
<1>2. /\ Len(d) = n + 1 /\ d[n + 1] = c
      /\ \A i \in 1..n : d[i] = calls[i]
  BY <1>t
<1>3. /\ CallsOf \in Seq({"send", "close"}) /\ Len(CallsOf) = n
      /\ \A i \in 1..n :
             CallsOf[i] = IF calls[i] = CloseFrame THEN "close" ELSE "send"
  BY <1>t, CallsOfLemma
<1>4. x \in {"send", "close"}
  OBVIOUS
<1> HIDE DEF x
<1>5. /\ b \in Seq({"send", "close"}) /\ Len(b) = n + 1 /\ b[n + 1] = x
      /\ \A i \in 1..n : b[i] = CallsOf[i]
  BY <1>3, <1>4, AppendProperties
<1> HIDE DEF a, b, d, n
<1>6. \A i \in 1..Len(a) : a[i] = b[i]
  BY <1>t, <1>1, <1>2, <1>3, <1>5 DEF x
<1>7. a = b
  BY <1>t, <1>1, <1>2, <1>5, <1>6, SeqEqual
<1> QED
  BY <1>7 DEF a, b, x

LEMMA SameCalls ==
    ASSUME UNCHANGED calls PROVE CallsOf' = CallsOf
  BY DEF CallsOf

\* The queue of the strand of the service grows by one lambda of on_erase().
LEMMA ErasesQueued ==
    ASSUME NEW n \in Nat, NEW c
    PROVE  [i \in 1..(n + 1) |-> c] = Append([i \in 1..n |-> c], c)
<1> DEFINE f == [i \in 1..(n + 1) |-> c]
           g == [i \in 1..n |-> c]
<1>1. ASSUME NEW m \in Nat, NEW h \in [1..m -> {c}]
      PROVE  h \in Seq({c}) /\ Len(h) = m
  BY <1>1
<1>2. /\ f \in Seq({c}) /\ Len(f) = n + 1
      /\ g \in Seq({c}) /\ Len(g) = n
  <2>1. f \in [1..(n + 1) -> {c}] /\ g \in [1..n -> {c}]
    OBVIOUS
  <2>2. n + 1 \in Nat
    OBVIOUS
  <2> QED
    BY <2>1, <2>2, <1>1
<1>3. /\ \A i \in 1..(n + 1) : f[i] = c
      /\ \A i \in 1..n : g[i] = c
  OBVIOUS
<1> HIDE DEF f, g
<1> DEFINE a == Append(g, c)
<1>4. /\ a \in Seq({c}) /\ Len(a) = n + 1
      /\ \A i \in 1..(n + 1) : a[i] = c
  BY <1>2, <1>3, AppendProperties
<1> HIDE DEF a
<1>5. f = a
  BY <1>2, <1>3, <1>4, SeqEqual
<1> QED
  BY <1>5 DEF f, g, a

\* A lock of the session is destroyed, for the service.
LEMMA LeaveStep ==
    ASSUME WsTypeOK, WsTypeOK', NEW s, Leave(s)
    PROVE  Service!SessionStep("session")
<1>1. /\ life' = "running" /\ pc' = pc /\ made' = made
      /\ manyThreads' = manyThreads /\ (pc = "idle" \/ manyThreads)
      /\ erases' = IF Busy' THEN erases ELSE erases + 1
      /\ erases \in Nat
  BY DEF Leave, OtherStrand, WsTypeOK
<1>2. ses' \in SessionState /\ calls' \in Seq(0..MaxCall)
  BY DEF WsTypeOK
<1>3. Service!SessionBusy("session")' <=> Busy'
  <2>1. (CallsOf = <<>>)' <=> (calls = <<>>)'
    BY <1>2, CallsOfNext
  <2>2. (StageOf \in {"none", "done"})' <=> Still(ses')
    <3> USE DEF Still
    <3> QED
      BY <1>1, <1>2 DEF StageOf, Pending, SessionState, IsOpen
  <2>3. Still(ses') <=>
            ~ (\/ ses'.ops # {} \/ ses'.pings > 0
               \/ ses'.timer # "idle" \/ ses'.aborted > 0 \/ ses'.hq # <<>>)
    BY <1>2 DEF Still, SessionState
  <2> QED
    BY <2>1, <2>2, <2>3 DEF Service!SessionBusy, Busy
<1> DEFINE c == [kind |-> "erase", to |-> "session"]
<1>4. ~ Busy' => [i \in 1..erases' |-> c] = Append([i \in 1..erases |-> c], c)
  BY <1>1, ErasesQueued
<1>5. Busy' => [i \in 1..erases' |-> c] = [i \in 1..erases |-> c]
  BY <1>1
<1> QED
  BY <1>1, <1>3, <1>4, <1>5
     DEF Service!SessionStep, Service!Beside, Service!Busy, Service!locks,
         Service!outer


\* The same of the stage after a step.
LEMMA StageNext ==
    (life = "running" /\ ses \in SessionState =>
        StageOf = IF Still(ses) THEN "done"
                  ELSE IF ses.stream = "connecting" THEN "handshake"
                  ELSE IF IsOpen(ses) /\ ~ ses.closeReason THEN "open"
                  ELSE IF ses.stream = "closed" THEN "draining"
                  ELSE "closing")'
<1>1. life = "running" /\ ses \in SessionState =>
        StageOf = IF Still(ses) THEN "done"
                  ELSE IF ses.stream = "connecting" THEN "handshake"
                  ELSE IF IsOpen(ses) /\ ~ ses.closeReason THEN "open"
                  ELSE IF ses.stream = "closed" THEN "draining"
                  ELSE "closing"
  BY StageCases
<1> QED
  BY <1>1, PTL

\* A handler that turns the stream, and had something to do.
LEMMA TurnStep ==
    ASSUME WsTypeOK, WsTypeOK', NEW s, Leave(s), UNCHANGED calls,
           ~ Still(ses), Turn(ses, ses')
    PROVE  Unseen \/ Service!SessionNext("session")
<1>1. /\ life = "running" /\ life' = "running" /\ ses \in SessionState
      /\ ses' \in SessionState /\ CallsOf' = CallsOf
      /\ Service!SessionStep("session")
      /\ erases' = IF Busy' THEN erases ELSE erases + 1
  BY LeaveStep, SameCalls DEF Leave, OtherStrand, WsTypeOK
<1>2. CASE Still(ses')
  <2>1. StageOf' = "done"
    BY <1>1, <1>2, StageNext
  <2>2. StageOf \in {"handshake", "open", "closing", "draining"}
    BY <1>1, StageCases
  <2>3. StageOf = "draining" => Service!Drained("session")
    BY <1>1, <2>1 DEF Service!Drained, Service!Become
  <2>4. StageOf # "draining" => Service!SessionEnds("session")
    BY <1>1, <2>1, <2>2 DEF Service!SessionEnds,
       Service!InLoop, Service!Become
  <2> QED
    BY <2>3, <2>4 DEF Service!SessionNext
<1>3. CASE ~ Still(ses')
  <2>1. Busy'
    BY <1>1, <1>3 DEF Busy, Still, SessionState
  <2>2. StageOf' = StageOf => Unseen
    BY <1>1, <2>1 DEF Unseen
  <2>3. /\ StageOf = IF ses.stream = "connecting" THEN "handshake"
                     ELSE IF IsOpen(ses) /\ ~ ses.closeReason THEN "open"
                     ELSE IF ses.stream = "closed" THEN "draining"
                     ELSE "closing"
        /\ StageOf' = IF ses'.stream = "connecting" THEN "handshake"
                      ELSE IF IsOpen(ses') /\ ~ ses'.closeReason THEN "open"
                      ELSE IF ses'.stream = "closed" THEN "draining"
                      ELSE "closing"
    BY <1>1, <1>3, StageCases, StageNext
  <2>4. \/ StageOf' = StageOf
        \/ /\ StageOf \in {"handshake", "open", "closing"}
           /\ StageOf' = "draining"
        \/ StageOf = "open" /\ StageOf' = "closing"
        \/ StageOf = "handshake" /\ StageOf' = "open"
    BY <2>3 DEF Turn, IsOpen
  <2>5. CASE StageOf \in {"handshake", "open", "closing"}
             /\ StageOf' = "draining"
    BY <2>5, <1>1 DEF Service!SessionNext, Service!SessionEnds, Service!InLoop,
       Service!Become
  <2>6. CASE StageOf = "open" /\ StageOf' = "closing"
    BY <2>6, <1>1 DEF Service!SessionNext, Service!Closes,
       Service!InLoop, Service!Become
  <2>7. CASE StageOf = "handshake" /\ StageOf' = "open"
    BY <2>7, <1>1 DEF Service!SessionNext, Service!Accepted,
       Service!InLoop, Service!Become
  <2> QED
    BY <2>2, <2>4, <2>5, <2>6, <2>7
<1> QED
  BY <1>2, <1>3

\* A lambda of send() or close() runs: a send() changes no stage, a close()
\* ends the stage "open", and neither of them the whole session.
LEMMA CallStage ==
    ASSUME SesInv, SesInv', RunCall
    PROVE  StageOf' = Service!After(IF Head(calls) = CloseFrame
                                    THEN "close" ELSE "send", StageOf)
<1>1. /\ life = "running" /\ life' = "running" /\ ses \in SessionState
      /\ ses' \in SessionState /\ Writes(ses) /\ Reads(ses)
      /\ calls # <<>> /\ calls \in Seq(0..MaxCall)
      /\ ses' = IF Head(calls) = CloseFrame THEN Close(ses)
                                           ELSE Send(ses, Head(calls))
  BY Running, LeaveLemma DEF RunCall, SesInv, WsTypeOK
<1>2. CASE Still(ses)
  <2>1. ses' = ses
    BY <1>2, StillCall
  <2>2. StageOf = "done" /\ StageOf' = "done"
    BY <1>1, <1>2, <2>1, StageCases, SameStage
  <2> QED
    BY <2>2 DEF Service!After
<1>3. CASE ~ Still(ses) /\ ~ IsOpen(ses)
  <2>1. ses' = StopTimer(ses)
    BY <1>1, <1>3 DEF Close, Send
  <2>2. SameButTimer(ses, ses')
    BY <2>1, <1>1, StopTimerLemma
  <2>3. ~ Still(ses')
    <3>1. CASE ses.timer = "armed"
      <4>1. ses' = [ses EXCEPT !.timer = "idle", !.aborted = @ + 1]
        BY <2>1, <3>1 DEF StopTimer
      <4>2. ses'.aborted = ses.aborted + 1 /\ ses.aborted \in Nat
        BY <4>1, <1>1 DEF SessionState
      <4> QED
        BY <4>2 DEF Still
    <3>2. CASE ses.timer # "armed"
      BY <2>1, <3>2, <1>3 DEF StopTimer
    <3> QED
      BY <3>1, <3>2
  <2>4. StageOf' = StageOf /\ StageOf # "open"
    BY <1>1, <1>3, <2>2, <2>3, StageCases, StageNext
       DEF SameButTimer, IsOpen
  <2> QED
    BY <2>4 DEF Service!After
<1>4. CASE IsOpen(ses)
  <2>1. "read" \in ses.ops /\ ~ Still(ses)
    BY <1>1, <1>4 DEF Reads, Still
  <2>2. CASE Head(calls) = CloseFrame
    <3>1. ses' = Close(ses)
      BY <1>1, <2>2
    <3>2. /\ "read" \in ses'.ops /\ ses'.closeReason
          /\ ses'.stream \in {"open", "closing"}
      BY <3>1, <1>1, <1>4, <2>1, CloseLemma, CloseOpen
    <3>3. StageOf' = "closing" /\ StageOf \in {"open", "closing"}
      BY <3>2, <1>1, <1>4, <2>1, StageCases, StageNext DEF Still, IsOpen
    <3> QED
      BY <2>2, <3>3 DEF Service!After
  <2>3. CASE Head(calls) # CloseFrame
    <3>1. Head(calls) \in 1..MaxCall
      <4>1. Head(calls) \in 0..MaxCall
        BY <1>1, HeadTailProperties
      <4> QED
        BY <4>1, <2>3, SessionAssumption DEF CloseFrame
    <3>2. ses' = Send(ses, Head(calls))
      BY <1>1, <2>3
    <3>3. /\ "read" \in ses'.ops /\ ses'.closeReason = ses.closeReason
          /\ ses'.stream = ses.stream
      BY <3>1, <3>2, <1>1, <2>1, SendLemma
    <3>4. StageOf' = StageOf
      BY <3>3, <1>1, <2>1, StageCases, StageNext DEF Still, IsOpen
    <3> QED
      BY <2>3, <3>4 DEF Service!After
  <2> QED
    BY <2>2, <2>3
<1> QED
  BY <1>2, <1>3, <1>4

LEMMA CallStep ==
    ASSUME SesInv, SesInv', RunCall
    PROVE  Service!RunCall("session")
<1>1. /\ calls # <<>> /\ calls' = Tail(calls) /\ calls \in Seq(0..MaxCall)
      /\ calls' \in Seq(0..MaxCall)
  BY DEF RunCall, SesInv, WsTypeOK
<1>2. Service!SessionStep("session")
  BY LeaveStep DEF RunCall, SesInv
<1>3. /\ CallsOf \in Seq({"send", "close"}) /\ CallsOf # <<>>
      /\ Len(CallsOf) = Len(calls) /\ Len(calls) \in 1..Len(calls)
  <2>1. Len(calls) \in Nat /\ Len(calls) # 0
    BY <1>1, LenProperties, EmptySeq
  <2> QED
    BY <2>1, <1>1, CallsOfLemma
<1>4. Head(CallsOf) = IF Head(calls) = CloseFrame THEN "close" ELSE "send"
  <2>1. Head(CallsOf) = CallsOf[1] /\ Head(calls) = calls[1]
    BY <1>1, <1>3, HeadTailProperties
  <2>2. 1 \in 1..Len(calls)
    BY <1>3
  <2> QED
    BY <2>1, <2>2, <1>1, CallsOfLemma
<1>5. CallsOf' = Tail(CallsOf)
  <2> DEFINE n == Len(calls)
             d == calls'
             a == CallsOf'
             b == Tail(CallsOf)
  <2>1. /\ a \in Seq({"send", "close"}) /\ Len(a) = Len(d)
        /\ \A i \in 1..Len(d) :
               a[i] = IF d[i] = CloseFrame THEN "close" ELSE "send"
    BY <1>1, CallsOfNext
  <2>2. /\ Len(d) = n - 1 /\ \A i \in 1..(n - 1) : d[i] = calls[i + 1]
    BY <1>1, HeadTailProperties
  <2>3. /\ b \in Seq({"send", "close"}) /\ Len(b) = n - 1
        /\ \A i \in 1..(n - 1) : b[i] = CallsOf[i + 1]
    BY <1>3, HeadTailProperties
  <2>4. /\ n \in Nat
        /\ \A i \in 1..n :
               CallsOf[i] = IF calls[i] = CloseFrame THEN "close" ELSE "send"
    BY <1>1, LenProperties, CallsOfLemma
  <2> HIDE DEF a, b, d, n
  <2>5. \A i \in 1..Len(a) : a[i] = b[i]
    BY <2>1, <2>2, <2>3, <2>4
  <2>6. a = b
    BY <2>1, <2>2, <2>3, <2>5, SeqEqual
  <2> QED
    BY <2>6 DEF a, b
<1>6. StageOf' = Service!After(Head(CallsOf), StageOf)
  BY <1>4, CallStage
<1> QED
  BY <1>2, <1>3, <1>5, <1>6 DEF Service!RunCall,
       Service!InLoop, Service!Become

\* Every step of the session, as the service sees it.
LEMMA ServiceStep ==
    OrderInv /\ OrderInv' /\ [WsNext]_wsVars =>
        [Unseen \/ Emplaced \/ Called \/ Erased
             \/ Service!SessionNext("session")]_wsVars
<1> SUFFICES ASSUME OrderInv, OrderInv', WsNext
             PROVE  Unseen \/ Emplaced \/ Called \/ Erased
                        \/ Service!SessionNext("session")
  OBVIOUS
<1>i. SesInv /\ SesInv' /\ WsTypeOK /\ WsTypeOK'
  BY DEF OrderInv, SesInv
<1>t. /\ ses \in SessionState /\ ses' \in SessionState
      /\ calls \in Seq(0..MaxCall)
  BY <1>i DEF WsTypeOK
<1>1. CASE Start
  <2>1. /\ life = "new" /\ life' = "running" /\ UNCHANGED <<calls, erases>>
        /\ ses'.ops # {} /\ ~ ses'.closeReason
        /\ ses'.stream \in {"connecting", "open"}
    BY <1>1, <1>i, StartGood DEF Start
  <2>2. StageOf = "none" /\ StageOf' \in {"handshake", "open"}
    BY <2>1, <1>t, StageNext DEF StageOf, Still, IsOpen
  <2> QED
    BY <2>1, <2>2, SameCalls DEF Emplaced
<1>2. CASE Strand
  <2>1. PICK s : Leave(s) /\ UNCHANGED calls
    BY <1>2, StrandIsHandler DEF Handler
  <2> QED
    BY <1>2, <2>1, <1>i, StillStops, StrandTurn, TurnStep
<1>3. CASE RunCallback
  <2>1. Leave([ses EXCEPT !.hq = Tail(@)]) /\ UNCHANGED calls
    BY <1>3 DEF RunCallback
  <2>2. ses' = [ses EXCEPT !.hq = Tail(@)]
    BY <2>1 DEF Leave
  <2>3. Turn(ses, ses')
    BY <2>2, <1>t DEF SessionState, Turn
  <2> QED
    BY <1>3, <2>1, <2>3, <1>i, StillStops, TurnStep
<1>4. CASE RunCall
  BY <1>4, <1>i, CallStep DEF Service!SessionNext
<1>5. CASE TimerExpires
  <2>1. /\ life = "running" /\ life' = "running"
        /\ ses.timer = "armed" /\ ses' = [ses EXCEPT !.timer = "expired"]
        /\ UNCHANGED <<calls, erases>>
    BY <1>5 DEF TimerExpires, outer
  <2>2. ~ Still(ses) /\ ~ Still(ses') /\ ses'.stream = ses.stream
        /\ ses'.closeReason = ses.closeReason
    BY <2>1, <1>t DEF Still, SessionState
  <2>3. StageOf' = StageOf
    BY <2>1, <2>2, <1>t, StageCases, StageNext DEF IsOpen
  <2> QED
    BY <2>1, <2>3, SameCalls DEF Unseen
<1>6. CASE CallQueue
  <2>1. /\ pc = "checked" /\ UNCHANGED <<ses, life, erases>>
        /\ \E c \in {CloseFrame, made + 1} : calls' = Append(calls, c)
    BY <1>6 DEF CallQueue
  <2>2. PICK c : calls' = Append(calls, c)
    BY <2>1
  <2>3. CallsOf' = Append(CallsOf, IF c = CloseFrame THEN "close" ELSE "send")
    BY <2>2, <1>i, CallAppended
  <2> QED
    BY <2>1, <2>3, SameStage DEF Called
<1>7. CASE EraseSession
  <2>1. /\ life = "running" /\ life' = "gone" /\ erases > 0
        /\ erases' = erases - 1 /\ UNCHANGED <<ses, calls>>
    BY <1>7 DEF EraseSession
  <2>2. StageOf = "done" /\ StageOf' = "none"
    <3>1. Still(ses)
      BY <2>1 DEF OrderInv
    <3> QED
      BY <3>1, <2>1, <1>t, StageCases DEF StageOf
  <2> QED
    BY <2>1, <2>2, SameCalls DEF Erased
<1>8. CASE CallCheck \/ FallSilent
  <2>1. UNCHANGED <<ses, life, calls, erases>>
    BY <1>8 DEF CallCheck, FallSilent
  <2> QED
    BY <2>1, SameStage, SameCalls DEF Unseen
<1> QED
  BY <1>1, <1>2, <1>3, <1>4, <1>5, <1>6, <1>7, <1>8 DEF WsNext, Strand

\* Whatever a handler of ws_session does, to its service it is the next
\* stage of a session's life, a call that runs, on_erase() or nothing: the
\* session of the module WsService stands for every session, also where late
\* calls follow the last lock.
THEOREM WsStepsAsInService == WsSpec => StepsAsInService
  BY OrderInvInit, OrderInvStep, ServiceStep, PTL DEF WsSpec, StepsAsInService
=============================================================================
