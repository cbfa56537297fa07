------------------------- MODULE HttpSessionProofs --------------------------
(***************************************************************************)
(* Proofs about http_session, for every limit of its queue and any number  *)
(* of requests.  The inductive invariant HInv says how the queue, the      *)
(* responses that were answered and the writes that were initiated belong  *)
(* together, that a request is only read while the queue has room, that an *)
(* open socket is timed, and that async_erase() is called by the last      *)
(* handler.  The methods are functions of the session state; a handler is  *)
(* proved from the lemmas of the methods it calls and of the way it ends,  *)
(* Leave or ThenRead.                                                      *)
(*                                                                         *)
(* The second part shows that the set may take a session for what          *)
(* HttpSessions makes of it: HandlerStep says what a handler is to the set *)
(* by the way it ends.  The third part is the safety half of "the session  *)
(* ends": there is always something that goes on without the peer.         *)
(***************************************************************************)
EXTENDS HttpSessionStages, SequenceTheorems, TLAPS

Write == {"write", "badWrite"}

Typed(s) == s \in HttpState /\ Len(s.items) \in 0..Limit

\* A write is outstanding for the front of the queue, and only one.
Writes(s) ==
    /\ s.ops \cap Write # {} => s.items # <<>>
    /\ ~ Write \subseteq s.ops

\* Without an error there is a write as long as there is a response.
Flows(s) == s.sock = "open" /\ s.items # <<>> => "write" \in s.ops

\* The responses that have left the queue q, of the answered ones a.
Gone(q, a) == Len(a) - Len(q)

\* The queue q is the end of what was answered, a, and what was written, w,
\* its beginning: what has left the queue and the front.
Ordered(q, a, w) ==
    /\ Len(q) <= Len(a)
    /\ \A i \in 1..Len(q) : q[i] = a[Gone(q, a) + i]
    /\ Len(w) = Gone(q, a) + IF q = <<>> THEN 0 ELSE 1
    /\ \A i \in 1..Len(w) : w[i] = a[i]
    /\ \A i \in 1..Gone(q, a) : ~ a[i].last

InOrder(s) == Ordered(s.items, s.answered, s.wire)

Base(s) == Typed(s) /\ Writes(s) /\ InOrder(s)

\* A request is read only while there is room for its response.
Room(s) == Len(s.items) < Limit

Timed(s) == s.sock = "open" => s.timer # "idle"

HInv ==
    /\ Base(http) /\ Flows(http)
    /\ HttpTypeOK
    /\ HttpErasedAfterLast
    /\ life = "new" => /\ ~ Busy /\ erases = 0 /\ closer = "none"
                       /\ http.items = <<>> /\ http.sock = "open"
    /\ closer = "shut" => life = "running"
    /\ closer # "none" => http.sock # "open"
    /\ "read" \in http.ops \/ pc # "idle" => Room(http)
    /\ life = "running" /\ pc # "wait" => Timed(http)

-----------------------------------------------------------------------------
(* The order of the responses *)

\* A response that is answered goes to the end of the queue, and is written
\* if it is the only one there.
LEMMA OrderedAppend ==
    ASSUME NEW q \in Seq(Response), NEW a \in Seq(Response),
           NEW w \in Seq(Response), NEW r \in Response, Ordered(q, a, w)
    PROVE  Ordered(Append(q, r), Append(a, r),
                   IF q = <<>> THEN Append(w, r) ELSE w)
<1> DEFINE p == Append(q, r)
           b == Append(a, r)
           v == IF q = <<>> THEN Append(w, r) ELSE w
<1>1. Len(q) \in Nat /\ Len(a) \in Nat /\ Len(w) \in Nat /\ Len(q) <= Len(a)
      /\ (q = <<>> <=> Len(q) = 0)
  BY EmptySeq DEF Ordered
<1>2. /\ Len(p) = Len(q) + 1 /\ p # <<>>
      /\ \A i \in 1..Len(q) : p[i] = q[i]
      /\ p[Len(q) + 1] = r
  BY AppendProperties
<1>3. /\ Len(b) = Len(a) + 1
      /\ \A i \in 1..Len(a) : b[i] = a[i]
      /\ b[Len(a) + 1] = r
  BY AppendProperties
<1>4. /\ Len(v) = Gone(q, a) + 1
      /\ \A i \in 1..Len(v) : v[i] = b[i]
  <2>1. CASE q = <<>>
    BY <2>1, <1>1, <1>3, AppendProperties DEF Ordered, Gone
  <2>2. CASE q # <<>>
    BY <2>2, <1>1, <1>3 DEF Ordered, Gone
  <2> QED
    BY <2>1, <2>2
<1> HIDE DEF p, b, v
<1>5. Gone(p, b) = Gone(q, a)
  BY <1>1, <1>2, <1>3 DEF Gone
<1>6. ASSUME NEW i \in 1..Len(p)
      PROVE  p[i] = b[Gone(p, b) + i]
  <2>1. CASE i = Len(q) + 1
    BY <2>1, <1>1, <1>2, <1>3, <1>5 DEF Gone
  <2>2. CASE i \in 1..Len(q)
    <3>1. Gone(q, a) + i \in 1..Len(a)
      BY <2>2, <1>1 DEF Gone
    <3> QED
      BY <3>1, <2>2, <1>2, <1>3, <1>5 DEF Ordered
  <2> QED
    BY <2>1, <2>2, <1>1, <1>2
<1>7. ASSUME NEW i \in 1..Gone(p, b)
      PROVE  ~ b[i].last
  <2>1. i \in 1..Len(a)
    BY <1>1, <1>5 DEF Gone
  <2> QED
    BY <2>1, <1>3, <1>5 DEF Ordered
<1>8. Ordered(p, b, v)
  BY <1>1, <1>2, <1>3, <1>4, <1>5, <1>6, <1>7 DEF Ordered
<1> QED
  BY <1>8 DEF p, b, v

\* The front of the queue, which does not end the connection, has been
\* written: the next one is.
LEMMA OrderedTail ==
    ASSUME NEW q \in Seq(Response), NEW a \in Seq(Response),
           NEW w \in Seq(Response), Ordered(q, a, w), q # <<>>,
           ~ Head(q).last
    PROVE  Ordered(Tail(q), a, IF Tail(q) = <<>> THEN w
                               ELSE Append(w, Head(Tail(q))))
<1> DEFINE p == Tail(q)
           v == IF p = <<>> THEN w ELSE Append(w, Head(p))
<1>1. Len(q) \in Nat /\ Len(q) >= 1 /\ Len(a) \in Nat /\ Len(w) \in Nat
      /\ Len(q) <= Len(a)
  BY EmptySeq DEF Ordered
<1>2. /\ p \in Seq(Response) /\ Len(p) = Len(q) - 1
      /\ \A i \in 1..Len(p) : p[i] = q[i + 1]
      /\ Head(q) = q[1]
  BY HeadTailProperties
<1>3. p # <<>> => Len(p) >= 1 /\ Head(p) = p[1] /\ Head(p) \in Response
  BY <1>2, EmptySeq, HeadTailProperties
<1>4. p # <<>> => /\ Len(v) = Len(w) + 1 /\ v[Len(w) + 1] = Head(p)
                  /\ \A i \in 1..Len(w) : v[i] = w[i]
  BY <1>3, AppendProperties
<1>5. p = <<>> => v = w
  OBVIOUS
<1> HIDE DEF p, v
<1>6. Gone(p, a) = Gone(q, a) + 1 /\ Gone(q, a) \in Nat
      /\ Len(w) = Gone(p, a)
  BY <1>1, <1>2 DEF Gone, Ordered
<1>7. ASSUME NEW i \in 1..Len(p)
      PROVE  p[i] = a[Gone(p, a) + i]
  <2>1. i + 1 \in 1..Len(q) /\ Gone(p, a) + i = Gone(q, a) + (i + 1)
    BY <1>1, <1>2, <1>6
  <2> QED
    BY <2>1, <1>2 DEF Ordered
<1>8. ASSUME NEW i \in 1..Gone(p, a)
      PROVE  ~ a[i].last
  <2>1. a[Gone(q, a) + 1] = Head(q)
    BY <1>1, <1>2 DEF Ordered
  <2>2. i \in 1..Gone(q, a) \/ i = Gone(q, a) + 1
    BY <1>6
  <2> QED
    BY <2>1, <2>2 DEF Ordered
<1>9. /\ Len(v) = Gone(p, a) + IF p = <<>> THEN 0 ELSE 1
      /\ \A i \in 1..Len(v) : v[i] = a[i]
  <2>1. \A i \in 1..Len(w) : w[i] = a[i]
    BY DEF Ordered
  <2>2. CASE p = <<>>
    BY <2>1, <2>2, <1>1, <1>5, <1>6
  <2>3. CASE p # <<>>
    <3>1. v[Len(w) + 1] = a[Len(w) + 1]
      BY <2>3, <1>3, <1>4, <1>6, <1>7
    <3> QED
      BY <3>1, <2>1, <2>3, <1>1, <1>4, <1>6
  <2> QED
    BY <2>2, <2>3
<1>10. Ordered(p, a, v)
  BY <1>1, <1>2, <1>7, <1>8, <1>9 DEF Ordered
<1> QED
  BY <1>10 DEF p, v

-----------------------------------------------------------------------------
(* The methods *)

\* Two states with the same queue.
SameQueue(s, t) ==
    t.items = s.items /\ t.answered = s.answered /\ t.wire = s.wire

LEMMA SameQueueLemma ==
    ASSUME NEW s \in HttpState, NEW t \in HttpState, SameQueue(s, t)
    PROVE  /\ InOrder(s) => InOrder(t)
           /\ Typed(s) => Typed(t)
  BY DEF SameQueue, InOrder, Typed

LEMMA DoTimerLemma ==
    ASSUME NEW s \in HttpState
    PROVE  /\ DoTimer(s) \in HttpState /\ SameQueue(s, DoTimer(s))
           /\ DoTimer(s).ops = s.ops /\ DoTimer(s).sock = s.sock
           /\ DoTimer(s).timer = "armed"
  BY DEF DoTimer, HttpState, SameQueue

LEMMA StopTimerLemma ==
    ASSUME NEW s \in HttpState
    PROVE  LET t == StopTimer(s)
           IN  /\ t \in HttpState /\ SameQueue(s, t)
               /\ t.ops = s.ops /\ t.sock = s.sock
               /\ s.timer = "armed" => t.timer = "idle" /\ t.aborted > 0
               /\ s.timer # "armed" => t = s
<1> DEFINE u == [s EXCEPT !.timer = "idle", !.aborted = s.aborted + 1]
<1>1. s.aborted + 1 \in Nat /\ s.aborted + 1 > 0
  BY DEF HttpState
<1>2. u \in HttpState /\ SameQueue(s, u) /\ u.ops = s.ops /\ u.sock = s.sock
      /\ u.timer = "idle" /\ u.aborted > 0
  BY <1>1 DEF HttpState, SameQueue
<1>3. StopTimer(s) = IF s.timer = "armed" THEN u ELSE s
  BY DEF StopTimer
<1> HIDE DEF u
<1> QED
  BY <1>2, <1>3 DEF SameQueue

LEMMA ShutLemma ==
    ASSUME NEW s \in HttpState
    PROVE  LET t == Shut(s)
           IN  /\ t \in HttpState /\ SameQueue(s, t)
               /\ t.ops = s.ops /\ t.timer = s.timer /\ t.aborted = s.aborted
               /\ t.sock = IF s.sock = "open" THEN "shut" ELSE s.sock
  BY DEF Shut, HttpState, SameQueue

LEMMA DoCloseLemma ==
    ASSUME NEW s \in HttpState
    PROVE  LET t == DoClose(s)
           IN  /\ t \in HttpState /\ SameQueue(s, t)
               /\ t.ops = s.ops
               /\ t.sock = IF s.sock = "open" THEN "shut" ELSE s.sock
<1>1. Shut(s) \in HttpState
  BY ShutLemma
<1> QED
  BY <1>1, ShutLemma, StopTimerLemma DEF DoClose, SameQueue

\* The front of the queue is the response that is written next.
LEMMA StartWriteLemma ==
    ASSUME NEW s \in HttpState, s.items # <<>>
    PROVE  LET t == StartWrite(s)
           IN  /\ t \in HttpState
               /\ t.items = s.items /\ t.answered = s.answered
               /\ t.wire = Append(s.wire, Head(s.items))
               /\ t.sock = s.sock /\ t.timer = s.timer
               /\ t.ops = s.ops \cup {IF s.sock = "open" THEN "write"
                                                         ELSE "badWrite"}
<1>1. Append(s.wire, Head(s.items)) \in Seq(Response)
  BY HeadTailProperties, AppendProperties DEF HttpState
<1> QED
  BY <1>1 DEF StartWrite, HttpState

LEMMA RespondLemma ==
    ASSUME NEW s, Base(s), Room(s), NEW r \in Response
    PROVE  LET t == Respond(s, r)
           IN  /\ Base(t) /\ (Flows(s) => Flows(t))
               /\ t.sock = s.sock /\ t.timer = s.timer
               /\ t.ops \ Write = s.ops \ Write
<1> DEFINE q == Append(s.items, r)
           a == Append(s.answered, r)
           t == [s EXCEPT !.items = q, !.answered = a]
<1>1. /\ s \in HttpState /\ Len(s.items) \in Nat /\ Limit \in Nat
      /\ s.items \in Seq(Response) /\ s.answered \in Seq(Response)
      /\ s.wire \in Seq(Response)
  BY HttpAssumption DEF Base, Typed, HttpState
<1>2. /\ q \in Seq(Response) /\ Len(q) = Len(s.items) + 1
      /\ q # <<>> /\ a \in Seq(Response)
  BY <1>1, AppendProperties
<1>3. s.items = <<>> => Len(q) = 1 /\ Head(q) = r
  BY <1>1, <1>2, EmptySeq, HeadTailProperties, AppendProperties
<1>4. s.items # <<>> => Len(q) # 1
  BY <1>1, <1>2, EmptySeq
<1>5. /\ t \in HttpState /\ t.items = q /\ t.answered = a
      /\ t.wire = s.wire /\ t.sock = s.sock /\ t.timer = s.timer
      /\ t.ops = s.ops
  BY <1>1, <1>2 DEF HttpState
<1>6. Ordered(q, a, IF s.items = <<>> THEN Append(s.wire, r) ELSE s.wire)
  BY <1>1, OrderedAppend DEF Base, InOrder
<1>7. Respond(s, r) = IF Len(q) = 1 THEN StartWrite(t) ELSE t
  <2>1. PushBack(s.items, r) = q
    BY <1>1 DEF PushBack, Room
  <2> HIDE DEF q
  <2> QED
    BY <2>1, <1>5 DEF Respond
<1> HIDE DEF q, a, t
<1>8. Len(q) \in 0..Limit
  BY <1>1, <1>2 DEF Room
<1>9. CASE s.items = <<>>
  <2> DEFINE u == StartWrite(t)
  <2>1. /\ u \in HttpState
        /\ u.items = q /\ u.answered = a
        /\ u.wire = Append(s.wire, r)
        /\ u.sock = s.sock /\ u.timer = s.timer
        /\ u.ops = s.ops \cup {IF s.sock = "open" THEN "write"
                                                  ELSE "badWrite"}
    BY <1>2, <1>3, <1>5, <1>9, StartWriteLemma
  <2>2. s.ops \cap Write = {}
    BY <1>9 DEF Base, Writes
  <2>3. Writes(u) /\ Flows(u) /\ u.ops \ Write = s.ops \ Write
    BY <2>1, <2>2, <1>2 DEF Writes, Flows, Write
  <2>4. Base(u)
    BY <2>1, <2>3, <1>6, <1>8, <1>9 DEF Base, Typed, InOrder
  <2> QED
    BY <2>1, <2>3, <2>4, <1>3, <1>7, <1>9
<1>10. CASE s.items # <<>>
  <2>1. Writes(t) /\ (Flows(s) => Flows(t))
    BY <1>10, <1>2, <1>5 DEF Base, Writes, Flows
  <2>2. Base(t)
    BY <2>1, <1>5, <1>6, <1>8, <1>10 DEF Base, Typed, InOrder
  <2> QED
    BY <2>1, <2>2, <1>4, <1>5, <1>7, <1>10
<1> QED
  BY <1>9, <1>10

LEMMA PopFrontLemma ==
    ASSUME NEW s, Typed(s), InOrder(s), s.items # <<>>,
           s.ops \cap Write = {}, ~ Head(s.items).last
    PROVE  LET t == PopFront(s)
           IN  /\ Base(t) /\ Flows(t)
               /\ t.sock = s.sock /\ t.timer = s.timer
               /\ t.ops \ Write = s.ops \ Write
               /\ Len(t.items) = Len(s.items) - 1
<1> DEFINE q == Tail(s.items)
           t == [s EXCEPT !.items = q]
<1>1. /\ s.items \in Seq(Response) /\ s.answered \in Seq(Response)
      /\ s.wire \in Seq(Response) /\ s \in HttpState
      /\ Len(s.items) \in Nat /\ Len(s.items) >= 1 /\ Len(s.items) <= Limit
      /\ Limit \in Nat
  BY HttpAssumption, EmptySeq DEF Typed, HttpState
<1>2. q \in Seq(Response) /\ Len(q) = Len(s.items) - 1
  BY <1>1, HeadTailProperties
<1>3. /\ t \in HttpState /\ t.items = q /\ t.answered = s.answered
      /\ t.wire = s.wire /\ t.sock = s.sock /\ t.timer = s.timer
      /\ t.ops = s.ops
  BY <1>1, <1>2 DEF HttpState
<1>4. Ordered(q, s.answered, IF q = <<>> THEN s.wire
                             ELSE Append(s.wire, Head(q)))
  BY <1>1, OrderedTail DEF InOrder
<1>5. PopFront(s) = IF q # <<>> THEN StartWrite(t) ELSE t
  BY <1>1 DEF PopFront, HttpState
<1> HIDE DEF q, t
<1>6. Len(q) \in 0..Limit
  BY <1>1, <1>2
<1>7. CASE q = <<>>
  <2>1. Writes(t) /\ Flows(t)
    BY <1>3, <1>7 DEF Writes, Flows, Write
  <2>2. Base(t)
    BY <2>1, <1>3, <1>4, <1>6, <1>7 DEF Base, Typed, InOrder
  <2> QED
    BY <2>1, <2>2, <1>2, <1>3, <1>5, <1>7
<1>8. CASE q # <<>>
  <2> DEFINE u == StartWrite(t)
  <2>1. /\ u \in HttpState
        /\ u.items = q /\ u.answered = s.answered
        /\ u.wire = Append(s.wire, Head(q))
        /\ u.sock = s.sock /\ u.timer = s.timer
        /\ u.ops = s.ops \cup {IF s.sock = "open" THEN "write"
                                                  ELSE "badWrite"}
    BY <1>3, <1>8, StartWriteLemma
  <2>2. Writes(u) /\ Flows(u) /\ u.ops \ Write = s.ops \ Write
    BY <2>1, <1>8 DEF Writes, Flows, Write
  <2>3. Base(u)
    BY <2>1, <2>2, <1>4, <1>6, <1>8 DEF Base, Typed, InOrder
  <2> QED
    BY <2>1, <2>2, <2>3, <1>2, <1>5, <1>8
<1> QED
  BY <1>7, <1>8

-----------------------------------------------------------------------------
(* How a handler ends *)

\* A handler runs only in a running session, and nobody erases it meanwhile.
LEMMA BusyRuns ==
    ASSUME HInv, Busy
    PROVE  life = "running" /\ erases = 0
  BY DEF HInv, HttpTypeOK, HttpErasedAfterLast

LEMMA LeaveLemma ==
    ASSUME HInv, Busy, got' \in 0..MaxRequest,
           NEW s, Base(s), Flows(s), Timed(s), Leave(s),
           "read" \in s.ops => Room(s),
           closer # "none" => s.sock # "open"
    PROVE  HInv'
<1>1. /\ life = "running" /\ erases = 0 /\ life' = "running"
      /\ http' = s /\ pc' = "idle" /\ closer' = closer
      /\ erases' = IF Busy' THEN 0 ELSE 1
      /\ closer \in {"none", "shut", "done"}
  BY BusyRuns DEF Leave, HInv, HttpTypeOK
<1>2. Base(http') /\ Flows(http') /\ Timed(http')
      /\ ("read" \in http'.ops => Room(http'))
      /\ (closer # "none" => http'.sock # "open")
      /\ http' \in HttpState
  BY <1>1 DEF Base, Typed
<1>3. HttpTypeOK' /\ HttpErasedAfterLast'
  BY <1>1, <1>2 DEF HttpTypeOK, HttpErasedAfterLast
<1> QED
  BY <1>1, <1>2, <1>3
  DEF HInv, Base, Typed, Writes, InOrder, Flows, Timed, Room

LEMMA ThenReadLemma ==
    ASSUME HInv, Busy, got' \in 0..MaxRequest,
           NEW s, Base(s), Flows(s), Timed(s), ThenRead(s), Room(s),
           closer # "none" => s.sock # "open"
    PROVE  HInv'
<1>1. /\ life = "running" /\ erases = 0 /\ life' = "running"
      /\ http' = s /\ pc' = "read" /\ closer' = closer
      /\ erases' = 0 /\ closer \in {"none", "shut", "done"}
  BY BusyRuns DEF ThenRead, HInv, HttpTypeOK
<1>2. Base(http') /\ Flows(http') /\ Timed(http') /\ Room(http')
      /\ (closer # "none" => http'.sock # "open")
      /\ http' \in HttpState
  BY <1>1 DEF Base, Typed
<1>3. HttpTypeOK' /\ HttpErasedAfterLast'
  BY <1>1, <1>2 DEF HttpTypeOK, HttpErasedAfterLast, Busy
<1> QED
  BY <1>1, <1>2, <1>3
  DEF HInv, Base, Typed, Writes, InOrder, Flows, Timed, Room

\* After do_close() it does not matter whether something is written.
LEMMA CloseLeaveLemma ==
    ASSUME HInv, Busy, got' \in 0..MaxRequest,
           NEW s, Base(s), Leave(DoClose(s)), "read" \in s.ops => Room(s)
    PROVE  HInv'
<1> DEFINE t == DoClose(s)
<1>1. s \in HttpState
  BY DEF Base, Typed
<1>2. /\ t \in HttpState /\ SameQueue(s, t)
      /\ t.ops = s.ops /\ t.sock # "open"
  BY <1>1, DoCloseLemma
<1> HIDE DEF t
<1>3. Base(t) /\ Flows(t) /\ Timed(t) /\ ("read" \in t.ops => Room(t))
  BY <1>1, <1>2, SameQueueLemma
     DEF Base, Writes, Flows, Timed, Room, SameQueue
<1> QED
  BY <1>2, <1>3, LeaveLemma DEF t

\* The operation that a handler has completed.
LEMMA DoneLemma ==
    ASSUME HInv, NEW o, Handles(o)
    PROVE  LET s == Done(o)
           IN  /\ Busy /\ Base(s) /\ Timed(s)
               /\ s.ops = http.ops \ {o} /\ s.items = http.items
               /\ s.sock = http.sock /\ s.timer = http.timer
               /\ (o \notin Write => Flows(s))
               /\ closer # "none" => s.sock # "open"
               /\ "read" \in s.ops => Room(s)
<1> DEFINE s == Done(o)
<1>1. o \in http.ops /\ Busy /\ http \in HttpState /\ pc = "idle"
  BY DEF Handles, Busy, HInv, HttpTypeOK
<1>2. /\ s \in HttpState /\ SameQueue(http, s) /\ s.ops = http.ops \ {o}
      /\ s.sock = http.sock /\ s.timer = http.timer
  BY <1>1 DEF Done, HttpState, SameQueue
<1> HIDE DEF s
<1>3. Base(http) /\ Flows(http) /\ Timed(http)
      /\ ("read" \in http.ops => Room(http))
      /\ (closer # "none" => http.sock # "open")
  BY <1>1, BusyRuns DEF HInv
<1>4. Base(s)
  <2>1. Writes(s)
    BY <1>2, <1>3 DEF Base, Writes, SameQueue
  <2> QED
    BY <2>1, <1>1, <1>2, <1>3, SameQueueLemma DEF Base
<1>5. Timed(s) /\ (o \notin Write => Flows(s)) /\ ("read" \in s.ops => Room(s))
  BY <1>2, <1>3 DEF Timed, Flows, Write, Room, SameQueue
<1> QED
  BY <1>1, <1>2, <1>3, <1>4, <1>5 DEF s, SameQueue

-----------------------------------------------------------------------------
(* The invariant *)

LEMMA HInvInit ==
    ASSUME HttpInit
    PROVE  HInv
<1> USE DEF HttpInit
<1>1. /\ http \in HttpState /\ http.items = <<>> /\ http.answered = <<>>
      /\ http.wire = <<>> /\ http.ops = {} /\ http.timer = "idle"
      /\ http.aborted = 0
  BY EmptySeq DEF HttpState
<1>2. HttpTypeOK /\ HttpErasedAfterLast /\ ~ Busy
  BY <1>1, HttpAssumption DEF HttpTypeOK, HttpErasedAfterLast, Busy
<1>3. Ordered(<<>>, <<>>, <<>>)
  <2>1. Len(<<>>) = 0
    BY EmptySeq
  <2> QED
    BY <2>1 DEF Ordered, Gone
<1>4. Base(http) /\ Flows(http)
  <2>1. Len(http.items) = 0
    BY <1>1, EmptySeq
  <2> QED
    BY <2>1, <1>1, <1>3, HttpAssumption
       DEF Base, Typed, Writes, InOrder, Flows, Write
<1> QED
  BY <1>1, <1>2, <1>4 DEF HInv

\* do_read()
LEMMA ReadStep ==
    ASSUME HInv, ReadNot \/ ReadCancel \/ ReadStart
    PROVE  HInv'
<1>1. /\ pc # "idle" /\ Busy /\ life = "running" /\ Room(http)
      /\ http \in HttpState /\ Base(http) /\ Flows(http)
      /\ got \in 0..MaxRequest /\ (closer # "none" => http.sock # "open")
      /\ erases = 0 /\ closer \in {"none", "shut", "done"}
  <2>1. pc # "idle" /\ Busy
    BY DEF ReadNot, ReadCancel, ReadStart, Busy
  <2> QED
    BY <2>1, BusyRuns DEF HInv, HttpTypeOK
<1>2. CASE ReadNot
  <2>1. Timed(http)
    BY <1>1, <1>2 DEF ReadNot, HInv
  <2> QED
    BY <2>1, <1>1, <1>2, LeaveLemma DEF ReadNot
<1>3. CASE ReadCancel
  <2>1. /\ http' \in HttpState /\ SameQueue(http, http')
        /\ http'.ops = http.ops /\ http'.sock = http.sock
    BY <1>1, <1>3, StopTimerLemma DEF ReadCancel
  <2>2. Base(http') /\ Flows(http') /\ Room(http')
    <3>1. Writes(http') /\ Flows(http') /\ Room(http')
      BY <2>1, <1>1 DEF Base, Writes, Flows, Room, SameQueue
    <3> QED
      BY <3>1, <2>1, <1>1, SameQueueLemma DEF Base
  <2>3. /\ life' = life /\ closer' = closer /\ erases' = erases
        /\ got' = got /\ pc' = "wait"
    BY <1>3 DEF ReadCancel
  <2>4. HttpTypeOK' /\ HttpErasedAfterLast'
    BY <2>1, <2>3, <1>1 DEF HttpTypeOK, HttpErasedAfterLast, Busy
  <2> QED
    BY <2>1, <2>2, <2>3, <2>4, <1>1
       DEF HInv, Base, Typed, Writes, InOrder, Flows, Room
<1>4. CASE ReadStart
  <2> DEFINE s == [DoTimer(http) EXCEPT !.ops = @ \cup {"read"}]
  <2>1. /\ DoTimer(http) \in HttpState /\ SameQueue(http, DoTimer(http))
        /\ DoTimer(http).ops = http.ops /\ DoTimer(http).sock = http.sock
        /\ DoTimer(http).timer = "armed"
    BY <1>1, DoTimerLemma
  <2>2. /\ s \in HttpState /\ SameQueue(http, s) /\ s.sock = http.sock
        /\ s.ops = http.ops \cup {"read"} /\ s.timer = "armed"
    BY <2>1 DEF HttpState, SameQueue
  <2>3. Leave(s) /\ got' = got
    BY <1>4 DEF ReadStart
  <2> HIDE DEF s
  <2>4. Base(s) /\ Flows(s) /\ Timed(s) /\ Room(s)
    <3>1. Writes(s) /\ Flows(s) /\ Timed(s) /\ Room(s)
      BY <2>2, <1>1 DEF Base, Writes, Flows, Timed, Room, SameQueue, Write
    <3> QED
      BY <3>1, <2>2, <1>1, SameQueueLemma DEF Base
  <2> QED
    BY <2>2, <2>3, <2>4, <1>1, LeaveLemma
<1> QED
  BY <1>2, <1>3, <1>4

\* The handler of async_read
LEMMA RequestStep ==
    ASSUME HInv, Answer \/ AnswerThrows \/ Upgrade \/ ReadFails \/ ReadAborted
    PROVE  HInv'
<1> DEFINE d == Done("read")
<1>1. Handles("read") /\ Room(http) /\ got' \in 0..MaxRequest /\ got \in Nat
      /\ MaxRequest \in Nat
  BY HttpAssumption
     DEF Answer, AnswerThrows, Upgrade, ReadFails, ReadAborted, Request,
         Handles, HInv, HttpTypeOK
<1>2. /\ Busy /\ Base(d) /\ Timed(d) /\ Flows(d) /\ Room(d)
      /\ "read" \notin d.ops /\ (closer # "none" => d.sock # "open")
  BY <1>1, DoneLemma DEF Write, Room
<1>3. CASE Answer
  <2>1. PICK b \in BOOLEAN :
            LET s == Respond(d, [to |-> got + 1, last |-> b])
            IN  IF IsFull(s) THEN Leave(DoClose(s)) ELSE ThenRead(s)
    BY <1>3 DEF Answer
  <2> DEFINE s == Respond(d, [to |-> got + 1, last |-> b])
  <2> HIDE DEF d
  <2>2. [to |-> got + 1, last |-> b] \in Response
    BY <1>1 DEF Response
  <2>3. /\ Base(s) /\ Flows(s) /\ s.sock = d.sock /\ s.timer = d.timer
        /\ s.ops \ Write = d.ops \ Write
    BY <2>2, <1>2, RespondLemma
  <2>4. IF IsFull(s) THEN Leave(DoClose(s)) ELSE ThenRead(s)
    BY <2>1
  <2> HIDE DEF s
  <2>5. Timed(s) /\ "read" \notin s.ops
        /\ (closer # "none" => s.sock # "open")
    BY <2>3, <1>2 DEF Timed, Write
  <2>6. CASE IsFull(s)
    BY <2>3, <2>4, <2>5, <2>6, <1>1, <1>2, CloseLeaveLemma
  <2>7. CASE ~ IsFull(s)
    <3>1. Room(s)
      BY <2>3, <2>7, HttpAssumption DEF IsFull, Room, Base, Typed
    <3> QED
      BY <3>1, <2>3, <2>4, <2>5, <2>7, <1>1, <1>2, ThenReadLemma
  <2> QED
    BY <2>6, <2>7
<1>4. CASE AnswerThrows \/ ReadAborted
  <2>1. Leave(d)
    BY <1>4 DEF AnswerThrows, ReadAborted
  <2> HIDE DEF d
  <2> QED
    BY <2>1, <1>1, <1>2, LeaveLemma
<1>5. CASE ReadFails
  <2>1. Leave(DoClose(d))
    BY <1>5 DEF ReadFails
  <2> HIDE DEF d
  <2> QED
    BY <2>1, <1>1, <1>2, CloseLeaveLemma
<1>6. CASE Upgrade
  <2> DEFINE s == [d EXCEPT !.sock = "moved"]
  <2>1. Leave(DoClose(s))
    BY <1>6 DEF Upgrade
  <2> HIDE DEF d
  <2>2. d \in HttpState
    BY <1>2 DEF Base, Typed
  <2>3. /\ s \in HttpState /\ SameQueue(d, s) /\ s.ops = d.ops
    BY <2>2 DEF HttpState, SameQueue
  <2> HIDE DEF s
  <2>4. Base(s) /\ "read" \notin s.ops
    <3>1. Writes(s)
      BY <2>3, <1>2 DEF Base, Writes, SameQueue
    <3> QED
      BY <3>1, <2>2, <2>3, <1>2, SameQueueLemma DEF Base
  <2> QED
    BY <2>1, <2>4, <1>1, <1>2, CloseLeaveLemma
<1> QED
  BY <1>3, <1>4, <1>5, <1>6

\* on_write()
LEMMA WriteStep ==
    ASSUME HInv, WriteDone \/ WriteFails \/ WriteAborted
    PROVE  HInv'
<1>1. http \in HttpState /\ got' \in 0..MaxRequest /\ Base(http)
      /\ closer \in {"none", "shut", "done"}
  BY DEF WriteDone, WriteFails, WriteAborted, HInv, HttpTypeOK
<1>2. CASE WriteDone
  <2> DEFINE s == Done("write")
             t == PopFront(s)
  <2>1. /\ Handles("write")
        /\ IF Head(s.items).last THEN Leave(DoClose(s))
           ELSE IF IsFull(s) THEN ThenRead(t) ELSE Leave(t)
    BY <1>2 DEF WriteDone
  <2>2. /\ Busy /\ Base(s) /\ Timed(s) /\ s.ops = http.ops \ {"write"}
        /\ (closer # "none" => s.sock # "open")
        /\ ("read" \in s.ops => Room(s)) /\ s.items = http.items
    BY <2>1, DoneLemma
  <2>3. s.ops \cap Write = {} /\ s.items # <<>>
    BY <2>1, <2>2, <1>1 DEF Base, Writes, Write, Handles
  <2> HIDE DEF s
  <2>4. CASE Head(s.items).last
    BY <2>1, <2>2, <2>4, <1>1, CloseLeaveLemma
  <2>5. CASE ~ Head(s.items).last
    <3>1. /\ Base(t) /\ Flows(t) /\ t.sock = s.sock /\ t.timer = s.timer
          /\ t.ops \ Write = s.ops \ Write
          /\ Len(t.items) = Len(s.items) - 1
      BY <2>2, <2>3, <2>5, PopFrontLemma DEF Base
    <3>2. Len(s.items) \in 0..Limit /\ Limit \in Nat
      BY <2>2, HttpAssumption DEF Base, Typed
    <3>3. Room(t) /\ Timed(t) /\ (closer # "none" => t.sock # "open")
      BY <3>1, <3>2, <2>2 DEF Room, Timed
    <3> HIDE DEF t
    <3>4. CASE IsFull(s)
      BY <3>1, <3>3, <3>4, <2>1, <2>2, <2>5, <1>1, ThenReadLemma
    <3>5. CASE ~ IsFull(s)
      BY <3>1, <3>3, <3>5, <2>1, <2>2, <2>5, <1>1, LeaveLemma
    <3> QED
      BY <3>4, <3>5
  <2> QED
    BY <2>4, <2>5
<1>3. CASE WriteFails
  <2>1. PICK o \in Write : Handles(o) /\ Leave(DoClose(Done(o)))
    BY <1>3 DEF WriteFails, Write
  <2>2. Busy /\ Base(Done(o)) /\ ("read" \in Done(o).ops => Room(Done(o)))
    BY <2>1, DoneLemma
  <2> QED
    BY <2>1, <2>2, <1>1, CloseLeaveLemma
<1>4. CASE WriteAborted
  <2>1. PICK o \in Write : Handles(o) /\ Leave(Done(o))
    BY <1>4 DEF WriteAborted, Write
  <2>2. /\ Busy /\ Base(Done(o)) /\ Timed(Done(o))
        /\ Done(o).sock = http.sock
        /\ (closer # "none" => Done(o).sock # "open")
        /\ ("read" \in Done(o).ops => Room(Done(o)))
    BY <2>1, DoneLemma
  <2>3. Flows(Done(o))
    BY <2>2, <1>4 DEF WriteAborted, Flows
  <2> QED
    BY <2>1, <2>2, <2>3, <1>1, LeaveLemma
<1> QED
  BY <1>2, <1>3, <1>4

\* The handlers of the timer
LEMMA TimerStep ==
    ASSUME HInv, TimerCloses \/ TimerAborted
    PROVE  HInv'
<1>1. /\ http \in HttpState /\ got' \in 0..MaxRequest /\ Base(http)
      /\ Flows(http) /\ pc = "idle" /\ Busy /\ life = "running"
      /\ Timed(http) /\ ("read" \in http.ops => Room(http))
      /\ (closer # "none" => http.sock # "open")
  <2>1. pc = "idle" /\ Busy
    BY DEF TimerCloses, TimerAborted, Busy
  <2> QED
    BY <2>1, BusyRuns DEF TimerCloses, TimerAborted, HInv, HttpTypeOK
<1>2. CASE TimerCloses
  <2> DEFINE s == [http EXCEPT !.timer = "idle",
                               !.sock = IF @ = "moved" THEN @ ELSE "closed"]
  <2>1. /\ s \in HttpState /\ SameQueue(http, s) /\ s.ops = http.ops
        /\ s.sock # "open"
    BY <1>1 DEF HttpState, SameQueue
  <2>2. Leave(s)
    BY <1>2 DEF TimerCloses
  <2> HIDE DEF s
  <2>3. Base(s) /\ Flows(s) /\ Timed(s) /\ ("read" \in s.ops => Room(s))
    <3>1. Writes(s) /\ Flows(s) /\ Timed(s)
          /\ ("read" \in s.ops => Room(s))
      BY <2>1, <1>1 DEF Base, Writes, Flows, Timed, Room, SameQueue
    <3> QED
      BY <3>1, <2>1, <1>1, SameQueueLemma DEF Base
  <2> QED
    BY <2>1, <2>2, <2>3, <1>1, LeaveLemma
<1>3. CASE TimerAborted
  <2> DEFINE s == [http EXCEPT !.aborted = @ - 1]
  <2>1. http.aborted - 1 \in Nat
    BY <1>1, <1>3 DEF TimerAborted, HttpState
  <2>2. /\ s \in HttpState /\ SameQueue(http, s) /\ s.ops = http.ops
        /\ s.sock = http.sock /\ s.timer = http.timer
    BY <2>1, <1>1 DEF HttpState, SameQueue
  <2>3. Leave(s)
    BY <1>3 DEF TimerAborted
  <2> HIDE DEF s
  <2>4. Base(s) /\ Flows(s) /\ Timed(s) /\ ("read" \in s.ops => Room(s))
    <3>1. Writes(s) /\ Flows(s) /\ Timed(s)
          /\ ("read" \in s.ops => Room(s))
      BY <2>2, <1>1 DEF Base, Writes, Flows, Timed, Room, SameQueue
    <3> QED
      BY <3>1, <2>2, <1>1, SameQueueLemma DEF Base
  <2> QED
    BY <2>2, <2>3, <2>4, <1>1, LeaveLemma
<1> QED
  BY <1>2, <1>3

\* Steps outside the strand of the session, which leave its queue alone.
LEMMA OutsideLemma ==
    ASSUME HInv, http' \in HttpState, SameQueue(http, http'),
           http'.ops = http.ops, http'.sock = "open" => http.sock = "open"
    PROVE  Base(http') /\ Flows(http') /\ (Room(http) => Room(http'))
<1>1. http \in HttpState /\ Base(http) /\ Flows(http)
  BY DEF HInv, HttpTypeOK
<1>2. Writes(http') /\ Flows(http') /\ (Room(http) => Room(http'))
  BY <1>1 DEF Base, Writes, Flows, Room, SameQueue
<1> QED
  BY <1>1, <1>2, SameQueueLemma DEF Base

\* Time passes, or the set calls do_close().
LEMMA OutsideStep ==
    ASSUME HInv, TimerExpires \/ CloseShut \/ CloseCancel
    PROVE  HInv'
<1>1. http \in HttpState /\ HttpTypeOK
  BY DEF HInv, HttpTypeOK
<1>2. /\ http' \in HttpState /\ SameQueue(http, http')
      /\ http'.ops = http.ops /\ (http'.sock = "open" => http.sock = "open")
      /\ got' = got /\ pc' = pc /\ life' = life /\ erases' = erases
      /\ (closer # "none" => http'.sock # "open")
      /\ closer' \in {"none", "shut", "done"} /\ Busy' = Busy
      /\ (life = "new" => closer' = "none" /\ http'.sock = http.sock)
      /\ (closer' = "shut" => life = "running")
      /\ (closer' # "none" => http'.sock # "open")
      /\ (Timed(http) => Timed(http'))
  <2>1. CASE TimerExpires
    BY <2>1, <1>1 DEF TimerExpires, HttpState, SameQueue, Busy, HInv,
                      HttpTypeOK, Timed
  <2>2. CASE CloseShut
    <3>1. /\ http' \in HttpState /\ SameQueue(http, http')
          /\ http'.ops = http.ops /\ http'.timer = http.timer
          /\ http'.aborted = http.aborted /\ http'.sock # "open"
      BY <2>2, <1>1, ShutLemma DEF CloseShut
    <3> QED
      BY <3>1, <2>2 DEF CloseShut, Busy, Timed
  <2>3. CASE CloseCancel
    <3>1. /\ http' \in HttpState /\ SameQueue(http, http')
          /\ http'.ops = http.ops /\ http'.sock = http.sock
          /\ (http.timer = "armed" =>
                  http'.timer = "idle" /\ http'.aborted > 0)
          /\ (http.timer # "armed" => http' = http)
      BY <2>3, <1>1, StopTimerLemma DEF CloseCancel
    <3>2. Busy' = Busy
      BY <3>1, <2>3 DEF CloseCancel, Busy
    <3>3. closer = "shut" /\ http.sock # "open" /\ life = "running"
      BY <2>3 DEF CloseCancel, HInv
    <3> QED
      BY <3>1, <3>2, <3>3, <2>3 DEF CloseCancel, Timed
  <2> QED
    BY <2>1, <2>2, <2>3
<1>3. Base(http') /\ Flows(http') /\ (Room(http) => Room(http'))
  BY <1>2, OutsideLemma
<1>4. HttpTypeOK' /\ HttpErasedAfterLast'
  BY <1>1, <1>2 DEF HInv, HttpTypeOK, HttpErasedAfterLast
<1> QED
  BY <1>2, <1>3, <1>4
     DEF HInv, Base, Typed, Writes, InOrder, Flows, Timed, Room, SameQueue

\* The first wait and the first read
LEMMA RunStep ==
    ASSUME HInv, Run
    PROVE  HInv'
<1>1. /\ http \in HttpState /\ Base(http) /\ Flows(http) /\ http.ops = {}
      /\ http.items = <<>> /\ pc = "idle" /\ erases = 0 /\ closer = "none"
      /\ got \in 0..MaxRequest
  BY DEF Run, HInv, HttpTypeOK, Busy
<1> DEFINE u == DoTimer(StopTimer(DoTimer(http)))
<1>2. /\ u \in HttpState /\ SameQueue(http, u) /\ u.timer = "armed"
      /\ u.sock = http.sock
  BY <1>1, DoTimerLemma, StopTimerLemma DEF SameQueue
<1>3. http' = [u EXCEPT !.ops = {"read"}] /\ life' = "running"
      /\ got' = got /\ pc' = pc /\ closer' = closer /\ erases' = erases
  BY DEF Run
<1> HIDE DEF u
<1>4. /\ http' \in HttpState /\ SameQueue(http, http')
      /\ http'.ops = {"read"} /\ http'.timer = "armed"
  BY <1>2, <1>3 DEF HttpState, SameQueue
<1>5. Base(http') /\ Flows(http') /\ Room(http') /\ Timed(http')
  <2>1. Len(http'.items) = 0 /\ http'.items = <<>>
    BY <1>1, <1>4, EmptySeq DEF SameQueue
  <2>2. Writes(http') /\ Flows(http') /\ Room(http') /\ Timed(http')
    BY <2>1, <1>4, HttpAssumption DEF Writes, Flows, Room, Timed, Write
  <2> QED
    BY <2>2, <1>1, <1>4, SameQueueLemma DEF Base
<1>6. HttpTypeOK' /\ HttpErasedAfterLast'
  BY <1>1, <1>3, <1>4 DEF HttpTypeOK, HttpErasedAfterLast, Busy
<1> QED
  BY <1>1, <1>3, <1>5, <1>6
     DEF HInv, Base, Typed, Writes, InOrder, Flows, Timed, Room

LEMMA EraseStep ==
    ASSUME HInv, Erase
    PROVE  HInv'
<1>1. ~ Busy /\ erases = 1 /\ life = "running" /\ closer # "shut"
  BY DEF Erase, HInv, HttpErasedAfterLast
<1>2. erases' = 0 /\ life' = "gone" /\ UNCHANGED <<http, got, pc, closer>>
  BY <1>1 DEF Erase
<1>3. HttpTypeOK' /\ HttpErasedAfterLast'
  BY <1>1, <1>2 DEF HInv, HttpTypeOK, HttpErasedAfterLast, Busy
<1> QED
  BY <1>1, <1>2, <1>3
     DEF HInv, Base, Typed, Writes, InOrder, Flows, Timed, Room

LEMMA HInvStep ==
    ASSUME HInv, [HttpNext]_httpVars
    PROVE  HInv'
<1>1. CASE HttpNext
  BY <1>1, ReadStep, RequestStep, WriteStep, TimerStep, OutsideStep, RunStep,
     EraseStep DEF HttpNext
<1>2. CASE UNCHANGED httpVars
  BY <1>2 DEF httpVars, HInv, HttpTypeOK, HttpErasedAfterLast, Busy,
              Base, Typed, Writes, InOrder, Flows, Timed, Room
<1> QED
  BY <1>1, <1>2

-----------------------------------------------------------------------------
(* The theorems *)

\* The state of a session keeps its types, whatever the queue's limit is.
THEOREM HttpTyped == HttpSpec => []HttpTypeOK
<1>1. HInv => HttpTypeOK
  BY DEF HInv
<1> QED
  BY <1>1, HInvInit, HInvStep, PTL DEF HttpSpec

\* async_erase() is called exactly once, by the last handler, although the
\* set shuts the session down from its own strand.
THEOREM HttpErased == HttpSpec => []HttpErasedAfterLast
<1>1. HInv => HttpErasedAfterLast
  BY DEF HInv
<1> QED
  BY <1>1, HInvInit, HInvStep, PTL DEF HttpSpec

\* A response that waits on an open socket is being written, and only one.
THEOREM HttpNoStuck == HttpSpec => []NoStuckResponse
<1>1. HInv => NoStuckResponse
  BY DEF HInv, Base, Writes, Flows, NoStuckResponse, Write
<1> QED
  BY <1>1, HInvInit, HInvStep, PTL DEF HttpSpec

\* A session with an open socket has its timer, so it is not forgotten.
THEOREM HttpTimed == HttpSpec => []OpenHasTimer
<1>1. HInv => OpenHasTimer
  BY DEF HInv, Timed, OpenHasTimer
<1> QED
  BY <1>1, HInvInit, HInvStep, PTL DEF HttpSpec

LEMMA ReverseLemma ==
    ASSUME NEW S, NEW s \in Seq(S)
    PROVE  /\ Reverse(s) \in Seq(S) /\ Len(Reverse(s)) = Len(s)
           /\ \A i \in 1..Len(s) : Reverse(s)[i] = s[(Len(s) - i) + 1]
<1>1. Len(s) \in Nat
  BY LenProperties
<1>2. \A i \in 1..Len(s) : s[(Len(s) - i) + 1] \in S
  <2>1. TAKE i \in 1..Len(s)
  <2>2. (Len(s) - i) + 1 \in 1..Len(s)
    BY <1>1
  <2> QED
    BY <2>2, ElementOfSeq
<1>3. Reverse(s) \in [1..Len(s) -> S]
  BY <1>2 DEF Reverse
<1>4. Reverse(s) \in Seq(S)
  BY <1>1, <1>3, SeqDef
<1>5. Len(Reverse(s)) \in Nat /\ DOMAIN Reverse(s) = 1..Len(Reverse(s))
      /\ DOMAIN Reverse(s) = 1..Len(s)
  BY <1>3, <1>4, LenProperties
<1>6. Len(Reverse(s)) = Len(s)
  BY <1>1, <1>5
<1> QED
  BY <1>4, <1>6 DEF Reverse

LEMMA PrefixLemma ==
    ASSUME NEW S, NEW s \in Seq(S), NEW t \in Seq(S), Len(s) <= Len(t),
           \A i \in 1..Len(s) : s[i] = t[i]
    PROVE  IsPrefix(s, t)
<1>1. Len(s) \in Nat /\ Len(t) \in Nat
  BY LenProperties
<1>2. \A i \in 1..Len(s) : s[i] \in S /\ t[i] \in S
  BY <1>1, ElementOfSeq
<1>3. /\ SubSeq(s, 1, Len(s)) \in Seq(S)
      /\ Len(SubSeq(s, 1, Len(s))) = Len(s)
      /\ \A i \in 1..Len(s) : SubSeq(s, 1, Len(s))[i] = s[i]
  BY <1>1, <1>2, SubSeqProperties
<1>4. /\ SubSeq(t, 1, Len(s)) \in Seq(S)
      /\ Len(SubSeq(t, 1, Len(s))) = Len(s)
      /\ \A i \in 1..Len(s) : SubSeq(t, 1, Len(s))[i] = t[i]
  BY <1>1, <1>2, SubSeqProperties
<1>5. SubSeq(s, 1, Len(s)) = SubSeq(t, 1, Len(s))
  BY <1>3, <1>4, SeqEqual
<1> QED
  BY <1>5 DEF IsPrefix

\* What Ordered says is that the wire begins and the queue ends what was
\* answered.
LEMMA OrderedLemma ==
    ASSUME NEW q \in Seq(Response), NEW a \in Seq(Response),
           NEW w \in Seq(Response), Ordered(q, a, w)
    PROVE  /\ IsPrefix(w, a) /\ IsSuffix(q, a)
           /\ Len(w) + Len(q) = Len(a) + IF q = <<>> THEN 0 ELSE 1
           /\ \A i \in DOMAIN w : w[i].last => i = Len(w)
<1>1. Len(q) \in Nat /\ Len(a) \in Nat /\ Len(w) \in Nat /\ Len(q) <= Len(a)
      /\ (q = <<>> <=> Len(q) = 0) /\ DOMAIN w = 1..Len(w)
  BY EmptySeq, LenProperties DEF Ordered
<1>2. Gone(q, a) \in Nat /\ Gone(q, a) + Len(q) = Len(a)
      /\ Len(w) = Gone(q, a) + IF q = <<>> THEN 0 ELSE 1
  BY <1>1 DEF Gone, Ordered
<1>3. IsPrefix(w, a)
  <2>1. Len(w) <= Len(a)
    BY <1>1, <1>2
  <2> QED
    BY <2>1, PrefixLemma DEF Ordered
<1>4. IsSuffix(q, a)
  <2>1. /\ Reverse(q) \in Seq(Response) /\ Len(Reverse(q)) = Len(q)
        /\ Reverse(a) \in Seq(Response) /\ Len(Reverse(a)) = Len(a)
    BY ReverseLemma
  <2>2. ASSUME NEW i \in 1..Len(q)
        PROVE  Reverse(q)[i] = Reverse(a)[i]
    <3>1. /\ i \in 1..Len(q) /\ i \in 1..Len(a)
          /\ (Len(q) - i) + 1 \in 1..Len(q)
          /\ Gone(q, a) + ((Len(q) - i) + 1) = (Len(a) - i) + 1
      BY <1>1, <1>2
    <3>2. q[(Len(q) - i) + 1] = a[(Len(a) - i) + 1]
      BY <3>1 DEF Ordered
    <3> QED
      BY <3>1, <3>2, ReverseLemma
  <2> QED
    BY <2>1, <2>2, <1>1, PrefixLemma DEF IsSuffix
<1>5. ASSUME NEW i \in DOMAIN w, w[i].last
      PROVE  i = Len(w)
  <2>1. i \in 1..Len(w) /\ a[i].last
    BY <1>1, <1>5 DEF Ordered
  <2>2. i \notin 1..Gone(q, a)
    BY <2>1 DEF Ordered
  <2> QED
    BY <2>1, <2>2, <1>1, <1>2
<1>6. Len(w) + Len(q) = Len(a) + IF q = <<>> THEN 0 ELSE 1
  BY <1>1, <1>2
<1> QED
  BY <1>3, <1>4, <1>5, <1>6

\* The responses are written in the order of the requests, none is lost to
\* the limit of the queue, and none follows the end of the connection.
THEOREM HttpInOrder == HttpSpec => []ResponsesInOrder
<1>1. HInv => ResponsesInOrder
  <2> SUFFICES ASSUME HInv PROVE ResponsesInOrder
    OBVIOUS
  <2>1. /\ http.items \in Seq(Response) /\ http.answered \in Seq(Response)
        /\ http.wire \in Seq(Response)
        /\ Ordered(http.items, http.answered, http.wire)
    BY DEF HInv, Base, Typed, InOrder, HttpState
  <2>2. http.ops \cap Write # {} => http.items # <<>>
    BY DEF HInv, Base, Writes
  <2> QED
    BY <2>1, <2>2, OrderedLemma DEF ResponsesInOrder, Write
<1> QED
  BY <1>1, HInvInit, HInvStep, PTL DEF HttpSpec

-----------------------------------------------------------------------------
(* The session as the set sees it *)

\* What the set sees of a running session.
LEMMA StageLemma ==
    /\ StageOf = "none" <=> life # "running"
    /\ StageOf = "done" <=> life = "running" /\ ~ Busy
    /\ StageOf \in {"none", "done"}
          \/ StageOf = IF http.sock = "moved" THEN "moved"
                       ELSE IF closer = "done" THEN "shut" ELSE "live"
  BY DEF StageOf

LEMMA StageNext ==
    (/\ StageOf = "none" <=> life # "running"
     /\ StageOf = "done" <=> life = "running" /\ ~ Busy
     /\ StageOf \in {"none", "done"}
           \/ StageOf = IF http.sock = "moved" THEN "moved"
                        ELSE IF closer = "done" THEN "shut" ELSE "live")'
  BY StageLemma, PTL

\* The steps of the session that are not Inserted, ShutDown or Erased.
ByItself == Unseen \/ Sessions!Move("session")
                   \/ Sessions!SessionEnds("session")

\* The last handler leaves the session without a lock: async_erase().
LEMMA LastLeaves ==
    ASSUME HInv, Busy, ~ Busy', life' = "running", erases' = erases + 1
    PROVE  Sessions!SessionEnds("session")
<1>1. life = "running" /\ erases = 0
  BY BusyRuns
<1>2. StageOf' = "done" /\ StageOf \in {"live", "shut", "moved"}
  BY <1>1, StageLemma, StageNext
<1> DEFINE c == [kind |-> "erase", to |-> "session"]
<1>3. /\ [i \in 1..erases |-> c] = <<>>
      /\ [i \in 1..erases' |-> c] = Append(<<>>, c)
  <2>1. 1..erases = {} /\ 1..erases' = {1}
    BY <1>1
  <2>2. [i \in 1..erases |-> c] = <<>>
    BY <2>1
  <2>3. [i \in 1..erases' |-> c] = <<c>>
    BY <2>1
  <2> QED
    BY <2>2, <2>3
<1> HIDE DEF c
<1> QED
  BY <1>2, <1>3
     DEF Sessions!SessionEnds, Sessions!Alive, Sessions!Busy,
         Sessions!listenerVars, Sessions!locks, c

\* Others still hold a lock: only a move of the socket shows.
LEMMA OthersStay ==
    ASSUME HInv, Busy, Busy', life' = "running", erases' = erases,
           closer' = closer, http.sock = "moved" => http'.sock = "moved"
    PROVE  ByItself
<1>1. life = "running"
  BY BusyRuns
<1>2. /\ StageOf = IF http.sock = "moved" THEN "moved"
                   ELSE IF closer = "done" THEN "shut" ELSE "live"
      /\ StageOf' = IF http'.sock = "moved" THEN "moved"
                    ELSE IF closer' = "done" THEN "shut" ELSE "live"
  BY <1>1, StageLemma, StageNext
<1>3. StageOf' = StageOf \/ (StageOf \in {"live", "shut"} /\ StageOf' = "moved")
  BY <1>2
<1> QED
  BY <1>3
     DEF ByItself, Unseen, Sessions!Move, Sessions!listenerVars,
         Sessions!locks, Sessions!strand

LEMMA HandlerStep ==
    ASSUME HInv, Busy, NEW s, Leave(s) \/ ThenRead(s),
           http.sock = "moved" => s.sock = "moved"
    PROVE  ByItself
<1>1. life = "running"
  BY BusyRuns
<1>2. /\ http' = s /\ closer' = closer /\ life' = "running"
      /\ erases' = IF Busy' THEN erases ELSE erases + 1
  BY <1>1 DEF Leave, ThenRead, Busy
<1>3. CASE Busy'
  BY <1>2, <1>3, OthersStay
<1>4. CASE ~ Busy'
  BY <1>2, <1>4, LastLeaves DEF ByItself
<1> QED
  BY <1>3, <1>4

LEMMA ReadStage ==
    ASSUME HInv, ReadNot \/ ReadCancel \/ ReadStart
    PROVE  ByItself
<1>1. pc # "idle" /\ Busy /\ http \in HttpState /\ life = "running"
  <2>1. pc # "idle" /\ Busy
    BY DEF ReadNot, ReadCancel, ReadStart, Busy
  <2> QED
    BY <2>1, BusyRuns DEF HInv, HttpTypeOK
<1>2. CASE ReadNot
  BY <1>1, <1>2, HandlerStep DEF ReadNot
<1>3. CASE ReadCancel
  <2>1. /\ http'.sock = http.sock /\ Busy' /\ life' = "running"
        /\ UNCHANGED <<closer, erases>>
    BY <1>1, <1>3, StopTimerLemma DEF ReadCancel, Busy
  <2> QED
    BY <2>1, <1>1, OthersStay
<1>4. CASE ReadStart
  <2> DEFINE s == [DoTimer(http) EXCEPT !.ops = @ \cup {"read"}]
  <2>1. s.sock = http.sock
    BY <1>1, DoTimerLemma DEF HttpState
  <2>2. Leave(s)
    BY <1>4 DEF ReadStart
  <2> HIDE DEF s
  <2> QED
    BY <2>1, <2>2, <1>1, HandlerStep
<1> QED
  BY <1>2, <1>3, <1>4

LEMMA CloseStage ==
    ASSUME HInv, Busy, NEW s \in HttpState, Leave(DoClose(s)),
           http.sock = "moved" => s.sock = "moved"
    PROVE  ByItself
  BY DoCloseLemma, HandlerStep

LEMMA RequestStage ==
    ASSUME HInv, Answer \/ AnswerThrows \/ Upgrade \/ ReadFails \/ ReadAborted
    PROVE  ByItself
<1> DEFINE d == Done("read")
<1>1. Handles("read") /\ Room(http) /\ got \in Nat
  BY DEF Answer, AnswerThrows, Upgrade, ReadFails, ReadAborted, Request,
         Handles, HInv, HttpTypeOK
<1>2. /\ Busy /\ Base(d) /\ Room(d) /\ d.sock = http.sock /\ d \in HttpState
  BY <1>1, DoneLemma DEF Room, Base, Typed
<1>3. CASE Answer
  <2>1. PICK b \in BOOLEAN :
            LET s == Respond(d, [to |-> got + 1, last |-> b])
            IN  IF IsFull(s) THEN Leave(DoClose(s)) ELSE ThenRead(s)
    BY <1>3 DEF Answer
  <2> DEFINE s == Respond(d, [to |-> got + 1, last |-> b])
  <2> HIDE DEF d
  <2>2. [to |-> got + 1, last |-> b] \in Response
    BY <1>1 DEF Response
  <2>3. s \in HttpState /\ s.sock = http.sock
    BY <2>2, <1>2, RespondLemma DEF Base, Typed
  <2>4. IF IsFull(s) THEN Leave(DoClose(s)) ELSE ThenRead(s)
    BY <2>1
  <2> HIDE DEF s
  <2> QED
    BY <2>3, <2>4, <1>2, CloseStage, HandlerStep
<1>4. CASE AnswerThrows \/ ReadAborted
  <2>1. Leave(d)
    BY <1>4 DEF AnswerThrows, ReadAborted
  <2> HIDE DEF d
  <2> QED
    BY <2>1, <1>2, HandlerStep
<1>5. CASE ReadFails
  <2>1. Leave(DoClose(d))
    BY <1>5 DEF ReadFails
  <2> HIDE DEF d
  <2> QED
    BY <2>1, <1>2, CloseStage
<1>6. CASE Upgrade
  <2> DEFINE s == [d EXCEPT !.sock = "moved"]
  <2>1. Leave(DoClose(s))
    BY <1>6 DEF Upgrade
  <2> HIDE DEF d
  <2>2. s \in HttpState /\ s.sock = "moved"
    BY <1>2 DEF HttpState
  <2> HIDE DEF s
  <2> QED
    BY <2>1, <2>2, <1>2, CloseStage
<1> QED
  BY <1>3, <1>4, <1>5, <1>6

LEMMA WriteStage ==
    ASSUME HInv, WriteDone \/ WriteFails \/ WriteAborted
    PROVE  ByItself
<1>1. http \in HttpState /\ Base(http)
  BY DEF HInv, HttpTypeOK
<1>2. CASE WriteDone
  <2> DEFINE s == Done("write")
             t == PopFront(s)
  <2>1. /\ Handles("write")
        /\ IF Head(s.items).last THEN Leave(DoClose(s))
           ELSE IF IsFull(s) THEN ThenRead(t) ELSE Leave(t)
    BY <1>2 DEF WriteDone
  <2>2. /\ Busy /\ Base(s) /\ s.ops = http.ops \ {"write"}
        /\ s.sock = http.sock /\ s.items = http.items /\ s \in HttpState
    BY <2>1, DoneLemma DEF Base, Typed
  <2>3. s.ops \cap Write = {} /\ s.items # <<>>
    BY <2>1, <2>2, <1>1 DEF Base, Writes, Write, Handles
  <2> HIDE DEF s
  <2>4. CASE Head(s.items).last
    BY <2>1, <2>2, <2>4, CloseStage
  <2>5. CASE ~ Head(s.items).last
    <3>1. t.sock = s.sock
      BY <2>2, <2>3, <2>5, PopFrontLemma DEF Base
    <3> HIDE DEF t
    <3> QED
      BY <3>1, <2>1, <2>2, <2>5, HandlerStep
  <2> QED
    BY <2>4, <2>5
<1>3. CASE WriteFails \/ WriteAborted
  <2>1. PICK o \in Write : /\ Handles(o)
                           /\ Leave(DoClose(Done(o))) \/ Leave(Done(o))
    BY <1>3 DEF WriteFails, WriteAborted, Write
  <2>2. Busy /\ Done(o) \in HttpState /\ Done(o).sock = http.sock
    BY <2>1, DoneLemma DEF Base, Typed
  <2> QED
    BY <2>1, <2>2, CloseStage, HandlerStep
<1> QED
  BY <1>2, <1>3

LEMMA TimerStage ==
    ASSUME HInv, TimerCloses \/ TimerAborted \/ TimerExpires
    PROVE  ByItself
<1>1. http \in HttpState /\ Busy /\ life = "running"
  <2>1. Busy
    BY DEF TimerCloses, TimerAborted, TimerExpires, Busy
  <2> QED
    BY <2>1, BusyRuns DEF HInv, HttpTypeOK
<1>2. CASE TimerCloses
  <2> DEFINE s == [http EXCEPT !.timer = "idle",
                               !.sock = IF @ = "moved" THEN @ ELSE "closed"]
  <2>1. Leave(s) /\ (http.sock = "moved" => s.sock = "moved")
    BY <1>1, <1>2 DEF TimerCloses, HttpState
  <2> HIDE DEF s
  <2> QED
    BY <2>1, <1>1, HandlerStep
<1>3. CASE TimerAborted
  <2> DEFINE s == [http EXCEPT !.aborted = @ - 1]
  <2>1. Leave(s) /\ s.sock = http.sock
    BY <1>1, <1>3 DEF TimerAborted, HttpState
  <2> HIDE DEF s
  <2> QED
    BY <2>1, <1>1, HandlerStep
<1>4. CASE TimerExpires
  <2>1. /\ http'.sock = http.sock /\ Busy' /\ life' = "running"
        /\ UNCHANGED <<closer, erases>>
    BY <1>1, <1>4 DEF TimerExpires, HttpState, Busy
  <2> QED
    BY <2>1, <1>1, OthersStay
<1> QED
  BY <1>2, <1>3, <1>4

\* The strand of the set: do_close() in two halves, run() and the erase.
LEMMA OutsideStage ==
    ASSUME HInv, CloseShut \/ CloseCancel \/ Run \/ Erase
    PROVE  Unseen \/ Inserted \/ ShutDown \/ Erased
<1>1. http \in HttpState /\ erases \in Nat
  BY DEF HInv, HttpTypeOK
<1>2. CASE CloseShut
  <2>1. /\ http'.ops = http.ops /\ http'.timer = http.timer
        /\ http'.aborted = http.aborted
        /\ (http'.sock = "moved" <=> http.sock = "moved")
    BY <1>1, <1>2, ShutLemma DEF CloseShut
  <2>2. StageOf' = StageOf
    BY <2>1, <1>2 DEF CloseShut, StageOf, Busy
  <2> QED
    BY <2>2, <1>2 DEF CloseShut, Unseen
<1>3. CASE CloseCancel
  <2>1. /\ http'.ops = http.ops /\ http'.sock = http.sock
        /\ (http.timer = "armed" =>
                http'.timer = "idle" /\ http'.aborted > 0)
        /\ (http.timer # "armed" => http' = http)
    BY <1>1, <1>3, StopTimerLemma DEF CloseCancel
  <2>2. Busy' = Busy /\ life' = life
    BY <2>1, <1>3 DEF CloseCancel, Busy
  <2>3. StageOf' = StageOf \/ (StageOf = "live" /\ StageOf' = "shut")
    BY <2>1, <2>2, <1>3 DEF CloseCancel, StageOf
  <2> QED
    BY <2>3, <1>3 DEF CloseCancel, Unseen, ShutDown
<1>4. CASE Run
  <2> DEFINE u == DoTimer(StopTimer(DoTimer(http)))
  <2>1. u \in HttpState /\ u.sock = "open"
    BY <1>1, <1>4, DoTimerLemma, StopTimerLemma DEF Run, HInv
  <2>2. http' = [u EXCEPT !.ops = {"read"}]
    BY <1>4 DEF Run
  <2> HIDE DEF u
  <2>3. http'.sock = "open" /\ http'.ops = {"read"}
    BY <2>1, <2>2 DEF HttpState
  <2>4. life' = "running" /\ closer' = "none" /\ Busy'
    BY <2>3, <1>4 DEF Run, Busy, HInv
  <2>5. StageOf' = "live"
    BY <2>3, <2>4 DEF StageOf
  <2> QED
    BY <2>5, <1>4 DEF Run, Inserted
<1>5. CASE Erase
  <2>1. ~ Busy /\ erases = 1 /\ life = "running" /\ life' = "gone"
        /\ erases' = erases - 1
    BY <1>5 DEF Erase, HInv, HttpErasedAfterLast
  <2>2. StageOf = "done" /\ StageOf' = "none"
    BY <2>1 DEF StageOf
  <2> QED
    BY <2>1, <2>2 DEF Erased
<1> QED
  BY <1>2, <1>3, <1>4, <1>5

\* Whatever a handler of http_session does, to the set it is a move of the
\* socket, the call of async_erase() or nothing: the session of the module
\* HttpSessions stands for every session.
THEOREM HttpStepsAsInSet == HttpSpec => StageSteps
<1>1. HInv /\ [HttpNext]_httpVars =>
          [Unseen \/ Inserted \/ ShutDown \/ Erased
               \/ Sessions!Move("session")
               \/ Sessions!SessionEnds("session")]_httpVars
  BY ReadStage, RequestStage, WriteStage, TimerStage, OutsideStage
     DEF HttpNext, ByItself
<1> QED
  BY <1>1, HInvInit, HInvStep, PTL DEF HttpSpec, StageSteps

-----------------------------------------------------------------------------
(* The session is not forgotten *)

\* A socket that has moved is not read any more.
MovedInv == http.sock = "moved" => "read" \notin http.ops /\ pc # "wait"

\* What the executor, the time or the set will go on with: an erase, a
\* handler of the timer, the rest of do_read(), or an operation that cannot
\* but complete.
HttpDue ==
    \/ erases > 0 \/ pc # "idle" \/ http.timer # "idle" \/ http.aborted > 0
    \/ "badWrite" \in http.ops
    \/ http.sock \in {"shut", "closed"} /\ http.ops # {}

\* A state that does not read from a moved socket.
NotRead(s) == s.sock = "moved" => "read" \notin s.ops

LEMMA HandlerMoved ==
    ASSUME NEW s, Leave(s) \/ ThenRead(s), NotRead(s) PROVE MovedInv'
  BY DEF Leave, ThenRead, NotRead, MovedInv

LEMMA CloseMoved ==
    ASSUME NEW s \in HttpState, Leave(DoClose(s)), NotRead(s)
    PROVE  MovedInv'
<1> DEFINE t == DoClose(s)
<1>1. t.ops = s.ops /\ (t.sock = "moved" => s.sock = "moved")
  BY DoCloseLemma
<1>2. NotRead(t) /\ Leave(t)
  BY <1>1 DEF NotRead
<1> HIDE DEF t
<1> QED
  BY <1>2, HandlerMoved

LEMMA DoneMoved ==
    ASSUME HInv, MovedInv, NEW o, Handles(o)
    PROVE  NotRead(Done(o)) /\ Done(o) \in HttpState
  BY DoneLemma DEF MovedInv, NotRead, Base, Typed

LEMMA RequestMoved ==
    ASSUME HInv, MovedInv,
           Answer \/ AnswerThrows \/ Upgrade \/ ReadFails \/ ReadAborted
    PROVE  MovedInv'
<1> DEFINE d == Done("read")
<1>1. Handles("read") /\ Room(http) /\ got \in Nat
  BY DEF Answer, AnswerThrows, Upgrade, ReadFails, ReadAborted, Request,
         Handles, HInv, HttpTypeOK
<1>2. /\ Base(d) /\ Room(d) /\ d \in HttpState /\ NotRead(d)
      /\ d.sock = http.sock /\ d.ops = http.ops \ {"read"}
  BY <1>1, DoneLemma, DoneMoved DEF Room
<1>3. CASE Answer
  <2>1. PICK b \in BOOLEAN :
            LET s == Respond(d, [to |-> got + 1, last |-> b])
            IN  IF IsFull(s) THEN Leave(DoClose(s)) ELSE ThenRead(s)
    BY <1>3 DEF Answer
  <2> DEFINE s == Respond(d, [to |-> got + 1, last |-> b])
  <2> HIDE DEF d
  <2>2. [to |-> got + 1, last |-> b] \in Response
    BY <1>1 DEF Response
  <2>3. /\ s \in HttpState /\ s.sock = d.sock
        /\ s.ops \ Write = d.ops \ Write
    BY <2>2, <1>2, RespondLemma DEF Base, Typed
  <2>4. NotRead(s)
    BY <2>3, <1>2 DEF NotRead, Write
  <2>5. IF IsFull(s) THEN Leave(DoClose(s)) ELSE ThenRead(s)
    BY <2>1
  <2> HIDE DEF s
  <2> QED
    BY <2>3, <2>4, <2>5, CloseMoved, HandlerMoved
<1>4. CASE AnswerThrows \/ ReadAborted
  <2>1. Leave(d)
    BY <1>4 DEF AnswerThrows, ReadAborted
  <2> HIDE DEF d
  <2> QED
    BY <2>1, <1>2, HandlerMoved
<1>5. CASE ReadFails
  <2>1. Leave(DoClose(d))
    BY <1>5 DEF ReadFails
  <2> HIDE DEF d
  <2> QED
    BY <2>1, <1>2, CloseMoved
<1>6. CASE Upgrade
  <2> DEFINE s == [d EXCEPT !.sock = "moved"]
  <2>1. Leave(DoClose(s))
    BY <1>6 DEF Upgrade
  <2> HIDE DEF d
  <2>2. s \in HttpState /\ s.ops = d.ops
    BY <1>2 DEF HttpState
  <2>3. NotRead(s)
    BY <2>2, <1>2 DEF NotRead
  <2> HIDE DEF s
  <2> QED
    BY <2>1, <2>2, <2>3, CloseMoved
<1> QED
  BY <1>3, <1>4, <1>5, <1>6

LEMMA WriteMoved ==
    ASSUME HInv, MovedInv, WriteDone \/ WriteFails \/ WriteAborted
    PROVE  MovedInv'
<1>1. http \in HttpState /\ Base(http)
  BY DEF HInv, HttpTypeOK
<1>2. CASE WriteDone
  <2> DEFINE s == Done("write")
             t == PopFront(s)
  <2>1. /\ Handles("write")
        /\ IF Head(s.items).last THEN Leave(DoClose(s))
           ELSE IF IsFull(s) THEN ThenRead(t) ELSE Leave(t)
    BY <1>2 DEF WriteDone
  <2>2. /\ Base(s) /\ s.ops = http.ops \ {"write"} /\ s.items = http.items
        /\ s \in HttpState /\ NotRead(s)
    BY <2>1, DoneLemma, DoneMoved
  <2>3. s.ops \cap Write = {} /\ s.items # <<>>
    BY <2>1, <2>2, <1>1 DEF Base, Writes, Write, Handles
  <2> HIDE DEF s
  <2>4. CASE Head(s.items).last
    BY <2>1, <2>2, <2>4, CloseMoved
  <2>5. CASE ~ Head(s.items).last
    <3>1. t.sock = s.sock /\ t.ops \ Write = s.ops \ Write
      BY <2>2, <2>3, <2>5, PopFrontLemma DEF Base
    <3>2. NotRead(t)
      BY <3>1, <2>2 DEF NotRead, Write
    <3> HIDE DEF t
    <3> QED
      BY <3>2, <2>1, <2>5, HandlerMoved
  <2> QED
    BY <2>4, <2>5
<1>3. CASE WriteFails \/ WriteAborted
  <2>1. PICK o \in Write : /\ Handles(o)
                           /\ Leave(DoClose(Done(o))) \/ Leave(Done(o))
    BY <1>3 DEF WriteFails, WriteAborted, Write
  <2> QED
    BY <2>1, DoneMoved, CloseMoved, HandlerMoved
<1> QED
  BY <1>2, <1>3

LEMMA OthersMoved ==
    ASSUME HInv, MovedInv,
           \/ ReadNot \/ ReadCancel \/ ReadStart
           \/ TimerCloses \/ TimerAborted \/ TimerExpires
           \/ CloseShut \/ CloseCancel \/ Run \/ Erase
    PROVE  MovedInv'
<1>1. http \in HttpState
  BY DEF HInv, HttpTypeOK
<1>2. CASE ReadNot
  BY <1>2 DEF ReadNot, Leave, MovedInv
<1>3. CASE ReadCancel \/ CloseCancel
  <2>1. http' = StopTimer(http) /\ (http.sock # "moved" \/ pc' = pc)
    BY <1>3 DEF ReadCancel, CloseCancel
  <2> QED
    BY <2>1, <1>1, StopTimerLemma DEF MovedInv
<1>4. CASE ReadStart
  <2> DEFINE s == [DoTimer(http) EXCEPT !.ops = @ \cup {"read"}]
  <2>1. s.sock = http.sock
    BY <1>1, DoTimerLemma DEF HttpState
  <2>2. Leave(s) /\ http.sock # "moved"
    BY <1>4 DEF ReadStart, MovedInv
  <2>3. NotRead(s)
    BY <2>1, <2>2 DEF NotRead
  <2> HIDE DEF s
  <2> QED
    BY <2>2, <2>3, HandlerMoved
<1>5. CASE TimerCloses
  <2> DEFINE s == [http EXCEPT !.timer = "idle",
                               !.sock = IF @ = "moved" THEN @ ELSE "closed"]
  <2>1. Leave(s) /\ NotRead(s)
    BY <1>1, <1>5 DEF TimerCloses, HttpState, NotRead, MovedInv
  <2> HIDE DEF s
  <2> QED
    BY <2>1, HandlerMoved
<1>6. CASE TimerAborted
  <2> DEFINE s == [http EXCEPT !.aborted = @ - 1]
  <2>1. Leave(s) /\ NotRead(s)
    BY <1>1, <1>6 DEF TimerAborted, HttpState, NotRead, MovedInv
  <2> HIDE DEF s
  <2> QED
    BY <2>1, HandlerMoved
<1>7. CASE TimerExpires
  BY <1>1, <1>7 DEF TimerExpires, HttpState, MovedInv
<1>8. CASE CloseShut
  <2>1. /\ http'.ops = http.ops /\ pc' = pc
        /\ (http'.sock = "moved" => http.sock = "moved")
    BY <1>1, <1>8, ShutLemma DEF CloseShut
  <2> QED
    BY <2>1 DEF MovedInv
<1>9. CASE Run
  <2> DEFINE u == DoTimer(StopTimer(DoTimer(http)))
  <2>1. u \in HttpState /\ u.sock = "open"
    BY <1>1, <1>9, DoTimerLemma, StopTimerLemma DEF Run, HInv
  <2>2. http' = [u EXCEPT !.ops = {"read"}]
    BY <1>9 DEF Run
  <2> HIDE DEF u
  <2> QED
    BY <2>1, <2>2 DEF HttpState, MovedInv
<1>10. CASE Erase
  BY <1>10 DEF Erase, MovedInv
<1> QED
  BY <1>2, <1>3, <1>4, <1>5, <1>6, <1>7, <1>8, <1>9, <1>10

\* Whatever the peer, the request handlers and the set have done, a session
\* in the set has something that brings it further without the peer, down to
\* its async_erase(); only on a socket that has moved to a WebSocket session
\* may it wait for a response that is still being written.
THEOREM HttpNotForgotten ==
    HttpSpec => [](life = "running" =>
                       HttpDue \/ (http.sock = "moved" /\ http.ops = {"write"}))
<1>1. HttpInit => HInv /\ MovedInv
  <2>1. HttpInit => MovedInv
    BY DEF HttpInit, MovedInv
  <2> QED
    BY <2>1, HInvInit
<1>2. HInv /\ MovedInv /\ [HttpNext]_httpVars => (HInv /\ MovedInv)'
  <2> SUFFICES ASSUME HInv, MovedInv, [HttpNext]_httpVars
               PROVE  MovedInv'
    BY HInvStep
  <2>1. CASE UNCHANGED httpVars
    BY <2>1 DEF httpVars, MovedInv
  <2>2. CASE HttpNext
    BY <2>2, RequestMoved, WriteMoved, OthersMoved DEF HttpNext
  <2> QED
    BY <2>1, <2>2
<1>3. HInv /\ MovedInv /\ life = "running"
          => HttpDue \/ (http.sock = "moved" /\ http.ops = {"write"})
  <2> SUFFICES ASSUME HInv, MovedInv, life = "running", ~ HttpDue
               PROVE  http.sock = "moved" /\ http.ops = {"write"}
    OBVIOUS
  <2>1. /\ http.sock \in {"open", "shut", "closed", "moved"}
        /\ http.ops \subseteq {"read", "write", "badWrite"}
        /\ http.aborted \in Nat /\ erases \in Nat
    BY DEF HInv, HttpTypeOK, HttpState
  <2>2. Busy /\ http.ops # {}
    BY <2>1 DEF HttpDue, Busy, HInv, HttpErasedAfterLast
  <2>3. http.sock # "open"
    BY DEF HttpDue, HInv, Timed
  <2> QED
    BY <2>1, <2>2, <2>3 DEF HttpDue, MovedInv
<1> QED
  BY <1>1, <1>2, <1>3, PTL DEF HttpSpec
=============================================================================
