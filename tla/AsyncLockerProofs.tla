------------------------- MODULE AsyncLockerProofs --------------------------
(***************************************************************************)
(* Proofs about async_locker, for any number of threads and of locks.      *)
(*                                                                         *)
(* CountInv is inductive whoever calls make_lock() and however often       *)
(* make_first_lock() succeeds: the counter is always exact.  That the      *)
(* callback is the end, and with it the refinement of the latch, rests on  *)
(* EndInv as well, which is inductive where every caller of make_lock()    *)
(* holds a lock and make_first_lock() succeeds once.                       *)
(***************************************************************************)
EXTENDS AsyncLocker, FiniteSetTheorems, TLAPS

\* The two ways the program uses a locker that the latch depends on.
Disciplined == Outsider = {} /\ MaxFirst = 1

CountInv ==
    /\ LockerTypeOK
    /\ IsFiniteSet(live) /\ IsFiniteSet(Phantom)
    /\ CountExact

\* The callback has been called, or a thread is on the way to it.
Ended == fired > 0 \/ \E t \in Thread : pc[t] = "last"

EndInv ==
    /\ Ended => live = {} /\ count = 0 /\ firsts = 1
    /\ fired = 0 \/ (fired = 1 /\ \A t \in Thread : pc[t] # "last")
    /\ \A t, u \in Thread : pc[t] = "last" /\ pc[u] = "last" => t = u
    /\ firsts = 0 => count = 0
    /\ \A t, u \in Phantom : t = u
    /\ \A t \in Thread : pc[t] \in {"first", "firstChecked"} => live = {}
    /\ \A t \in Thread : pc[t] \in {"checked", "undo"} => Holds(t)
    /\ live # {} => firsts = 1

-----------------------------------------------------------------------------
(* Lemmas *)

\* The sets that CountExact counts have a cardinality, and a counter that
\* reads zero means that both are empty.
LEMMA Cardinalities ==
    ASSUME CountInv
    PROVE  /\ Cardinality(live) \in Nat /\ Cardinality(Phantom) \in Nat
           /\ count = 0 <=> live = {} /\ Phantom = {}
<1>1. Cardinality(live) \in Nat /\ Cardinality(Phantom) \in Nat
  BY FS_CardinalityType DEF CountInv
<1>2. /\ Cardinality(live) = 0 <=> live = {}
      /\ Cardinality(Phantom) = 0 <=> Phantom = {}
  BY FS_EmptySet DEF CountInv
<1> QED
  BY <1>1, <1>2 DEF CountInv, CountExact

\* How a thread's move from one place to another changes Phantom.
LEMMA PhantomMoves ==
    ASSUME LockerTypeOK, NEW t \in Thread, NEW from, NEW to,
           Goto(t, from, to)
    PROVE  LET In == {"first", "firstChecked", "undo"}
           IN  /\ pc[t] = from
               /\ pc' = [pc EXCEPT ![t] = to]
               /\ pc'[t] = to
               /\ from \in In => t \in Phantom
               /\ from \notin In => t \notin Phantom
               /\ to \in In => Phantom' = Phantom \cup {t}
               /\ to \notin In => Phantom' = Phantom \ {t}
  BY DEF Goto, Phantom, LockerTypeOK

\* A new lock: one more in live, none elsewhere.
LEMMA NewLockCounts ==
    ASSUME CountInv, NEW t \in Thread, NEW l, NewLock(t, l)
    PROVE  /\ count' = count + 1
           /\ IsFiniteSet(live')
           /\ Cardinality(live') = Cardinality(live) + 1
           /\ live' \in SUBSET Lock
           /\ holder' \in [Lock -> Thread \cup {Queue}]
<1>1. IsFiniteSet(live) /\ l \notin live
  BY DEF CountInv, NewLock
<1>2. /\ IsFiniteSet(live \cup {l})
      /\ Cardinality(live \cup {l}) = Cardinality(live) + 1
  BY <1>1, FS_AddElement
<1> QED
  BY <1>2 DEF NewLock, CountInv, LockerTypeOK

-----------------------------------------------------------------------------
(* The counter is exact *)

LEMMA CountInvInit == LockerInit => CountInv
<1> SUFFICES ASSUME LockerInit PROVE CountInv
  OBVIOUS
<1>1. LockerTypeOK
  BY LockerAssumption DEF LockerInit, LockerTypeOK
<1>2. live = {} /\ Phantom = {}
  BY DEF LockerInit, Phantom
<1>3. IsFiniteSet({}) /\ Cardinality({}) = 0
  BY FS_EmptySet
<1> QED
  BY <1>1, <1>2, <1>3 DEF CountInv, CountExact, LockerInit

LEMMA CountInvStep == CountInv /\ [LockerNext]_lockerVars => CountInv'
<1> SUFFICES ASSUME CountInv, [LockerNext]_lockerVars PROVE CountInv'
  OBVIOUS
<1> USE DEF CountInv
<1>u. CASE UNCHANGED lockerVars
  BY <1>u DEF lockerVars, LockerTypeOK, CountExact, Phantom
<1>c. /\ Cardinality(live) \in Nat /\ Cardinality(Phantom) \in Nat
      /\ count = Cardinality(live) + Cardinality(Phantom)
      /\ count = 0 <=> live = {} /\ Phantom = {}
  BY Cardinalities DEF CountExact
<1>p. ASSUME NEW t \in Thread
      PROVE  /\ IsFiniteSet(Phantom \cup {t}) /\ IsFiniteSet(Phantom \ {t})
             /\ Cardinality(Phantom \cup {t}) =
                    IF t \in Phantom THEN Cardinality(Phantom)
                                     ELSE Cardinality(Phantom) + 1
             /\ Cardinality(Phantom \ {t}) =
                    IF t \in Phantom THEN Cardinality(Phantom) - 1
                                     ELSE Cardinality(Phantom)
  BY FS_AddElement, FS_RemoveElement
<1> SUFFICES ASSUME NEW t \in Thread, Step(t) PROVE CountInv'
  BY <1>u DEF LockerNext
<1>t. pc \in [Thread -> {"idle", "first", "firstChecked", "undo",
                         "checked", "last"}]
  BY DEF LockerTypeOK
<1>1. CASE FirstCas(t)
  <2>1. Goto(t, "idle", "first") /\ UNCHANGED <<live, holder, fired>>
        /\ count' = 1 /\ count = 0 /\ firsts < MaxFirst
        /\ firsts' = firsts + 1
    BY <1>1 DEF FirstCas
  <2>2. Phantom' = Phantom \cup {t} /\ t \notin Phantom
    BY <2>1, PhantomMoves
  <2>3. CountExact' /\ IsFiniteSet(Phantom') /\ IsFiniteSet(live')
    BY <2>1, <2>2, <1>c, <1>p DEF CountExact
  <2>4. LockerTypeOK'
    BY <2>1, <1>t, LockerAssumption DEF LockerTypeOK, Goto
  <2> QED BY <2>3, <2>4
<1>2. CASE FirstCheck(t)
  <2>1. Goto(t, "first", "firstChecked")
        /\ UNCHANGED <<count, live, holder, firsts, fired>>
    BY <1>2 DEF FirstCheck
  <2>2. Phantom' = Phantom \cup {t} /\ t \in Phantom
    BY <2>1, PhantomMoves
  <2>3. CountExact' /\ IsFiniteSet(Phantom') /\ IsFiniteSet(live')
    BY <2>1, <2>2, <1>c, <1>p DEF CountExact
  <2>4. LockerTypeOK'
    BY <2>1, <1>t DEF LockerTypeOK, Goto
  <2> QED BY <2>3, <2>4
<1>3. CASE FirstUndo(t)
  <2>1. Goto(t, "undo", "idle") /\ UNCHANGED <<live, holder, firsts, fired>>
        /\ count' = count - 1
    BY <1>3 DEF FirstUndo
  <2>2. Phantom' = Phantom \ {t} /\ t \in Phantom
    BY <2>1, PhantomMoves
  <2>3. CountExact' /\ IsFiniteSet(Phantom') /\ IsFiniteSet(live')
    BY <2>1, <2>2, <1>c, <1>p DEF CountExact
  <2>4. count' \in Nat
    BY <2>1, <2>2, <1>c
  <2>5. LockerTypeOK'
    BY <2>1, <2>4, <1>t DEF LockerTypeOK, Goto
  <2> QED BY <2>3, <2>5
<1>4. CASE Check(t)
  <2>1. Goto(t, "idle", "checked")
        /\ UNCHANGED <<count, live, holder, firsts, fired>>
    BY <1>4 DEF Check
  <2>2. Phantom' = Phantom
    BY <2>1, PhantomMoves
  <2>3. CountExact' /\ IsFiniteSet(Phantom') /\ IsFiniteSet(live')
    BY <2>1, <2>2 DEF CountExact
  <2>4. LockerTypeOK'
    BY <2>1, <1>t DEF LockerTypeOK, Goto
  <2> QED BY <2>3, <2>4
<1>5. CASE Callback(t)
  <2>1. Goto(t, "last", "idle") /\ UNCHANGED <<count, live, holder, firsts>>
        /\ fired' = fired + 1
    BY <1>5 DEF Callback
  <2>2. Phantom' = Phantom
    BY <2>1, PhantomMoves
  <2>3. CountExact' /\ IsFiniteSet(Phantom') /\ IsFiniteSet(live')
    BY <2>1, <2>2 DEF CountExact
  <2>4. LockerTypeOK'
    BY <2>1, <1>t DEF LockerTypeOK, Goto
  <2> QED BY <2>3, <2>4
<1>6. CASE \E l \in Lock : FirstLock(t, l)
  <2> SUFFICES ASSUME NEW l \in Lock, FirstLock(t, l) PROVE CountInv'
    BY <1>6
  <2>1. Goto(t, "firstChecked", "undo") /\ NewLock(t, l)
    BY DEF FirstLock
  <2>2. Phantom' = Phantom \cup {t} /\ t \in Phantom
    BY <2>1, PhantomMoves
  <2>3. CountExact' /\ IsFiniteSet(Phantom') /\ IsFiniteSet(live')
    BY <2>1, <2>2, <1>c, <1>p, NewLockCounts DEF CountExact
  <2>4. LockerTypeOK'
    BY <2>1, <1>t, NewLockCounts DEF LockerTypeOK, Goto, NewLock
  <2> QED BY <2>3, <2>4
<1>7. CASE \E l \in Lock : MakeLock(t, l)
  <2> SUFFICES ASSUME NEW l \in Lock, MakeLock(t, l) PROVE CountInv'
    BY <1>7
  <2>1. Goto(t, "checked", "idle") /\ NewLock(t, l)
    BY DEF MakeLock
  <2>2. Phantom' = Phantom
    BY <2>1, PhantomMoves
  <2>3. CountExact' /\ IsFiniteSet(Phantom') /\ IsFiniteSet(live')
    BY <2>1, <2>2, <1>c, NewLockCounts DEF CountExact
  <2>4. LockerTypeOK'
    BY <2>1, <1>t, NewLockCounts DEF LockerTypeOK, Goto, NewLock
  <2> QED BY <2>3, <2>4
<1>8. CASE \E l \in Lock : Unlock(t, l)
  <2> SUFFICES ASSUME NEW l \in Lock, Unlock(t, l) PROVE CountInv'
    BY <1>8
  <2> DEFINE to == IF count' = 0 THEN "last" ELSE "idle"
  <2>1. Goto(t, "idle", to) /\ l \in live /\ live' = live \ {l}
        /\ count' = count - 1 /\ UNCHANGED <<firsts, fired>>
        /\ holder' = [holder EXCEPT ![l] = Queue]
    BY DEF Unlock
  <2>2. to \in {"idle", "last"}
    OBVIOUS
  <2> HIDE DEF to
  <2>3. Phantom' = Phantom
    BY <2>1, <2>2, PhantomMoves
  <2>4. IsFiniteSet(live') /\ Cardinality(live') = Cardinality(live) - 1
    BY <2>1, FS_RemoveElement
  <2>5. CountExact' /\ count' \in Nat
    <3>1. count # 0
      BY <2>1, <1>c
    <3> QED BY <3>1, <2>1, <2>3, <2>4, <1>c DEF CountExact, LockerTypeOK
  <2>6. LockerTypeOK'
    BY <2>1, <2>2, <2>5, <1>t DEF LockerTypeOK, Goto
  <2> QED BY <2>3, <2>4, <2>5, <2>6
<1>9. CASE \E l \in Lock : MoveLock(t, l)
  <2>1. UNCHANGED <<count, live, pc, firsts, fired>>
        /\ holder' \in [Lock -> Thread \cup {Queue}]
    BY <1>9 DEF MoveLock, LockerTypeOK
  <2> QED BY <2>1 DEF LockerTypeOK, CountExact, Phantom
<1> QED
  BY <1>1, <1>2, <1>3, <1>4, <1>5, <1>6, <1>7, <1>8, <1>9 DEF Step

\* make_lock() and the destructors leave the counter at a number: it is never
\* decremented below zero, whoever calls and however often
\* make_first_lock() succeeds.
THEOREM LockerTyped == LockerSpec => []LockerTypeOK
<1>1. CountInv => LockerTypeOK
  BY DEF CountInv
<1> QED
  BY <1>1, CountInvInit, CountInvStep, PTL DEF LockerSpec

\* lock_count_ counts the live locks, and no compare-and-swap that is not
\* undone: for any threads, any locks and any callers of make_lock().
THEOREM LockerCount == LockerSpec => [](LockerTypeOK /\ CountExact)
<1>1. CountInv => LockerTypeOK /\ CountExact
  BY DEF CountInv
<1> QED
  BY <1>1, CountInvInit, CountInvStep, PTL DEF LockerSpec

\* A thread that holds a lock never reads zero in make_lock(): a running
\* handler can always start a further operation.
THEOREM LockerHolder == LockerSpec => []HolderNeverRefused
<1>1. CountInv => HolderNeverRefused
  BY Cardinalities DEF HolderNeverRefused, Holds
<1> QED
  BY <1>1, CountInvInit, CountInvStep, PTL DEF LockerSpec

-----------------------------------------------------------------------------
(* The callback is the end *)

LEMMA EndInvInit == LockerInit => EndInv
  BY DEF LockerInit, EndInv, Phantom, Ended, Holds

\* A lock that a thread keeps: what t holds, it holds after a step of
\* another thread.
LEMMA HoldsKept ==
    ASSUME CountInv, NEW t \in Thread, Step(t), NEW u \in Thread, u # t,
           Holds(u)
    PROVE  Holds(u)'
<1>1. PICK l \in live : holder[l] = u
  BY DEF Holds
<1>2. u # Queue /\ l \in Lock /\ holder \in [Lock -> Thread \cup {Queue}]
  BY LockerAssumption DEF CountInv, LockerTypeOK
<1>3. l \in live' /\ holder'[l] = u
  BY <1>1, <1>2 DEF Step, FirstCas, FirstCheck, FirstUndo, Check, Callback,
     FirstLock, MakeLock, NewLock, Unlock, MoveLock
<1> QED
  BY <1>3 DEF Holds

LEMMA EndInvStep ==
    Disciplined /\ CountInv /\ EndInv /\ [LockerNext]_lockerVars => EndInv'
<1> SUFFICES ASSUME Disciplined, CountInv, EndInv, [LockerNext]_lockerVars
             PROVE  EndInv'
  OBVIOUS
<1>u. CASE UNCHANGED lockerVars
  BY <1>u DEF lockerVars, EndInv, Phantom, Ended, Holds
<1> SUFFICES ASSUME NEW t \in Thread, Step(t) PROVE EndInv'
  BY <1>u DEF LockerNext
<1>c. /\ count \in Nat /\ firsts \in 0..1 /\ fired \in Nat
      /\ live \in SUBSET Lock
      /\ holder \in [Lock -> Thread \cup {Queue}]
      /\ pc \in [Thread -> {"idle", "first", "firstChecked", "undo",
                            "checked", "last"}]
  BY DEF CountInv, LockerTypeOK, Disciplined
<1>z. count = 0 <=> live = {} /\ Phantom = {}
  BY Cardinalities
<1>h. \A u \in Thread : u # t /\ Holds(u) => Holds(u)'
  BY HoldsKept
<1>q. \A u \in Thread : u # Queue
  BY LockerAssumption
<1>1. CASE FirstCas(t)
  <2>1. live = {} /\ firsts = 0 /\ fired = 0
        /\ \A u \in Thread : pc[u] # "last"
    BY <1>1, <1>z, <1>c DEF FirstCas, Disciplined, EndInv, Phantom, Ended
  <2> QED
    BY <1>1, <2>1, <1>c, <1>h, <1>z DEF FirstCas, Goto, EndInv, Phantom, Ended
<1>2. CASE FirstCheck(t)
  BY <1>2, <1>c, <1>h DEF FirstCheck, Goto, EndInv, Phantom, Ended
<1>3. CASE FirstUndo(t)
  <2>1. t \in Phantom /\ Holds(t)
    BY <1>3 DEF FirstUndo, Goto, Phantom, EndInv
  <2>2. live # {} /\ firsts = 1 /\ ~ Ended
    BY <2>1 DEF Holds, EndInv, Phantom
  <2> QED
    BY <1>3, <2>2, <1>c, <1>h
    DEF FirstUndo, Goto, EndInv, Phantom, Ended, Holds
<1>4. CASE Check(t)
  <2>1. Holds(t)
    BY <1>4 DEF Check, Disciplined
  <2> QED
    BY <1>4, <2>1, <1>c, <1>h DEF Check, Goto, EndInv, Phantom, Ended, Holds
<1>5. CASE Callback(t)
  <2>1. fired = 0 /\ \A u \in Thread : pc[u] = "last" => u = t
    BY <1>5 DEF Callback, Goto, EndInv, Phantom
  <2> QED
    BY <1>5, <2>1, <1>c, <1>h DEF Callback, Goto, EndInv, Phantom, Ended, Holds
<1>6. CASE \E l \in Lock : FirstLock(t, l)
  <2> SUFFICES ASSUME NEW l \in Lock, FirstLock(t, l) PROVE EndInv'
    BY <1>6
  <2>1. t \in Phantom /\ live = {}
    BY DEF FirstLock, Goto, Phantom, EndInv
  <2>2. count > 0 /\ firsts = 1 /\ ~ Ended
    BY <2>1, <1>z, <1>c DEF EndInv, Phantom
  <2>3. l \in live' /\ holder'[l] = t /\ count' = count + 1
        /\ UNCHANGED <<firsts, fired>>
    BY <1>c DEF FirstLock, NewLock
  <2>4. \A u \in Thread \ {t} : pc[u] \notin {"first", "firstChecked"}
    BY <2>1 DEF EndInv, Phantom
  <2> QED
    BY <2>2, <2>3, <2>4, <1>c, <1>h
    DEF FirstLock, Goto, EndInv, Phantom, Ended, Holds
<1>7. CASE \E l \in Lock : MakeLock(t, l)
  <2> SUFFICES ASSUME NEW l \in Lock, MakeLock(t, l) PROVE EndInv'
    BY <1>7
  <2>1. Holds(t)
    BY DEF MakeLock, Goto, EndInv, Phantom
  <2>2. live # {} /\ firsts = 1 /\ ~ Ended /\ count # 0
    BY <2>1, <1>z DEF EndInv, Phantom, Holds
  <2> QED
    BY <2>2, <1>c, <1>h DEF MakeLock, NewLock, Goto, EndInv, Phantom, Ended
<1>8. CASE \E l \in Lock : Unlock(t, l)
  <2> SUFFICES ASSUME NEW l \in Lock, Unlock(t, l) PROVE EndInv'
    BY <1>8
  <2>1. firsts = 1 /\ ~ Ended /\ count # 0
    BY <1>z DEF Unlock, EndInv, Phantom
  <2>2. CountInv' /\ (count' = 0 => live' = {})
    <3>1. CountInv'
      BY CountInvStep
    <3>2. /\ IsFiniteSet(live') /\ IsFiniteSet(Phantom')
          /\ count' = Cardinality(live') + Cardinality(Phantom')
      BY <3>1 DEF CountInv, CountExact
    <3>3. /\ Cardinality(live') \in Nat /\ Cardinality(Phantom') \in Nat
          /\ Cardinality(live') = 0 => live' = {}
      BY <3>2, FS_CardinalityType, FS_EmptySet
    <3> QED
      BY <3>1, <3>2, <3>3
  <2> QED
    BY <2>1, <2>2, <1>c, <1>h DEF Unlock, Goto, EndInv, Phantom, Ended
<1>9. CASE \E l \in Lock : MoveLock(t, l)
  BY <1>9, <1>c, <1>h DEF MoveLock, EndInv, Phantom, Ended
<1> QED
  BY <1>1, <1>2, <1>3, <1>4, <1>5, <1>6, <1>7, <1>8, <1>9 DEF Step

\* Where every caller of make_lock() holds a lock and make_first_lock()
\* succeeds once, the callback runs at most once, after the last lock, and no
\* lock is made after it.
THEOREM LockerLastAsync ==
    ASSUME Disciplined
    PROVE  LockerSpec => []LastAsyncIsLast
<1>1. CountInv /\ EndInv => LastAsyncIsLast
  BY DEF EndInv, Ended, LastAsyncIsLast
<1>2. EndInv /\ CountInv /\ [LockerNext]_lockerVars => EndInv'
  BY EndInvStep
<1> QED
  BY <1>1, <1>2, CountInvInit, CountInvStep, EndInvInit, PTL DEF LockerSpec

-----------------------------------------------------------------------------
(* The refinement of the latch *)

\* The phase of the latch, for the steps that the proof compares.
Phase == IF fired > 0 THEN "ended"
         ELSE IF firsts = 0 \/ \E t \in Thread :
                     pc[t] \in {"first", "firstChecked"}
              THEN "fresh" ELSE "busy"

\* What the steps of the latch are in terms of the locker.
Begins(l) == Phase = "fresh" /\ Phase' = "busy" /\ live' = {l}
Enters(l) == /\ Phase = "busy" /\ Phase' = "busy" /\ live # {}
             /\ l \notin live /\ live' = live \cup {l}
Leaves(l) == /\ Phase = "busy" /\ Phase' = "busy"
             /\ l \in live /\ live' = live \ {l}
Finishes == /\ Phase = "busy" /\ Phase' = "ended"
            /\ live = {} /\ live' = live
Moves == \/ \E l \in Lock : Begins(l) \/ Enters(l) \/ Leaves(l)
         \/ Finishes
         \/ UNCHANGED <<Phase, live>>

LEMMA LatchInitially == LockerInit => Latch!LatchInit
  BY DEF LockerInit, Latch!LatchInit

LEMMA LatchStep ==
    Disciplined /\ CountInv /\ EndInv /\ [LockerNext]_lockerVars
        => [Latch!LatchNext]_(Latch!latchVars)
<1> SUFFICES ASSUME Disciplined, CountInv, EndInv, [LockerNext]_lockerVars
             PROVE  Moves
  BY DEF Moves, Begins, Enters, Leaves, Finishes, Latch!LatchNext,
     Latch!latchVars, Latch!Begin, Latch!Enter, Latch!Leave, Latch!Finish,
     Phase
<1>u. CASE UNCHANGED lockerVars
  BY <1>u DEF lockerVars, Phase, Moves
<1> SUFFICES ASSUME NEW t \in Thread, Step(t)
             PROVE  Moves
  BY <1>u DEF LockerNext
<1>c. /\ count \in Nat /\ firsts \in 0..1 /\ fired \in Nat
      /\ pc \in [Thread -> {"idle", "first", "firstChecked", "undo",
                            "checked", "last"}]
      /\ count = 0 => Phantom = {}
  BY Cardinalities DEF CountInv, LockerTypeOK, Disciplined
<1>r. live # {} => Phase = "busy"
  BY <1>c DEF EndInv, Phase, Ended
<1>1. CASE FirstCas(t)
  <2>1. firsts = 0 /\ fired = 0
    BY <1>1, <1>c DEF FirstCas, EndInv, Ended, Disciplined
  <2> QED
    BY <1>1, <2>1, <1>c DEF FirstCas, Goto, Phase, Moves
<1>2. CASE FirstCheck(t)
  BY <1>2, <1>c DEF FirstCheck, Goto, Phase, Moves
<1>3. CASE FirstUndo(t)
  BY <1>3, <1>c DEF FirstUndo, Goto, Phase, Moves
<1>4. CASE Check(t)
  BY <1>4, <1>c DEF Check, Goto, Phase, Moves
<1>5. CASE Callback(t)
  <2>1. Ended /\ fired = 0 /\ firsts = 1 /\ live = {} /\ Phantom = {}
    BY <1>5, <1>c DEF Callback, Goto, EndInv, Ended
  <2> QED
    BY <1>5, <2>1, <1>c DEF Callback, Goto, Phase, Phantom, Moves, Finishes
<1>6. CASE \E l \in Lock : FirstLock(t, l)
  <2> SUFFICES ASSUME NEW l \in Lock, FirstLock(t, l)
               PROVE  Begins(l)
    BY <1>6 DEF Moves
  <2>1. t \in Phantom /\ live = {}
    BY DEF FirstLock, Goto, Phantom, EndInv
  <2>2. fired = 0 /\ firsts = 1
    BY <2>1, <1>c DEF EndInv, Ended
  <2>3. \A u \in Thread \ {t} : pc[u] \notin {"first", "firstChecked"}
    BY <2>1 DEF EndInv, Phantom
  <2> QED
    BY <2>1, <2>2, <2>3, <1>c DEF FirstLock, NewLock, Goto, Phase, Begins
<1>7. CASE \E l \in Lock : MakeLock(t, l)
  <2> SUFFICES ASSUME NEW l \in Lock, MakeLock(t, l)
               PROVE  Enters(l)
    BY <1>7 DEF Moves
  <2>1. live # {} /\ Phase = "busy"
    BY <1>r DEF MakeLock, Goto, EndInv, Holds
  <2> QED
    BY <2>1, <1>c DEF MakeLock, NewLock, Goto, Phase, Enters
<1>8. CASE \E l \in Lock : Unlock(t, l)
  <2> SUFFICES ASSUME NEW l \in Lock, Unlock(t, l)
               PROVE  Leaves(l)
    BY <1>8 DEF Moves
  <2>1. Phase = "busy"
    BY <1>r DEF Unlock
  <2> QED
    BY <2>1, <1>c DEF Unlock, Goto, Phase, Leaves
<1>9. CASE \E l \in Lock : MoveLock(t, l)
  BY <1>9 DEF MoveLock, Phase, Moves
<1> QED
  BY <1>1, <1>2, <1>3, <1>4, <1>5, <1>6, <1>7, <1>8, <1>9 DEF Step

\* Under the same two conditions async_locker implements the latch.
THEOREM LockerImplementsLatch ==
    ASSUME Disciplined
    PROVE  LockerSpec => ImplementsLatch
<1>1. EndInv /\ CountInv /\ [LockerNext]_lockerVars => EndInv'
  BY EndInvStep
<1>2. CountInv /\ EndInv /\ [LockerNext]_lockerVars
          => [Latch!LatchNext]_(Latch!latchVars)
  BY LatchStep
<1> QED
  BY <1>1, <1>2, CountInvInit, CountInvStep, EndInvInit, LatchInitially, PTL
  DEF LockerSpec, ImplementsLatch, Latch!LatchSpec
=============================================================================
