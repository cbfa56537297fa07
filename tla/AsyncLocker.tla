---------------------------- MODULE AsyncLocker -----------------------------
(***************************************************************************)
(* async_locker (include/webservice/async_locker.hpp), at the granularity  *)
(* of its atomic accesses to lock_count_.                                  *)
(*                                                                         *)
(* A lock lives in a scope a thread executes, or in the capture of a       *)
(* queued handler.  The constructor of a lock reads lock_count_, throws if *)
(* it is zero, and increments it in a second access; make_first_lock() is  *)
(* a compare-and-swap, that constructor, and a decrement.  A call that     *)
(* throws changes nothing and is not a step here.                          *)
(***************************************************************************)
EXTENDS Naturals, FiniteSets

CONSTANTS
    Thread,      \* the threads that run handlers or call into the library
    Outsider,    \* the threads that call make_lock() while holding no lock
    Lock,        \* the identities lock objects can have
    Queue,       \* stands for the queues of the io_context
    MaxFirst     \* how often the program calls make_first_lock()

ASSUME LockerAssumption ==
    /\ Outsider \subseteq Thread
    /\ Queue \notin Thread
    /\ MaxFirst \in Nat

VARIABLES
    count,       \* lock_count_
    live,        \* the locks whose locker_ pointer is not null
    holder,      \* where a live lock is: a thread's scope, or the queue
    pc,          \* where a thread is inside a call, between two accesses
    firsts,      \* calls of make_first_lock() that passed the CAS
    fired        \* calls of on_last_async_callback_

lockerVars == <<count, live, holder, pc, firsts, fired>>

Holds(t) == \E l \in live : holder[l] = t

\* The threads whose compare-and-swap is not yet undone: each accounts for
\* one unit of lock_count_ that belongs to no lock.
Phantom == {t \in Thread : pc[t] \in {"first", "firstChecked", "undo"}}

LockerInit ==
    /\ count = 0
    /\ live = {}
    /\ holder = [l \in Lock |-> Queue]
    /\ pc = [t \in Thread |-> "idle"]
    /\ firsts = 0
    /\ fired = 0

Goto(t, from, to) == pc[t] = from /\ pc' = [pc EXCEPT ![t] = to]

-----------------------------------------------------------------------------
(* make_first_lock() *)

\* lock_count_.compare_exchange_strong(0, 1)
FirstCas(t) ==
    /\ firsts < MaxFirst
    /\ count = 0
    /\ count' = 1
    /\ firsts' = firsts + 1
    /\ Goto(t, "idle", "first")
    /\ UNCHANGED <<live, holder, fired>>

\* lock result(*this): the read of lock_count_ ...
FirstCheck(t) ==
    /\ count # 0
    /\ Goto(t, "first", "firstChecked")
    /\ UNCHANGED <<count, live, holder, firsts, fired>>

\* ... and the increment
NewLock(t, l) ==
    /\ l \in Lock \ live
    /\ live' = live \cup {l}
    /\ holder' = [holder EXCEPT ![l] = t]
    /\ count' = count + 1
    /\ UNCHANGED <<firsts, fired>>

FirstLock(t, l) == Goto(t, "firstChecked", "undo") /\ NewLock(t, l)

\* Wrong on purpose: the first increase stays.
FirstUndoForgotten(t) ==
    /\ Goto(t, "undo", "idle")
    /\ UNCHANGED <<count, live, holder, firsts, fired>>

\* undo the first increase from compare_exchange_strong
FirstUndo(t) ==
    /\ Goto(t, "undo", "idle")
    /\ count' = count - 1
    /\ UNCHANGED <<live, holder, firsts, fired>>

-----------------------------------------------------------------------------
(* make_lock() *)

\* The read of lock_count_; a call that reads zero throws.
Check(t) ==
    /\ Holds(t) \/ t \in Outsider
    /\ count # 0
    /\ Goto(t, "idle", "checked")
    /\ UNCHANGED <<count, live, holder, firsts, fired>>

\* Wrong on purpose: the increment of another thread is lost.
MakeLockUncounted(t, l) ==
    /\ Goto(t, "checked", "idle")
    /\ l \in Lock \ live
    /\ live' = live \cup {l}
    /\ holder' = [holder EXCEPT ![l] = t]
    /\ UNCHANGED <<count, firsts, fired>>

\* The increment.
MakeLock(t, l) == Goto(t, "checked", "idle") /\ NewLock(t, l)

-----------------------------------------------------------------------------
(* unlock() and the moves of a lock *)

\* Wrong on purpose: takes the value before the decrement for the one after.
UnlockOffByOne(t, l) ==
    /\ l \in live
    /\ holder[l] = t
    /\ live' = live \ {l}
    /\ holder' = [holder EXCEPT ![l] = Queue]
    /\ count' = count - 1
    /\ Goto(t, "idle", IF count' = 1 THEN "last" ELSE "idle")
    /\ UNCHANGED <<firsts, fired>>

\* The decrement; the thread that reaches zero goes on to the callback.
Unlock(t, l) ==
    /\ l \in live
    /\ holder[l] = t
    /\ live' = live \ {l}
    /\ holder' = [holder EXCEPT ![l] = Queue]
    /\ count' = count - 1
    /\ Goto(t, "idle", IF count' = 0 THEN "last" ELSE "idle")
    /\ UNCHANGED <<firsts, fired>>

\* on_last_async_callback_()
Callback(t) ==
    /\ Goto(t, "last", "idle")
    /\ fired' = fired + 1
    /\ UNCHANGED <<count, live, holder, firsts>>

\* A lock moves into the capture of a handler that is posted, and out of it
\* when a thread runs the handler.  operator= is a move only onto an empty
\* lock, and the library assigns to no other: onto an engaged one it would
\* overwrite the pointer without the decrement, and the count keep a unit too
\* many.
MoveLock(t, l) ==
    /\ pc[t] = "idle"
    /\ l \in live
    /\ \/ holder[l] = t /\ holder' = [holder EXCEPT ![l] = Queue]
       \/ holder[l] = Queue /\ holder' = [holder EXCEPT ![l] = t]
    /\ UNCHANGED <<count, live, pc, firsts, fired>>

-----------------------------------------------------------------------------
Step(t) ==
    \/ FirstCas(t) \/ FirstCheck(t) \/ FirstUndo(t)
    \/ Check(t) \/ Callback(t)
    \/ \E l \in Lock : \/ FirstLock(t, l) \/ MakeLock(t, l)
                       \/ Unlock(t, l) \/ MoveLock(t, l)

LockerNext == \E t \in Thread : Step(t)

LockerSpec == LockerInit /\ [][LockerNext]_lockerVars

-----------------------------------------------------------------------------
(* Properties *)

LockerTypeOK ==
    /\ count \in Nat
    /\ live \in SUBSET Lock
    /\ holder \in [Lock -> Thread \cup {Queue}]
    /\ pc \in [Thread -> {"idle", "first", "firstChecked", "undo",
                          "checked", "last"}]
    /\ firsts \in 0..MaxFirst
    /\ fired \in Nat

\* lock_count_ is the number of live locks, up to the compare-and-swap that
\* make_first_lock() has yet to undo: no increment and no decrement is lost.
CountExact == count = Cardinality(live) + Cardinality(Phantom)

\* The callback is called at most once, and when it has been called no lock
\* is left: the object that owns the locker can be destroyed.  (The comment
\* in the constructor of lock: "if lock_count_ is 0 the on_last_async() was
\* already fired and no new calles are accepted".)
LastAsyncIsLast == fired <= 1 /\ (fired > 0 => live = {} /\ count = 0)

\* A handler that holds a lock never gets "async call after shutdown" when
\* it starts a further operation.
HolderNeverRefused == \A t \in Thread : Holds(t) => count # 0

\* async_locker implements the latch.
Latch == INSTANCE AsyncLatch WITH
    running <- live,
    phase <- IF fired > 0 THEN "ended"
             ELSE IF firsts = 0 \/ \E t \in Thread :
                         pc[t] \in {"first", "firstChecked"}
                  THEN "fresh" ELSE "busy"

ImplementsLatch == Latch!LatchSpec
=============================================================================
