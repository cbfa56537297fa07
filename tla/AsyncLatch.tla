----------------------------- MODULE AsyncLatch -----------------------------
(***************************************************************************)
(* What async_locker promises its users, "Count async operations and calls *)
(* a user defined function after all async operations have returned": a    *)
(* latch that is opened once by a first operation, that a running          *)
(* operation can extend with further ones, and that ends, once and for     *)
(* ever, after the last of them has returned.                              *)
(***************************************************************************)

CONSTANT Lock          \* the lock objects: one per asynchronous operation

VARIABLES phase,       \* "fresh" -> "busy" -> "ended"
          running      \* the operations that have not returned

latchVars == <<phase, running>>

LatchInit == phase = "fresh" /\ running = {}

\* The first operation starts.
Begin(l) == /\ phase = "fresh"
            /\ phase' = "busy"
            /\ running' = {l}

\* A further operation starts, while another one is still running.
Enter(l) == /\ phase = "busy"
            /\ running # {}
            /\ l \notin running
            /\ running' = running \cup {l}
            /\ UNCHANGED phase

\* An operation returns.
Leave(l) == /\ phase = "busy"
            /\ l \in running
            /\ running' = running \ {l}
            /\ UNCHANGED phase

\* The callback: nothing is running and nothing will run again.
Finish == /\ phase = "busy"
          /\ running = {}
          /\ phase' = "ended"
          /\ UNCHANGED running

LatchNext == \/ \E l \in Lock : Begin(l) \/ Enter(l) \/ Leave(l)
             \/ Finish

LatchSpec == LatchInit /\ [][LatchNext]_latchVars
=============================================================================
