---------------------------- MODULE BoundedFifo ----------------------------
(***************************************************************************)
(* What LockFreeQueue (src/esphome/core/lock_free_queue.h) promises its    *)
(* two threads: a first-in first-out queue of at most Capacity elements,   *)
(* where an element enters once, at the back, and leaves once, from the    *)
(* front.                                                                  *)
(***************************************************************************)
EXTENDS Naturals, Sequences

CONSTANTS T,         \* the elements (pointers) that may be queued
          Capacity   \* how many it can hold at once

VARIABLE queue       \* the elements held, oldest first

Init == queue = << >>

Enqueue(e) == /\ Len(queue) < Capacity
              /\ queue' = Append(queue, e)

Dequeue == /\ queue # << >>
           /\ queue' = Tail(queue)

Next == Dequeue \/ \E e \in T : Enqueue(e)

Spec == Init /\ [][Next]_queue

(* Liveness of a queue whose consumer keeps polling: whatever is queued is  *)
(* taken out in the end.                                                    *)
FairSpec == Spec /\ WF_queue(Dequeue)
=============================================================================
