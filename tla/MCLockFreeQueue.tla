-------------------------- MODULE MCLockFreeQueue --------------------------
(* A ring of four slots, two elements, one pushing thread; the drop        *)
(* counter wraps after three drops.                                        *)
EXTENDS NotifyingQueue
CONSTANTS a, b, task, nullptr

MCT == {a, b}
MCProducers == {task}
=============================================================================
