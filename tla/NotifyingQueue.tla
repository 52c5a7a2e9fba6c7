--------------------------- MODULE NotifyingQueue ---------------------------
(***************************************************************************)
(* NotifyingLockFreeQueue of core/lock_free_queue.h with the task it wakes *)
(* (esphome_mqtt_task, mqtt_backend_esp32.cpp:211-244), next to the plain  *)
(* queue with a consumer that polls: `task_to_notify' says which.  The     *)
(* handle is set before the first push (mqtt_backend_esp32.cpp:73).        *)
(*                                                                         *)
(* push() notifies only if the consumer may have found the queue empty,    *)
(* which it judges by the index it read before and by one it reads after   *)
(* tail_ is published.  Here this second look sees what the consumer had   *)
(* published by then, as on one core; release and acquire alone would let  *)
(* it come before the store of tail_ is seen.                              *)
(***************************************************************************)
EXTENDS LockFreeQueue

VARIABLES task_to_notify,  \* whether there is a task to notify
          consumer,        \* that task "waits" or "drains" the queue
          notification,    \* its FreeRTOS notification is pending
          caller           \* what push() does after push_internal_()

waking == << consumer, notification, caller >>
notifyingVars == << vars, task_to_notify, waking >>
-----------------------------------------------------------------------------
Returned == [pc |-> "returned", was_empty |-> FALSE, old_tail |-> 0]

NotifyingInit ==
  /\ Init
  /\ task_to_notify \in BOOLEAN
  /\ consumer = IF task_to_notify THEN "waits" ELSE "drains"
  /\ notification = FALSE
  /\ caller = [p \in Producers |-> Returned]

Refuse(p, e) == /\ caller[p].pc = "returned"
                /\ PushFull(p, e)
                /\ UNCHANGED << task_to_notify, waking >>

(* push_internal_() also reports was_empty and old_tail.                   *)
Begin(p, e) ==
  /\ caller[p].pc = "returned"
  /\ PushRoom(p, e)
  /\ caller' = [caller EXCEPT ![p] = [pc |-> "push", was_empty |-> head = tail,
                                      old_tail |-> tail]]
  /\ UNCHANGED << task_to_notify, consumer, notification >>

Write(p) == PushWrite(p) /\ UNCHANGED << task_to_notify, waking >>

Publish(p) ==
  /\ PushPublish(p)
  /\ caller' = [caller EXCEPT ![p].pc = IF ~ task_to_notify THEN "returned"
                                        ELSE IF caller[p].was_empty THEN "give"
                                        ELSE "look"]
  /\ UNCHANGED << task_to_notify, consumer, notification >>

LookAtHead_Never(p) ==
  /\ caller[p].pc = "look"
  /\ caller' = [caller EXCEPT ![p].pc = "returned"]
  /\ UNCHANGED << vars, task_to_notify, consumer, notification >>

(* Has the consumer caught up to where tail_ was?                          *)
LookAtHead(p) ==
  /\ caller[p].pc = "look"
  /\ caller' = [caller EXCEPT ![p].pc = IF head = caller[p].old_tail THEN "give"
                                        ELSE "returned"]
  /\ UNCHANGED << vars, task_to_notify, consumer, notification >>

(* xTaskNotifyGive(): notifications that are pending are not told apart.   *)
Give(p) == /\ caller[p].pc = "give"
           /\ caller' = [caller EXCEPT ![p].pc = "returned"]
           /\ notification' = TRUE
           /\ UNCHANGED << vars, task_to_notify, consumer >>

(* ulTaskNotifyTake(pdTRUE, portMAX_DELAY) returns.                        *)
Wake == /\ consumer = "waits" /\ notification
        /\ consumer' = "drains" /\ notification' = FALSE
        /\ UNCHANGED << vars, task_to_notify, caller >>

Pop == consumer = "drains" /\ PopStep /\ UNCHANGED << task_to_notify, waking >>

(* pop() has returned nullptr: the task goes back to wait.                 *)
Wait == /\ task_to_notify /\ consumer = "drains"
        /\ PopEmpty
        /\ consumer' = "waits"
        /\ UNCHANGED << task_to_notify, notification, caller >>

Report == ResetDropped /\ UNCHANGED << task_to_notify, waking >>

Pushing(p) == Write(p) \/ Publish(p) \/ LookAtHead(p) \/ Give(p)
Consuming == Wake \/ Pop \/ Wait

NotifyingNext == \/ \E p \in Producers :
                      Pushing(p) \/ \E e \in T : Refuse(p, e) \/ Begin(p, e)
                 \/ Consuming
                 \/ Report

NotifyingSpec == NotifyingInit /\ [][NotifyingNext]_notifyingVars

(* A push once begun is finished, and the consumer runs unless it waits.   *)
NotifyingFairSpec == /\ NotifyingSpec
                     /\ \A p \in Producers : WF_notifyingVars(Pushing(p))
                     /\ WF_notifyingVars(Consuming)
-----------------------------------------------------------------------------
(* The consumer does not wait on a queue with an element in it unless it   *)
(* is about to be woken: the notification is pending, or the push is still *)
(* to give it (lock_free_queue.h:211-222).                                 *)
NoneWaitsOnWork ==
  consumer = "waits" /\ head # tail =>
    \/ notification
    \/ \E p \in Producers :
         \/ caller[p].pc = "give"
         \/ caller[p].pc = "look" /\ head = caller[p].old_tail

(* What push() knows agrees with where push_internal_() is.                *)
CallerAgrees ==
  /\ consumer = "waits" => task_to_notify /\ pop.pc = "idle"
  /\ caller \in [Producers -> [pc : {"returned", "push", "look", "give"},
                              was_empty : BOOLEAN, old_tail : Slots]]
  /\ \A p \in Producers :
       /\ caller[p].pc = "push" <=> push[p].pc # "idle"
       /\ caller[p].pc = "push" =>
            /\ caller[p].old_tail = push[p].current_tail
            /\ caller[p].was_empty => head = tail

(* The inductive invariant of the proof.                                   *)
NotifyingInv == IInv /\ CallerAgrees /\ NoneWaitsOnWork
=============================================================================
