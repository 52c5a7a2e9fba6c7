--------------------------- MODULE LockFreeQueue ---------------------------
(***************************************************************************)
(* LockFreeQueue<T, SIZE> of src/esphome/core/lock_free_queue.h: the ring  *)
(* buffer between one pushing and one popping thread (a BLE, Wi-Fi or MQTT *)
(* task or an interrupt handler, and the main loop).                       *)
(*                                                                         *)
(* push() and pop() take no lock, so each is three steps here: look at the *)
(* two indices, touch the slot, publish the own index.  The value read in  *)
(* the first step may be out of date in the later ones, which is also all  *)
(* that the acquire/release ordering of the indices lets a thread see.     *)
(*                                                                         *)
(* Producers is a set so that a use of the queue that breaks the "single   *)
(* producer" contract can be stated; the contract is SingleProducer.       *)
(***************************************************************************)
EXTENDS Integers, Sequences

CONSTANTS SIZE,        \* slots of the ring; it holds SIZE - 1 elements
          T,           \* elements (pointers; nullptr is refused by push)
          Producers,   \* the threads that call push()
          None,        \* nullptr
          DropRange    \* dropped_count_ counts modulo this (2^16 in the code)

ASSUME SizeAssumption == SIZE \in 1..255
ASSUME NoneAssumption == None \notin T
ASSUME DropAssumption == DropRange \in Nat \ {0}

SingleProducer == \A p, q \in Producers : p = q

VARIABLES buffer,          \* buffer_
          head,            \* head_, written by the consumer
          tail,            \* tail_, written by the producer
          dropped_count,   \* dropped_count_
          push,            \* the locals of push() in each producer
          pop              \* the locals of pop() in the consumer

vars == << buffer, head, tail, dropped_count, push, pop >>
-----------------------------------------------------------------------------
Slots == 0 .. SIZE - 1

PushLocals == [pc : {"idle", "write", "publish"},
               element : T \cup {None}, current_tail : Slots]
PopLocals == [pc : {"idle", "read", "publish"},
              element : T \cup {None}, current_head : Slots]

PushIdle == [pc |-> "idle", element |-> None, current_tail |-> 0]
PopIdle == [pc |-> "idle", element |-> None, current_head |-> 0]

TypeOK == /\ buffer \in [Slots -> T \cup {None}]
          /\ head \in Slots
          /\ tail \in Slots
          /\ dropped_count \in 0 .. DropRange - 1
          /\ push \in [Producers -> PushLocals]
          /\ pop \in PopLocals

Init == /\ buffer = [i \in Slots |-> None]
        /\ head = 0
        /\ tail = 0
        /\ dropped_count = 0
        /\ push = [p \in Producers |-> PushIdle]
        /\ pop = PopIdle
-----------------------------------------------------------------------------
next_index(index) == IF index + 1 >= SIZE THEN 0 ELSE index + 1

(* size(): how many elements lie between the two indices.                  *)
Count == IF tail >= head THEN tail - head ELSE tail - head + SIZE

(* The slot of the i-th oldest element, and the elements oldest first.     *)
SlotOf(i) == IF head + i - 1 >= SIZE THEN head + i - 1 - SIZE ELSE head + i - 1
Contents == [i \in 1 .. Count |-> buffer[SlotOf(i)]]
-----------------------------------------------------------------------------
(* fetch_add on dropped_count_; increment_dropped_count() is the same.     *)
CountDrop == dropped_count' = (dropped_count + 1) % DropRange

Full_Ignored == FALSE
Full == next_index(tail) = head

(* push(e) reads its own index and the consumer's, and finds no room.      *)
PushFull(p, e) == /\ push[p].pc = "idle"
                  /\ Full
                  /\ CountDrop
                  /\ UNCHANGED << buffer, head, tail, push, pop >>

(* push(e) finds room: it will fill the slot at current_tail.              *)
PushRoom(p, e) ==
  /\ push[p].pc = "idle"
  /\ ~ Full
  /\ push' = [push EXCEPT ![p] = [pc |-> "write", element |-> e,
                                  current_tail |-> tail]]
  /\ UNCHANGED << buffer, head, tail, dropped_count, pop >>

PushWrite_NextSlot(p) ==
  /\ push[p].pc = "write"
  /\ buffer' = [buffer EXCEPT ![next_index(push[p].current_tail)] = push[p].element]
  /\ push' = [push EXCEPT ![p].pc = "publish"]
  /\ UNCHANGED << head, tail, dropped_count, pop >>

PushWrite(p) ==
  /\ push[p].pc = "write"
  /\ buffer' = [buffer EXCEPT ![push[p].current_tail] = push[p].element]
  /\ push' = [push EXCEPT ![p].pc = "publish"]
  /\ UNCHANGED << head, tail, dropped_count, pop >>

PushPublish(p) ==
  /\ push[p].pc = "publish"
  /\ tail' = next_index(push[p].current_tail)
  /\ push' = [push EXCEPT ![p] = PushIdle]
  /\ UNCHANGED << buffer, head, dropped_count, pop >>

(* pop() returns nullptr.                                                  *)
PopEmpty == /\ pop.pc = "idle"
            /\ head = tail
            /\ UNCHANGED vars

PopFound == /\ pop.pc = "idle"
            /\ head # tail
            /\ pop' = [pop EXCEPT !.pc = "read", !.current_head = head]
            /\ UNCHANGED << buffer, head, tail, dropped_count, push >>

PopRead == /\ pop.pc = "read"
           /\ pop' = [pop EXCEPT !.pc = "publish",
                                 !.element = buffer[pop.current_head]]
           /\ UNCHANGED << buffer, head, tail, dropped_count, push >>

(* pop() frees the slot and returns pop.element.                           *)
PopPublish == /\ pop.pc = "publish"
              /\ head' = next_index(pop.current_head)
              /\ pop' = PopIdle
              /\ UNCHANGED << buffer, tail, dropped_count, push >>

(* get_and_reset_dropped_count() when there is something to report.        *)
ResetDropped == /\ dropped_count # 0
                /\ dropped_count' = 0
                /\ UNCHANGED << buffer, head, tail, push, pop >>

PushStep(p) == PushWrite(p) \/ PushPublish(p)
PopStep == PopFound \/ PopRead \/ PopPublish

Next == \/ \E p \in Producers :
             PushStep(p) \/ \E e \in T : PushFull(p, e) \/ PushRoom(p, e)
        \/ PopStep
        \/ ResetDropped

Spec == Init /\ [][Next]_vars

(* Both threads run: a push once begun is finished, and the consumer polls *)
(* the queue.  Nobody is obliged to push.                                  *)
Fairness == /\ \A p \in Producers : WF_vars(PushStep(p))
            /\ WF_vars(PopStep)

FairSpec == Spec /\ Fairness
-----------------------------------------------------------------------------
(* A pop reads a slot that holds a published element, and never the slot a *)
(* push is filling: buffer_ needs no lock (lock_free_queue.h:118-154).     *)
NoSlotRace ==
  /\ pop.pc # "idle" => pop.current_head = head /\ head # tail
  /\ \A p \in Producers :
       push[p].pc # "idle" =>
         /\ push[p].current_tail = tail
         /\ ~ Full
         /\ pop.pc # "idle" => push[p].current_tail # pop.current_head

(* What lies between the indices are real elements, never an empty slot.   *)
Occupied(s) == IF tail >= head THEN head <= s /\ s < tail
                               ELSE head <= s \/ s < tail
NoneIsNeverQueued == \A s \in Slots : Occupied(s) => buffer[s] \in T

(* The element a pop is about to hand out is the oldest one queued, as it  *)
(* was pushed (lock_free_queue.h:144-154).                                 *)
PopReturnsOldest ==
  pop.pc = "publish" => Count > 0 /\ pop.element = Contents[1]

(* A filled slot keeps its element until it is popped.                     *)
WrittenIsPending ==
  \A p \in Producers :
    /\ push[p].pc # "idle" => push[p].element \in T
    /\ push[p].pc = "publish" =>
         buffer[push[p].current_tail] = push[p].element

(* The inductive invariant the proofs rest on.                             *)
IInv == TypeOK /\ NoSlotRace /\ NoneIsNeverQueued /\ WrittenIsPending
        /\ PopReturnsOldest

(* The ring is a first-in first-out queue of SIZE - 1 elements: push        *)
(* enqueues where it publishes tail_, pop dequeues where it publishes head_ *)
(* (lock_free_queue.h:118-154).                                             *)
Fifo == INSTANCE BoundedFifo WITH queue <- Contents, Capacity <- SIZE - 1
ImplementsFifo == Fifo!Spec

(* Whatever is queued is taken out in the end by a consumer that polls.    *)
ImplementsFairFifo == Fifo!FairSpec
=============================================================================
