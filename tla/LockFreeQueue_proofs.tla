------------------------ MODULE LockFreeQueue_proofs ------------------------
(***************************************************************************)
(* Proofs about LockFreeQueue, for every size of the ring and every set of *)
(* elements, under the contract SingleProducer; and about NotifyingQueue:  *)
(* what is proved of the plain queue holds of it too, and its consumer     *)
(* does not sleep on an element.                                           *)
(***************************************************************************)
EXTENDS NotifyingQueue, SequenceTheorems, TLAPS

(* Advancing an index stays in the ring, moves it, and is one-to-one.      *)
LEMMA NextIndex ==
  ASSUME NEW i \in Slots
  PROVE  /\ next_index(i) \in Slots
         /\ \A j \in Slots : next_index(i) = next_index(j) => i = j
  BY SizeAssumption DEF next_index, Slots

(* The number of elements is below the size, and 0 just when the indices   *)
(* meet (the ring reserves one slot).                                      *)
LEMMA CountBounds ==
  ASSUME TypeOK
  PROVE  /\ Count \in 0 .. SIZE - 1
         /\ Count = 0 <=> head = tail
         /\ Full <=> Count = SIZE - 1
  BY SizeAssumption DEF TypeOK, Count, Slots, Full, next_index

LEMMA InitInv == Init => IInv
<1> SUFFICES ASSUME Init PROVE IInv
  OBVIOUS
<1>1. TypeOK
  BY SizeAssumption, DropAssumption
     DEF Init, TypeOK, Slots, PushLocals, PopLocals, PushIdle, PopIdle
<1>2. NoSlotRace /\ WrittenIsPending /\ PopReturnsOldest
  BY DEF Init, NoSlotRace, WrittenIsPending, PopReturnsOldest, PushIdle, PopIdle
<1>3. NoneIsNeverQueued
  BY DEF Init, NoneIsNeverQueued, Occupied, Slots
<1> QED BY <1>1, <1>2, <1>3 DEF IInv

(* Every step keeps the types.                                             *)
LEMMA TypeStep == TypeOK /\ [Next]_vars => TypeOK'
<1> SUFFICES ASSUME TypeOK, [Next]_vars PROVE TypeOK'
  OBVIOUS
<1> USE SizeAssumption, DropAssumption
<1>1. ASSUME NEW p \in Producers, NEW e \in T, PushFull(p, e) PROVE TypeOK'
  BY <1>1 DEF PushFull, CountDrop, TypeOK
<1>2. ASSUME NEW p \in Producers, NEW e \in T, PushRoom(p, e) PROVE TypeOK'
  BY <1>2 DEF PushRoom, TypeOK, PushLocals
<1>3. ASSUME NEW p \in Producers, PushWrite(p) PROVE TypeOK'
  BY <1>3 DEF PushWrite, TypeOK, PushLocals
<1>4. ASSUME NEW p \in Producers, PushPublish(p) PROVE TypeOK'
  <2>1. next_index(push[p].current_tail) \in Slots
    BY NextIndex DEF TypeOK, PushLocals
  <2>2. PushIdle \in PushLocals
    BY DEF PushIdle, PushLocals, Slots
  <2> QED BY <1>4, <2>1, <2>2 DEF PushPublish, TypeOK
<1>5. CASE PopFound
  BY <1>5 DEF PopFound, TypeOK, PopLocals
<1>6. CASE PopRead
  BY <1>6 DEF PopRead, TypeOK, PopLocals
<1>7. CASE PopPublish
  <2>1. next_index(pop.current_head) \in Slots
    BY NextIndex DEF TypeOK, PopLocals
  <2>2. PopIdle \in PopLocals
    BY DEF PopIdle, PopLocals, Slots
  <2> QED BY <1>7, <2>1, <2>2 DEF PopPublish, TypeOK
<1>8. CASE ResetDropped
  BY <1>8 DEF ResetDropped, TypeOK
<1>9. CASE UNCHANGED vars
  BY <1>9 DEF vars, TypeOK
<1> QED BY <1>1, <1>2, <1>3, <1>4, <1>5, <1>6, <1>7, <1>8, <1>9
        DEF Next, PushStep, PopStep

THEOREM TypeCorrect == Spec => []TypeOK
<1>1. Init => TypeOK
  BY InitInv DEF IInv
<1> QED BY <1>1, TypeStep, PTL DEF Spec
-----------------------------------------------------------------------------
(* The slot of the oldest element is head.                                 *)
LEMMA OldestAtHead ==
  ASSUME TypeOK, Count > 0
  PROVE  Contents[1] = buffer[head]
<1>1. Count \in Int /\ head \in 0 .. SIZE - 1 /\ SIZE \in Int
  BY CountBounds, SizeAssumption DEF TypeOK, Slots
<1>2. 1 \in 1 .. Count
  BY <1>1
<1>3. SlotOf(1) = head
  BY <1>1 DEF SlotOf
<1> QED BY <1>2, <1>3 DEF Contents

(* The slot at tail is not occupied; publishing it, or freeing the slot at *)
(* head, changes the occupied slots by just that one.                      *)
LEMMA OccupiedStep ==
  ASSUME TypeOK
  PROVE  /\ ~ Occupied(tail)
         /\ head # tail => Occupied(head)
         /\ \A s \in Slots :
              /\ (~ Full /\ head' = head /\ tail' = next_index(tail)
                   => (Occupied(s)' => Occupied(s) \/ s = tail))
              /\ (head # tail /\ tail' = tail /\ head' = next_index(head)
                   => (Occupied(s)' => Occupied(s) /\ s # head))
  BY SizeAssumption DEF TypeOK, Occupied, Slots, Full, next_index

(* Every step keeps the inductive invariant, given one producer.           *)
LEMMA InvStep == SingleProducer /\ IInv /\ [Next]_vars => IInv'
<1> SUFFICES ASSUME SingleProducer, IInv, [Next]_vars PROVE IInv'
  OBVIOUS
<1> USE DEF IInv
<1>0. TypeOK'
  BY TypeStep
<1>00. head \in 0 .. SIZE - 1 /\ tail \in 0 .. SIZE - 1 /\ SIZE \in Int
  BY SizeAssumption DEF TypeOK, Slots
<1>1. ASSUME NEW p \in Producers, NEW e \in T, PushFull(p, e) PROVE IInv'
  BY <1>0, <1>1 DEF PushFull, NoSlotRace, NoneIsNeverQueued, WrittenIsPending,
       PopReturnsOldest, Occupied, Full, Count, Contents, SlotOf
<1>2. ASSUME NEW p \in Producers, NEW e \in T, PushRoom(p, e) PROVE IInv'
  <2> USE <1>2 DEF PushRoom
  <2>1. \A q \in Producers : q = p
    BY DEF SingleProducer
  <2>2. push'[p] = [pc |-> "write", element |-> e, current_tail |-> tail]
    BY DEF TypeOK
  <2>3. NoSlotRace'
    BY <2>1, <2>2 DEF NoSlotRace, Full, TypeOK
  <2>4. WrittenIsPending'
    BY <2>1, <2>2 DEF WrittenIsPending
  <2>5. NoneIsNeverQueued' /\ PopReturnsOldest'
    BY DEF NoneIsNeverQueued, Occupied, PopReturnsOldest, Count, Contents, SlotOf
  <2> QED BY <1>0, <2>3, <2>4, <2>5
<1>3. ASSUME NEW p \in Producers, PushWrite(p) PROVE IInv'
  <2> USE <1>3 DEF PushWrite
  <2>1. \A q \in Producers : q = p
    BY DEF SingleProducer
  <2>2. push[p].current_tail = tail /\ push[p].element \in T
    BY DEF NoSlotRace, WrittenIsPending
  <2>3. /\ push'[p].pc = "publish"
        /\ push'[p].current_tail = tail
        /\ push'[p].element = push[p].element
    BY <2>2 DEF TypeOK, PushLocals
  <2>4. /\ buffer'[tail] = push[p].element
        /\ \A s \in Slots : s # tail => buffer'[s] = buffer[s]
    BY <2>2 DEF TypeOK
  <2>5. NoSlotRace'
    BY <2>1, <2>3 DEF NoSlotRace, Full
  <2>6. WrittenIsPending'
    BY <2>1, <2>2, <2>3, <2>4 DEF WrittenIsPending
  <2>7. NoneIsNeverQueued'
    BY <2>2, <2>4, OccupiedStep DEF NoneIsNeverQueued, Occupied
  <2>8. PopReturnsOldest'
    <3> SUFFICES ASSUME pop.pc = "publish"
                 PROVE  Count > 0 /\ pop.element = Contents'[1]
      BY DEF PopReturnsOldest, Count
    <3>1. head # tail /\ Count > 0 /\ pop.element = buffer[head]
      BY OldestAtHead DEF NoSlotRace, PopReturnsOldest
    <3>2. 1 \in 1 .. Count' /\ SlotOf(1)' = head
      <4>1. head' = head /\ tail' = tail
        OBVIOUS
      <4>2. head \in 0 .. SIZE - 1 /\ tail \in 0 .. SIZE - 1 /\ SIZE \in Int
        BY <1>00
      <4>3. Count' = Count /\ Count \in Int
        BY <4>1, <4>2 DEF Count
      <4>4. SlotOf(1)' = head
        BY <4>1, <4>2 DEF SlotOf
      <4> QED BY <3>1, <4>3, <4>4
    <3>3. Contents'[1] = buffer'[head]
      BY <3>2 DEF Contents
    <3> QED BY <2>4, <3>1, <3>3 DEF TypeOK
  <2> QED BY <1>0, <2>5, <2>6, <2>7, <2>8
<1>4. ASSUME NEW p \in Producers, PushPublish(p) PROVE IInv'
  <2> USE <1>4 DEF PushPublish
  <2>1. \A q \in Producers : q = p
    BY DEF SingleProducer
  <2>2. /\ push[p].current_tail = tail /\ ~ Full
        /\ buffer[tail] = push[p].element /\ push[p].element \in T
    BY DEF NoSlotRace, WrittenIsPending
  <2>3. push'[p].pc = "idle"
    BY DEF TypeOK, PushIdle
  <2>4. tail' = next_index(tail) /\ tail' # head
    BY <2>2 DEF Full
  <2>5. NoSlotRace'
    BY <2>1, <2>3, <2>4 DEF NoSlotRace
  <2>6. WrittenIsPending'
    BY <2>1, <2>3 DEF WrittenIsPending
  <2>7. NoneIsNeverQueued'
    <3> SUFFICES ASSUME NEW s \in Slots, Occupied(s)' PROVE buffer[s] \in T
      BY DEF NoneIsNeverQueued
    <3>1. Occupied(s) \/ s = tail
      BY <2>2, <2>4, OccupiedStep
    <3> QED BY <2>2, <3>1 DEF NoneIsNeverQueued
  <2>8. PopReturnsOldest'
    <3> SUFFICES ASSUME pop.pc = "publish"
                 PROVE  Count' > 0 /\ pop.element = Contents'[1]
      BY DEF PopReturnsOldest
    <3>1. Count > 0 /\ pop.element = buffer[head]
      BY OldestAtHead DEF PopReturnsOldest
    <3>2. Count' > 0
      BY <1>0, <2>4, SizeAssumption DEF Count, TypeOK, Slots
    <3>3. Contents'[1] = buffer'[head]
      <4>1. 1 \in 1 .. Count'
        BY <1>0, <3>2, SizeAssumption DEF Count, TypeOK, Slots
      <4>2. SlotOf(1)' = head
        BY SizeAssumption DEF SlotOf, TypeOK, Slots
      <4> QED BY <4>1, <4>2 DEF Contents
    <3> QED BY <3>1, <3>2, <3>3
  <2> QED BY <1>0, <2>5, <2>6, <2>7, <2>8
<1>5. CASE PopFound
  BY <1>0, <1>5 DEF PopFound, TypeOK, PopLocals, NoSlotRace, NoneIsNeverQueued,
       WrittenIsPending, PopReturnsOldest, Occupied, Full
<1>6. CASE PopRead
  <2> USE <1>6 DEF PopRead
  <2>1. pop.current_head = head /\ head # tail
    BY DEF NoSlotRace
  <2>2. /\ pop'.pc = "publish" /\ pop'.current_head = head
        /\ pop'.element = buffer[head]
    BY <2>1 DEF TypeOK, PopLocals
  <2>3. NoSlotRace' /\ NoneIsNeverQueued' /\ WrittenIsPending'
    BY <2>1, <2>2 DEF NoSlotRace, NoneIsNeverQueued, WrittenIsPending, Occupied, Full
  <2>4. PopReturnsOldest'
    <3>1. Count > 0
      BY <2>1, CountBounds, SizeAssumption
    <3>2. Contents[1] = buffer[head]
      BY <3>1, OldestAtHead
    <3>3. Count' = Count /\ Contents' = Contents
      BY DEF Count, Contents, SlotOf
    <3> QED BY <2>2, <3>1, <3>2, <3>3 DEF PopReturnsOldest
  <2> QED BY <1>0, <2>3, <2>4
<1>7. CASE PopPublish
  <2> USE <1>7 DEF PopPublish
  <2>1. pop.current_head = head /\ head # tail /\ head' = next_index(head)
    BY DEF NoSlotRace
  <2>2. pop'.pc = "idle"
    BY DEF PopIdle
  <2>3. next_index(tail) # next_index(head)
    BY <2>1, NextIndex DEF TypeOK
  <2>4. NoSlotRace' /\ WrittenIsPending' /\ PopReturnsOldest'
    BY <2>1, <2>2, <2>3
       DEF NoSlotRace, WrittenIsPending, PopReturnsOldest, Full, next_index
  <2>5. NoneIsNeverQueued'
    <3> SUFFICES ASSUME NEW s \in Slots, Occupied(s)' PROVE buffer[s] \in T
      BY DEF NoneIsNeverQueued
    <3>1. Occupied(s)
      BY <2>1, OccupiedStep
    <3> QED BY <3>1 DEF NoneIsNeverQueued
  <2> QED BY <1>0, <2>4, <2>5
<1>8. CASE ResetDropped
  BY <1>0, <1>8 DEF ResetDropped, NoSlotRace, NoneIsNeverQueued, WrittenIsPending,
       PopReturnsOldest, Occupied, Full, Count, Contents, SlotOf
<1>9. CASE UNCHANGED vars
  BY <1>0, <1>9 DEF vars, NoSlotRace, NoneIsNeverQueued, WrittenIsPending,
       PopReturnsOldest, Occupied, Full, Count, Contents, SlotOf
<1> QED BY <1>1, <1>2, <1>3, <1>4, <1>5, <1>6, <1>7, <1>8, <1>9
        DEF Next, PushStep, PopStep

(* With one producer, a pop never reads the slot a push fills, and returns *)
(* the oldest element queued, whatever the size of the ring.               *)
THEOREM QueueSafe ==
  ASSUME SingleProducer
  PROVE  Spec => [](NoSlotRace /\ NoneIsNeverQueued /\ PopReturnsOldest)
<1>1. IInv /\ [Next]_vars => IInv'
  BY InvStep
<1>2. IInv => NoSlotRace /\ NoneIsNeverQueued /\ PopReturnsOldest
  BY DEF IInv
<1> QED BY InitInv, <1>1, <1>2, PTL DEF Spec
-----------------------------------------------------------------------------
(* Publishing tail_ appends the pushed element to the contents.            *)
LEMMA PublishAppends ==
  ASSUME SingleProducer, IInv, IInv', NEW p \in Producers, PushPublish(p)
  PROVE  /\ Contents' = Append(Contents, push[p].element)
         /\ push[p].element \in T
         /\ Len(Contents) < SIZE - 1
<1> USE DEF IInv
<1>1. /\ push[p].current_tail = tail /\ ~ Full
      /\ buffer[tail] = push[p].element /\ push[p].element \in T
  BY DEF NoSlotRace, WrittenIsPending, PushPublish
<1>2. head' = head /\ buffer' = buffer /\ tail' = next_index(tail)
  BY <1>1 DEF PushPublish
<1>a. head \in 0 .. SIZE - 1 /\ tail \in 0 .. SIZE - 1 /\ SIZE \in Nat
  BY SizeAssumption DEF TypeOK, Slots
<1>3. Count' = Count + 1 /\ Count < SIZE - 1 /\ Count \in Nat
  BY <1>1, <1>2, <1>a DEF Count, Full, next_index
<1>4. SlotOf(Count + 1) = tail
  BY SizeAssumption DEF SlotOf, Count, TypeOK, Slots
<1>5. \A i \in 1 .. Count + 1 : SlotOf(i)' = SlotOf(i)
  BY <1>2 DEF SlotOf
<1>6. Contents' = [i \in 1 .. Count + 1 |-> buffer[SlotOf(i)]]
  BY <1>2, <1>3, <1>5 DEF Contents
<1>7. \A i \in 1 .. Count : buffer[SlotOf(i)] \in T
  BY <1>3, SizeAssumption DEF NoneIsNeverQueued, Occupied, SlotOf, Count, TypeOK, Slots
<1>8. Contents \in Seq(T) /\ Len(Contents) = Count
  BY <1>3, <1>7 DEF Contents
<1>9. Append(Contents, push[p].element)
        = [i \in 1 .. Count + 1 |-> IF i = Count + 1 THEN push[p].element
                                                     ELSE Contents[i]]
  BY <1>1, <1>3, <1>8
<1>10. \A i \in 1 .. Count + 1 :
         buffer[SlotOf(i)] = IF i = Count + 1 THEN push[p].element
                                              ELSE Contents[i]
  BY <1>1, <1>3, <1>4 DEF Contents
<1> QED BY <1>1, <1>3, <1>6, <1>8, <1>9, <1>10

(* Publishing head_ removes the oldest element from the contents.          *)
LEMMA PublishDequeues ==
  ASSUME IInv, IInv', PopPublish
  PROVE  Contents' = Tail(Contents) /\ Contents # << >>
<1> USE DEF IInv
<1>1. pop.current_head = head /\ head # tail
  BY DEF NoSlotRace, PopPublish
<1>2. tail' = tail /\ buffer' = buffer /\ head' = next_index(head)
  BY <1>1 DEF PopPublish
<1>3. Count' = Count - 1 /\ Count > 0 /\ Count \in Nat /\ Count < SIZE
  BY <1>1, <1>2, SizeAssumption DEF Count, next_index, TypeOK, Slots
<1>a. head \in 0 .. SIZE - 1 /\ tail \in 0 .. SIZE - 1 /\ SIZE \in Nat
  BY SizeAssumption DEF TypeOK, Slots
<1>4. \A i \in 1 .. Count - 1 : SlotOf(i)' = SlotOf(i + 1)
  BY <1>2, <1>3, <1>a DEF SlotOf, next_index
<1>5. \A i \in 1 .. Count : buffer[SlotOf(i)] \in T
  BY <1>3, SizeAssumption DEF NoneIsNeverQueued, Occupied, SlotOf, Count, TypeOK, Slots
<1>6. Contents \in Seq(T) /\ Len(Contents) = Count /\ Contents # << >>
  BY <1>3, <1>5 DEF Contents
<1>7. Contents' = [i \in 1 .. Count - 1 |-> buffer[SlotOf(i + 1)]]
  BY <1>2, <1>3, <1>4 DEF Contents
<1>8. \A i \in 1 .. Count - 1 : Contents[i + 1] = buffer[SlotOf(i + 1)]
  BY <1>3 DEF Contents
<1>9. /\ Tail(Contents) \in Seq(T) /\ Len(Tail(Contents)) = Count - 1
      /\ \A i \in 1 .. Count - 1 : Tail(Contents)[i] = Contents[i + 1]
  BY <1>6, HeadTailProperties
<1>10. \A i \in 1 .. Count - 1 : buffer[SlotOf(i + 1)] \in T
  BY <1>3, <1>5
<1>11. Contents' \in Seq(T) /\ Len(Contents') = Count - 1
  BY <1>3, <1>7, <1>10
<1>12. \A i \in 1 .. Count - 1 : Contents'[i] = Tail(Contents)[i]
  BY <1>7, <1>8, <1>9
<1> QED BY <1>6, <1>9, <1>11, <1>12, SeqEqual

(* The contents as a sequence: whether there is room shows in its length,  *)
(* and a pop hands out its first element.                                  *)
LEMMA ContentsFact ==
  ASSUME IInv
  PROVE  /\ Contents \in Seq(T) /\ Len(Contents) = Count
         /\ Len(Contents) \in 0 .. SIZE - 1
         /\ Full <=> Len(Contents) = SIZE - 1
         /\ head = tail <=> Contents = << >>
         /\ pop.pc = "publish" => Contents # << >> /\ pop.element = Contents[1]
<1>1. Count \in 0 .. SIZE - 1 /\ (Count = 0 <=> head = tail) /\ (Full <=> Count = SIZE - 1)
  BY CountBounds DEF IInv
<1>2. \A i \in 1 .. Count : buffer[SlotOf(i)] \in T
  BY <1>1, SizeAssumption DEF IInv, NoneIsNeverQueued, Occupied, SlotOf, Count, TypeOK, Slots
<1>3. Contents \in Seq(T) /\ Len(Contents) = Count
  BY <1>1, <1>2 DEF Contents
<1>4. Count = 0 <=> Contents = << >>
  BY <1>1, <1>3, EmptySeq
<1>5. pop.pc = "publish" => Count > 0 /\ pop.element = Contents[1]
  BY DEF IInv, PopReturnsOldest
<1> QED BY <1>1, <1>3, <1>4, <1>5

(* An event counted as dropped by the caller of push().                    *)
LEMMA CountDropKeeps ==
  ASSUME IInv, CountDrop, UNCHANGED << buffer, head, tail, push, pop >>
  PROVE  IInv' /\ Contents' = Contents
<1>1. TypeOK'
  BY DropAssumption DEF IInv, TypeOK, CountDrop
<1>2. Count' = Count /\ Contents' = Contents
  BY DEF Count, Contents, SlotOf
<1> QED BY <1>1, <1>2 DEF IInv, NoSlotRace, NoneIsNeverQueued, WrittenIsPending,
           PopReturnsOldest, Occupied, Full

(* What each step does to the contents.                                    *)
LEMMA RingStep ==
  ASSUME SingleProducer, IInv, IInv'
  PROVE  /\ \A p \in Producers, e \in T :
              PushFull(p, e) \/ PushRoom(p, e) => Contents' = Contents
         /\ \A p \in Producers : PushWrite(p) => Contents' = Contents
         /\ \A p \in Producers : PushPublish(p) =>
              /\ push[p].element \in T /\ Len(Contents) < SIZE - 1
              /\ Contents' = Append(Contents, push[p].element)
         /\ PopPublish => Contents # << >> /\ Contents' = Tail(Contents)
         /\ PopFound \/ PopRead \/ ResetDropped \/ UNCHANGED vars => Contents' = Contents
<1>1. ASSUME NEW p \in Producers, NEW e \in T, PushFull(p, e) \/ PushRoom(p, e)
      PROVE  Contents' = Contents
  BY <1>1 DEF PushFull, PushRoom, Contents, Count, SlotOf
<1>2. ASSUME NEW p \in Producers, PushWrite(p) PROVE Contents' = Contents
  <2>1. push[p].current_tail = tail
    BY <1>2 DEF IInv, NoSlotRace, PushWrite
  <2>2. head' = head /\ tail' = tail
        /\ buffer' = [buffer EXCEPT ![tail] = push[p].element]
    BY <1>2, <2>1 DEF PushWrite
  <2>3. \A i \in 1 .. Count : SlotOf(i) # tail /\ SlotOf(i) \in Slots
    BY SizeAssumption DEF SlotOf, Count, IInv, TypeOK, Slots
  <2>4. \A i \in 1 .. Count : buffer'[SlotOf(i)] = buffer[SlotOf(i)]
    BY <2>2, <2>3 DEF IInv, TypeOK
  <2> QED BY <2>2, <2>4 DEF Contents, Count, SlotOf
<1>3. ASSUME PopFound \/ PopRead \/ ResetDropped \/ UNCHANGED vars
      PROVE  Contents' = Contents
  BY <1>3 DEF PopFound, PopRead, ResetDropped, vars, Contents, Count, SlotOf
<1>4. ASSUME NEW p \in Producers, PushPublish(p)
      PROVE  /\ push[p].element \in T /\ Len(Contents) < SIZE - 1
             /\ Contents' = Append(Contents, push[p].element)
  BY <1>4, PublishAppends
<1>5. ASSUME PopPublish PROVE Contents # << >> /\ Contents' = Tail(Contents)
  BY <1>5, PublishDequeues
<1> QED BY <1>1, <1>2, <1>3, <1>4, <1>5

(* LockFreeQueue implements a first-in first-out queue of SIZE - 1         *)
(* elements, whatever SIZE and the elements are, when one thread pushes.   *)
THEOREM QueueImplementsFifo ==
  ASSUME SingleProducer
  PROVE  Spec => ImplementsFifo
<1>1. Init => Fifo!Init
  BY DEF Init, Fifo!Init, Contents, Count
<1>2. IInv /\ IInv' /\ [Next]_vars => [Fifo!Next]_Contents
  BY RingStep DEF Next, PushStep, PopStep, Fifo!Next, Fifo!Enqueue, Fifo!Dequeue
<1>3. IInv /\ [Next]_vars => IInv'
  BY InvStep
<1> QED BY InitInv, <1>1, <1>2, <1>3, PTL DEF Spec, ImplementsFifo, Fifo!Spec
-----------------------------------------------------------------------------
(* To the ring each step is one of its own or none.                        *)
LEMMA StepIsStep == [NotifyingNext]_notifyingVars => [Next]_vars
BY DEF NotifyingNext, notifyingVars, Pushing, Consuming, Refuse, Begin, Write, Publish,
     LookAtHead, Give, Wake, Pop, Wait, PopEmpty, Report, Next, PushStep

LEMMA NotifyingInitInv == NotifyingInit => NotifyingInv
<1> SUFFICES ASSUME NotifyingInit PROVE NotifyingInv
  OBVIOUS
<1>1. IInv
  BY InitInv DEF NotifyingInit
<1>2. Returned.pc = "returned" /\ Returned \in [pc : {"returned", "push", "look", "give"},
                                               was_empty : BOOLEAN, old_tail : Slots]
  BY SizeAssumption DEF Returned, Slots
<1>3. CallerAgrees
  BY <1>2 DEF NotifyingInit, CallerAgrees, Init, PushIdle, PopIdle
<1>4. NoneWaitsOnWork
  BY DEF NotifyingInit, Init, NoneWaitsOnWork
<1> QED BY <1>1, <1>3, <1>4 DEF NotifyingInv

(* Every step keeps the inductive invariant, given one producer.           *)
LEMMA NotifyingInvStep ==
  SingleProducer /\ NotifyingInv /\ [NotifyingNext]_notifyingVars => NotifyingInv'
<1> SUFFICES ASSUME SingleProducer, NotifyingInv, [NotifyingNext]_notifyingVars
             PROVE  NotifyingInv'
  OBVIOUS
<1> USE DEF NotifyingInv, waking
<1>0. IInv'
  BY StepIsStep, InvStep
<1>00. TypeOK /\ NoSlotRace
  BY DEF IInv
<1>1. ASSUME NEW p \in Producers, NEW e \in T, Refuse(p, e) PROVE NotifyingInv'
  BY <1>0, <1>1 DEF Refuse, PushFull, CallerAgrees, NoneWaitsOnWork
<1>2. ASSUME NEW p \in Producers, NEW e \in T, Begin(p, e) PROVE NotifyingInv'
  <2> USE <1>2 DEF Begin, PushRoom
  <2>1. \A q \in Producers : q = p
    BY DEF SingleProducer
  <2>2. push'[p].pc = "write" /\ push'[p].current_tail = tail /\ tail \in Slots
    BY <1>00 DEF TypeOK
  <2>3. caller'[p] = [pc |-> "push", was_empty |-> head = tail, old_tail |-> tail]
    BY DEF CallerAgrees
  <2>4. CallerAgrees'
    BY <2>1, <2>2, <2>3 DEF CallerAgrees
  <2>5. NoneWaitsOnWork'
    BY <2>1 DEF NoneWaitsOnWork
  <2> QED BY <1>0, <2>4, <2>5
<1>3. ASSUME NEW p \in Producers, Write(p) PROVE NotifyingInv'
  <2> USE <1>3 DEF Write, PushWrite
  <2>1. \A q \in Producers : q = p
    BY DEF SingleProducer
  <2>2. push'[p].pc = "publish" /\ push'[p].current_tail = push[p].current_tail
    BY <1>00 DEF TypeOK, PushLocals
  <2>3. CallerAgrees'
    BY <2>1, <2>2 DEF CallerAgrees
  <2>4. NoneWaitsOnWork'
    BY DEF NoneWaitsOnWork
  <2> QED BY <1>0, <2>3, <2>4
<1>4. ASSUME NEW p \in Producers, Publish(p) PROVE NotifyingInv'
  <2> USE <1>4 DEF Publish, PushPublish
  <2>1. \A q \in Producers : q = p
    BY DEF SingleProducer
  <2>2. push'[p].pc = "idle"
    BY <1>00 DEF TypeOK, PushIdle
  <2>3. caller[p].pc = "push" /\ caller[p].old_tail = tail
    BY <1>00 DEF CallerAgrees, NoSlotRace
  <2>4. /\ caller'[p].old_tail = tail
        /\ caller'[p].pc \in {"returned", "look", "give"}
        /\ task_to_notify => caller'[p].pc = IF caller[p].was_empty THEN "give" ELSE "look"
    BY <2>3 DEF CallerAgrees
  <2>5. CallerAgrees'
    BY <2>1, <2>2, <2>4 DEF CallerAgrees
  <2>6. NoneWaitsOnWork'
    BY <2>1, <2>3, <2>4 DEF NoneWaitsOnWork, CallerAgrees
  <2> QED BY <1>0, <2>5, <2>6
<1>5. ASSUME NEW p \in Producers, LookAtHead(p) PROVE NotifyingInv'
  <2> USE <1>5 DEF LookAtHead, vars
  <2>1. \A q \in Producers : q = p
    BY DEF SingleProducer
  <2>2. caller'[p].pc = IF head = caller[p].old_tail THEN "give" ELSE "returned"
    BY DEF CallerAgrees
  <2>3. CallerAgrees'
    BY <2>1, <2>2 DEF CallerAgrees
  <2>4. NoneWaitsOnWork'
    BY <2>1, <2>2 DEF NoneWaitsOnWork
  <2> QED BY <1>0, <2>3, <2>4
<1>6. ASSUME NEW p \in Producers, Give(p) PROVE NotifyingInv'
  <2> USE <1>6 DEF Give, vars
  <2>1. caller'[p].pc = "returned"
    BY DEF CallerAgrees
  <2>2. CallerAgrees'
    BY <2>1 DEF CallerAgrees
  <2>3. NoneWaitsOnWork'
    BY DEF NoneWaitsOnWork
  <2> QED BY <1>0, <2>2, <2>3
<1>7. CASE Wake
  BY <1>0, <1>7 DEF Wake, vars, CallerAgrees, NoneWaitsOnWork
<1>8. CASE Pop
  <2>1. consumer = "drains" /\ consumer' = "drains" /\ caller' = caller
    BY <1>8 DEF Pop
  <2>2. push' = push
    BY <1>8 DEF Pop, PopStep, PopFound, PopRead, PopPublish
  <2>3. ~ (head = tail /\ head' # tail')
    <3>1. ~ PopFound /\ ~ PopRead => PopPublish
      BY <1>8 DEF Pop, PopStep
    <3> QED BY <1>00, <3>1 DEF PopFound, PopRead, PopPublish, NoSlotRace
  <2>4. CallerAgrees'
    <3>1. tail' = tail /\ (head = tail => head' = tail)
      BY <1>8, <2>3 DEF Pop, PopStep, PopFound, PopRead, PopPublish
    <3> QED BY <1>8, <2>1, <2>2, <3>1 DEF CallerAgrees
  <2>5. NoneWaitsOnWork'
    BY <2>1 DEF NoneWaitsOnWork
  <2> QED BY <1>0, <2>4, <2>5
<1>9. CASE Wait
  BY <1>0, <1>9 DEF Wait, PopEmpty, vars, CallerAgrees, NoneWaitsOnWork
<1>10. CASE Report
  BY <1>0, <1>10 DEF Report, ResetDropped, CallerAgrees, NoneWaitsOnWork
<1>11. CASE UNCHANGED notifyingVars
  BY <1>0, <1>11 DEF notifyingVars, vars, CallerAgrees, NoneWaitsOnWork
<1> QED BY <1>1, <1>2, <1>3, <1>4, <1>5, <1>6, <1>7, <1>8, <1>9, <1>10, <1>11
        DEF NotifyingNext, Pushing, Consuming

(* With one producer the notifying queue is a safe ring, and its consumer  *)
(* never waits on an element without being about to be woken, whatever the *)
(* size of the ring.                                                       *)
THEOREM NotifyingQueueSafe ==
  ASSUME SingleProducer
  PROVE  NotifyingSpec => [](NoSlotRace /\ NoneWaitsOnWork)
<1>1. NotifyingInv /\ [NotifyingNext]_notifyingVars => NotifyingInv'
  BY NotifyingInvStep
<1>2. NotifyingInv => NoSlotRace /\ NoneWaitsOnWork
  BY DEF NotifyingInv, IInv
<1> QED BY NotifyingInitInv, <1>1, <1>2, PTL DEF NotifyingSpec

(* It is a first-in first-out queue of SIZE - 1 elements, as the ring is.  *)
THEOREM NotifyingQueueImplementsFifo ==
  ASSUME SingleProducer
  PROVE  NotifyingSpec => ImplementsFifo
<1>1. NotifyingInit => Init
  BY DEF NotifyingInit
<1> QED BY <1>1, StepIsStep, QueueImplementsFifo, PTL DEF NotifyingSpec, Spec
=============================================================================
