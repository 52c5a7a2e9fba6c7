-------------------------- MODULE Scheduler_proofs --------------------------
(***************************************************************************)
(* Proofs about Scheduler, for any number of items, names, components and  *)
(* delays, on builds with one thread and with many.                        *)
(***************************************************************************)
EXTENDS Scheduler, FiniteSetTheorems, SequenceTheorems, TLAPS

(* The main loop has taken an item out of the defer queue.                 *)
Busy == main.pc \in {"taken", "deferred"}

(* The taken slots of the defer queue are its first ones, and no item is   *)
(* in it twice.                                                            *)
QueueInv ==
  /\ \A j \in 1 .. Len(defer_queue) : defer_queue[j] = None <=> j <= defer_front
  /\ \A p, q \in DOMAIN defer_queue :
       defer_queue[p] = defer_queue[q] /\ defer_queue[p] # None => p = q
  /\ Busy => main.item \in Items /\ main.defer_end \in defer_front .. Len(defer_queue)
  /\ ~ Busy => defer_front = 0

(* EveryItemInOnePlace, its pairs of places written out.                   *)
Located ==
  /\ live = items \cup to_add \cup Deferred \cup pool \cup Hand
  /\ items \cap to_add = {} /\ items \cap Deferred = {}
  /\ items \cap pool = {} /\ items \cap Hand = {}
  /\ to_add \cap Deferred = {} /\ to_add \cap pool = {} /\ to_add \cap Hand = {}
  /\ Deferred \cap pool = {} /\ Deferred \cap Hand = {} /\ pool \cap Hand = {}

(* Only timeouts are deferred, and only where there are other threads.     *)
DeferredInv == /\ \A i \in Deferred : item[i].type = "timeout"
               /\ ~ multi_threaded => Deferred = {}

(* Everything that may still run.                                          *)
Planned == items \cup to_add \cup Deferred

(* Two live items of one name and type are one, wherever they are.         *)
NamedOnce ==
  \A i, j \in Planned :
    /\ ~ Removed(i) /\ ~ Removed(j)
    /\ item[i].key = item[j].key /\ item[i].type = item[j].type
    /\ item[i].key \in Keys \ (Anonymous \cup Parallel)
    => i = j

RemovedItems == {i \in items : Removed(i)}

CountInv ==
  /\ to_add_count = Cardinality(to_add)
  /\ defer_count = Len(defer_queue) - (IF Busy THEN main.defer_end ELSE 0)
  /\ to_remove >= Cardinality(RemovedItems)
  /\ failed = {} => to_remove = Cardinality(RemovedItems)

(* What the main loop has cancelled is marked; and nothing is cancelled by *)
(* it between its look at the mark and the callback.                       *)
RevokedInv == /\ \A i \in revoked : Removed(i)
              /\ main.pc = "due" => main.item \notin revoked

(* The inductive invariant.                                                *)
IInv == /\ TypeOK /\ QueueInv /\ Located
        /\ DeferredInv /\ NamedOnce /\ CountInv
        /\ ExecutedStaysOnTop /\ RevokedInv
-----------------------------------------------------------------------------
(* The deferred items are those behind defer_queue_front_.                 *)
LEMMA DeferredFact ==
  ASSUME TypeOK, QueueInv
  PROVE  /\ Len(defer_queue) \in Nat /\ DOMAIN defer_queue = 1 .. Len(defer_queue)
         /\ Deferred \subseteq Items
         /\ Deferred = {defer_queue[j] : j \in defer_front + 1 .. Len(defer_queue)}
<1>1. /\ defer_queue \in Seq(Items \cup {None}) /\ Len(defer_queue) \in Nat
      /\ DOMAIN defer_queue = 1 .. Len(defer_queue) /\ defer_front \in 0 .. Len(defer_queue)
  BY DEF TypeOK
<1>2. \A j \in 1 .. Len(defer_queue) : defer_queue[j] \in Items \cup {None}
  BY <1>1
<1>3. Deferred \subseteq Items
  BY <1>1, <1>2 DEF Deferred
<1>4. \A j \in 1 .. Len(defer_queue) : defer_queue[j] # None <=> j \in defer_front + 1 .. Len(defer_queue)
  BY <1>1 DEF QueueInv
<1>5. defer_front + 1 .. Len(defer_queue) \subseteq 1 .. Len(defer_queue)
  BY <1>1
<1>6. Deferred = {defer_queue[j] : j \in defer_front + 1 .. Len(defer_queue)}
  BY <1>1, <1>4, <1>5 DEF Deferred
<1> QED BY <1>1, <1>3, <1>6

LEMMA HandFact ==
  ASSUME TypeOK, QueueInv
  PROVE  /\ Busy => Hand = {main.item} /\ main.item \in Items
         /\ ~ Busy => Hand = {}
  BY DEF Hand, Busy, QueueInv

(* Sets of items are finite.                                               *)
LEMMA FiniteFact ==
  ASSUME NEW S \in SUBSET Items
  PROVE  IsFiniteSet(S) /\ Cardinality(S) \in Nat
  BY ItemsAssumption, FS_Subset, FS_CardinalityType

(* A new item is in no container and in nobody's hands.                    *)
LEMMA NewItemFact ==
  ASSUME IInv, HasItem
  PROVE  /\ NewItem \in Items /\ NewItem \in pool \cup (Items \ live)
         /\ NewItem \notin Planned \cup Hand
<1>1. pool \subseteq Items /\ live \subseteq Items
  BY DEF IInv, TypeOK
<1>2. NewItem \in pool \cup (Items \ live)
  BY <1>1 DEF NewItem, HasItem
<1> QED BY <1>1, <1>2 DEF IInv, Located, Planned

(* Marking changes one field, and only of the items marked.                *)
LEMMA MarkedFact ==
  ASSUME TypeOK, NEW marks
  PROVE  /\ Marked(marks) \in [Items -> ItemRecord]
         /\ \A i \in Items : /\ Marked(marks)[i].key = item[i].key
                             /\ Marked(marks)[i].type = item[i].type
                             /\ Marked(marks)[i].interval = item[i].interval
                             /\ Marked(marks)[i].next_execution = item[i].next_execution
                             /\ Marked(marks)[i].removed <=> i \in marks \/ item[i].removed
<1>1. \A i \in Items : item[i] \in ItemRecord
  BY DEF TypeOK
<1>2. ASSUME NEW i \in Items, i \in marks
      PROVE  /\ Marked(marks)[i] \in ItemRecord
             /\ Marked(marks)[i].key = item[i].key
             /\ Marked(marks)[i].type = item[i].type
             /\ Marked(marks)[i].interval = item[i].interval
             /\ Marked(marks)[i].next_execution = item[i].next_execution
             /\ Marked(marks)[i].removed = TRUE
  <2>1. Marked(marks)[i] = [item[i] EXCEPT !.removed = TRUE]
    BY <1>2 DEF Marked
  <2> QED BY <1>1, <2>1 DEF ItemRecord
<1>3. ASSUME NEW i \in Items, i \notin marks PROVE Marked(marks)[i] = item[i]
  BY <1>3 DEF Marked
<1>4. Marked(marks) \in [Items -> ItemRecord]
  BY <1>1, <1>2, <1>3 DEF Marked
<1> QED BY <1>2, <1>3, <1>4

LEMMA RecycledFact ==
  ASSUME TypeOK, NEW S \in SUBSET Items
  PROVE  /\ Recycled(S) \in [Items -> ItemRecord]
         /\ \A i \in Items \ S : Recycled(S)[i] = item[i]
<1>1. Blank \in ItemRecord
  BY DEF Blank, ItemRecord, Types
<1> QED BY <1>1 DEF Recycled, TypeOK

(* What a cancel may mark: live items of that name and type; and when only *)
(* one is looked for, it is the only one there is.                         *)
LEMMA MayMarkFact ==
  ASSUME IInv, NEW k \in Keys, NEW type \in Types, NEW find_first \in BOOLEAN,
         NEW marks \in MayMark(k, type, find_first)
  PROVE  /\ marks \subseteq Planned
         /\ \A i \in marks : Matches(i, k, type)
         /\ find_first /\ k \notin Anonymous \cup Parallel =>
              \A i \in Planned : Matches(i, k, type) => i \in marks
<1> DEFINE inDefer == IF multi_threaded /\ type = "timeout"
                      THEN Matching(Deferred, k, type) ELSE {}
           inHeap == Matching(items, k, type)
           inToAdd == Matching(to_add, k, type)
           first == IF inDefer # {} THEN inDefer
                    ELSE IF inHeap # {} THEN inHeap ELSE inToAdd
           found == inDefer \cup inHeap \cup inToAdd
<1>1. /\ found \subseteq Planned
      /\ \A i \in found : Matches(i, k, type)
      /\ first \subseteq found /\ (first = {} => found = {})
  BY DEF Matching, Planned
<1>2. \A i \in Planned : Matches(i, k, type) => i \in found
  <2>1. \A i \in Deferred : Matches(i, k, type) => i \in inDefer
    BY DEF Matching, Matches, IInv, DeferredInv
  <2> QED BY <2>1 DEF Matching, Planned
<1>3. marks \in IF k \in Anonymous THEN {{}}
                ELSE IF ~ find_first THEN {found}
                ELSE IF first = {} THEN {{}} ELSE {{i} : i \in first}
  BY DEF MayMark
<1> HIDE DEF found, first, inDefer, inHeap, inToAdd
<1>4. marks \subseteq found
  BY <1>1, <1>3
<1>5. ASSUME find_first, k \notin Anonymous \cup Parallel,
             NEW i \in Planned, Matches(i, k, type)
      PROVE  i \in marks
  <2>1. PICK j \in first : marks = {j}
    BY <1>1, <1>2, <1>3, <1>5
  <2>2. j \in Planned /\ Matches(j, k, type)
    BY <1>1
  <2>3. i = j
    BY <1>5, <2>2 DEF IInv, NamedOnce, Matches
  <2> QED BY <2>1, <2>3
<1> QED BY <1>1, <1>4, <1>5
-----------------------------------------------------------------------------
(* The defer queue.                                                        *)

(* Taking the next item empties its slot.                                  *)
LEMMA TakeSlot ==
  ASSUME TypeOK, QueueInv, NEW end \in 0 .. Len(defer_queue), defer_front < end, TakeNext(end)
  PROVE  /\ main' \in MainRecord /\ main'.pc = "taken" /\ main'.defer_end = end
         /\ main'.item \in Items
         /\ main'.now_64 = main.now_64
         /\ defer_queue' \in Seq(Items \cup {None}) /\ Len(defer_queue') = Len(defer_queue)
         /\ defer_front' \in 0 .. Len(defer_queue')
         /\ QueueInv'
         /\ main'.item \in Deferred /\ Deferred' = Deferred \ {main'.item}
<1>0. PICK old, front, len, slot, e :
        /\ old = defer_queue /\ front = defer_front /\ len = Len(old)
        /\ slot = front + 1 /\ e = old[slot]
  OBVIOUS
<1>1. /\ old \in Seq(Items \cup {None}) /\ len \in Nat /\ front \in 0 .. len /\ end \in 0 .. len
      /\ DOMAIN old = 1 .. len /\ slot \in 1 .. end /\ slot \in 1 .. len
  BY <1>0, DeferredFact DEF TypeOK
<1>2. /\ \A j \in 1 .. len : old[j] = None <=> j <= front
      /\ \A p, q \in 1 .. len : old[p] = old[q] /\ old[p] # None => p = q
  BY <1>0, <1>1 DEF QueueInv
<1>3. e \in Items /\ e # None
  BY <1>0, <1>1, <1>2
<1>4. /\ main' = [main EXCEPT !.pc = "taken", !.defer_end = end, !.item = e]
      /\ defer_queue' = [old EXCEPT ![slot] = None]
      /\ defer_front' = slot
  BY <1>0 DEF TakeNext
<1>5. /\ main' \in MainRecord /\ main'.pc = "taken" /\ main'.defer_end = end
      /\ main'.item = e /\ main'.now_64 = main.now_64
  <2>1. end \in Nat /\ main \in MainRecord /\ "taken" \in Steps
    BY <1>1 DEF TypeOK, Steps
  <2> QED BY <1>3, <1>4, <2>1 DEF MainRecord
<1>6. /\ defer_queue' \in Seq(Items \cup {None}) /\ Len(defer_queue') = len
      /\ DOMAIN defer_queue' = 1 .. len
      /\ \A j \in 1 .. len : defer_queue'[j] = IF j = slot THEN None ELSE old[j]
  <2>1. slot \in 1 .. Len(old) /\ Len(old) = len /\ None \in Items \cup {None}
    BY <1>0, <1>1
  <2>2. /\ [old EXCEPT ![slot] = None] \in Seq(Items \cup {None})
        /\ Len([old EXCEPT ![slot] = None]) = Len(old)
        /\ \A j \in 1 .. Len(old) :
             [old EXCEPT ![slot] = None][j] = IF j = slot THEN None ELSE old[j]
    BY <1>1, <2>1, ExceptSeq
  <2> QED BY <1>1, <1>4, <2>1, <2>2
<1>7. defer_front' \in 0 .. len /\ defer_front' <= end
  BY <1>1, <1>4
<1>8. QueueInv'
  <2>1. \A j \in 1 .. len : defer_queue'[j] = None <=> j <= slot
    BY <1>0, <1>1, <1>2, <1>6
  <2>2. \A p, q \in 1 .. len : defer_queue'[p] = defer_queue'[q] /\ defer_queue'[p] # None => p = q
    BY <1>2, <1>6
  <2>3. Busy' /\ main'.item \in Items /\ main'.defer_end \in slot .. len
    BY <1>1, <1>3, <1>5 DEF Busy
  <2> QED BY <1>4, <1>6, <2>1, <2>2, <2>3 DEF QueueInv
<1>9. e \in Deferred /\ Deferred' = Deferred \ {e}
  <2>1. Deferred = {old[j] : j \in 1 .. len} \ {None}
    BY <1>0, <1>1 DEF Deferred
  <2>2. Deferred' = {defer_queue'[j] : j \in 1 .. len} \ {None}
    BY <1>6 DEF Deferred
  <2>3. \A j \in 1 .. len : old[j] = e <=> j = slot
    BY <1>0, <1>1, <1>2, <1>3
  <2> QED BY <1>0, <1>1, <1>3, <1>6, <2>1, <2>2, <2>3
<1> QED BY <1>0, <1>1, <1>3, <1>5, <1>6, <1>7, <1>8, <1>9

(* When its end is met the emptied slots go, and what was added since moves *)
(* to the front.                                                           *)
LEMMA Compact ==
  ASSUME TypeOK, QueueInv, NEW end \in 0 .. Len(defer_queue), defer_front = end, TakeNext(end)
  PROVE  /\ main' \in MainRecord /\ main'.pc = "stamp" /\ main'.now_64 = main.now_64
         /\ defer_queue' \in Seq(Items \cup {None})
         /\ Len(defer_queue') = Len(defer_queue) - end
         /\ defer_front' = 0
         /\ QueueInv'
         /\ Deferred' = Deferred
<1>0. PICK old, len : old = defer_queue /\ len = Len(old)
  OBVIOUS
<1>1. /\ old \in Seq(Items \cup {None}) /\ len \in Nat /\ end \in 0 .. len
      /\ DOMAIN old = 1 .. len
  BY <1>0, DeferredFact DEF TypeOK
<1>2. /\ \A j \in 1 .. len : old[j] = None <=> j <= end
      /\ \A p, q \in 1 .. len : old[p] = old[q] /\ old[p] # None => p = q
  BY <1>0, <1>1 DEF QueueInv
<1>3. /\ main' = [main EXCEPT !.pc = "stamp", !.defer_end = 0, !.item = None]
      /\ defer_queue' = SubSeq(old, end + 1, len)
      /\ defer_front' = 0
  BY <1>0, <1>1 DEF TakeNext
<1>4. main' \in MainRecord /\ main'.pc = "stamp" /\ main'.now_64 = main.now_64
  BY <1>3 DEF TypeOK, MainRecord, Steps
<1>5. /\ defer_queue' \in Seq(Items \cup {None}) /\ Len(defer_queue') = len - end
      /\ \A j \in 1 .. len - end : defer_queue'[j] = old[end + j]
      /\ DOMAIN defer_queue' = 1 .. len - end
  <2>1. \A j \in end + 1 .. len : old[j] \in Items \cup {None}
    BY <1>1
  <2>2. /\ defer_queue' \in Seq(Items \cup {None})
        /\ Len(defer_queue') = IF end + 1 <= len THEN len - (end + 1) + 1 ELSE 0
        /\ \A j \in 1 .. len - (end + 1) + 1 : defer_queue'[j] = old[(end + 1) + j - 1]
    <3>1. old \in Seq(Items \cup {None}) /\ end + 1 \in 1 .. len + 1 /\ len \in end .. len
      BY <1>1
    <3> QED BY <1>0, <1>3, <2>1, <3>1, SubSeqProperties
  <2>3. len - (end + 1) + 1 = len - end /\ \A j \in Int : (end + 1) + j - 1 = end + j
    BY <1>1
  <2>4. Len(defer_queue') = len - end
    BY <1>1, <2>2
  <2>5. ASSUME NEW j \in 1 .. len - end PROVE defer_queue'[j] = old[end + j]
    BY <1>1, <2>2, <2>3
  <2>6. DOMAIN defer_queue' = 1 .. len - end
    BY <2>2, <2>4
  <2> QED BY <2>2, <2>4, <2>5, <2>6
<1>6. \A j \in 1 .. len - end : end + j \in 1 .. len /\ ~ (end + j <= end)
  BY <1>1
<1>7. QueueInv'
  <2>1. \A j \in 1 .. len - end : defer_queue'[j] # None
    BY <1>2, <1>5, <1>6
  <2>2. ASSUME NEW p \in 1 .. len - end, NEW q \in 1 .. len - end, defer_queue'[p] = defer_queue'[q]
        PROVE  p = q
    <3>1. end + p = end + q
      BY <1>2, <1>5, <1>6, <2>2
    <3> QED BY <1>1, <3>1
  <2>3. ~ Busy'
    BY <1>4 DEF Busy
  <2>4. /\ DOMAIN defer_queue' = 1 .. len - end /\ Len(defer_queue') = len - end
        /\ defer_front' = 0
    BY <1>3, <1>5
  <2> QED BY <1>1, <2>1, <2>2, <2>3, <2>4 DEF QueueInv
<1>8. Deferred' = Deferred
  <2>1. Deferred = {old[j] : j \in 1 .. len} \ {None}
    BY <1>0, <1>1 DEF Deferred
  <2>2. Deferred' = {defer_queue'[j] : j \in 1 .. len - end} \ {None}
    BY <1>5 DEF Deferred
  <2>3. Deferred' \subseteq Deferred
    BY <1>5, <1>6, <2>1, <2>2
  <2>4. ASSUME NEW j \in 1 .. len, old[j] # None PROVE old[j] \in Deferred'
    <3>1. j - end \in 1 .. len - end /\ end + (j - end) = j
      BY <1>1, <1>2, <2>4
    <3>2. defer_queue'[j - end] = old[j]
      BY <1>5, <3>1
    <3> QED BY <2>2, <2>4, <3>1, <3>2
  <2> QED BY <2>1, <2>3, <2>4
<1> QED BY <1>0, <1>3, <1>4, <1>5, <1>7, <1>8

(* A new item goes to the end.                                             *)
LEMMA AppendItem ==
  ASSUME TypeOK, QueueInv, NEW i \in Items, i \notin Deferred,
         defer_queue' = Append(defer_queue, i), UNCHANGED <<defer_front, main>>
  PROVE  /\ defer_queue' \in Seq(Items \cup {None})
         /\ Len(defer_queue') = Len(defer_queue) + 1
         /\ defer_front' \in 0 .. Len(defer_queue')
         /\ QueueInv'
         /\ Deferred' = Deferred \cup {i}
<1>0. PICK old, len, front : old = defer_queue /\ len = Len(old) /\ front = defer_front
  OBVIOUS
<1>1. /\ old \in Seq(Items \cup {None}) /\ len \in Nat /\ front \in 0 .. len
      /\ DOMAIN old = 1 .. len /\ i # None
  BY <1>0, DeferredFact, ItemsAssumption DEF TypeOK
<1>2. /\ \A j \in 1 .. len : old[j] = None <=> j <= front
      /\ \A p, q \in 1 .. len : old[p] = old[q] /\ old[p] # None => p = q
  BY <1>0, <1>1 DEF QueueInv
<1>3. /\ defer_queue' \in Seq(Items \cup {None}) /\ Len(defer_queue') = len + 1
      /\ \A j \in 1 .. len : defer_queue'[j] = old[j]
      /\ defer_queue'[len + 1] = i
      /\ DOMAIN defer_queue' = 1 .. len + 1
  <2>1. defer_queue' = Append(old, i)
    BY <1>0
  <2> QED BY <1>1, <2>1, AppendProperties
<1>4. \A j \in 1 .. len + 1 : j \in 1 .. len \/ j = len + 1
  BY <1>1
<1>5. Deferred = {old[j] : j \in 1 .. len} \ {None}
  BY <1>0, <1>1 DEF Deferred
<1>6. \A j \in 1 .. len : old[j] # i
  BY <1>1, <1>5
<1>7. QueueInv'
  <2>1. \A j \in 1 .. len + 1 : defer_queue'[j] = None <=> j <= front
    BY <1>1, <1>2, <1>3, <1>4
  <2>2. ASSUME NEW p \in 1 .. len + 1, NEW q \in 1 .. len + 1,
               defer_queue'[p] = defer_queue'[q], defer_queue'[p] # None
        PROVE  p = q
    BY <1>2, <1>3, <1>4, <1>6, <2>2
  <2>3. (Busy' <=> Busy) /\ defer_front' = front /\ main' = main
    BY <1>0 DEF Busy
  <2>4. Busy => main.item \in Items /\ main.defer_end \in front .. len + 1
    BY <1>0, <1>1 DEF QueueInv
  <2>5. ~ Busy => front = 0
    BY <1>0 DEF QueueInv
  <2> QED BY <1>3, <2>1, <2>2, <2>3, <2>4, <2>5 DEF QueueInv
<1>8. Deferred' = Deferred \cup {i}
  <2>1. Deferred' = {defer_queue'[j] : j \in 1 .. len + 1} \ {None}
    BY <1>3 DEF Deferred
  <2>2. len + 1 \in 1 .. len + 1 /\ 1 .. len \subseteq 1 .. len + 1
    BY <1>1
  <2> QED BY <1>1, <1>3, <1>4, <1>5, <2>1, <2>2
<1> QED BY <1>0, <1>1, <1>3, <1>7, <1>8
-----------------------------------------------------------------------------
(* The shapes that steps have, one lemma for each.                         *)

(* A step of the main loop that touches no timer, a component's failure,   *)
(* the clock.                                                              *)
LEMMA Quiet ==
  ASSUME IInv,
         UNCHANGED << item, containers, counters, multi_threaded, revoked >>,
         main' \in MainRecord, now' \in Nat,
         failed \subseteq failed', failed' \subseteq Components,
         Busy' <=> Busy,
         Busy => main'.item = main.item /\ main'.defer_end = main.defer_end,
         main'.pc \in {"due", "callback"} => main'.item \in DueTops',
         main'.pc = "due" => main'.item \notin revoked
  PROVE  IInv'
<1>1. TypeOK'
  BY DEF IInv, TypeOK, containers, counters
<1>2. /\ item' = item /\ items' = items /\ to_add' = to_add /\ pool' = pool /\ live' = live
      /\ defer_queue' = defer_queue /\ defer_front' = defer_front
      /\ to_add_count' = to_add_count /\ defer_count' = defer_count /\ to_remove' = to_remove
      /\ revoked' = revoked /\ multi_threaded' = multi_threaded
      /\ Deferred' = Deferred
  BY DEF containers, counters, Deferred
<1>3. Hand' = Hand
  BY DEF Hand, Busy
<1>4. QueueInv'
  <2>1. QueueInv
    BY DEF IInv
  <2> QED BY <1>2, <2>1 DEF QueueInv
<1>5. Located'
  BY <1>2, <1>3 DEF IInv, Located
<1>6. DeferredInv'
  BY <1>2 DEF IInv, DeferredInv
<1>7. NamedOnce'
  BY <1>2 DEF IInv, NamedOnce, Planned, Removed
<1>8. CountInv'
  <2>1. RemovedItems' = RemovedItems
    BY <1>2 DEF RemovedItems, Removed
  <2>2. CountInv
    BY DEF IInv
  <2>3. failed' = {} => failed = {}
    OBVIOUS
  <2>4. (IF Busy' THEN main'.defer_end ELSE 0) = (IF Busy THEN main.defer_end ELSE 0)
    OBVIOUS
  <2> QED BY <1>2, <2>1, <2>2, <2>3, <2>4 DEF CountInv
<1>9. ExecutedStaysOnTop'
  BY DEF ExecutedStaysOnTop
<1>10. RevokedInv'
  BY <1>2 DEF IInv, RevokedInv, Removed
<1> QED BY <1>1, <1>4, <1>5, <1>6, <1>7, <1>8, <1>9, <1>10 DEF IInv

(* The main loop takes items off the heap and recycles them.               *)
LEMMA Dropped ==
  ASSUME IInv, NEW S \in SUBSET items, items' = items \ S, Recycle(S),
         UNCHANGED << to_add, defer_queue, defer_front, live >>,
         UNCHANGED << to_add_count, defer_count, setting, now >>,
         main' \in MainRecord, ~ Busy, ~ Busy', main'.pc \notin {"due", "callback"},
         to_remove' \in Nat, to_remove' >= Cardinality(RemovedItems \ S),
         failed = {} => to_remove' = Cardinality(RemovedItems \ S)
  PROVE  IInv'
<1>0. TypeOK /\ QueueInv /\ Located /\ DeferredInv /\ NamedOnce /\ CountInv /\ RevokedInv
  BY DEF IInv
<1>1. /\ item' = Recycled(S) /\ pool' = pool \cup S /\ revoked' = revoked \ S
      /\ failed' = failed /\ multi_threaded' = multi_threaded
      /\ Deferred' = Deferred /\ Hand = {} /\ Hand' = {}
  BY DEF Recycle, setting, Deferred, Hand, Busy
<1>2. S \subseteq Items /\ items \subseteq Items /\ to_add \subseteq Items /\ Deferred \subseteq Items
  BY <1>0, DeferredFact DEF TypeOK
<1>3. /\ item' \in [Items -> ItemRecord]
      /\ \A i \in Items \ S : item'[i] = item[i]
  BY <1>0, <1>1, <1>2, RecycledFact
<1>4. S \cap to_add = {} /\ S \cap Deferred = {}
  BY <1>0 DEF Located
<1>5. TypeOK'
  BY <1>0, <1>1, <1>2, <1>3 DEF TypeOK
<1>6. QueueInv'
  BY <1>0 DEF QueueInv
<1>7. Located'
  BY <1>0, <1>1, <1>4 DEF Located
<1>8. DeferredInv'
  <2>1. \A i \in Deferred : item'[i] = item[i]
    BY <1>2, <1>3, <1>4
  <2> QED BY <1>0, <1>1, <2>1 DEF DeferredInv
<1>9. NamedOnce'
  <2>1. Planned' \subseteq Planned \ S /\ Planned \subseteq Items
    BY <1>1, <1>2, <1>4 DEF Planned
  <2>2. \A i \in Planned' : i \in Planned /\ item'[i] = item[i]
    BY <1>3, <2>1
  <2> QED BY <1>0, <2>2 DEF NamedOnce, Removed
<1>10. CountInv'
  <2>1. RemovedItems' = RemovedItems \ S
    BY <1>2, <1>3 DEF RemovedItems, Removed
  <2> QED BY <1>0, <1>1, <2>1 DEF CountInv
<1>11. ExecutedStaysOnTop'
  BY DEF ExecutedStaysOnTop
<1>12. RevokedInv'
  BY <1>0, <1>1, <1>3 DEF RevokedInv, Removed, TypeOK
<1> QED BY <1>5, <1>6, <1>7, <1>8, <1>9, <1>10, <1>11, <1>12 DEF IInv

(* The live staged items join the heap, the removed ones are recycled.     *)
LEMMA Merged ==
  ASSUME IInv, ProcessToAdd, UNCHANGED << setting, now >>,
         main' \in MainRecord, ~ Busy, ~ Busy', main'.pc \notin {"due", "callback"}
  PROVE  IInv'
<1> DEFINE gone == {i \in to_add : Removed(i)}
           kept == {i \in to_add : ~ Removed(i)}
<1>1. CASE ToAddEmpty
  BY <1>1, Quiet DEF ProcessToAdd, setting, IInv, TypeOK
<1>2. CASE ~ ToAddEmpty
  <2>0. TypeOK /\ QueueInv /\ Located /\ DeferredInv /\ NamedOnce /\ CountInv /\ RevokedInv
    BY DEF IInv
  <2>1. /\ item' = Recycled(gone) /\ pool' = pool \cup gone /\ revoked' = revoked \ gone
        /\ items' = items \cup kept /\ to_add' = {} /\ to_add_count' = 0
        /\ failed' = failed /\ multi_threaded' = multi_threaded
        /\ Deferred' = Deferred /\ Hand = {} /\ Hand' = {}
        /\ UNCHANGED << defer_queue, defer_front, live, defer_count, to_remove >>
    BY <1>2 DEF ProcessToAdd, Recycle, setting, Deferred, Hand, Busy
  <2>2. /\ gone \subseteq Items /\ kept \subseteq Items /\ items \subseteq Items
        /\ to_add = gone \cup kept /\ gone \cap kept = {} /\ Deferred \subseteq Items
    BY <2>0, DeferredFact DEF TypeOK
  <2>3. \A i \in kept : ~ Removed(i)
    OBVIOUS
  <2> HIDE DEF gone, kept
  <2>4. /\ item' \in [Items -> ItemRecord]
        /\ \A i \in Items \ gone : item'[i] = item[i]
    BY <2>0, <2>1, <2>2, RecycledFact
  <2>5. gone \cap items = {} /\ gone \cap Deferred = {}
    BY <2>0, <2>2 DEF Located
  <2>6. TypeOK'
    BY <2>0, <2>1, <2>2, <2>4 DEF TypeOK
  <2>7. QueueInv'
    BY <2>0, <2>1 DEF QueueInv
  <2>8. Located'
    BY <2>0, <2>1, <2>2 DEF Located
  <2>9. DeferredInv'
    <3>1. \A i \in Deferred : item'[i] = item[i]
      BY <2>2, <2>4, <2>5
    <3> QED BY <2>0, <2>1, <3>1 DEF DeferredInv
  <2>10. NamedOnce'
    <3>1. Planned' \subseteq Planned \ gone /\ Planned \subseteq Items
      BY <2>1, <2>2, <2>5 DEF Planned
    <3>2. \A i \in Planned' : i \in Planned /\ item'[i] = item[i]
      BY <2>4, <3>1
    <3> QED BY <2>0, <3>2 DEF NamedOnce, Removed
  <2>11. CountInv'
    <3>1. RemovedItems' = RemovedItems
      BY <2>1, <2>2, <2>3, <2>4, <2>5 DEF RemovedItems, Removed
    <3>2. Cardinality(to_add') = 0
      BY <2>1, FS_EmptySet
    <3> QED BY <2>0, <2>1, <3>1, <3>2 DEF CountInv
  <2>12. ExecutedStaysOnTop'
    BY DEF ExecutedStaysOnTop
  <2>13. RevokedInv'
    BY <2>0, <2>1, <2>4 DEF RevokedInv, Removed, TypeOK
  <2> QED BY <2>6, <2>7, <2>8, <2>9, <2>10, <2>11, <2>12, <2>13 DEF IInv
<1> QED BY <1>1, <1>2
-----------------------------------------------------------------------------
(* What to_remove_ counts grows by the live items of the heap that are     *)
(* marked.                                                                 *)
LEMMA MarkCount ==
  ASSUME IInv, NEW marks, marks \subseteq Planned, \A i \in marks : ~ Removed(i),
         CountMarked(marks), items' = items,
         \A i \in items : item'[i].removed <=> i \in marks \/ Removed(i)
  PROVE  /\ to_remove' \in Nat
         /\ to_remove' >= Cardinality(RemovedItems')
         /\ failed = {} => to_remove' = Cardinality(RemovedItems')
<1> DEFINE M == marks \cap items
<1>1. RemovedItems' = RemovedItems \cup M
  BY DEF RemovedItems, Removed
<1>2. RemovedItems \cap M = {} /\ M \subseteq Items /\ RemovedItems \subseteq Items
  BY DEF RemovedItems, IInv, TypeOK
<1> HIDE DEF M
<1>3. /\ IsFiniteSet(M) /\ Cardinality(M) \in Nat
      /\ IsFiniteSet(RemovedItems) /\ Cardinality(RemovedItems) \in Nat
  BY <1>2, FiniteFact
<1>4. Cardinality(RemovedItems \cup M) = Cardinality(RemovedItems) + Cardinality(M)
  <2>1. Cardinality(RemovedItems \cup M) = Cardinality(RemovedItems) + Cardinality(M)
                                           - Cardinality(RemovedItems \cap M)
    BY <1>3, FS_Union
  <2>2. Cardinality(RemovedItems \cap M) = 0
    BY <1>2, FS_EmptySet
  <2> QED BY <1>3, <2>1, <2>2
<1>5. to_remove' = to_remove + Cardinality(M)
  BY DEF CountMarked, M
<1>6. /\ to_remove \in Nat /\ to_remove >= Cardinality(RemovedItems)
      /\ failed = {} => to_remove = Cardinality(RemovedItems)
  BY DEF IInv, TypeOK, CountInv
<1>7. to_remove' \in Nat /\ to_remove' >= Cardinality(RemovedItems) + Cardinality(M)
  BY <1>3, <1>5, <1>6
<1> QED BY <1>1, <1>3, <1>4, <1>5, <1>6, <1>7

LEMMA CancelStep ==
  ASSUME IInv, NEW by, NEW k \in Keys, NEW type \in Types, NEW find_first \in BOOLEAN,
         Cancel(by, k, type, find_first)
  PROVE  IInv'
<1>0. TypeOK /\ QueueInv /\ Located /\ DeferredInv /\ NamedOnce /\ CountInv
      /\ ExecutedStaysOnTop /\ RevokedInv
  BY DEF IInv
<1>1. PICK marks \in MayMark(k, type, find_first) :
        item' = Marked(marks) /\ CountMarked(marks) /\ revoked' = Revoke(by, marks)
  BY DEF Cancel
<1>2. marks \subseteq Planned /\ \A i \in marks : Matches(i, k, type)
  BY MayMarkFact
<1>3. /\ UNCHANGED << items, to_add, defer_queue, defer_front, pool, live >>
      /\ UNCHANGED << to_add_count, defer_count, failed, multi_threaded, now, main >>
      /\ Deferred' = Deferred /\ Hand' = Hand /\ (Busy' <=> Busy)
  BY DEF Cancel, containers, setting, Deferred, Hand, Busy
<1>4. items \subseteq Items /\ Planned \subseteq Items /\ Deferred \subseteq Items
  BY <1>0, DeferredFact DEF TypeOK, Planned
<1>5. /\ item' \in [Items -> ItemRecord]
      /\ \A i \in Items : /\ item'[i].key = item[i].key
                          /\ item'[i].type = item[i].type
                          /\ item'[i].next_execution = item[i].next_execution
                          /\ item'[i].removed <=> i \in marks \/ item[i].removed
  BY <1>0, <1>1, MarkedFact
<1>6. /\ to_remove' \in Nat
      /\ to_remove' >= Cardinality(RemovedItems')
      /\ failed = {} => to_remove' = Cardinality(RemovedItems')
  <2>1. \A i \in items : item'[i].removed <=> i \in marks \/ Removed(i)
    BY <1>4, <1>5 DEF Removed
  <2> QED BY <1>1, <1>2, <1>3, <2>1, MarkCount DEF Matches
<1>7. revoked' \subseteq revoked \cup marks /\ (main.pc = "due" => revoked' = revoked)
  BY <1>1 DEF Revoke, Cancel, MayCall
<1>8. TypeOK'
  BY <1>0, <1>2, <1>3, <1>4, <1>5, <1>6, <1>7 DEF TypeOK
<1>9. QueueInv'
  BY <1>0, <1>3 DEF QueueInv
<1>10. Located'
  BY <1>0, <1>3 DEF Located
<1>11. DeferredInv'
  BY <1>0, <1>3, <1>4, <1>5 DEF DeferredInv
<1>12. NamedOnce'
  <2>1. Planned' = Planned
    BY <1>3 DEF Planned
  <2> QED BY <1>0, <1>4, <1>5, <2>1 DEF NamedOnce, Removed
<1>13. CountInv'
  BY <1>0, <1>3, <1>6 DEF CountInv
<1>14. ExecutedStaysOnTop'
  <2>1. \A i \in items : item'[i].next_execution = item[i].next_execution
    BY <1>4, <1>5
  <2>2. DueTops' = DueTops
    BY <1>3, <2>1 DEF DueTops, Tops
  <2> QED BY <1>0, <1>3, <2>2 DEF ExecutedStaysOnTop
<1>15. RevokedInv'
  BY <1>0, <1>2, <1>3, <1>4, <1>5, <1>7 DEF RevokedInv, Removed, TypeOK
<1> QED BY <1>8, <1>9, <1>10, <1>11, <1>12, <1>13, <1>14, <1>15 DEF IInv

LEMMA TrimStep ==
  ASSUME IInv, TrimFreelist
  PROVE  IInv'
<1>0. TypeOK /\ QueueInv /\ Located /\ DeferredInv /\ NamedOnce /\ CountInv
      /\ ExecutedStaysOnTop /\ RevokedInv
  BY DEF IInv
<1>1. /\ live' = live \ pool /\ pool' = {}
      /\ UNCHANGED << item, items, to_add, defer_queue, defer_front >>
      /\ UNCHANGED << to_add_count, defer_count, to_remove >>
      /\ UNCHANGED << failed, multi_threaded, now, main, revoked >>
      /\ Deferred' = Deferred /\ Hand' = Hand /\ (Busy' <=> Busy)
  BY DEF TrimFreelist, counters, setting, Deferred, Hand, Busy
<1>2. TypeOK'
  BY <1>0, <1>1 DEF TypeOK
<1>3. QueueInv'
  BY <1>0, <1>1 DEF QueueInv
<1>4. Located'
  BY <1>0, <1>1 DEF Located
<1>5. DeferredInv' /\ NamedOnce'
  BY <1>0, <1>1 DEF DeferredInv, NamedOnce, Planned, Removed
<1>6. CountInv'
  BY <1>0, <1>1 DEF CountInv, RemovedItems, Removed
<1>7. ExecutedStaysOnTop'
  BY <1>0, <1>1 DEF ExecutedStaysOnTop, DueTops, Tops
<1>8. RevokedInv'
  BY <1>0, <1>1 DEF RevokedInv, Removed
<1> QED BY <1>2, <1>3, <1>4, <1>5, <1>6, <1>7, <1>8 DEF IInv

(* An interval is pushed back with a later time.                           *)
LEMMA IntervalStep ==
  ASSUME IInv, EndInterval
  PROVE  IInv'
<1>0. TypeOK /\ QueueInv /\ Located /\ DeferredInv /\ NamedOnce /\ CountInv
      /\ ExecutedStaysOnTop /\ RevokedInv
  BY DEF IInv
<1>1. /\ UNCHANGED << items, to_add, defer_queue, defer_front, pool, live >>
      /\ UNCHANGED << to_add_count, defer_count, to_remove >>
      /\ UNCHANGED << failed, multi_threaded, now, revoked >>
      /\ ~ Busy /\ ~ Busy' /\ main'.pc = "heap" /\ main.pc = "callback"
      /\ Deferred' = Deferred /\ Hand' = Hand
  <2>1. main' = [main EXCEPT !.pc = "heap", !.item = None, !.has_added = HasAdded]
    BY DEF EndInterval, HeapAgain
  <2>2. main'.pc = "heap" /\ main.pc = "callback"
    BY <1>0, <2>1 DEF EndInterval, At, TypeOK, MainRecord
  <2> QED BY <2>2 DEF EndInterval, containers, counters, setting, Deferred, Hand, Busy
<1>2. main' \in MainRecord
  <2>1. HasAdded \in BOOLEAN /\ main \in MainRecord /\ "heap" \in Steps
    BY <1>0 DEF HasAdded, TypeOK, MainRecord, Steps
  <2> QED BY <2>1 DEF EndInterval, HeapAgain, MainRecord
<1>3. /\ item' \in [Items -> ItemRecord]
      /\ \A i \in Items : /\ item'[i].key = item[i].key
                          /\ item'[i].type = item[i].type
                          /\ item'[i].removed = item[i].removed
  <2>1. main.item \in Items
    BY <1>0, <1>1 DEF ExecutedStaysOnTop, DueTops, Tops, TypeOK
  <2>2. item[main.item] \in ItemRecord /\ main.now_64 \in Nat
    BY <1>0, <2>1 DEF TypeOK, MainRecord
  <2>3. main.now_64 + item[main.item].interval \in Nat
    BY <2>2 DEF ItemRecord
  <2>4. PICK n \in Nat : item' = [item EXCEPT ![main.item].next_execution = n]
    BY <2>3 DEF EndInterval
  <2>5. item'[main.item] = [item[main.item] EXCEPT !.next_execution = n]
    BY <1>0, <2>1, <2>4 DEF TypeOK
  <2>6. \A i \in Items \ {main.item} : item'[i] = item[i]
    BY <1>0, <2>1, <2>4 DEF TypeOK
  <2>7. /\ item'[main.item] \in ItemRecord
        /\ item'[main.item].key = item[main.item].key
        /\ item'[main.item].type = item[main.item].type
        /\ item'[main.item].removed = item[main.item].removed
    BY <2>2, <2>5 DEF ItemRecord
  <2>8. item' \in [Items -> ItemRecord]
    BY <1>0, <2>4, <2>6, <2>7 DEF TypeOK
  <2> QED BY <2>6, <2>7, <2>8
<1>4. Planned' = Planned /\ Planned \subseteq Items /\ Deferred \subseteq Items /\ items \subseteq Items
  BY <1>0, <1>1, DeferredFact DEF TypeOK, Planned
<1>5. TypeOK'
  BY <1>0, <1>1, <1>2, <1>3 DEF TypeOK
<1>6. QueueInv'
  BY <1>0, <1>1 DEF QueueInv
<1>7. Located'
  BY <1>0, <1>1 DEF Located
<1>8. DeferredInv' /\ NamedOnce'
  BY <1>0, <1>1, <1>3, <1>4 DEF DeferredInv, NamedOnce, Removed
<1>9. CountInv'
  <2>1. RemovedItems' = RemovedItems
    BY <1>1, <1>3, <1>4 DEF RemovedItems, Removed
  <2> QED BY <1>0, <1>1, <2>1 DEF CountInv
<1>10. ExecutedStaysOnTop'
  BY <1>1 DEF ExecutedStaysOnTop
<1>11. RevokedInv'
  BY <1>0, <1>1, <1>3 DEF RevokedInv, Removed, TypeOK
<1> QED BY <1>5, <1>6, <1>7, <1>8, <1>9, <1>10, <1>11 DEF IInv

LEMMA DelayFact ==
  ASSUME NEW type \in Types, NEW asked \in Delays
  PROVE  Coerced(type, asked) \in Nat /\ Offsets(Coerced(type, asked)) \subseteq Nat
<1>1. Coerced(type, asked) \in Nat
  BY NumberAssumption DEF Coerced
<1> QED BY <1>1, NumberAssumption DEF Offsets

(* A new timer replaces the one of its name, and waits in the defer queue  *)
(* or in to_add_.                                                          *)
LEMMA SetTimerStep ==
  ASSUME IInv, NEW by, NEW k \in Keys, NEW type \in Types, NEW asked \in Delays,
         NEW skip_cancel \in BOOLEAN, SetTimer(by, k, type, asked, skip_cancel)
  PROVE  IInv'
<1>0. TypeOK /\ QueueInv /\ Located /\ DeferredInv /\ NamedOnce /\ CountInv
      /\ ExecutedStaysOnTop /\ RevokedInv
  BY DEF IInv
<1>1. PICK i, delay, isDefer :
        /\ i = NewItem /\ delay = Coerced(type, asked)
        /\ isDefer = (multi_threaded /\ type = "timeout" /\ delay = 0)
  OBVIOUS
<1>2. PICK marks \in IF skip_cancel THEN {{}} ELSE MayMark(k, type, TRUE),
           next \in IF isDefer THEN {0}
                    ELSE IF type = "timeout" THEN {now + delay}
                    ELSE {now + offset : offset \in Offsets(delay)} :
        /\ item' = [Marked(marks) EXCEPT ![i] =
                      [key |-> k, type |-> type,
                       interval |-> IF type = "interval" THEN delay ELSE 0,
                       next_execution |-> next, removed |-> FALSE]]
        /\ CountMarked(marks)
        /\ revoked' = Revoke(by, marks) \ {i}
  BY <1>1 DEF SetTimer
<1>3. /\ i \in Items /\ i \in pool \cup (Items \ live) /\ i \notin Planned \cup Hand
      /\ i \notin items /\ i \notin to_add /\ i \notin Deferred
  BY <1>1, NewItemFact DEF SetTimer, Planned
<1>4. /\ pool' = pool \ {i} /\ live' = live \cup {i}
      /\ UNCHANGED << items, defer_front, failed, multi_threaded, now, main >>
      /\ Hand' = Hand /\ (Busy' <=> Busy)
  BY <1>1 DEF SetTimer, setting, Hand, Busy
<1>5. /\ items \subseteq Items /\ Planned \subseteq Items /\ Deferred \subseteq Items
      /\ to_add \subseteq Items
  BY <1>0, DeferredFact DEF TypeOK, Planned
<1>6. delay \in Nat /\ next \in Nat
  <2>1. delay \in Nat /\ Offsets(delay) \subseteq Nat /\ now \in Nat
    BY <1>0, <1>1, DelayFact DEF TypeOK
  <2> QED BY <1>2, <2>1
<1>7. /\ marks \subseteq Planned /\ \A j \in marks : ~ Removed(j)
      /\ k \notin Anonymous \cup Parallel =>
           \A j \in Planned : Matches(j, k, type) => j \in marks
  <2>1. CASE skip_cancel
    BY <1>2, <2>1 DEF SetTimer
  <2>2. CASE ~ skip_cancel
    <3>1. marks \in MayMark(k, type, TRUE)
      BY <1>2, <2>2
    <3> QED BY <3>1, MayMarkFact DEF Matches
  <2> QED BY <2>1, <2>2
<1>8. /\ item' \in [Items -> ItemRecord]
      /\ item'[i].key = k /\ item'[i].type = type /\ ~ item'[i].removed
      /\ \A j \in Items \ {i} : /\ item'[j].key = item[j].key
                                /\ item'[j].type = item[j].type
                                /\ item'[j].next_execution = item[j].next_execution
                                /\ item'[j].removed <=> j \in marks \/ item[j].removed
  <2>1. PICK new : new = [key |-> k, type |-> type,
                          interval |-> IF type = "interval" THEN delay ELSE 0,
                          next_execution |-> next, removed |-> FALSE]
    OBVIOUS
  <2>2. (IF type = "interval" THEN delay ELSE 0) \in Nat
    BY <1>6
  <2>3. new \in ItemRecord /\ new.key = k /\ new.type = type /\ ~ new.removed
    BY <1>6, <2>1, <2>2 DEF ItemRecord
  <2>4. item' = [Marked(marks) EXCEPT ![i] = new]
    BY <1>2, <2>1
  <2>5. Marked(marks) \in [Items -> ItemRecord]
    BY <1>0, MarkedFact
  <2>6. /\ item' \in [Items -> ItemRecord] /\ item'[i] = new
        /\ \A j \in Items \ {i} : item'[j] = Marked(marks)[j]
    BY <1>3, <2>3, <2>4, <2>5
  <2> QED BY <1>0, <2>3, <2>6, MarkedFact
<1>9. /\ to_remove' \in Nat
      /\ to_remove' >= Cardinality(RemovedItems')
      /\ failed = {} => to_remove' = Cardinality(RemovedItems')
  <2>1. \A j \in items : item'[j].removed <=> j \in marks \/ Removed(j)
    BY <1>3, <1>5, <1>8 DEF Removed
  <2> QED BY <1>2, <1>4, <1>7, <2>1, MarkCount
<1>10. /\ revoked' \subseteq (revoked \cup marks) \ {i}
       /\ main.pc = "due" => revoked' \subseteq revoked
  BY <1>2 DEF Revoke, SetTimer, MayCall
<1>11. \/ /\ isDefer /\ to_add' = to_add /\ to_add_count' = to_add_count
          /\ Deferred' = Deferred \cup {i} /\ defer_count' = defer_count + 1
          /\ defer_queue' \in Seq(Items \cup {None}) /\ defer_front' \in 0 .. Len(defer_queue')
          /\ Len(defer_queue') = Len(defer_queue) + 1
          /\ QueueInv'
       \/ /\ ~ isDefer /\ to_add' = to_add \cup {i} /\ to_add_count' = to_add_count + 1
          /\ Deferred' = Deferred /\ UNCHANGED << defer_queue, defer_count >>
          /\ QueueInv'
  <2>1. CASE isDefer
    <3>1. /\ defer_queue' = Append(defer_queue, i) /\ defer_count' = defer_count + 1
          /\ to_add' = to_add /\ to_add_count' = to_add_count
      BY <1>1, <2>1 DEF SetTimer
    <3> QED BY <1>0, <1>3, <1>4, <2>1, <3>1, AppendItem
  <2>2. CASE ~ isDefer
    <3>1. /\ to_add' = to_add \cup {i} /\ to_add_count' = to_add_count + 1
          /\ UNCHANGED << defer_queue, defer_count >>
      BY <1>1, <2>2 DEF SetTimer
    <3> QED BY <1>0, <1>4, <2>2, <3>1 DEF Deferred, QueueInv
  <2> QED BY <2>1, <2>2
<1>12. Planned' = Planned \cup {i}
  BY <1>4, <1>11 DEF Planned
<1>13. TypeOK'
  <2>1. to_add' \subseteq Items /\ to_add_count' \in Nat /\ defer_count' \in Nat
    BY <1>0, <1>3, <1>11 DEF TypeOK
  <2>2. defer_queue' \in Seq(Items \cup {None}) /\ defer_front' \in 0 .. Len(defer_queue')
    BY <1>0, <1>4, <1>11 DEF TypeOK
  <2>3. revoked' \subseteq Items
    BY <1>0, <1>5, <1>7, <1>10 DEF TypeOK
  <2> QED BY <1>0, <1>3, <1>4, <1>8, <1>9, <2>1, <2>2, <2>3 DEF TypeOK
<1>14. QueueInv'
  BY <1>11
<1>15. Located'
  BY <1>0, <1>3, <1>4, <1>11 DEF Located, Planned
<1>16. DeferredInv'
  BY <1>0, <1>1, <1>3, <1>4, <1>5, <1>8, <1>11 DEF DeferredInv
<1>17. NamedOnce'
  <2> SUFFICES ASSUME NEW a \in Planned \cup {i}, NEW b \in Planned \cup {i},
                      ~ item'[a].removed, ~ item'[b].removed,
                      item'[a].key = item'[b].key, item'[a].type = item'[b].type,
                      item'[a].key \in Keys \ (Anonymous \cup Parallel)
               PROVE  a = b
    BY <1>12 DEF NamedOnce, Removed
  <2>1. ASSUME NEW c \in Planned, item'[c].key = k, item'[c].type = type, ~ item'[c].removed,
               k \notin Anonymous \cup Parallel, c # i
        PROVE  FALSE
    <3>1. Matches(c, k, type) /\ c \notin marks
      BY <1>5, <1>8, <2>1 DEF Matches, Removed
    <3> QED BY <1>7, <2>1, <3>1
  <2>2. CASE a = i
    BY <1>8, <2>1, <2>2
  <2>3. CASE b = i
    BY <1>8, <2>1, <2>3
  <2>4. CASE a # i /\ b # i
    BY <1>0, <1>5, <1>8, <2>4 DEF NamedOnce, Removed
  <2> QED BY <2>2, <2>3, <2>4
<1>18. CountInv'
  <2>1. to_add_count' = Cardinality(to_add')
    <3>1. IsFiniteSet(to_add)
      BY <1>5, FiniteFact
    <3>2. Cardinality(to_add \cup {i}) = Cardinality(to_add) + 1
      BY <1>3, <3>1, FS_AddElement
    <3> QED BY <1>0, <1>11, <3>2 DEF CountInv
  <2>2. defer_count' = Len(defer_queue') - (IF Busy' THEN main'.defer_end ELSE 0)
    <3>1. PICK d \in Int : d = IF Busy THEN main.defer_end ELSE 0
      BY <1>0 DEF TypeOK, MainRecord
    <3>2. (IF Busy' THEN main'.defer_end ELSE 0) = d
      BY <1>4, <3>1
    <3>3. defer_count = Len(defer_queue) - d /\ Len(defer_queue) \in Nat
      BY <1>0, <3>1, DeferredFact DEF CountInv
    <3> QED BY <1>11, <3>2, <3>3
  <2> QED BY <1>4, <1>9, <2>1, <2>2 DEF CountInv
<1>19. ExecutedStaysOnTop'
  <2>1. \A j \in items : item'[j].next_execution = item[j].next_execution
    BY <1>3, <1>5, <1>8
  <2>2. DueTops' = DueTops
    BY <1>4, <2>1 DEF DueTops, Tops
  <2> QED BY <1>0, <1>4, <2>2 DEF ExecutedStaysOnTop
<1>20. RevokedInv'
  <2>1. \A j \in revoked' : j \in Items \ {i} /\ (j \in marks \/ Removed(j))
    BY <1>0, <1>5, <1>7, <1>10 DEF RevokedInv, TypeOK
  <2>2. \A j \in revoked' : item'[j].removed
    BY <1>8, <2>1 DEF Removed
  <2>3. main.pc = "due" => main.item \notin revoked'
    BY <1>0, <1>10 DEF RevokedInv
  <2> QED BY <1>4, <2>2, <2>3 DEF RevokedInv, Removed
<1> QED BY <1>13, <1>14, <1>15, <1>16, <1>17, <1>18, <1>19, <1>20 DEF IInv

(* The main loop lets go of the deferred item it has, and takes the next   *)
(* one or is done with the queue.                                          *)
LEMMA TakeStep ==
  ASSUME IInv, NEW end \in 0 .. Len(defer_queue), defer_front <= end, TakeNext(end),
         item' \in [Items -> ItemRecord], \A i \in Items \ Hand : item'[i] = item[i],
         pool' = pool \cup Hand, revoked' = revoked \ Hand,
         UNCHANGED << items, to_add, live, to_add_count, to_remove, setting, now >>,
         defer_count' = Len(defer_queue) - end
  PROVE  IInv'
<1>0. TypeOK /\ QueueInv /\ Located /\ DeferredInv /\ NamedOnce /\ CountInv
      /\ ExecutedStaysOnTop /\ RevokedInv
  BY DEF IInv
<1>1. PICK e, n, front : e = Hand /\ n = Len(defer_queue) /\ front = defer_front
  OBVIOUS
<1>2. /\ n \in Nat /\ end \in 0 .. n /\ front \in 0 .. n /\ n - end \in Nat
      /\ front < end \/ front = end
      /\ Deferred \subseteq Items
  BY <1>0, <1>1, DeferredFact DEF TypeOK
<1>3. e \subseteq Items /\ items \subseteq Items /\ to_add \subseteq Items
  BY <1>0, <1>1, HandFact DEF TypeOK
<1>4. /\ pool' = pool \cup e /\ revoked' = revoked \ e
      /\ \A i \in Items \ e : item'[i] = item[i]
      /\ UNCHANGED << items, to_add, live, to_add_count, to_remove >>
      /\ UNCHANGED << failed, multi_threaded, now >>
      /\ defer_count' = n - end
  BY <1>1 DEF setting
<1>5. /\ main' \in MainRecord /\ main'.pc \in {"taken", "stamp"}
      /\ defer_queue' \in Seq(Items \cup {None})
      /\ defer_front' \in 0 .. Len(defer_queue')
      /\ QueueInv'
      /\ Deferred' = Deferred \ Hand' /\ Hand' \subseteq Deferred
      /\ defer_count' = Len(defer_queue') - (IF Busy' THEN main'.defer_end ELSE 0)
  <2>1. CASE front < end
    <3>1. /\ main' \in MainRecord /\ main'.pc = "taken" /\ main'.defer_end = end
          /\ defer_queue' \in Seq(Items \cup {None}) /\ Len(defer_queue') = n
          /\ defer_front' \in 0 .. Len(defer_queue')
          /\ QueueInv'
          /\ main'.item \in Deferred /\ Deferred' = Deferred \ {main'.item}
      BY <1>0, <1>1, <2>1, TakeSlot
    <3>2. Busy' /\ Hand' = {main'.item}
      BY <3>1 DEF Busy, Hand
    <3> QED BY <1>4, <3>1, <3>2
  <2>2. CASE front = end
    <3>1. /\ main' \in MainRecord /\ main'.pc = "stamp"
          /\ defer_queue' \in Seq(Items \cup {None}) /\ Len(defer_queue') = n - end
          /\ defer_front' = 0
          /\ QueueInv' /\ Deferred' = Deferred
      BY <1>0, <1>1, <2>2, Compact
    <3>2. ~ Busy' /\ Hand' = {}
      BY <3>1 DEF Busy, Hand
    <3> QED BY <1>2, <1>4, <3>1, <3>2
  <2> QED BY <1>2, <2>1, <2>2
<1>6. TypeOK'
  BY <1>0, <1>2, <1>3, <1>4, <1>5 DEF TypeOK
<1>7. Located'
  BY <1>0, <1>1, <1>4, <1>5 DEF Located
<1>8. e \cap Planned = {} /\ Planned' \subseteq Planned /\ Planned \subseteq Items
  BY <1>0, <1>1, <1>2, <1>3, <1>4, <1>5 DEF Located, Planned
<1>9. \A i \in Planned : item'[i] = item[i]
  BY <1>4, <1>8
<1>10. DeferredInv'
  <2>1. \A i \in Deferred' : i \in Deferred /\ item'[i] = item[i]
    BY <1>5, <1>9 DEF Planned
  <2> QED BY <1>0, <1>4, <2>1 DEF DeferredInv
<1>11. NamedOnce'
  BY <1>0, <1>8, <1>9 DEF NamedOnce, Removed
<1>12. CountInv'
  <2>1. \A i \in items : item'[i] = item[i]
    BY <1>9 DEF Planned
  <2>2. RemovedItems' = RemovedItems
    BY <1>4, <2>1 DEF RemovedItems, Removed
  <2> QED BY <1>0, <1>4, <1>5, <2>2 DEF CountInv
<1>13. ExecutedStaysOnTop'
  BY <1>5 DEF ExecutedStaysOnTop
<1>14. RevokedInv'
  BY <1>0, <1>4, <1>5 DEF RevokedInv, Removed, TypeOK
<1> QED BY <1>5, <1>6, <1>7, <1>10, <1>11, <1>12, <1>13, <1>14 DEF IInv

LEMMA DeferStep ==
  ASSUME IInv, BeginDefer \/ EndDeferred
  PROVE  IInv'
<1>0. TypeOK /\ QueueInv /\ CountInv
  BY DEF IInv
<1>1. CASE BeginDefer
  <2>1. Hand = {} /\ ~ Busy /\ defer_front = 0
    BY <1>0, <1>1 DEF BeginDefer, At, Hand, Busy, QueueInv
  <2>2. Len(defer_queue) \in Nat /\ Len(defer_queue) \in 0 .. Len(defer_queue)
        /\ Len(defer_queue) - Len(defer_queue) = 0
    BY <1>0, DeferredFact
  <2>3. defer_front <= Len(defer_queue)
    BY <2>1, <2>2
  <2>4. /\ TakeNext(Len(defer_queue)) /\ defer_count' = Len(defer_queue) - Len(defer_queue)
        /\ UNCHANGED << item, items, to_add, pool, live >>
        /\ UNCHANGED << to_add_count, to_remove, setting, now, revoked >>
    BY <1>1, <2>2 DEF BeginDefer
  <2>5. /\ item' \in [Items -> ItemRecord] /\ \A i \in Items \ Hand : item'[i] = item[i]
        /\ pool' = pool \cup Hand /\ revoked' = revoked \ Hand
    BY <1>0, <2>1, <2>4 DEF TypeOK
  <2> QED BY <2>2, <2>3, <2>4, <2>5, TakeStep
<1>2. CASE EndDeferred
  <2>1. Busy /\ Hand = {main.item} /\ main.item \in Items
    BY <1>0, <1>2, HandFact DEF EndDeferred, At, Busy
  <2>2. /\ main.defer_end \in 0 .. Len(defer_queue) /\ defer_front <= main.defer_end
        /\ defer_count = Len(defer_queue) - main.defer_end
    BY <1>0, <2>1 DEF QueueInv, CountInv, TypeOK
  <2>3. /\ TakeNext(main.defer_end) /\ item' = Recycled({main.item})
        /\ pool' = pool \cup Hand /\ revoked' = revoked \ Hand
        /\ UNCHANGED << items, to_add, live, to_add_count, to_remove, setting, now >>
        /\ defer_count' = Len(defer_queue) - main.defer_end
    BY <1>2, <2>1, <2>2 DEF EndDeferred, Recycle, counters
  <2>4. item' \in [Items -> ItemRecord] /\ \A i \in Items \ Hand : item'[i] = item[i]
    BY <1>0, <2>1, <2>3, RecycledFact
  <2> QED BY <2>2, <2>3, <2>4, TakeStep
<1> QED BY <1>1, <1>2

(* How many removed items are left in the heap when some of its items go.  *)
LEMMA LeftFact ==
  ASSUME TypeOK, NEW S \in SUBSET items
  PROVE  /\ Cardinality(RemovedItems) \in Nat /\ Cardinality(S) \in Nat
         /\ Cardinality(RemovedItems \ S) \in Nat
         /\ Cardinality(RemovedItems \ S) <= Cardinality(RemovedItems)
         /\ S \subseteq RemovedItems =>
              Cardinality(RemovedItems \ S) = Cardinality(RemovedItems) - Cardinality(S)
         /\ S \cap RemovedItems = {} => RemovedItems \ S = RemovedItems
<1>1. RemovedItems \subseteq Items /\ S \subseteq Items
  BY DEF RemovedItems, TypeOK
<1>2. IsFiniteSet(RemovedItems) /\ RemovedItems \ S \in SUBSET Items
  BY <1>1, FiniteFact
<1>3. /\ Cardinality(RemovedItems) \in Nat /\ Cardinality(S) \in Nat
      /\ Cardinality(RemovedItems \ S) \in Nat
  BY <1>1, <1>2, FiniteFact
<1>4. Cardinality(RemovedItems \ S) <= Cardinality(RemovedItems)
  BY <1>2, FS_Subset
<1>5. S \subseteq RemovedItems =>
        Cardinality(RemovedItems \ S) = Cardinality(RemovedItems) - Cardinality(S)
  <2> SUFFICES ASSUME S \subseteq RemovedItems
               PROVE  Cardinality(RemovedItems \ S) = Cardinality(RemovedItems) - Cardinality(S)
    OBVIOUS
  <2>1. RemovedItems \cap S = S
    OBVIOUS
  <2>2. Cardinality(RemovedItems \ S) = Cardinality(RemovedItems) - Cardinality(RemovedItems \cap S)
    BY <1>2, FS_Difference
  <2> QED BY <2>1, <2>2
<1> QED BY <1>3, <1>4, <1>5

LEMMA CleanupStep ==
  ASSUME IInv, Cleanup, UNCHANGED << setting, now >>,
         main' \in MainRecord, ~ Busy, ~ Busy', main'.pc \notin {"due", "callback"}
  PROVE  IInv'
<1>0. TypeOK /\ CountInv
  BY DEF IInv
<1>1. CASE to_remove = 0
  BY <1>0, <1>1, Quiet DEF Cleanup, setting, TypeOK
<1>2. CASE to_remove # 0
  <2>1. PICK S \in SUBSET RemovedItems :
          /\ items' = items \ S /\ Recycle(S)
          /\ to_remove' = to_remove - Cardinality(S)
          /\ UNCHANGED << to_add, defer_queue, defer_front, live >>
          /\ UNCHANGED << to_add_count, defer_count >>
    <3> DEFINE kept == {i \in items : ~ Removed(i)}
               before == {i \in items \ kept : \A j \in kept :
                            item[i].next_execution < item[j].next_execution}
               tied == {i \in (items \ kept) \ before : i \in Tops(items \ before)}
    <3>1. before \subseteq RemovedItems /\ tied \subseteq RemovedItems
      BY DEF RemovedItems
    <3>2. PICK some \in SUBSET tied :
            /\ items' = items \ (before \cup some) /\ Recycle(before \cup some)
            /\ to_remove' = to_remove - Cardinality(before \cup some)
            /\ UNCHANGED << to_add, defer_queue, defer_front, live >>
            /\ UNCHANGED << to_add_count, defer_count >>
      BY <1>2 DEF Cleanup
    <3> HIDE DEF kept, before, tied
    <3>3. before \cup some \in SUBSET RemovedItems
      BY <3>1
    <3> QED BY <3>2, <3>3
  <2>2. S \in SUBSET items /\ S \subseteq RemovedItems
    BY DEF RemovedItems
  <2>3. /\ Cardinality(RemovedItems) \in Nat /\ Cardinality(S) \in Nat
        /\ Cardinality(RemovedItems \ S) \in Nat
        /\ Cardinality(RemovedItems \ S) = Cardinality(RemovedItems) - Cardinality(S)
    BY <1>0, <2>2, LeftFact
  <2>4. /\ to_remove \in Nat /\ to_remove >= Cardinality(RemovedItems)
        /\ failed = {} => to_remove = Cardinality(RemovedItems)
    BY <1>0 DEF TypeOK, CountInv
  <2>5. /\ to_remove' \in Nat /\ to_remove' >= Cardinality(RemovedItems \ S)
        /\ failed = {} => to_remove' = Cardinality(RemovedItems \ S)
    BY <2>1, <2>3, <2>4
  <2> QED BY <2>1, <2>2, <2>5, Dropped
<1> QED BY <1>1, <1>2

LEMMA FullCleanupStep ==
  ASSUME IInv, FullCleanup
  PROVE  IInv'
<1>0. TypeOK
  BY DEF IInv
<1>1. /\ main' \in MainRecord /\ main'.pc = "heap" /\ ~ Busy /\ ~ Busy'
      /\ UNCHANGED << setting, now >>
  <2>1. main' = [main EXCEPT !.pc = "heap"] /\ main.pc = "full"
    BY DEF FullCleanup, Goes, At
  <2>2. main' \in MainRecord /\ main'.pc = "heap"
    BY <1>0, <2>1 DEF TypeOK, MainRecord, Steps
  <2> QED BY <2>1, <2>2 DEF FullCleanup, Busy
<1>2. CASE to_remove < MaxDeleted
  BY <1>0, <1>1, <1>2, Quiet DEF FullCleanup, setting, TypeOK
<1>3. CASE ~ to_remove < MaxDeleted
  <2>1. /\ items' = items \ RemovedItems /\ Recycle(RemovedItems) /\ to_remove' = 0
        /\ UNCHANGED << to_add, defer_queue, defer_front, live >>
        /\ UNCHANGED << to_add_count, defer_count >>
    BY <1>3 DEF FullCleanup, RemovedItems
  <2>2. RemovedItems \in SUBSET items
    BY DEF RemovedItems
  <2>3. Cardinality(RemovedItems \ RemovedItems) = 0
    BY FS_EmptySet
  <2> QED BY <1>1, <2>1, <2>2, <2>3, Dropped
<1> QED BY <1>2, <1>3

(* The item at the top of the heap is popped and not pushed back.          *)
LEMMA PopStep ==
  ASSUME IInv, PopFailed \/ PopRemoved \/ EndCancelled \/ EndTimeout
  PROVE  IInv'
<1>0. TypeOK /\ CountInv /\ ExecutedStaysOnTop
  BY DEF IInv
<1>1. PICK i \in items :
        /\ PopAndRecycle(i)
        /\ \/ failed # {} /\ to_remove' = to_remove
           \/ Removed(i) /\ to_remove' = to_remove - 1
           \/ ~ Removed(i) /\ to_remove' = to_remove
  <2>1. DueTops \subseteq items
    BY DEF DueTops, Tops
  <2>2. CASE PopFailed
    BY <2>1, <2>2 DEF PopFailed, Failed
  <2>3. CASE PopRemoved
    BY <2>1, <2>3 DEF PopRemoved
  <2>4. CASE EndCancelled
    BY <1>0, <2>1, <2>4 DEF EndCancelled, ExecutedStaysOnTop, At
  <2>5. CASE EndTimeout
    BY <1>0, <2>1, <2>5 DEF EndTimeout, ExecutedStaysOnTop, At
  <2> QED BY <2>2, <2>3, <2>4, <2>5
<1>2. main' \in MainRecord /\ main'.pc = "heap" /\ ~ Busy /\ ~ Busy'
  <2>1. main \in MainRecord /\ "heap" \in Steps
    BY <1>0 DEF TypeOK, Steps
  <2>2. CASE main' = main /\ main.pc = "heap"
    BY <2>1, <2>2 DEF Busy
  <2>3. CASE main' = [main EXCEPT !.pc = "heap", !.item = None] /\ main.pc = "callback"
    <3>1. main' \in MainRecord /\ main'.pc = "heap"
      BY <2>1, <2>3 DEF MainRecord
    <3> QED BY <2>3, <3>1 DEF Busy
  <2>4. CASE HeapAgain /\ main.pc = "callback"
    <3>1. HasAdded \in BOOLEAN
      BY <2>1 DEF HasAdded, MainRecord
    <3>2. main' \in MainRecord /\ main'.pc = "heap"
      BY <2>1, <2>4, <3>1 DEF HeapAgain, MainRecord
    <3> QED BY <2>4, <3>2 DEF Busy
  <2> QED BY <2>2, <2>3, <2>4 DEF PopFailed, PopRemoved, EndCancelled, EndTimeout, At
<1>3. /\ {i} \in SUBSET items /\ items' = items \ {i} /\ Recycle({i})
      /\ UNCHANGED << to_add, defer_queue, defer_front, live >>
      /\ UNCHANGED << to_add_count, defer_count, setting, now >>
  BY <1>1 DEF PopAndRecycle
<1>4. /\ Cardinality(RemovedItems) \in Nat /\ Cardinality({i}) = 1
      /\ Cardinality(RemovedItems \ {i}) \in Nat
      /\ Cardinality(RemovedItems \ {i}) <= Cardinality(RemovedItems)
      /\ Removed(i) => Cardinality(RemovedItems \ {i}) = Cardinality(RemovedItems) - 1
      /\ ~ Removed(i) => RemovedItems \ {i} = RemovedItems
  <2>1. (Removed(i) => {i} \subseteq RemovedItems) /\ (~ Removed(i) => {i} \cap RemovedItems = {})
    BY DEF RemovedItems
  <2>2. Cardinality({i}) = 1
    BY FS_Singleton
  <2> QED BY <1>0, <1>3, <2>1, <2>2, LeftFact
<1>5. /\ to_remove \in Nat /\ to_remove >= Cardinality(RemovedItems)
      /\ failed = {} => to_remove = Cardinality(RemovedItems)
  BY <1>0 DEF TypeOK, CountInv
<1>6. /\ to_remove' \in Nat /\ to_remove' >= Cardinality(RemovedItems \ {i})
      /\ failed = {} => to_remove' = Cardinality(RemovedItems \ {i})
  BY <1>1, <1>4, <1>5
<1> QED BY <1>2, <1>3, <1>6, Dropped

(* The main loop moves on and touches no timer.                            *)
LEMMA QuietStep ==
  ASSUME IInv, BeginCall \/ RunDeferred \/ Stamp \/ FindDue \/ StartCallback \/ EndHeap
  PROVE  IInv'
<1>0. /\ TypeOK /\ ExecutedStaysOnTop /\ RevokedInv
      /\ main \in MainRecord /\ now \in Nat /\ failed \subseteq Components
      /\ DueTops \subseteq items /\ items \subseteq Items
  BY DEF IInv, TypeOK, DueTops, Tops
<1>1. /\ UNCHANGED << item, containers, counters, multi_threaded, revoked >>
      /\ failed' = failed /\ failed' \subseteq Components /\ now' \in Nat
      /\ items' = items /\ item' = item
  BY <1>0 DEF BeginCall, RunDeferred, Stamp, FindDue, StartCallback, EndHeap, setting, containers
<1>2. \A pc \in Steps : Goes(pc) => /\ main' \in MainRecord /\ main'.pc = pc
                                    /\ main'.item = main.item
                                    /\ main'.defer_end = main.defer_end
                                    /\ main'.now_64 = main.now_64
  BY <1>0 DEF Goes, MainRecord
<1>3. CASE BeginCall \/ RunDeferred \/ EndHeap
  <2>1. PICK pc \in {"defer", "stamp", "deferred", "finish"} : Goes(pc)
    BY <1>3 DEF BeginCall, RunDeferred, EndHeap
  <2>2. /\ main' \in MainRecord /\ main'.pc = pc
        /\ main'.item = main.item /\ main'.defer_end = main.defer_end
    BY <1>2, <2>1 DEF Steps
  <2>3. Busy' <=> Busy
    <3>1. CASE BeginCall
      <4>1. main'.pc \in {"defer", "stamp"} /\ main.pc = "idle"
        BY <1>2, <3>1 DEF BeginCall, At, Steps
      <4> QED BY <4>1 DEF Busy
    <3>2. CASE RunDeferred
      <4>1. main'.pc = "deferred" /\ main.pc = "taken"
        BY <1>2, <3>2 DEF RunDeferred, At, Steps
      <4> QED BY <4>1 DEF Busy
    <3>3. CASE EndHeap
      <4>1. main'.pc = "finish" /\ main.pc = "heap"
        BY <1>2, <3>3 DEF EndHeap, At, Steps
      <4> QED BY <4>1 DEF Busy
    <3> QED BY <1>3, <3>1, <3>2, <3>3
  <2> QED BY <1>1, <2>1, <2>2, <2>3, Quiet
<1>4. CASE Stamp
  <2>1. main' = [main EXCEPT !.pc = "merge", !.now_64 = now] /\ main.pc = "stamp"
    BY <1>4 DEF Stamp, At
  <2>2. main' \in MainRecord /\ main'.pc = "merge"
    BY <1>0, <2>1 DEF MainRecord, Steps
  <2>3. ~ Busy /\ ~ Busy'
    BY <2>1, <2>2 DEF Busy
  <2> QED BY <1>1, <2>2, <2>3, Quiet
<1>5. CASE FindDue
  <2>1. PICK i \in DueTops : /\ ~ Removed(i) /\ main.pc = "heap"
                             /\ main' = [main EXCEPT !.pc = "due", !.item = i]
    BY <1>5 DEF FindDue, At
  <2>2. /\ main' \in MainRecord /\ main'.pc = "due" /\ main'.item = i
        /\ main'.now_64 = main.now_64
    BY <1>0, <2>1 DEF MainRecord, Steps
  <2>3. main'.item \in DueTops' /\ main'.item \notin revoked
    BY <1>0, <1>1, <2>1, <2>2 DEF DueTops, Tops, RevokedInv
  <2>4. ~ Busy /\ ~ Busy'
    BY <2>1, <2>2 DEF Busy
  <2> QED BY <1>1, <2>2, <2>3, <2>4, Quiet
<1>6. CASE StartCallback
  <2>1. main' = [main EXCEPT !.pc = "callback"] /\ main.pc = "due"
    BY <1>6 DEF StartCallback, At
  <2>2. /\ main' \in MainRecord /\ main'.pc = "callback" /\ main'.item = main.item
        /\ main'.now_64 = main.now_64
    BY <1>0, <2>1 DEF MainRecord, Steps
  <2>3. main'.item \in DueTops'
    BY <1>0, <1>1, <2>1, <2>2 DEF DueTops, Tops, ExecutedStaysOnTop
  <2>4. ~ Busy /\ ~ Busy'
    BY <2>1, <2>2 DEF Busy
  <2> QED BY <1>1, <2>2, <2>3, <2>4, Quiet
<1> QED BY <1>3, <1>4, <1>5, <1>6

(* A component fails, the clock moves, or nothing happens.                 *)
LEMMA AroundStep ==
  ASSUME IInv, (\E c \in Components : MarkFailed(c)) \/ Tick \/ UNCHANGED vars
  PROVE  IInv'
<1>0. /\ TypeOK /\ ExecutedStaysOnTop /\ RevokedInv
      /\ main \in MainRecord /\ now \in Nat /\ failed \subseteq Components
  BY DEF IInv, TypeOK
<1>1. /\ UNCHANGED << item, containers, counters, multi_threaded, revoked, main >>
      /\ failed \subseteq failed' /\ failed' \subseteq Components /\ now' \in Nat
      /\ items' = items /\ item' = item
  BY <1>0 DEF MarkFailed, Tick, vars, setting, containers
<1>2. DueTops' = DueTops /\ (Busy' <=> Busy)
  BY <1>1 DEF DueTops, Tops, Busy
<1> QED BY <1>0, <1>1, <1>2, Quiet DEF ExecutedStaysOnTop, RevokedInv

LEMMA HeapStep ==
  ASSUME IInv, Merge \/ CleanTop \/ EndCall \/ NextScheduleIn
  PROVE  IInv'
<1>0. TypeOK /\ main \in MainRecord
  BY DEF IInv, TypeOK
<1>1. Idle \in MainRecord
  BY DEF Idle, MainRecord, Steps
<1>2. CASE Merge
  <2>1. main' \in MainRecord /\ main'.pc = "cleanup" /\ main.pc = "merge"
    BY <1>0, <1>2 DEF Merge, Goes, At, MainRecord, Steps
  <2>2. ~ Busy /\ ~ Busy'
    BY <2>1 DEF Busy
  <2> QED BY <1>2, <2>1, <2>2, Merged DEF Merge
<1>3. CASE CleanTop
  <2>1. main' \in MainRecord /\ main'.pc = "full" /\ main.pc = "cleanup"
    BY <1>0, <1>3 DEF CleanTop, Goes, At, MainRecord, Steps
  <2>2. ~ Busy /\ ~ Busy'
    BY <2>1 DEF Busy
  <2> QED BY <1>3, <2>1, <2>2, CleanupStep DEF CleanTop
<1>4. CASE EndCall
  <2>1. main' \in MainRecord /\ main'.pc = "idle" /\ main.pc = "finish"
    BY <1>1, <1>4 DEF EndCall, At, Idle
  <2>2. ~ Busy /\ ~ Busy'
    BY <2>1 DEF Busy
  <2>3. CASE ProcessToAdd
    BY <1>4, <2>1, <2>2, <2>3, Merged DEF EndCall
  <2>4. CASE UNCHANGED << item, containers, counters, revoked >>
    BY <1>0, <1>4, <2>1, <2>2, <2>4, Quiet DEF EndCall, setting, TypeOK
  <2> QED BY <1>4, <2>3, <2>4 DEF EndCall
<1>5. CASE NextScheduleIn
  <2>1. main' = main /\ main.pc = "idle"
    BY <1>5 DEF NextScheduleIn, At
  <2>2. ~ Busy /\ ~ Busy'
    BY <2>1 DEF Busy
  <2> QED BY <1>0, <1>5, <2>1, <2>2, CleanupStep DEF NextScheduleIn
<1> QED BY <1>2, <1>3, <1>4, <1>5
-----------------------------------------------------------------------------
LEMMA InitHolds == Init => IInv
<1> SUFFICES ASSUME Init PROVE IInv
  OBVIOUS
<1>1. /\ Blank \in ItemRecord /\ Idle \in MainRecord /\ Idle.pc = "idle"
  BY DEF Blank, ItemRecord, Types, Idle, MainRecord, Steps
<1>2. /\ item = [i \in Items |-> Blank]
      /\ items = {} /\ to_add = {} /\ pool = {} /\ live = {}
      /\ defer_queue = << >> /\ defer_front = 0 /\ Len(defer_queue) = 0
      /\ DOMAIN defer_queue = {}
      /\ to_add_count = 0 /\ defer_count = 0 /\ to_remove = 0
      /\ failed = {} /\ multi_threaded \in Builds
      /\ now = 0 /\ main = Idle /\ revoked = {}
  BY DEF Init
<1>3. Deferred = {} /\ ~ Busy /\ Hand = {} /\ RemovedItems = {}
  BY <1>1, <1>2 DEF Deferred, Busy, Hand, RemovedItems
<1>4. TypeOK
  <2>1. << >> \in Seq(Items \cup {None}) /\ 0 \in 0 .. 0 /\ 0 \in Nat
    OBVIOUS
  <2> QED BY <1>1, <1>2, <2>1 DEF TypeOK
<1>5. QueueInv
  BY <1>2, <1>3 DEF QueueInv
<1>6. Located /\ DeferredInv /\ NamedOnce
  BY <1>2, <1>3 DEF Located, DeferredInv, NamedOnce, Planned
<1>7. CountInv
  BY <1>2, <1>3, FS_EmptySet DEF CountInv
<1>8. ExecutedStaysOnTop /\ RevokedInv
  BY <1>1, <1>2 DEF ExecutedStaysOnTop, RevokedInv
<1> QED BY <1>4, <1>5, <1>6, <1>7, <1>8 DEF IInv

LEMMA StepKeeps == IInv /\ [Next]_vars => IInv'
<1> SUFFICES ASSUME IInv, [Next]_vars PROVE IInv'
  OBVIOUS
<1>1. CASE Call
  <2>1. CASE BeginCall \/ RunDeferred \/ Stamp \/ FindDue \/ StartCallback \/ EndHeap
    BY <2>1, QuietStep
  <2>2. CASE BeginDefer \/ EndDeferred
    BY <2>2, DeferStep
  <2>3. CASE Merge \/ CleanTop \/ EndCall
    BY <2>3, HeapStep
  <2>4. CASE FullCleanup
    BY <2>4, FullCleanupStep
  <2>5. CASE PopFailed \/ PopRemoved \/ EndCancelled \/ EndTimeout
    BY <2>5, PopStep
  <2>6. CASE EndInterval
    BY <2>6, IntervalStep
  <2> QED BY <1>1, <2>1, <2>2, <2>3, <2>4, <2>5, <2>6 DEF Call, DeferPass, HeapPass
<1>2. CASE Api
  <2>1. PICK by \in Callers, k \in Keys, type \in Types :
          \/ \E delay \in Delays, skip_cancel \in BOOLEAN :
               SetTimer(by, k, type, delay, skip_cancel)
          \/ \E find_first \in BOOLEAN : Cancel(by, k, type, find_first)
    BY <1>2 DEF Api
  <2> QED BY <2>1, SetTimerStep, CancelStep
<1>3. CASE NextScheduleIn
  BY <1>3, HeapStep
<1>4. CASE TrimFreelist
  BY <1>4, TrimStep
<1>5. CASE Tick \/ (\E c \in Components : MarkFailed(c)) \/ UNCHANGED vars
  BY <1>5, AroundStep
<1> QED BY <1>1, <1>2, <1>3, <1>4, <1>5 DEF Next

LEMMA Invariant == Spec => []IInv
  BY InitHolds, StepKeeps, PTL DEF Spec

(* Every variable keeps its type; no counter goes below zero, and the      *)
(* taken slots are within the defer queue.                                 *)
THEOREM TypeCorrect == Spec => []TypeOK
<1>1. IInv => TypeOK
  BY DEF IInv
<1> QED BY <1>1, Invariant, PTL

(* No SchedulerItem is lost, in two containers, or in the freelist while   *)
(* it is still used, for any number of items, tasks' calls and failures.   *)
THEOREM ItemsAreInOnePlace == Spec => []EveryItemInOnePlace
<1>1. IInv => EveryItemInOnePlace
  <2> SUFFICES ASSUME IInv PROVE EveryItemInOnePlace
    OBVIOUS
  <2>1. Located /\ QueueInv
    BY DEF IInv
  <2>2. Disjoint(<< items, to_add, Deferred, pool, Hand >>)
    <3>1. PICK places : places = << items, to_add, Deferred, pool, Hand >>
      OBVIOUS
    <3>2. /\ places[1] = items /\ places[2] = to_add /\ places[3] = Deferred
          /\ places[4] = pool /\ places[5] = Hand /\ DOMAIN places = 1 .. 5
      BY <3>1
    <3>3. \A p \in 1 .. 5 : p = 1 \/ p = 2 \/ p = 3 \/ p = 4 \/ p = 5
      OBVIOUS
    <3>4. \A p, q \in 1 .. 5 : p # q => places[p] \cap places[q] = {}
      BY <2>1, <3>2, <3>3 DEF Located
    <3> QED BY <3>1, <3>2, <3>4 DEF Disjoint
  <2> QED BY <2>1, <2>2 DEF EveryItemInOnePlace, Located, QueueInv
<1> QED BY <1>1, Invariant, PTL

(* A name has at most one live timer of each type, wherever it waits, so   *)
(* that the first match is the only one.                                   *)
THEOREM OneTimerPerName == Spec => []OneLivePerKey
<1>1. IInv => OneLivePerKey
  <2> SUFFICES ASSUME IInv, NEW k \in Keys \ (Anonymous \cup Parallel), NEW type \in Types
               PROVE  Cardinality(Matching(items \cup to_add \cup Deferred, k, type)) <= 1
    BY DEF OneLivePerKey
  <2> DEFINE found == Matching(items \cup to_add \cup Deferred, k, type)
  <2>1. \A i, j \in found : i = j
    BY DEF IInv, NamedOnce, Planned, Matching, Matches
  <2> HIDE DEF found
  <2>2. CASE found = {}
    BY <2>2, FS_EmptySet DEF found
  <2>3. CASE found # {}
    <3>1. PICK i : found = {i}
      BY <2>1, <2>3
    <3> QED BY <3>1, FS_Singleton DEF found
  <2> QED BY <2>2, <2>3
<1> QED BY <1>1, Invariant, PTL

(* The counters that are read without the lock say what the containers     *)
(* hold, at every moment.                                                  *)
THEOREM CountersExact == Spec => []CountersAreExact
<1>1. IInv => CountersAreExact
  <2> SUFFICES ASSUME IInv PROVE CountersAreExact
    OBVIOUS
  <2>1. CountInv /\ (Busy <=> Hand # {})
    BY DEF IInv, Hand, Busy
  <2> QED BY <2>1 DEF CountersAreExact, CountInv, RemovedItems
<1> QED BY <1>1, Invariant, PTL

(* What is popped after a callback is the item whose callback it was.      *)
THEOREM TopStays == Spec => []ExecutedStaysOnTop
<1>1. IInv => ExecutedStaysOnTop
  BY DEF IInv
<1> QED BY <1>1, Invariant, PTL

(* What the main loop cancels never runs afterwards.                       *)
THEOREM RevokedNeverRun == Spec => RevokedNeverRuns
<1>1. IInv /\ [Next]_vars => [StartCallback \/ RunDeferred => main.item \notin revoked]_vars
  <2> SUFFICES ASSUME IInv, StartCallback \/ RunDeferred PROVE main.item \notin revoked
    OBVIOUS
  <2>1. CASE StartCallback
    BY <2>1 DEF StartCallback, At, IInv, RevokedInv
  <2>2. CASE RunDeferred
    BY <2>2 DEF RunDeferred, ShouldSkip, IInv, RevokedInv
  <2> QED BY <2>1, <2>2
<1> QED BY <1>1, Invariant, PTL DEF Spec, RevokedNeverRuns
-----------------------------------------------------------------------------
(* The refinement: what is pending in the defer queue is a first-in        *)
(* first-out queue, that the emptied slots and the compaction leave alone. *)
LEMMA PendingFact ==
  ASSUME TypeOK, QueueInv
  PROVE  /\ Pending \in Seq(Items) /\ Len(Pending) = Len(defer_queue) - defer_front
         /\ Len(defer_queue) \in Nat /\ defer_front \in 0 .. Len(defer_queue)
         /\ \A j \in 1 .. Len(defer_queue) - defer_front : Pending[j] = defer_queue[defer_front + j]
<1>0. PICK old, len, front : old = defer_queue /\ len = Len(old) /\ front = defer_front
  OBVIOUS
<1>1. /\ old \in Seq(Items \cup {None}) /\ len \in Nat /\ front \in 0 .. len
      /\ DOMAIN old = 1 .. len /\ Pending = SubSeq(old, front + 1, len)
  BY <1>0, DeferredFact DEF TypeOK, Pending
<1>2. \A j \in front + 1 .. len : old[j] \in Items
  <2>1. \A j \in 1 .. len : old[j] \in Items \cup {None} /\ (old[j] = None <=> j <= front)
    BY <1>0, <1>1 DEF QueueInv
  <2>2. \A j \in front + 1 .. len : j \in 1 .. len /\ ~ (j <= front)
    BY <1>1
  <2> QED BY <2>1, <2>2
<1>3. /\ Pending \in Seq(Items)
      /\ Len(Pending) = IF front + 1 <= len THEN len - (front + 1) + 1 ELSE 0
      /\ \A j \in 1 .. len - (front + 1) + 1 : Pending[j] = old[(front + 1) + j - 1]
  BY <1>1, <1>2, SubSeqProperties
<1>4. /\ len - (front + 1) + 1 = len - front
      /\ front + 1 <= len \/ len - front = 0
      /\ \A j \in 1 .. len - front : (front + 1) + j - 1 = front + j
  BY <1>1
<1>5. Pending \in Seq(Items) /\ Len(Pending) = len - front
  BY <1>3, <1>4
<1>6. \A j \in 1 .. len - front : Pending[j] = old[front + j]
  BY <1>3, <1>4
<1> QED BY <1>0, <1>1, <1>5, <1>6

(* No more can be pending than there are items.                            *)
LEMMA PendingHasRoom ==
  ASSUME TypeOK, QueueInv, NEW i \in Items, i \notin Deferred
  PROVE  Len(Pending) < Cardinality(Items)
<1>0. PICK n, front : n = Len(Pending) /\ front = defer_front
  OBVIOUS
<1>1. /\ Pending \in Seq(Items) /\ n \in Nat /\ front \in Nat
      /\ \A j \in 1 .. n : Pending[j] = defer_queue[front + j]
      /\ n = Len(defer_queue) - front /\ Len(defer_queue) \in Nat
  BY <1>0, PendingFact
<1>2. \A j \in 1 .. n : front + j \in 1 .. Len(defer_queue) /\ ~ (front + j <= front)
  BY <1>1
<1>3. \A j \in 1 .. n : Pending[j] \in Deferred
  BY <1>0, <1>1, <1>2, DeferredFact DEF QueueInv, Deferred
<1>4. \A p, q \in 1 .. n : Pending[p] = Pending[q] => p = q
  <2> SUFFICES ASSUME NEW p \in 1 .. n, NEW q \in 1 .. n, Pending[p] = Pending[q] PROVE p = q
    OBVIOUS
  <2>1. front + p = front + q
    BY <1>0, <1>1, <1>2, DeferredFact DEF QueueInv
  <2> QED BY <1>1, <2>1
<1>5. PICK S : S = {Pending[j] : j \in 1 .. n}
  OBVIOUS
<1>6. S \subseteq Deferred /\ Deferred \subseteq Items
  BY <1>3, <1>5, DeferredFact
<1>7. Pending \in Bijection(1 .. n, S)
  <2>1. Pending \in [1 .. n -> S]
    <3>1. PICK P : P = Pending
      OBVIOUS
    <3>2. P \in Seq(Items) /\ Len(P) = n
      BY <1>0, <1>1, <3>1
    <3>3. P \in [1 .. n -> Items]
      BY <3>2
    <3>4. \A j \in 1 .. n : P[j] \in S
      BY <1>5, <3>1
    <3> QED BY <3>1, <3>3, <3>4
  <2>2. Pending \in Injection(1 .. n, S)
    BY <1>4, <2>1 DEF Injection, IsInjective
  <2>3. Pending \in Surjection(1 .. n, S)
    BY <1>5, <2>1 DEF Surjection
  <2> QED BY <2>2, <2>3 DEF Bijection
<1>8. Cardinality(S) = n
  BY <1>1, <1>7, FS_CountingElements DEF ExistsBijection
<1>9. S \subseteq Items \ {i} /\ i \in Items /\ IsFiniteSet(Items)
  BY <1>6, ItemsAssumption
<1>10. /\ IsFiniteSet(Items \ {i}) /\ Cardinality(Items \ {i}) = Cardinality(Items) - 1
       /\ Cardinality(Items) \in Nat
  BY <1>9, FS_RemoveElement, FS_CardinalityType
<1>11. Cardinality(S) <= Cardinality(Items \ {i})
  BY <1>9, <1>10, FS_Subset
<1> QED BY <1>0, <1>1, <1>8, <1>10, <1>11

LEMMA PendingGrows ==
  ASSUME TypeOK, QueueInv, NEW i \in Items,
         defer_queue' = Append(defer_queue, i), defer_front' = defer_front
  PROVE  Pending' = Append(Pending, i)
<1>0. PICK old, len, front, P : /\ old = defer_queue /\ len = Len(old) /\ front = defer_front
                                /\ P = Pending
  OBVIOUS
<1>1. /\ old \in Seq(Items \cup {None}) /\ len \in Nat /\ front \in 0 .. len
      /\ P = SubSeq(old, front + 1, len)
  BY <1>0, DeferredFact DEF TypeOK, Pending
<1>2. /\ Append(old, i) \in Seq(Items \cup {None}) /\ Len(Append(old, i)) = len + 1
      /\ \A j \in 1 .. len : Append(old, i)[j] = old[j]
      /\ Append(old, i)[len + 1] = i
  BY <1>0, <1>1, AppendProperties
<1>3. Pending' = SubSeq(Append(old, i), front + 1, len + 1)
  BY <1>0, <1>2 DEF Pending
<1>4. /\ Pending' \in Seq(Items \cup {None}) /\ Len(Pending') = len + 1 - front
      /\ \A j \in 1 .. len + 1 - front : Pending'[j] = Append(old, i)[front + j]
  <2>1. \A j \in front + 1 .. len + 1 : Append(old, i)[j] \in Items \cup {None}
    BY <1>1, <1>2
  <2>2. /\ Pending' \in Seq(Items \cup {None})
        /\ Len(Pending') = IF front + 1 <= len + 1 THEN len + 1 - (front + 1) + 1 ELSE 0
        /\ \A j \in 1 .. len + 1 - (front + 1) + 1 : Pending'[j] = Append(old, i)[(front + 1) + j - 1]
    BY <1>1, <1>2, <1>3, <2>1, SubSeqProperties
  <2>3. /\ len + 1 - (front + 1) + 1 = len + 1 - front /\ front + 1 <= len + 1
        /\ \A j \in 1 .. len + 1 - front : (front + 1) + j - 1 = front + j
    BY <1>1
  <2>4. Len(Pending') = len + 1 - front
    BY <2>2, <2>3
  <2>5. \A j \in 1 .. len + 1 - front : Pending'[j] = Append(old, i)[front + j]
    BY <2>2, <2>3
  <2> QED BY <2>2, <2>4, <2>5
<1>5. /\ P \in Seq(Items) /\ Len(P) = len - front
      /\ \A j \in 1 .. len - front : P[j] = old[front + j]
  BY <1>0, PendingFact
<1>6. /\ Append(P, i) \in Seq(Items \cup {None}) /\ Len(Append(P, i)) = len + 1 - front
      /\ \A j \in 1 .. len - front : Append(P, i)[j] = P[j]
      /\ Append(P, i)[len - front + 1] = i
  <2>1. P \in Seq(Items \cup {None}) /\ Len(P) + 1 = len + 1 - front
    BY <1>1, <1>5
  <2> QED BY <1>1, <1>5, <2>1, AppendProperties
<1>7. \A j \in 1 .. Len(Pending') : Pending'[j] = Append(P, i)[j]
  <2>1. \A j \in 1 .. len + 1 - front : \/ j \in 1 .. len - front /\ front + j \in 1 .. len
                                        \/ j = len - front + 1 /\ front + j = len + 1
    BY <1>1
  <2>2. ASSUME NEW j \in 1 .. len + 1 - front PROVE Pending'[j] = Append(P, i)[j]
    <3>1. CASE j \in 1 .. len - front /\ front + j \in 1 .. len
      BY <1>2, <1>4, <1>5, <1>6, <3>1
    <3>2. CASE j = len - front + 1 /\ front + j = len + 1
      <4>1. Append(P, i)[j] = i /\ Append(old, i)[front + j] = i
        BY <1>2, <1>6, <3>2
      <4> QED BY <1>4, <4>1
    <3> QED BY <2>1, <3>1, <3>2
  <2> QED BY <1>4, <2>2
<1>8. Pending' = Append(P, i)
  BY <1>4, <1>6, <1>7, SeqEqual
<1> QED BY <1>0, <1>8

LEMMA PendingMoves ==
  ASSUME TypeOK, QueueInv, NEW end \in 0 .. Len(defer_queue), defer_front <= end, TakeNext(end)
  PROVE  DeferFifo!Dequeue \/ Pending' = Pending
<1>0. PICK old, len, front, P : /\ old = defer_queue /\ len = Len(old) /\ front = defer_front
                                /\ P = Pending
  OBVIOUS
<1>1. /\ old \in Seq(Items \cup {None}) /\ len \in Nat /\ front \in 0 .. len /\ end \in 0 .. len
      /\ P = SubSeq(old, front + 1, len) /\ DOMAIN old = 1 .. len
      /\ front < end \/ front = end
  BY <1>0, DeferredFact DEF TypeOK, Pending
<1>2. CASE front < end
  <2>1. /\ defer_queue' = [old EXCEPT ![front + 1] = None] /\ defer_front' = front + 1
    BY <1>0, <1>2 DEF TakeNext
  <2>2. /\ front + 1 \in 1 .. len /\ front + 2 \in 1 .. len + 1 /\ front + 1 <= len
    BY <1>1, <1>2
  <2>3. /\ defer_queue' \in Seq(Items \cup {None}) /\ Len(defer_queue') = len
        /\ \A j \in 1 .. len : defer_queue'[j] = IF j = front + 1 THEN None ELSE old[j]
    <3>1. front + 1 \in 1 .. Len(old) /\ Len(old) = len /\ None \in Items \cup {None}
      BY <1>0, <2>2
    <3>2. /\ [old EXCEPT ![front + 1] = None] \in Seq(Items \cup {None})
          /\ Len([old EXCEPT ![front + 1] = None]) = Len(old)
          /\ \A j \in 1 .. Len(old) :
               [old EXCEPT ![front + 1] = None][j] = IF j = front + 1 THEN None ELSE old[j]
      BY <1>1, <3>1, ExceptSeq
    <3> QED BY <2>1, <3>1, <3>2
  <2>4. /\ Pending' \in Seq(Items \cup {None}) /\ Len(Pending') = len - front - 1
        /\ \A j \in 1 .. len - front - 1 : Pending'[j] = old[front + 1 + j]
    <3>1. PICK new : new = defer_queue'
      OBVIOUS
    <3>2. Pending' = SubSeq(new, front + 2, len)
      <4>1. (front + 1) + 1 = front + 2
        BY <1>1
      <4> QED BY <2>1, <2>3, <3>1, <4>1 DEF Pending
    <3>3. \A j \in front + 2 .. len : new[j] \in Items \cup {None}
      BY <1>1, <2>3, <3>1
    <3>4. /\ Pending' \in Seq(Items \cup {None})
          /\ Len(Pending') = IF front + 2 <= len THEN len - (front + 2) + 1 ELSE 0
          /\ \A j \in 1 .. len - (front + 2) + 1 : Pending'[j] = new[(front + 2) + j - 1]
      BY <1>1, <2>2, <2>3, <3>1, <3>2, <3>3, SubSeqProperties
    <3>5. /\ len - (front + 2) + 1 = len - front - 1
          /\ \A j \in 1 .. len - front - 1 : /\ (front + 2) + j - 1 = front + 1 + j
                                             /\ front + 1 + j \in 1 .. len
                                             /\ front + 1 + j # front + 1
          /\ ~ (front + 2 <= len) => len - front - 1 = 0
      BY <1>1, <2>2
    <3>6. Len(Pending') = len - front - 1
      BY <1>1, <3>4, <3>5
    <3>7. \A j \in 1 .. len - front - 1 : Pending'[j] = new[front + 1 + j]
      BY <3>4, <3>5
    <3>8. \A j \in 1 .. len - front - 1 : new[front + 1 + j] = old[front + 1 + j]
      BY <2>3, <3>1, <3>5
    <3> QED BY <3>4, <3>6, <3>7, <3>8
  <2>5. /\ P \in Seq(Items) /\ Len(P) = len - front
        /\ \A j \in 1 .. len - front : P[j] = old[front + j]
    BY <1>0, PendingFact
  <2>6. P # << >> /\ P \in Seq(Items \cup {None})
    BY <1>1, <2>2, <2>5
  <2>7. /\ Tail(P) \in Seq(Items \cup {None}) /\ Len(Tail(P)) = len - front - 1
        /\ \A j \in 1 .. len - front - 1 : Tail(P)[j] = P[j + 1]
    BY <2>5, <2>6, HeadTailProperties
  <2>8. \A j \in 1 .. len - front - 1 : Pending'[j] = Tail(P)[j]
    <3>1. \A j \in 1 .. len - front - 1 : /\ j + 1 \in 1 .. len - front
                                          /\ front + (j + 1) = front + 1 + j
      BY <1>1
    <3> QED BY <2>4, <2>5, <2>7, <3>1
  <2>9. Pending' = Tail(P)
    BY <2>4, <2>7, <2>8, SeqEqual
  <2> QED BY <1>0, <2>6, <2>9 DEF DeferFifo!Dequeue
<1>3. CASE front = end
  <2>1. defer_queue' = P /\ defer_front' = 0
    BY <1>0, <1>1, <1>3 DEF TakeNext
  <2>2. Pending' = SubSeq(P, 1, Len(P))
    BY <2>1 DEF Pending
  <2>3. P \in Seq(Items)
    BY <1>0, PendingFact
  <2>4. SubSeq(P, 1, Len(P)) = P
    BY <2>3, SubSeqFull
  <2> QED BY <1>0, <2>2, <2>4
<1> QED BY <1>1, <1>2, <1>3

(* defer() is first-in first-out, for any number of items and whatever is  *)
(* deferred, by whom, while the queue is being emptied.                    *)
THEOREM DeferImplementsFifo == Spec => DeferIsFifo
<1>1. Init => DeferFifo!Init
  <2> SUFFICES ASSUME Init PROVE Pending = << >>
    BY DEF DeferFifo!Init
  <2> QED BY DEF Init, Pending
<1>2. IInv /\ [Next]_vars => [DeferFifo!Next]_Pending
  <2> SUFFICES ASSUME IInv, [Next]_vars PROVE [DeferFifo!Next]_Pending
    OBVIOUS
  <2>0. TypeOK /\ QueueInv
    BY DEF IInv
  <2>1. CASE UNCHANGED << defer_queue, defer_front >>
    BY <2>1 DEF Pending
  <2>2. CASE BeginDefer
    <3>1. /\ defer_front = 0 /\ Len(defer_queue) \in Nat
          /\ Len(defer_queue) \in 0 .. Len(defer_queue)
      BY <2>0, <2>2, DeferredFact DEF BeginDefer, At, QueueInv, Busy
    <3>2. defer_front <= Len(defer_queue) /\ TakeNext(Len(defer_queue))
      BY <2>2, <3>1 DEF BeginDefer
    <3> QED BY <2>0, <3>1, <3>2, PendingMoves DEF DeferFifo!Next
  <2>3. CASE EndDeferred
    <3>1. Busy
      BY <2>3 DEF EndDeferred, At, Busy
    <3>2. /\ main.defer_end \in 0 .. Len(defer_queue) /\ defer_front <= main.defer_end
      BY <2>0, <3>1 DEF QueueInv, TypeOK
    <3>3. TakeNext(main.defer_end)
      BY <2>3 DEF EndDeferred
    <3> QED BY <2>0, <3>2, <3>3, PendingMoves DEF DeferFifo!Next
  <2>4. ASSUME NEW by \in Callers, NEW k \in Keys, NEW type \in Types, NEW delay \in Delays,
               NEW skip_cancel \in BOOLEAN, SetTimer(by, k, type, delay, skip_cancel)
        PROVE  [DeferFifo!Next]_Pending
    <3>1. CASE UNCHANGED defer_queue
      BY <2>1, <2>4, <3>1 DEF SetTimer
    <3>2. CASE defer_queue' = Append(defer_queue, NewItem)
      <4>1. NewItem \in Items /\ NewItem \notin Deferred /\ defer_front' = defer_front
        BY <2>4, NewItemFact DEF SetTimer, Planned
      <4>2. Pending' = Append(Pending, NewItem) /\ Len(Pending) < Cardinality(Items)
        BY <2>0, <3>2, <4>1, PendingGrows, PendingHasRoom
      <4> QED BY <4>1, <4>2 DEF DeferFifo!Next, DeferFifo!Enqueue
    <3> QED BY <2>4, <3>1, <3>2 DEF SetTimer
  <2>5. CASE Merge \/ CleanTop \/ EndCall \/ NextScheduleIn \/ FullCleanup
    BY <2>1, <2>5 DEF Merge, CleanTop, EndCall, NextScheduleIn, FullCleanup, ProcessToAdd, Cleanup,
                      containers
  <2>6. CASE PopFailed \/ PopRemoved \/ EndCancelled \/ EndTimeout
    BY <2>1, <2>6 DEF PopFailed, PopRemoved, EndCancelled, EndTimeout, PopAndRecycle
  <2>7. CASE \/ BeginCall \/ RunDeferred \/ Stamp \/ FindDue \/ StartCallback \/ EndHeap
             \/ EndInterval \/ TrimFreelist \/ Tick \/ (\E c \in Components : MarkFailed(c))
             \/ UNCHANGED vars
    BY <2>1, <2>7 DEF BeginCall, RunDeferred, Stamp, FindDue, StartCallback, EndHeap, EndInterval,
                      TrimFreelist, Tick, MarkFailed, vars, containers
  <2>8. ASSUME NEW by \in Callers, NEW k \in Keys, NEW type \in Types, NEW find_first \in BOOLEAN,
               Cancel(by, k, type, find_first)
        PROVE  [DeferFifo!Next]_Pending
    BY <2>1, <2>8 DEF Cancel, containers
  <2>9. CASE Api
    BY <2>4, <2>8, <2>9 DEF Api
  <2> QED BY <2>2, <2>3, <2>5, <2>6, <2>7, <2>9 DEF Next, Call, DeferPass, HeapPass
<1> QED BY <1>1, <1>2, Invariant, PTL DEF Spec, DeferIsFifo, DeferFifo!Spec
=============================================================================
