-------------------------- MODULE EventPool_proofs --------------------------
(***************************************************************************)
(* Proofs about EventPool, for any size of the pool and of the queue that  *)
(* holds it, when one thread releases.  What is proved of one ring is used *)
(* of both: QP is the event queue and FP the free list, with their lemmas; *)
(* neither has a task to notify.                                           *)
(***************************************************************************)
EXTENDS EventPool, FiniteSetTheorems, SequenceTheorems, TLAPS

QP == INSTANCE LockFreeQueue_proofs
        WITH SIZE <- Q_SIZE, T <- Events, Producers <- {"source"},
             buffer <- qbuffer, head <- qhead, tail <- qtail,
             dropped_count <- qdropped, push <- qpush, pop <- qpop,
             task_to_notify <- FALSE, consumer <- "drains",
             notification <- FALSE, caller <- None

FP == INSTANCE LockFreeQueue_proofs
        WITH SIZE <- FreeSlots, T <- Events, Producers <- Releasers,
             buffer <- fbuffer, head <- fhead, tail <- ftail,
             dropped_count <- fdropped, push <- fpush, pop <- fpop,
             task_to_notify <- FALSE, consumer <- "drains",
             notification <- FALSE, caller <- None

Queued == QP!Contents
FreeList == FP!Contents

In(e, s) == \E i \in 1 .. Len(s) : s[i] = e
Once(s) == \A i, j \in 1 .. Len(s) : s[i] = s[j] => i = j

(* The two threads and what they hold.                                     *)
HandsOK == /\ total_created \in 0 .. POOL_SIZE
           /\ source \in [pc : SourcePc, event : Events \cup {None}]
           /\ sink \in [pc : SinkPc, event : Events \cup {None}]

(* Where a thread is agrees with its calls on the rings.                   *)
HandsInv ==
  /\ source.pc \in {"load", "push", "pushing"} <=> source.event # None
  /\ sink.pc \in {"handle", "release", "releasing"} <=> sink.event # None
  /\ qpush["source"].pc # "idle" <=> source.pc = "pushing"
  /\ source.pc = "pushing" => qpush["source"].element = source.event
  /\ fpop.pc # "idle" <=> source.pc = "allocate"
  /\ fpush["sink"].pc # "idle" <=> sink.pc = "releasing"
  /\ sink.pc = "releasing" => fpush["sink"].element = sink.event
  /\ qpop.pc # "idle" <=> sink.pc = "pop"

(* An object that was created is in one ring or in one hand.               *)
PlacesInv ==
  /\ Once(Queued) /\ Once(FreeList)
  /\ \A e \in Events :
       /\ e <= total_created <=>
            In(e, Queued) \/ In(e, FreeList) \/ source.event = e \/ sink.event = e
       /\ In(e, Queued) => ~ In(e, FreeList) /\ source.event # e /\ sink.event # e
       /\ In(e, FreeList) => source.event # e /\ sink.event # e
       /\ source.event = e => sink.event # e

IInv == HandsOK /\ QP!IInv /\ FP!IInv /\ HandsInv /\ PlacesInv
-----------------------------------------------------------------------------
(* Each ring is one of those proved about.                                 *)
LEMMA RingConstants ==
  /\ Q_SIZE \in 1 .. 255 /\ FreeSlots \in 1 .. 255 /\ FreeSlots - 1 = POOL_SIZE
  /\ POOL_SIZE <= Q_SIZE - 1 /\ POOL_SIZE \in 1 .. 254
  /\ None \notin Events /\ DropRange \in Nat \ {0}
BY PoolAssumption, SizingAssumption, NoneAssumption, RangeAssumption DEF Events, FreeSlots

LEMMA QueueActions ==
  /\ \A e \in Events : /\ Queue!PushFull("source", e) => QP!PushFull("source", e)
                       /\ Queue!PushRoom("source", e) => QP!PushRoom("source", e)
  /\ Queue!PushWrite("source") => QP!PushWrite("source")
  /\ Queue!PushPublish("source") => QP!PushPublish("source")
  /\ Queue!PopFound => QP!PopFound
  /\ Queue!PopRead => QP!PopRead
  /\ Queue!PopPublish => QP!PopPublish
  /\ Queue!ResetDropped => QP!ResetDropped
  /\ Queue!CountDrop => QP!CountDrop
  /\ Queue!Full <=> QP!Full
BY DEF Queue!PushFull, QP!PushFull, Queue!PushRoom, QP!PushRoom, Queue!PushWrite, QP!PushWrite,
       Queue!PushPublish, QP!PushPublish, Queue!PopFound, QP!PopFound, Queue!PopRead, QP!PopRead,
       Queue!PopPublish, QP!PopPublish, Queue!ResetDropped, QP!ResetDropped, Queue!CountDrop,
       QP!CountDrop, Queue!Full, QP!Full, Queue!next_index, QP!next_index, Queue!PushIdle,
       QP!PushIdle, Queue!PopIdle, QP!PopIdle

LEMMA FreeActions ==
  /\ \A e \in Events : /\ Free!PushFull("sink", e) => FP!PushFull("sink", e)
                       /\ Free!PushRoom("sink", e) => FP!PushRoom("sink", e)
  /\ Free!PushWrite("sink") => FP!PushWrite("sink")
  /\ Free!PushPublish("sink") => FP!PushPublish("sink")
  /\ Free!PopFound => FP!PopFound
  /\ Free!PopRead => FP!PopRead
  /\ Free!PopPublish => FP!PopPublish
  /\ Free!Full <=> FP!Full
BY DEF Free!PushFull, FP!PushFull, Free!PushRoom, FP!PushRoom, Free!PushWrite, FP!PushWrite,
       Free!PushPublish, FP!PushPublish, Free!PopFound, FP!PopFound, Free!PopRead, FP!PopRead,
       Free!PopPublish, FP!PopPublish, Free!CountDrop, FP!CountDrop, Free!Full, FP!Full,
       Free!next_index, FP!next_index, Free!PushIdle, FP!PushIdle, Free!PopIdle, FP!PopIdle

(* The event queue's steps keep its invariant, and change what is in it    *)
(* where they publish an index.                                            *)
LEMMA QueueStep ==
  ASSUME QP!IInv
  PROVE  /\ \A e \in Events : Queue!PushFull("source", e) \/ Queue!PushRoom("source", e) =>
              QP!IInv' /\ Queued' = Queued
         /\ (\/ Queue!PushWrite("source") \/ Queue!PopFound \/ Queue!PopRead
             \/ Queue!ResetDropped \/ UNCHANGED queue_vars) =>
              QP!IInv' /\ Queued' = Queued
         /\ Queue!PushPublish("source") =>
              QP!IInv' /\ Queued' = Append(Queued, qpush["source"].element)
         /\ Queue!PopPublish =>
              /\ QP!IInv' /\ Queued # << >> /\ Queued' = Tail(Queued)
              /\ qpop.element = Queued[1]
         /\ Queue!CountDrop /\ UNCHANGED << qbuffer, qhead, qtail, qpush, qpop >> =>
              QP!IInv' /\ Queued' = Queued
<1>1. QP!SingleProducer
  BY DEF QP!SingleProducer
<1>2. [QP!Next]_(QP!vars) => QP!IInv'
  BY <1>1, RingConstants, QP!InvStep
<1>3. UNCHANGED queue_vars <=> UNCHANGED QP!vars
  BY DEF queue_vars, QP!vars
<1>4. QP!IInv' =>
         /\ \A e \in Events :
              QP!PushFull("source", e) \/ QP!PushRoom("source", e) => Queued' = Queued
         /\ QP!PushWrite("source") => Queued' = Queued
         /\ QP!PushPublish("source") => Queued' = Append(Queued, qpush["source"].element)
         /\ QP!PopPublish => Queued # << >> /\ Queued' = Tail(Queued)
         /\ QP!PopFound \/ QP!PopRead \/ QP!ResetDropped \/ UNCHANGED QP!vars => Queued' = Queued
  BY <1>1, RingConstants, QP!RingStep DEF Queued
<1>5. ASSUME NEW e \in Events, Queue!PushFull("source", e) \/ Queue!PushRoom("source", e)
      PROVE  QP!IInv' /\ Queued' = Queued
  <2>1. QP!PushFull("source", e) \/ QP!PushRoom("source", e)
    BY <1>5, QueueActions
  <2> QED BY <1>2, <1>4, <2>1 DEF QP!Next
<1>6. ASSUME \/ Queue!PushWrite("source") \/ Queue!PopFound \/ Queue!PopRead
             \/ Queue!ResetDropped \/ UNCHANGED queue_vars
      PROVE  QP!IInv' /\ Queued' = Queued
  <2>1. \/ QP!PushWrite("source") \/ QP!PopFound \/ QP!PopRead
        \/ QP!ResetDropped \/ UNCHANGED QP!vars
    BY <1>3, <1>6, QueueActions
  <2> QED BY <1>2, <1>4, <2>1 DEF QP!Next, QP!PushStep, QP!PopStep
<1>7. ASSUME Queue!PushPublish("source")
      PROVE  QP!IInv' /\ Queued' = Append(Queued, qpush["source"].element)
  <2>1. QP!PushPublish("source")
    BY <1>7, QueueActions
  <2> QED BY <1>2, <1>4, <2>1 DEF QP!Next, QP!PushStep
<1>8. ASSUME Queue!PopPublish
      PROVE  /\ QP!IInv' /\ Queued # << >> /\ Queued' = Tail(Queued)
             /\ qpop.element = Queued[1]
  <2>1. QP!PopPublish /\ qpop.pc = "publish"
    BY <1>8, QueueActions DEF Queue!PopPublish
  <2>2. qpop.element = Queued[1]
    BY <2>1, RingConstants, QP!ContentsFact DEF Queued
  <2> QED BY <1>2, <1>4, <2>1, <2>2 DEF QP!Next, QP!PopStep
<1>9. ASSUME Queue!CountDrop, UNCHANGED << qbuffer, qhead, qtail, qpush, qpop >>
      PROVE  QP!IInv' /\ Queued' = Queued
  BY <1>9, QueueActions, RingConstants, QP!CountDropKeeps DEF Queued
<1> QED BY <1>5, <1>6, <1>7, <1>8, <1>9

(* ... and so do those of the free list.                                   *)
LEMMA FreeStep ==
  ASSUME FP!SingleProducer, FP!IInv
  PROVE  /\ \A e \in Events : Free!PushFull("sink", e) \/ Free!PushRoom("sink", e) =>
              FP!IInv' /\ FreeList' = FreeList
         /\ (Free!PushWrite("sink") \/ Free!PopFound \/ Free!PopRead \/ UNCHANGED free_vars) =>
              FP!IInv' /\ FreeList' = FreeList
         /\ Free!PushPublish("sink") =>
              FP!IInv' /\ FreeList' = Append(FreeList, fpush["sink"].element)
         /\ Free!PopPublish =>
              /\ FP!IInv' /\ FreeList # << >> /\ FreeList' = Tail(FreeList)
              /\ fpop.element = FreeList[1]
<1>1. "sink" \in Releasers
  BY ReleasersAssumption
<1>2. [FP!Next]_(FP!vars) => FP!IInv'
  BY RingConstants, FP!InvStep
<1>3. UNCHANGED free_vars <=> UNCHANGED FP!vars
  BY DEF free_vars, FP!vars
<1>4. FP!IInv' =>
         /\ \A e \in Events :
              FP!PushFull("sink", e) \/ FP!PushRoom("sink", e) => FreeList' = FreeList
         /\ FP!PushWrite("sink") => FreeList' = FreeList
         /\ FP!PushPublish("sink") => FreeList' = Append(FreeList, fpush["sink"].element)
         /\ FP!PopPublish => FreeList # << >> /\ FreeList' = Tail(FreeList)
         /\ FP!PopFound \/ FP!PopRead \/ UNCHANGED FP!vars => FreeList' = FreeList
  BY <1>1, RingConstants, FP!RingStep DEF FreeList
<1>5. ASSUME NEW e \in Events, Free!PushFull("sink", e) \/ Free!PushRoom("sink", e)
      PROVE  FP!IInv' /\ FreeList' = FreeList
  <2>1. FP!PushFull("sink", e) \/ FP!PushRoom("sink", e)
    BY <1>5, FreeActions
  <2> QED BY <1>1, <1>2, <1>4, <2>1 DEF FP!Next
<1>6. ASSUME \/ Free!PushWrite("sink") \/ Free!PopFound \/ Free!PopRead \/ UNCHANGED free_vars
      PROVE  FP!IInv' /\ FreeList' = FreeList
  <2>1. \/ FP!PushWrite("sink") \/ FP!PopFound \/ FP!PopRead \/ UNCHANGED FP!vars
    BY <1>3, <1>6, FreeActions
  <2> QED BY <1>1, <1>2, <1>4, <2>1 DEF FP!Next, FP!PushStep, FP!PopStep
<1>7. ASSUME Free!PushPublish("sink")
      PROVE  FP!IInv' /\ FreeList' = Append(FreeList, fpush["sink"].element)
  <2>1. FP!PushPublish("sink")
    BY <1>7, FreeActions
  <2> QED BY <1>1, <1>2, <1>4, <2>1 DEF FP!Next, FP!PushStep
<1>8. ASSUME Free!PopPublish
      PROVE  /\ FP!IInv' /\ FreeList # << >> /\ FreeList' = Tail(FreeList)
             /\ fpop.element = FreeList[1]
  <2>1. FP!PopPublish /\ fpop.pc = "publish"
    BY <1>8, FreeActions DEF Free!PopPublish
  <2>2. fpop.element = FreeList[1]
    BY <2>1, RingConstants, FP!ContentsFact DEF FreeList
  <2> QED BY <1>2, <1>4, <2>1, <2>2 DEF FP!Next, FP!PopStep
<1> QED BY <1>5, <1>6, <1>7, <1>8
-----------------------------------------------------------------------------
(* Sequences without repetition.                                           *)
LEMMA AppendPlaces ==
  ASSUME NEW s \in Seq(Events), NEW e \in Events, Once(s), ~ In(e, s)
  PROVE  /\ Once(Append(s, e))
         /\ \A x : In(x, Append(s, e)) <=> In(x, s) \/ x = e
<1>1. /\ Len(s) \in Nat /\ Len(Append(s, e)) = Len(s) + 1
      /\ Append(s, e)[Len(s) + 1] = e
      /\ \A i \in 1 .. Len(s) : Append(s, e)[i] = s[i]
  OBVIOUS
<1>2. ASSUME NEW i \in 1 .. Len(s) + 1, NEW j \in 1 .. Len(s) + 1,
             Append(s, e)[i] = Append(s, e)[j]
      PROVE  i = j
  <2>1. CASE i \in 1 .. Len(s) /\ j \in 1 .. Len(s)
    BY <1>1, <1>2, <2>1 DEF Once
  <2>2. CASE i = Len(s) + 1 \/ j = Len(s) + 1
    <3>1. i = Len(s) + 1 \/ i \in 1 .. Len(s)
      BY <1>1
    <3>2. j = Len(s) + 1 \/ j \in 1 .. Len(s)
      BY <1>1
    <3> QED BY <1>1, <1>2, <2>2, <3>1, <3>2 DEF In
  <2> QED BY <1>1, <2>1, <2>2
<1>3. ASSUME NEW x PROVE In(x, Append(s, e)) <=> In(x, s) \/ x = e
  <2>1. \A i : i \in 1 .. Len(s) + 1 <=> i \in 1 .. Len(s) \/ i = Len(s) + 1
    BY <1>1
  <2> QED BY <1>1, <2>1 DEF In
<1> QED BY <1>1, <1>2, <1>3 DEF Once

LEMMA TailPlaces ==
  ASSUME NEW s \in Seq(Events), Once(s), s # << >>
  PROVE  /\ Once(Tail(s)) /\ ~ In(s[1], Tail(s)) /\ s[1] \in Events
         /\ \A x : In(x, s) <=> In(x, Tail(s)) \/ x = s[1]
<1>1. /\ Len(s) \in Nat /\ Len(s) > 0 /\ Len(Tail(s)) = Len(s) - 1
      /\ \A i \in 1 .. Len(s) - 1 : Tail(s)[i] = s[i + 1]
      /\ s[1] \in Events
  BY HeadTailProperties, EmptySeq
<1>2. Once(Tail(s))
  <2> SUFFICES ASSUME NEW i \in 1 .. Len(s) - 1, NEW j \in 1 .. Len(s) - 1,
                      Tail(s)[i] = Tail(s)[j]
               PROVE  i = j
    BY <1>1 DEF Once
  <2>1. s[i + 1] = s[j + 1] /\ i + 1 \in 1 .. Len(s) /\ j + 1 \in 1 .. Len(s)
    BY <1>1
  <2>2. i + 1 = j + 1
    BY <2>1 DEF Once
  <2> QED BY <2>2
<1>3. ~ In(s[1], Tail(s))
  <2> SUFFICES ASSUME NEW i \in 1 .. Len(s) - 1, Tail(s)[i] = s[1] PROVE FALSE
    BY <1>1 DEF In
  <2>1. s[i + 1] = s[1] /\ i + 1 \in 1 .. Len(s) /\ 1 \in 1 .. Len(s)
    BY <1>1
  <2>2. i + 1 = 1
    BY <2>1 DEF Once
  <2> QED BY <2>2
<1>4. ASSUME NEW x PROVE In(x, s) <=> In(x, Tail(s)) \/ x = s[1]
  <2>1. ASSUME In(x, s) PROVE In(x, Tail(s)) \/ x = s[1]
    <3>1. PICK i \in 1 .. Len(s) : s[i] = x
      BY <2>1 DEF In
    <3>2. CASE i = 1
      BY <3>1, <3>2
    <3>3. CASE i # 1
      <4>1. i - 1 \in 1 .. Len(s) - 1 /\ (i - 1) + 1 = i
        BY <1>1, <3>3
      <4>2. Tail(s)[i - 1] = x
        BY <1>1, <3>1, <4>1
      <4> QED BY <1>1, <4>1, <4>2 DEF In
    <3> QED BY <3>2, <3>3
  <2>2. ASSUME In(x, Tail(s)) PROVE In(x, s)
    <3>1. PICK i \in 1 .. Len(s) - 1 : Tail(s)[i] = x
      BY <1>1, <2>2 DEF In
    <3>2. i + 1 \in 1 .. Len(s) /\ s[i + 1] = x
      BY <1>1, <3>1
    <3> QED BY <3>2 DEF In
  <2>3. In(s[1], s)
    BY <1>1 DEF In
  <2> QED BY <2>1, <2>2, <2>3
<1> QED BY <1>1, <1>2, <1>3, <1>4

LEMMA Fits ==
  ASSUME NEW S, IsFiniteSet(S), NEW s \in Seq(S), Once(s)
  PROVE  Len(s) <= Cardinality(S)
<1>1. s \in [1 .. Len(s) -> S] /\ Len(s) \in Nat /\ Cardinality(S) \in Nat
  <2>1. s \in [1 .. Len(s) -> S] /\ Len(s) \in Nat
    BY LenProperties
  <2>2. Cardinality(S) \in Nat
    BY FS_CardinalityType
  <2> QED BY <2>1, <2>2
<1>2. IsFiniteSet(1 .. Len(s)) /\ Cardinality(1 .. Len(s)) = Len(s)
  <2>1. \A n \in Nat : IsFiniteSet(1 .. n) /\ Cardinality(1 .. n) = n
    BY FS_Interval
  <2> QED BY <1>1, <2>1
<1>3. ASSUME Cardinality(S) < Len(s) PROVE FALSE
  BY <1>1, <1>2, <1>3, FS_PigeonHole DEF Once
<1> QED BY <1>1, <1>3

(* While a thread holds an event there is room for it in the ring it will  *)
(* push it on: so what push() returns may be ignored.                      *)
LEMMA RoomBesides ==
  ASSUME NEW s \in Seq(Events), Once(s), NEW e \in Events, ~ In(e, s)
  PROVE  Len(s) < POOL_SIZE
<1>1. IsFiniteSet(Events) /\ Cardinality(Events) = POOL_SIZE
  BY RingConstants, FS_Interval DEF Events
<1>2. IsFiniteSet(Events \ {e}) /\ Cardinality(Events \ {e}) = POOL_SIZE - 1
  BY <1>1, FS_RemoveElement
<1>3. s \in Seq(Events \ {e})
  <2>1. \A i \in 1 .. Len(s) : s[i] \in Events /\ s[i] # e
    BY DEF In
  <2>2. \A i \in 1 .. Len(s) : s[i] \in Events \ {e}
    BY <2>1
  <2>3. s = [i \in 1 .. Len(s) |-> s[i]] /\ Len(s) \in Nat
    OBVIOUS
  <2> QED BY <2>2, <2>3, SeqDef
<1>4. Len(s) <= POOL_SIZE - 1
  BY <1>2, <1>3, Fits
<1> QED BY <1>4, RingConstants

LEMMA RoomForPush ==
  ASSUME IInv, source.event \in Events
  PROVE  ~ Queue!Full
<1>1. /\ Queued \in Seq(Events) /\ (QP!Full <=> Len(Queued) = Q_SIZE - 1)
  BY RingConstants, QP!ContentsFact DEF IInv, Queued
<1>2. Once(Queued) /\ ~ In(source.event, Queued)
  BY DEF IInv, PlacesInv
<1>3. Len(Queued) < POOL_SIZE
  BY <1>1, <1>2, RoomBesides
<1> QED BY <1>1, <1>3, RingConstants, QueueActions

LEMMA RoomForRelease ==
  ASSUME IInv, sink.event \in Events
  PROVE  ~ Free!Full
<1>1. /\ FreeList \in Seq(Events) /\ (FP!Full <=> Len(FreeList) = FreeSlots - 1)
  BY RingConstants, FP!ContentsFact DEF IInv, FreeList
<1>2. Once(FreeList) /\ ~ In(sink.event, FreeList)
  BY DEF IInv, PlacesInv
<1>3. Len(FreeList) < POOL_SIZE
  BY <1>1, <1>2, RoomBesides
<1> QED BY <1>1, <1>3, RingConstants, FreeActions
-----------------------------------------------------------------------------
(* What the rings' steps note for the two threads.                         *)
LEMMA QueueLocals ==
  ASSUME QP!IInv
  PROVE  /\ \A e \in Events : Queue!PushRoom("source", e) =>
              /\ qpush'["source"].pc # "idle" /\ qpush'["source"].element = e
              /\ qpop' = qpop
         /\ Queue!PushWrite("source") =>
              /\ qpush["source"].pc # "idle" /\ qpush'["source"].pc # "idle"
              /\ qpush'["source"].element = qpush["source"].element /\ qpop' = qpop
         /\ Queue!PushPublish("source") => qpush'["source"].pc = "idle" /\ qpop' = qpop
         /\ Queue!PopFound \/ Queue!PopRead => qpop'.pc # "idle" /\ qpush' = qpush
         /\ Queue!PopPublish => qpop'.pc = "idle" /\ qpush' = qpush
         /\ Queue!PopEmpty => UNCHANGED queue_vars
         /\ Queue!ResetDropped \/ UNCHANGED queue_vars => qpush' = qpush /\ qpop' = qpop
<1>1. qpush \in [{"source"} -> QP!PushLocals] /\ qpop \in QP!PopLocals
  BY DEF QP!IInv, QP!TypeOK
<1>2. ASSUME NEW e \in Events, Queue!PushRoom("source", e)
      PROVE  /\ qpush'["source"].pc # "idle" /\ qpush'["source"].element = e
             /\ qpop' = qpop
  BY <1>1, <1>2 DEF Queue!PushRoom
<1>3. ASSUME Queue!PushWrite("source")
      PROVE  /\ qpush["source"].pc # "idle" /\ qpush'["source"].pc # "idle"
             /\ qpush'["source"].element = qpush["source"].element /\ qpop' = qpop
  BY <1>1, <1>3 DEF Queue!PushWrite, QP!PushLocals
<1>4. ASSUME Queue!PushPublish("source") PROVE qpush'["source"].pc = "idle" /\ qpop' = qpop
  BY <1>1, <1>4 DEF Queue!PushPublish, Queue!PushIdle
<1>5. ASSUME Queue!PopFound \/ Queue!PopRead PROVE qpop'.pc # "idle" /\ qpush' = qpush
  BY <1>1, <1>5 DEF Queue!PopFound, Queue!PopRead, QP!PopLocals
<1>6. ASSUME Queue!PopPublish PROVE qpop'.pc = "idle" /\ qpush' = qpush
  BY <1>6 DEF Queue!PopPublish, Queue!PopIdle
<1>7. Queue!PopEmpty => UNCHANGED queue_vars
  BY DEF Queue!PopEmpty, Queue!vars, queue_vars
<1>8. Queue!ResetDropped \/ UNCHANGED queue_vars => qpush' = qpush /\ qpop' = qpop
  BY DEF Queue!ResetDropped, queue_vars
<1> QED BY <1>2, <1>3, <1>4, <1>5, <1>6, <1>7, <1>8

LEMMA FreeLocals ==
  ASSUME FP!IInv
  PROVE  /\ \A e \in Events : Free!PushRoom("sink", e) =>
              /\ fpush'["sink"].pc # "idle" /\ fpush'["sink"].element = e
              /\ fpop' = fpop
         /\ Free!PushWrite("sink") =>
              /\ fpush["sink"].pc # "idle" /\ fpush'["sink"].pc # "idle"
              /\ fpush'["sink"].element = fpush["sink"].element /\ fpop' = fpop
         /\ Free!PushPublish("sink") => fpush'["sink"].pc = "idle" /\ fpop' = fpop
         /\ Free!PopFound \/ Free!PopRead => fpop'.pc # "idle" /\ fpush' = fpush
         /\ Free!PopPublish => fpop'.pc = "idle" /\ fpush' = fpush
         /\ Free!PopEmpty => UNCHANGED free_vars
         /\ UNCHANGED free_vars => fpush' = fpush /\ fpop' = fpop
<1>1. /\ fpush \in [Releasers -> FP!PushLocals] /\ fpop \in FP!PopLocals
      /\ "sink" \in Releasers
  BY ReleasersAssumption DEF FP!IInv, FP!TypeOK
<1>2. ASSUME NEW e \in Events, Free!PushRoom("sink", e)
      PROVE  /\ fpush'["sink"].pc # "idle" /\ fpush'["sink"].element = e
             /\ fpop' = fpop
  BY <1>1, <1>2 DEF Free!PushRoom
<1>3. ASSUME Free!PushWrite("sink")
      PROVE  /\ fpush["sink"].pc # "idle" /\ fpush'["sink"].pc # "idle"
             /\ fpush'["sink"].element = fpush["sink"].element /\ fpop' = fpop
  BY <1>1, <1>3 DEF Free!PushWrite, FP!PushLocals
<1>4. ASSUME Free!PushPublish("sink") PROVE fpush'["sink"].pc = "idle" /\ fpop' = fpop
  BY <1>1, <1>4 DEF Free!PushPublish, Free!PushIdle
<1>5. ASSUME Free!PopFound \/ Free!PopRead PROVE fpop'.pc # "idle" /\ fpush' = fpush
  BY <1>1, <1>5 DEF Free!PopFound, Free!PopRead, FP!PopLocals
<1>6. ASSUME Free!PopPublish PROVE fpop'.pc = "idle" /\ fpush' = fpush
  BY <1>6 DEF Free!PopPublish, Free!PopIdle
<1>7. Free!PopEmpty => UNCHANGED free_vars
  BY DEF Free!PopEmpty, Free!vars, free_vars
<1>8. UNCHANGED free_vars => fpush' = fpush /\ fpop' = fpop
  BY DEF free_vars
<1> QED BY <1>2, <1>3, <1>4, <1>5, <1>6, <1>7, <1>8

(* Nothing changes place.                                                  *)
LEMMA PlacesKept ==
  ASSUME PlacesInv, Queued' = Queued, FreeList' = FreeList, total_created' = total_created,
         source'.event = source.event, sink'.event = sink.event
  PROVE  PlacesInv'
BY DEF PlacesInv, In, Once

(* The source thread has an event or none.                                 *)
LEMMA HandsFact ==
  ASSUME IInv
  PROVE  /\ source = [pc |-> source.pc, event |-> source.event] /\ source.pc \in SourcePc
         /\ sink = [pc |-> sink.pc, event |-> sink.event] /\ sink.pc \in SinkPc
         /\ source.pc \in {"load", "push", "pushing"} => source.event \in Events
         /\ source.pc \in {"idle", "allocate", "drop"} => source.event = None
         /\ sink.pc \in {"handle", "release", "releasing"} => sink.event \in Events
         /\ sink.pc \in {"poll", "pop", "drain", "report"} => sink.event = None
         /\ None \notin Events
  BY RingConstants DEF IInv, HandsOK, HandsInv
-----------------------------------------------------------------------------
(* The source thread's steps.                                              *)
LEMMA AllocateNewStep ==
  ASSUME IInv, FP!SingleProducer, AllocateNew
  PROVE  IInv'
<1>1. /\ UNCHANGED queue_vars /\ UNCHANGED free_vars /\ sink' = sink
      /\ source.pc = "idle" /\ source.event = None
      /\ total_created' = total_created + 1
      /\ source' = [pc |-> "load", event |-> total_created + 1]
      /\ total_created + 1 \in Events /\ total_created \in Nat
  BY FreeLocals, HandsFact, RingConstants
  DEF AllocateNew, IInv, SourceAt, AtCapacity, HandsOK, Events
<1>2. QP!IInv' /\ FP!IInv' /\ Queued' = Queued /\ FreeList' = FreeList
  BY <1>1, QueueStep, FreeStep DEF IInv
<1>3. HandsOK'
  BY <1>1, RingConstants DEF IInv, HandsOK, SourcePc, Events
<1>4. HandsInv'
  BY <1>1, RingConstants DEF IInv, HandsInv, queue_vars, free_vars
<1>5. PlacesInv'
  <2>1. \A e \in Events : e <= total_created' <=> e <= total_created \/ e = source'.event
    BY <1>1 DEF Events
  <2>2. ~ (source'.event <= total_created)
    BY <1>1
  <2>3. source'.event \in Events /\ sink'.event = sink.event
    BY <1>1
  <2> QED BY <1>1, <1>2, <2>1, <2>2, <2>3, RingConstants DEF IInv, PlacesInv, In, Once
<1> QED BY <1>2, <1>3, <1>4, <1>5 DEF IInv

LEMMA AllocateQuietStep ==
  ASSUME IInv, FP!SingleProducer, AllocateNothing \/ AllocateFound \/ AllocateRead
  PROVE  IInv'
<1>1. /\ UNCHANGED queue_vars /\ sink' = sink /\ total_created' = total_created
      /\ source.pc \in {"idle", "allocate"} /\ source.event = None
      /\ source'.event = None /\ source'.pc \in {"allocate", "drop"}
      /\ source' = [pc |-> source'.pc, event |-> None]
  BY HandsFact
  DEF AllocateNothing, AllocateFound, AllocateRead, SourceAt, SourceGoes, IInv, HandsOK
<1>2. \/ UNCHANGED free_vars /\ source.pc = "idle" /\ source'.pc = "drop"
      \/ (Free!PopFound \/ Free!PopRead) /\ source'.pc = "allocate"
  BY FreeLocals, HandsFact
  DEF AllocateNothing, AllocateFound, AllocateRead, SourceAt, SourceGoes, IInv
<1>3. QP!IInv' /\ FP!IInv' /\ Queued' = Queued /\ FreeList' = FreeList
  BY <1>1, <1>2, QueueStep, FreeStep DEF IInv
<1>4. HandsOK'
  BY <1>1 DEF IInv, HandsOK, SourcePc
<1>5. /\ fpop'.pc # "idle" <=> source'.pc = "allocate"
      /\ fpush' = fpush /\ qpush' = qpush /\ qpop' = qpop
  BY <1>1, <1>2, FreeLocals DEF IInv, HandsInv, queue_vars, free_vars
<1>6. HandsInv'
  BY <1>1, <1>5 DEF IInv, HandsInv
<1>7. PlacesInv'
  BY <1>1, <1>3, PlacesKept DEF IInv
<1> QED BY <1>3, <1>4, <1>6, <1>7 DEF IInv

LEMMA AllocateTakenStep ==
  ASSUME IInv, FP!SingleProducer, AllocateTaken
  PROVE  IInv'
<1>1. /\ UNCHANGED queue_vars /\ sink' = sink /\ total_created' = total_created
      /\ source.pc = "allocate" /\ source.event = None /\ Free!PopPublish
      /\ source' = [pc |-> "load", event |-> fpop.element]
  BY HandsFact DEF AllocateTaken, SourceAt
<1>2. QP!IInv' /\ Queued' = Queued
  BY <1>1, QueueStep DEF IInv
<1>3. /\ FP!IInv' /\ FreeList # << >> /\ FreeList' = Tail(FreeList)
      /\ fpop.element = FreeList[1]
  BY <1>1, FreeStep DEF IInv
<1>4. FreeList \in Seq(Events)
  BY RingConstants, FP!ContentsFact DEF IInv, FreeList
<1>5. /\ Once(FreeList') /\ ~ In(fpop.element, FreeList') /\ fpop.element \in Events
      /\ \A x : In(x, FreeList) <=> In(x, FreeList') \/ x = fpop.element
  BY <1>3, <1>4, TailPlaces DEF IInv, PlacesInv
<1>6. HandsOK'
  BY <1>1, <1>5 DEF IInv, HandsOK, SourcePc
<1>7. fpop'.pc = "idle" /\ fpush' = fpush /\ qpush' = qpush /\ qpop' = qpop
  BY <1>1, FreeLocals DEF IInv, queue_vars
<1>8. HandsInv'
  BY <1>1, <1>5, <1>7, RingConstants DEF IInv, HandsInv
<1>9. PlacesInv'
  <2>1. source'.event = fpop.element /\ sink'.event = sink.event
    BY <1>1
  <2> HIDE <1>1
  <2>2. source.event = None /\ total_created' = total_created /\ None \notin Events
    BY <1>1, RingConstants
  <2>3. Once(Queued)' /\ Once(FreeList)' /\ \A x : In(x, Queued)' <=> In(x, Queued)
    BY <1>2, <1>5 DEF IInv, PlacesInv, Once, In
  <2>4. \A x : In(x, FreeList)' <=> In(x, FreeList')
    BY DEF In
  <2> QED BY <1>5, <2>1, <2>2, <2>3, <2>4 DEF IInv, PlacesInv
<1> QED BY <1>2, <1>3, <1>6, <1>8, <1>9 DEF IInv

LEMMA FillStep ==
  ASSUME IInv, FP!SingleProducer, Load \/ Drop
  PROVE  IInv'
<1>1. /\ UNCHANGED free_vars /\ sink' = sink /\ total_created' = total_created
      /\ qpush' = qpush /\ qpop' = qpop
      /\ source' = [pc |-> source'.pc, event |-> source.event]
      /\ \/ source.pc = "load" /\ source'.pc = "push" /\ UNCHANGED queue_vars
         \/ /\ source.pc = "drop" /\ source'.pc = "idle"
            /\ Queue!CountDrop /\ UNCHANGED << qbuffer, qhead, qtail, qpush, qpop >>
  BY HandsFact DEF Load, Drop, SourceAt, SourceGoes, queue_vars
<1>2. QP!IInv' /\ FP!IInv' /\ Queued' = Queued /\ FreeList' = FreeList
  BY <1>1, QueueStep, FreeStep DEF IInv
<1>3. source'.event = source.event /\ source'.pc \in SourcePc
  BY <1>1 DEF SourcePc
<1>4. HandsOK'
  BY <1>1, <1>3 DEF IInv, HandsOK
<1>5. HandsInv'
  BY <1>1, <1>3 DEF IInv, HandsInv, free_vars
<1>6. PlacesInv'
  BY <1>1, <1>2, <1>3, PlacesKept DEF IInv
<1> QED BY <1>2, <1>4, <1>5, <1>6 DEF IInv

LEMMA PushStep ==
  ASSUME IInv, FP!SingleProducer, PushBegins \/ PushWrites
  PROVE  IInv'
<1>1. /\ UNCHANGED free_vars /\ sink' = sink /\ total_created' = total_created
      /\ source' = [pc |-> "pushing", event |-> source.event] /\ source.event \in Events
      /\ \/ source.pc = "push" /\ Queue!PushRoom("source", source.event)
         \/ source.pc = "pushing" /\ Queue!PushWrite("source")
  BY HandsFact, RoomForPush DEF PushBegins, PushWrites, SourceAt, SourceGoes
<1>2. QP!IInv' /\ Queued' = Queued
  BY <1>1, QueueStep DEF IInv
<1>3. FP!IInv' /\ FreeList' = FreeList
  BY <1>1, FreeStep DEF IInv
<1>4. HandsOK'
  BY <1>1 DEF IInv, HandsOK, SourcePc
<1>5. /\ qpush'["source"].pc # "idle" /\ qpush'["source"].element = source.event
      /\ qpop' = qpop /\ fpush' = fpush /\ fpop' = fpop
  BY <1>1, QueueLocals DEF IInv, HandsInv, free_vars
<1>6. HandsInv'
  BY <1>1, <1>5, RingConstants DEF IInv, HandsInv
<1>7. PlacesInv'
  BY <1>1, <1>2, <1>3, PlacesKept DEF IInv
<1> QED BY <1>2, <1>3, <1>4, <1>6, <1>7 DEF IInv

(* The event goes from the source's hand into the queue.                   *)
LEMMA PushEndsStep ==
  ASSUME IInv, FP!SingleProducer, PushEnds
  PROVE  IInv'
<1>1. /\ UNCHANGED free_vars /\ sink' = sink /\ total_created' = total_created
      /\ source.pc = "pushing" /\ source.event \in Events
      /\ Queue!PushPublish("source") /\ source' = [pc |-> "idle", event |-> None]
  BY HandsFact DEF PushEnds, SourceAt, SourceLetsGo
<1>2. QP!IInv' /\ Queued' = Append(Queued, source.event)
  BY <1>1, QueueStep DEF IInv, HandsInv
<1>3. FP!IInv' /\ FreeList' = FreeList
  BY <1>1, FreeStep DEF IInv
<1>4. Queued \in Seq(Events)
  BY RingConstants, QP!ContentsFact DEF IInv, Queued
<1>5. /\ Once(Queued') /\ ~ In(source.event, Queued)
      /\ \A x : In(x, Queued') <=> In(x, Queued) \/ x = source.event
  BY <1>1, <1>2, <1>4, AppendPlaces DEF IInv, PlacesInv
<1>6. HandsOK'
  BY <1>1 DEF IInv, HandsOK, SourcePc
<1>7. qpush'["source"].pc = "idle" /\ qpop' = qpop /\ fpush' = fpush /\ fpop' = fpop
  BY <1>1, QueueLocals DEF IInv, free_vars
<1>8. HandsInv'
  BY <1>1, <1>7 DEF IInv, HandsInv
<1>9. PlacesInv'
  <2>1. /\ source'.event = None /\ sink'.event = sink.event /\ total_created' = total_created
        /\ None \notin Events /\ source.event \in Events
    BY <1>1, RingConstants
  <2>2. Once(Queued)' /\ Once(FreeList)' /\ \A x : In(x, FreeList)' <=> In(x, FreeList)
    BY <1>3, <1>5 DEF IInv, PlacesInv, Once, In
  <2>3. \A x : In(x, Queued)' <=> In(x, Queued')
    BY DEF In
  <2> QED BY <1>5, <2>1, <2>2, <2>3 DEF IInv, PlacesInv
<1> QED BY <1>2, <1>3, <1>6, <1>8, <1>9 DEF IInv
-----------------------------------------------------------------------------
(* The sink thread's steps.                                                *)
LEMMA SinkPopStep ==
  ASSUME IInv, FP!SingleProducer, SinkFound \/ SinkRead
  PROVE  IInv'
<1>1. /\ UNCHANGED free_vars /\ source' = source /\ total_created' = total_created
      /\ sink' = [pc |-> "pop", event |-> sink.event] /\ sink.event = None
      /\ sink.pc \in {"poll", "drain", "pop"}
      /\ Queue!PopFound \/ Queue!PopRead
  BY HandsFact DEF SinkFound, SinkRead, SinkAt, SinkGoes
<1>2. QP!IInv' /\ Queued' = Queued
  BY <1>1, QueueStep DEF IInv
<1>3. FP!IInv' /\ FreeList' = FreeList
  BY <1>1, FreeStep DEF IInv
<1>4. HandsOK'
  BY <1>1 DEF IInv, HandsOK, SinkPc
<1>5. qpop'.pc # "idle" /\ qpush' = qpush /\ fpush' = fpush /\ fpop' = fpop
  BY <1>1, QueueLocals DEF IInv, free_vars
<1>6. HandsInv'
  BY <1>1, <1>5 DEF IInv, HandsInv
<1>7. PlacesInv'
  BY <1>1, <1>2, <1>3, PlacesKept DEF IInv
<1> QED BY <1>2, <1>3, <1>4, <1>6, <1>7 DEF IInv

(* The event goes from the queue into the sink's hand.                     *)
LEMMA SinkTakenStep ==
  ASSUME IInv, FP!SingleProducer, SinkTaken
  PROVE  IInv'
<1>1. /\ UNCHANGED free_vars /\ source' = source /\ total_created' = total_created
      /\ sink.pc = "pop" /\ sink.event = None /\ Queue!PopPublish
      /\ sink' = [pc |-> "handle", event |-> qpop.element]
  BY HandsFact DEF SinkTaken, SinkAt
<1>2. FP!IInv' /\ FreeList' = FreeList
  BY <1>1, FreeStep DEF IInv
<1>3. /\ QP!IInv' /\ Queued # << >> /\ Queued' = Tail(Queued)
      /\ qpop.element = Queued[1]
  BY <1>1, QueueStep DEF IInv
<1>4. Queued \in Seq(Events)
  BY RingConstants, QP!ContentsFact DEF IInv, Queued
<1>5. /\ Once(Queued') /\ ~ In(qpop.element, Queued') /\ qpop.element \in Events
      /\ \A x : In(x, Queued) <=> In(x, Queued') \/ x = qpop.element
  BY <1>3, <1>4, TailPlaces DEF IInv, PlacesInv
<1>6. HandsOK'
  BY <1>1, <1>5 DEF IInv, HandsOK, SinkPc
<1>7. qpop'.pc = "idle" /\ qpush' = qpush /\ fpush' = fpush /\ fpop' = fpop
  BY <1>1, QueueLocals DEF IInv, free_vars
<1>8. HandsInv'
  BY <1>1, <1>5, <1>7, RingConstants DEF IInv, HandsInv
<1>9. PlacesInv'
  <2>1. /\ sink'.event = qpop.element /\ source'.event = source.event /\ sink.event = None
        /\ total_created' = total_created /\ None \notin Events
    BY <1>1, RingConstants
  <2>2. Once(Queued)' /\ Once(FreeList)' /\ \A x : In(x, FreeList)' <=> In(x, FreeList)
    BY <1>2, <1>5 DEF IInv, PlacesInv, Once, In
  <2>3. \A x : In(x, Queued)' <=> In(x, Queued')
    BY DEF In
  <2> QED BY <1>5, <2>1, <2>2, <2>3 DEF IInv, PlacesInv
<1> QED BY <1>2, <1>3, <1>6, <1>8, <1>9 DEF IInv

LEMMA SinkQuietStep ==
  ASSUME IInv, FP!SingleProducer, Handle \/ Drained \/ Report
  PROVE  IInv'
<1>1. /\ UNCHANGED free_vars /\ source' = source /\ total_created' = total_created
      /\ sink' = [pc |-> sink'.pc, event |-> sink.event]
      /\ \/ sink.pc = "handle" /\ sink'.pc = "release"
         \/ sink.pc = "drain" /\ sink'.pc = "report"
         \/ sink.pc = "report" /\ sink'.pc = "poll"
      /\ Queue!ResetDropped \/ UNCHANGED queue_vars
  BY QueueLocals, HandsFact DEF Handle, Drained, Report, SinkAt, SinkGoes, IInv
<1>2. QP!IInv' /\ Queued' = Queued
  BY <1>1, QueueStep DEF IInv
<1>3. FP!IInv' /\ FreeList' = FreeList
  BY <1>1, FreeStep DEF IInv
<1>4. sink'.event = sink.event /\ sink'.pc \in SinkPc
  BY <1>1 DEF SinkPc
<1>5. HandsOK'
  BY <1>1, <1>4 DEF IInv, HandsOK
<1>6. qpop' = qpop /\ qpush' = qpush /\ fpush' = fpush /\ fpop' = fpop
  BY <1>1, QueueLocals DEF IInv, free_vars
<1>7. HandsInv'
  BY <1>1, <1>4, <1>6 DEF IInv, HandsInv
<1>8. PlacesInv'
  BY <1>1, <1>2, <1>3, <1>4, PlacesKept DEF IInv
<1> QED BY <1>2, <1>3, <1>5, <1>7, <1>8 DEF IInv

LEMMA ReleaseStep ==
  ASSUME IInv, FP!SingleProducer, ReleaseBegins \/ ReleaseWrites
  PROVE  IInv'
<1>1. /\ UNCHANGED queue_vars /\ source' = source /\ total_created' = total_created
      /\ sink' = [pc |-> "releasing", event |-> sink.event] /\ sink.event \in Events
      /\ \/ sink.pc = "release" /\ Free!PushRoom("sink", sink.event)
         \/ sink.pc = "releasing" /\ Free!PushWrite("sink")
  BY HandsFact, RoomForRelease DEF ReleaseBegins, ReleaseWrites, SinkAt, SinkGoes
<1>2. QP!IInv' /\ Queued' = Queued
  BY <1>1, QueueStep DEF IInv
<1>3. FP!IInv' /\ FreeList' = FreeList
  BY <1>1, FreeStep DEF IInv
<1>4. HandsOK'
  BY <1>1 DEF IInv, HandsOK, SinkPc
<1>5. /\ fpush'["sink"].pc # "idle" /\ fpush'["sink"].element = sink.event
      /\ fpop' = fpop /\ qpush' = qpush /\ qpop' = qpop
  BY <1>1, FreeLocals DEF IInv, HandsInv, queue_vars
<1>6. HandsInv'
  BY <1>1, <1>5, RingConstants DEF IInv, HandsInv
<1>7. PlacesInv'
  BY <1>1, <1>2, <1>3, PlacesKept DEF IInv
<1> QED BY <1>2, <1>3, <1>4, <1>6, <1>7 DEF IInv

(* The event goes from the sink's hand into the free list.                 *)
LEMMA ReleaseEndsStep ==
  ASSUME IInv, FP!SingleProducer, ReleaseEnds
  PROVE  IInv'
<1>1. /\ UNCHANGED queue_vars /\ source' = source /\ total_created' = total_created
      /\ sink.pc = "releasing" /\ sink.event \in Events
      /\ Free!PushPublish("sink") /\ sink' = [pc |-> "drain", event |-> None]
  BY HandsFact DEF ReleaseEnds, SinkAt, SinkLetsGo
<1>2. FP!IInv' /\ FreeList' = Append(FreeList, sink.event)
  BY <1>1, FreeStep DEF IInv, HandsInv
<1>3. QP!IInv' /\ Queued' = Queued
  BY <1>1, QueueStep DEF IInv
<1>4. FreeList \in Seq(Events)
  BY RingConstants, FP!ContentsFact DEF IInv, FreeList
<1>5. /\ Once(FreeList') /\ ~ In(sink.event, FreeList)
      /\ \A x : In(x, FreeList') <=> In(x, FreeList) \/ x = sink.event
  BY <1>1, <1>2, <1>4, AppendPlaces DEF IInv, PlacesInv
<1>6. HandsOK'
  BY <1>1 DEF IInv, HandsOK, SinkPc
<1>7. fpush'["sink"].pc = "idle" /\ fpop' = fpop /\ qpush' = qpush /\ qpop' = qpop
  BY <1>1, FreeLocals DEF IInv, queue_vars
<1>8. HandsInv'
  BY <1>1, <1>7 DEF IInv, HandsInv
<1>9. PlacesInv'
  <2>1. /\ sink'.event = None /\ source'.event = source.event /\ total_created' = total_created
        /\ None \notin Events /\ sink.event \in Events
    BY <1>1, RingConstants
  <2>2. Once(Queued)' /\ Once(FreeList)' /\ \A x : In(x, Queued)' <=> In(x, Queued)
    BY <1>3, <1>5 DEF IInv, PlacesInv, Once, In
  <2>3. \A x : In(x, FreeList)' <=> In(x, FreeList')
    BY DEF In
  <2> QED BY <1>5, <2>1, <2>2, <2>3 DEF IInv, PlacesInv
<1> QED BY <1>2, <1>3, <1>6, <1>8, <1>9 DEF IInv
-----------------------------------------------------------------------------
(* warm(): the objects created follow what the free list holds.            *)
LEMMA ModFact ==
  ASSUME NEW N \in Nat, N > 0, NEW x \in 0 .. 2 * N - 1
  PROVE  x % N = IF x >= N THEN x - N ELSE x
<1>1. \A m \in Nat, R \in Nat : R > 0 =>
        m \div R \in Nat /\ m % R \in 0 .. R - 1 /\ m % R = m - R * (m \div R)
  OBVIOUS
<1>2. PICK q, r : q = x \div N /\ r = x % N
  OBVIOUS
<1>a. q \in Nat /\ r \in 0 .. N - 1 /\ r = x - N * q /\ x \in Nat /\ x < 2 * N
  <2>1. x \in Nat /\ x < 2 * N
    OBVIOUS
  <2> QED BY <1>1, <1>2, <2>1
<1>3. q = 0 \/ q = 1
  <2> SUFFICES ASSUME q >= 2 PROVE FALSE
    BY <1>2, <1>a
  <2>1. N * q >= N * 2
    BY <1>2, <1>a
  <2> QED BY <1>2, <1>a, <2>1
<1>4. CASE q = 0
  BY <1>2, <1>a, <1>4
<1>5. CASE q = 1
  BY <1>2, <1>a, <1>5
<1> QED BY <1>3, <1>4, <1>5

(* An occupied slot is as far from the head as an index into the contents. *)
LEMMA Distance ==
  ASSUME NEW N \in Nat, NEW h \in 0 .. N - 1, NEW f \in 0 .. N - 1, NEW s \in 0 .. N - 1,
         NEW d \in Nat, d = IF f >= h THEN f - h ELSE f - h + N,
         IF f >= h THEN h <= s /\ s < f ELSE h <= s \/ s < f
  PROVE  (IF s >= h THEN s - h + 1 ELSE s - h + N + 1) \in 1 .. d
<1>1. CASE f >= h
  BY <1>1
<1>2. CASE ~ (f >= h)
  BY <1>2
<1> QED BY <1>1, <1>2

(* No more is in the free list than has been created.                      *)
LEMMA FreeAreCreated ==
  ASSUME IInv
  PROVE  /\ FreeList \in Seq(Events) /\ Len(FreeList) = FP!Count
         /\ Len(FreeList) \in 0 .. total_created
<1>1. FreeList \in Seq(Events) /\ Len(FreeList) = FP!Count /\ Len(FreeList) \in Nat
  BY RingConstants, FP!ContentsFact DEF IInv, FreeList
<1>2. total_created \in Nat
  BY RingConstants DEF IInv, HandsOK
<1>3. FreeList \in Seq(1 .. total_created)
  <2>1. ASSUME NEW i \in 1 .. Len(FreeList) PROVE FreeList[i] \in 1 .. total_created
    <3>1. FreeList[i] \in Events /\ In(FreeList[i], FreeList)
      BY <1>1 DEF In
    <3>2. FreeList[i] <= total_created
      BY <3>1 DEF IInv, PlacesInv
    <3> QED BY <1>2, <3>1, <3>2 DEF Events
  <2>2. PICK s, S : s \in Seq(Events) /\ s = FreeList /\ S = 1 .. total_created
    BY <1>1
  <2>3. s = [i \in 1 .. Len(s) |-> s[i]] /\ Len(s) \in Nat
    BY <2>2
  <2>4. \A i \in 1 .. Len(s) : s[i] \in S
    BY <2>1, <2>2
  <2>5. s \in Seq(S)
    BY <2>3, <2>4, SeqDef
  <2> QED BY <2>2, <2>5
<1>4. IsFiniteSet(1 .. total_created) /\ Cardinality(1 .. total_created) = total_created
  <2>1. \A n \in Nat : IsFiniteSet(1 .. n) /\ Cardinality(1 .. n) = n
    BY FS_Interval
  <2> QED BY <1>2, <2>1
<1>5. Len(FreeList) <= total_created
  BY <1>3, <1>4, Fits DEF IInv, PlacesInv
<1> QED BY <1>1, <1>2, <1>5

LEMMA WarmFills ==
  ASSUME IInv, FP!SingleProducer, Warm
  PROVE  /\ FP!IInv'
         /\ \E k \in 1 .. POOL_SIZE - total_created :
              /\ total_created' = total_created + k
              /\ Len(FreeList') = Len(FreeList) + k
              /\ \A i \in 1 .. Len(FreeList) : FreeList'[i] = FreeList[i]
              /\ \A j \in 1 .. k : FreeList'[Len(FreeList) + j] = total_created + j
<1> DEFINE slot(j) == (ftail + j - 1) % FreeSlots
<1>1. PICK k \in 1 .. POOL_SIZE - total_created :
        /\ total_created' = total_created + k
        /\ fbuffer' = [s \in DOMAIN fbuffer |->
                         IF \E j \in 1..k : s = slot(j)
                         THEN total_created + CHOOSE j \in 1..k : s = slot(j)
                         ELSE fbuffer[s]]
        /\ ftail' = slot(k + 1)
  BY DEF Warm
<1>2. /\ source.pc = "idle" /\ UNCHANGED << fhead, fdropped, fpush, fpop >>
  BY DEF Warm, SourceAt
<1>3. sink.pc = "poll"
  BY DEF Warm, SinkAt
<1>4. fpop.pc = "idle" /\ \A p \in Releasers : fpush[p].pc = "idle"
  BY <1>2, <1>3, ReleasersAssumption DEF IInv, HandsInv, FP!SingleProducer
<1>5. PICK N, h, tl, c, n : N = FreeSlots /\ h = fhead /\ tl = ftail /\ c = FP!Count
                            /\ n = total_created
  OBVIOUS
<1>6. FP!TypeOK /\ FP!NoneIsNeverQueued /\ FP!WrittenIsPending
  BY DEF IInv, FP!IInv
<1>7. /\ POOL_SIZE \in Nat /\ N \in Nat /\ N > 0 /\ N = POOL_SIZE + 1 /\ n \in 0 .. POOL_SIZE
      /\ h \in 0 .. N - 1 /\ tl \in 0 .. N - 1 /\ k \in 1 .. POOL_SIZE - n
      /\ c \in 0 .. n
      /\ c = IF tl >= h THEN tl - h ELSE tl - h + N
      /\ FP!Slots = 0 .. N - 1
  BY <1>5, <1>6, RingConstants, FreeAreCreated
  DEF FP!TypeOK, FP!Slots, FP!Count, IInv, HandsOK
<1>8. c + k <= N - 1 /\ c \in Nat /\ k \in Nat /\ n \in Nat
  BY <1>7
<1>9. \A j \in 1 .. k + 1 : slot(j) = IF tl + j - 1 >= N THEN tl + j - 1 - N ELSE tl + j - 1
  <2> SUFFICES ASSUME NEW j \in 1 .. k + 1
               PROVE  slot(j) = IF tl + j - 1 >= N THEN tl + j - 1 - N ELSE tl + j - 1
    OBVIOUS
  <2>1. tl + j - 1 \in 0 .. 2 * N - 1
    BY <1>7, <1>8
  <2> QED BY <1>5, <1>7, <2>1, ModFact
<1> HIDE DEF slot
<1>10. \A i \in 1 .. c + k :
         FP!SlotOf(i) = IF h + i - 1 >= N THEN h + i - 1 - N ELSE h + i - 1
  BY <1>5 DEF FP!SlotOf
<1>11. /\ \A i \in 1 .. c + k : FP!SlotOf(i) \in 0 .. N - 1
       /\ \A i \in 1 .. c, j \in 1 .. k : FP!SlotOf(i) # slot(j)
       /\ \A j \in 1 .. k : FP!SlotOf(c + j) = slot(j)
  <2>1. /\ N \in Nat /\ h \in 0 .. N - 1 /\ tl \in 0 .. N - 1 /\ c \in Nat /\ k \in Nat
        /\ c = IF tl >= h THEN tl - h ELSE tl - h + N
        /\ c + k <= N - 1
    BY <1>7, <1>8
  <2>2. ASSUME NEW i \in 1 .. c + k PROVE FP!SlotOf(i) \in 0 .. N - 1
    <3>1. FP!SlotOf(i) = IF h + i - 1 >= N THEN h + i - 1 - N ELSE h + i - 1
      BY <1>10
    <3>2. i \in Nat /\ i >= 1 /\ i <= N - 1
      BY <2>1
    <3> QED BY <2>1, <3>1, <3>2
  <2>3. ASSUME NEW i \in 1 .. c, NEW j \in 1 .. k PROVE FP!SlotOf(i) # slot(j)
    <3>1. i \in 1 .. c + k /\ j \in 1 .. k + 1
      BY <2>1
    <3>2. FP!SlotOf(i) = IF h + i - 1 >= N THEN h + i - 1 - N ELSE h + i - 1
      BY <1>10, <3>1
    <3>3. slot(j) = IF tl + j - 1 >= N THEN tl + j - 1 - N ELSE tl + j - 1
      BY <1>9, <3>1
    <3>4. i + k <= N - 1 /\ c + j <= N - 1 /\ i <= c /\ j >= 1 /\ i >= 1 /\ j <= k
      BY <2>1
    <3>5. CASE tl >= h
      BY <2>1, <3>2, <3>3, <3>4, <3>5
    <3>6. CASE ~ (tl >= h)
      BY <2>1, <3>2, <3>3, <3>4, <3>6
    <3> QED BY <3>5, <3>6
  <2>4. ASSUME NEW j \in 1 .. k PROVE FP!SlotOf(c + j) = slot(j)
    <3>1. c + j \in 1 .. c + k /\ j \in 1 .. k + 1
      BY <2>1
    <3>2. FP!SlotOf(c + j) = IF h + (c + j) - 1 >= N THEN h + (c + j) - 1 - N ELSE h + (c + j) - 1
      BY <1>10, <3>1
    <3>3. slot(j) = IF tl + j - 1 >= N THEN tl + j - 1 - N ELSE tl + j - 1
      BY <1>9, <3>1
    <3>4. CASE tl >= h
      <4>1. h + (c + j) - 1 = tl + j - 1
        BY <2>1, <3>4
      <4>2. h + (c + j) - 1 >= N <=> tl + j - 1 >= N
        BY <2>1, <3>4
      <4>3. h + (c + j) - 1 - N = tl + j - 1 - N
        BY <2>1, <3>4
      <4> QED BY <3>2, <3>3, <4>1, <4>2, <4>3
    <3>5. CASE ~ (tl >= h)
      <4>1. h + (c + j) - 1 = tl + j - 1 + N /\ tl + j - 1 < N /\ tl + j - 1 >= 0
        BY <2>1, <3>5
      <4> QED BY <2>1, <3>2, <3>3, <4>1
    <3> QED BY <3>4, <3>5
  <2> QED BY <2>2, <2>3, <2>4
<1>12. \A j \in 1 .. k : slot(j) \in 0 .. N - 1 /\ \A m \in 1 .. k : slot(j) = slot(m) => j = m
  BY <1>7, <1>8, <1>9
<1>13. fbuffer \in [0 .. N - 1 -> Events \cup {None}]
  BY <1>6, <1>7 DEF FP!TypeOK
<1>14. \A j \in 1 .. k : fbuffer'[slot(j)] = n + j
  <2> SUFFICES ASSUME NEW j \in 1 .. k PROVE fbuffer'[slot(j)] = n + j
    OBVIOUS
  <2>1. fbuffer'[slot(j)] = n + CHOOSE m \in 1 .. k : slot(j) = slot(m)
    BY <1>1, <1>5, <1>12, <1>13
  <2>2. (CHOOSE m \in 1 .. k : slot(j) = slot(m)) = j
    BY <1>12
  <2> QED BY <2>1, <2>2
<1>15. \A s \in 0 .. N - 1 : (\A j \in 1 .. k : s # slot(j)) => fbuffer'[s] = fbuffer[s]
  BY <1>1, <1>13
<1>16. ftail' = slot(k + 1) /\ slot(k + 1) \in 0 .. N - 1 /\ FP!Count' = c + k
  <2>1. slot(k + 1) = IF tl + k >= N THEN tl + k - N ELSE tl + k
    BY <1>7, <1>8, <1>9
  <2>2. FP!Count' = IF ftail' >= h THEN ftail' - h ELSE ftail' - h + N
    BY <1>2, <1>5 DEF FP!Count
  <2> QED BY <1>1, <1>7, <1>8, <2>1, <2>2
<1>17. \A j \in 1 .. k : n + j \in Events
  BY <1>7, <1>8 DEF Events
<1>18. FP!TypeOK'
  <2>1. fbuffer' \in [FP!Slots -> Events \cup {None}]
    <3>1. fbuffer' = [s \in 0 .. N - 1 |-> fbuffer'[s]]
      BY <1>1, <1>13
    <3>2. ASSUME NEW s \in 0 .. N - 1 PROVE fbuffer'[s] \in Events \cup {None}
      <4>1. CASE \E j \in 1 .. k : s = slot(j)
        BY <1>14, <1>17, <4>1
      <4>2. CASE \A j \in 1 .. k : s # slot(j)
        BY <1>13, <1>15, <4>2
      <4> QED BY <4>1, <4>2
    <3> QED BY <1>7, <3>1, <3>2
  <2>2. ftail' \in FP!Slots
    BY <1>7, <1>16
  <2>3. /\ fhead' \in FP!Slots /\ fdropped' \in 0 .. DropRange - 1
        /\ fpush' \in [Releasers -> FP!PushLocals] /\ fpop' \in FP!PopLocals
    BY <1>2, <1>6 DEF FP!TypeOK
  <2> QED BY <2>1, <2>2, <2>3 DEF FP!TypeOK
<1>19. FP!NoSlotRace' /\ FP!WrittenIsPending' /\ FP!PopReturnsOldest'
  BY <1>2, <1>4 DEF FP!NoSlotRace, FP!WrittenIsPending, FP!PopReturnsOldest
<1>20. FP!NoneIsNeverQueued'
  <2> SUFFICES ASSUME NEW s \in 0 .. N - 1, FP!Occupied(s)' PROVE fbuffer'[s] \in Events
    BY <1>7 DEF FP!NoneIsNeverQueued
  <2>1. IF ftail' >= h THEN h <= s /\ s < ftail' ELSE h <= s \/ s < ftail'
    BY <1>2, <1>5 DEF FP!Occupied
  <2>2. PICK i : i = IF s >= h THEN s - h + 1 ELSE s - h + N + 1
    OBVIOUS
  <2>a. i \in 1 .. N
    BY <1>7, <2>2
  <2>3. FP!Count' = IF ftail' >= h THEN ftail' - h ELSE ftail' - h + N
    BY <1>2, <1>5 DEF FP!Count
  <2>4. i \in 1 .. c + k
    <3>1. PICK f \in 0 .. N - 1 : f = ftail' /\ c + k = IF f >= h THEN f - h ELSE f - h + N
      BY <1>16, <2>3
    <3>2. IF f >= h THEN h <= s /\ s < f ELSE h <= s \/ s < f
      BY <2>1, <3>1
    <3>3. PICK d : d = c + k
      OBVIOUS
    <3>4. d \in Nat /\ d = IF f >= h THEN f - h ELSE f - h + N
      BY <1>8, <3>1, <3>3
    <3>5. N \in Nat /\ h \in 0 .. N - 1
      BY <1>7
    <3>6. (IF s >= h THEN s - h + 1 ELSE s - h + N + 1) \in 1 .. d
      BY <3>2, <3>4, <3>5, Distance
    <3> QED BY <2>2, <3>3, <3>6
  <2>5. FP!SlotOf(i) = s
    BY <1>7, <1>10, <2>2, <2>4
  <2>6. CASE i <= c
    <3>1. \A j \in 1 .. k : s # slot(j)
      BY <1>8, <1>11, <2>4, <2>5, <2>6
    <3>2. IF tl >= h THEN h <= s /\ s < tl ELSE h <= s \/ s < tl
      BY <1>7, <1>8, <2>2, <2>6
    <3>3. fbuffer[s] \in Events
      BY <1>5, <1>6, <1>7, <3>2 DEF FP!NoneIsNeverQueued, FP!Occupied
    <3> QED BY <1>15, <3>1, <3>3
  <2>7. CASE i > c
    <3>1. i - c \in 1 .. k /\ c + (i - c) = i
      BY <1>8, <2>4, <2>7
    <3>2. s = slot(i - c)
      BY <1>11, <2>5, <3>1
    <3> QED BY <1>14, <1>17, <3>1, <3>2
  <2> QED BY <1>8, <2>2, <2>6, <2>7
<1>21. FP!IInv'
  BY <1>18, <1>19, <1>20 DEF FP!IInv
<1>22. \A i \in 1 .. c + k : FP!SlotOf(i)' = FP!SlotOf(i)
  BY <1>2 DEF FP!SlotOf
<1>23. FreeList' = [i \in 1 .. c + k |-> fbuffer'[FP!SlotOf(i)]]
  BY <1>16, <1>22 DEF FreeList, FP!Contents
<1>24. /\ Len(FreeList) = c /\ \A i \in 1 .. c : FreeList[i] = fbuffer[FP!SlotOf(i)]
  BY <1>5, FreeAreCreated DEF FreeList, FP!Contents
<1>25. Len(FreeList') = c + k
  BY <1>8, <1>23
<1>26. \A i \in 1 .. c : FreeList'[i] = FreeList[i]
  <2> SUFFICES ASSUME NEW i \in 1 .. c PROVE FreeList'[i] = FreeList[i]
    OBVIOUS
  <2>1. i \in 1 .. c + k
    BY <1>8
  <2>2. FreeList'[i] = fbuffer'[FP!SlotOf(i)]
    BY <1>23, <2>1
  <2>3. fbuffer'[FP!SlotOf(i)] = fbuffer[FP!SlotOf(i)]
    BY <1>11, <1>15, <2>1
  <2> QED BY <1>24, <2>2, <2>3
<1>27. \A j \in 1 .. k : FreeList'[c + j] = n + j
  <2> SUFFICES ASSUME NEW j \in 1 .. k PROVE FreeList'[c + j] = n + j
    OBVIOUS
  <2>1. c + j \in 1 .. c + k
    BY <1>8
  <2>2. FreeList'[c + j] = fbuffer'[FP!SlotOf(c + j)]
    BY <1>23, <2>1
  <2> QED BY <1>11, <1>14, <2>2
<1> QED BY <1>1, <1>5, <1>21, <1>24, <1>25, <1>26, <1>27

LEMMA WarmStep ==
  ASSUME IInv, FP!SingleProducer, Warm
  PROVE  IInv'
<1>1. /\ UNCHANGED queue_vars /\ UNCHANGED << fpush, fpop >>
      /\ source' = source /\ sink' = sink
  BY DEF Warm
<1>2. QP!IInv' /\ Queued' = Queued
  BY <1>1, QueueStep DEF IInv
<1>3. FP!IInv'
  BY WarmFills
<1>4. PICK k \in 1 .. POOL_SIZE - total_created :
        /\ total_created' = total_created + k
        /\ Len(FreeList') = Len(FreeList) + k
        /\ \A i \in 1 .. Len(FreeList) : FreeList'[i] = FreeList[i]
        /\ \A j \in 1 .. k : FreeList'[Len(FreeList) + j] = total_created + j
  BY WarmFills
<1>5. PICK n, m, a, b : n = total_created /\ m = Len(FreeList) /\ a = FreeList /\ b = FreeList'
  OBVIOUS
<1>6. /\ POOL_SIZE \in Nat /\ n \in Nat /\ m \in Nat /\ k \in Nat /\ k >= 1
      /\ m <= n /\ n + k <= POOL_SIZE
      /\ Len(a) = m /\ Len(b) = m + k
      /\ \A i \in 1 .. m : b[i] = a[i]
      /\ \A j \in 1 .. k : b[m + j] = n + j
  <2>1. POOL_SIZE \in Nat /\ total_created \in 0 .. POOL_SIZE
    BY RingConstants DEF IInv, HandsOK
  <2>2. Len(FreeList) \in 0 .. total_created
    BY FreeAreCreated
  <2> QED BY <1>4, <1>5, <2>1, <2>2
<1>7. Once(a) /\ \A i \in 1 .. m : a[i] \in 1 .. n
  <2>1. Once(a)
    BY <1>5 DEF IInv, PlacesInv
  <2>2. ASSUME NEW i \in 1 .. m PROVE a[i] \in 1 .. n
    <3>1. FreeList[i] \in Events /\ In(FreeList[i], FreeList)
      BY <1>5, FreeAreCreated DEF In
    <3>2. FreeList[i] <= total_created
      BY <3>1 DEF IInv, PlacesInv
    <3> QED BY <1>5, <1>6, <3>1, <3>2 DEF Events
  <2> QED BY <2>1, <2>2
<1>8. \A i \in 1 .. m + k : i \in 1 .. m \/ (i - m \in 1 .. k /\ b[i] = i - m + n)
  <2> SUFFICES ASSUME NEW i \in 1 .. m + k, i \notin 1 .. m
               PROVE  i - m \in 1 .. k /\ b[i] = i - m + n
    OBVIOUS
  <2>1. i - m \in 1 .. k /\ m + (i - m) = i
    BY <1>6
  <2>2. b[m + (i - m)] = n + (i - m)
    BY <1>6, <2>1
  <2> QED BY <1>6, <2>1, <2>2
<1>9. Once(b)
  <2> SUFFICES ASSUME NEW i \in 1 .. m + k, NEW j \in 1 .. m + k, b[i] = b[j] PROVE i = j
    BY <1>6 DEF Once
  <2>1. CASE i \in 1 .. m /\ j \in 1 .. m
    BY <1>6, <1>7, <2>1 DEF Once
  <2>2. CASE i \in 1 .. m /\ j \notin 1 .. m
    <3>1. b[i] \in 1 .. n
      BY <1>6, <1>7, <2>2
    <3>2. j - m \in 1 .. k /\ b[j] = j - m + n
      BY <1>8, <2>2
    <3> QED BY <1>6, <3>1, <3>2
  <2>3. CASE i \notin 1 .. m /\ j \in 1 .. m
    <3>1. b[j] \in 1 .. n
      BY <1>6, <1>7, <2>3
    <3>2. i - m \in 1 .. k /\ b[i] = i - m + n
      BY <1>8, <2>3
    <3> QED BY <1>6, <3>1, <3>2
  <2>4. CASE i \notin 1 .. m /\ j \notin 1 .. m
    <3>1. b[i] = i - m + n /\ b[j] = j - m + n
      BY <1>8, <2>4
    <3>2. i - m + n = j - m + n
      BY <3>1
    <3>3. m \in Int /\ n \in Int /\ k \in Int
      BY <1>6
    <3> QED BY <3>2, <3>3
  <2> QED BY <2>1, <2>2, <2>3, <2>4
<1>10. \A x : In(x, b) <=> In(x, a) \/ x \in n + 1 .. n + k
  <2>1. ASSUME NEW x, In(x, b) PROVE In(x, a) \/ x \in n + 1 .. n + k
    <3>1. PICK i \in 1 .. m + k : b[i] = x
      BY <1>6, <2>1 DEF In
    <3>2. CASE i \in 1 .. m
      BY <1>6, <3>1, <3>2 DEF In
    <3>3. CASE i \notin 1 .. m
      <4>1. i - m \in 1 .. k /\ x = i - m + n
        BY <1>8, <3>1, <3>3
      <4> QED BY <1>6, <4>1
    <3> QED BY <3>2, <3>3
  <2>2. ASSUME NEW x, In(x, a) PROVE In(x, b)
    <3>1. PICK i \in 1 .. m : a[i] = x
      BY <1>6, <2>2 DEF In
    <3>2. i \in 1 .. m + k
      BY <1>6
    <3> QED BY <1>6, <3>1, <3>2 DEF In
  <2>3. ASSUME NEW x \in n + 1 .. n + k PROVE In(x, b)
    <3>1. x - n \in 1 .. k /\ n + (x - n) = x /\ m + (x - n) \in 1 .. m + k
      BY <1>6
    <3>2. b[m + (x - n)] = x
      BY <1>6, <3>1
    <3> QED BY <1>6, <3>1, <3>2 DEF In
  <2> QED BY <2>1, <2>2, <2>3
<1>11. HandsOK'
  <2>1. total_created' \in 0 .. POOL_SIZE
    BY <1>4, <1>5, <1>6
  <2> QED BY <1>1, <2>1 DEF IInv, HandsOK
<1>12. HandsInv'
  BY <1>1 DEF IInv, HandsInv, queue_vars
<1>13. PlacesInv'
  <2>1. Once(Queued)' /\ \A x : In(x, Queued)' <=> In(x, Queued)
    BY <1>2 DEF IInv, PlacesInv, Once, In
  <2>2. Once(FreeList)' /\ \A x : In(x, FreeList)' <=> In(x, FreeList) \/ x \in n + 1 .. n + k
    <3>1. Once(FreeList)' <=> Once(b)
      BY <1>5 DEF Once
    <3>2. \A x : In(x, FreeList)' <=> In(x, b)
      BY <1>5 DEF In
    <3> QED BY <1>5, <1>9, <1>10, <3>1, <3>2
  <2>3. /\ \A e \in Events : e <= total_created' <=> e <= total_created \/ e \in n + 1 .. n + k
        /\ \A e \in Events : ~ (e <= total_created /\ e \in n + 1 .. n + k)
    BY <1>4, <1>5, <1>6 DEF Events
  <2>4. source'.event = source.event /\ sink'.event = sink.event
    BY <1>1
  <2> QED BY <2>1, <2>2, <2>3, <2>4 DEF IInv, PlacesInv
<1> QED BY <1>2, <1>3, <1>11, <1>12, <1>13 DEF IInv
-----------------------------------------------------------------------------
LEMMA InitHolds == Init => IInv
<1> SUFFICES ASSUME Init PROVE IInv
  OBVIOUS
<1>1. QP!IInv
  <2>1. QP!Init
    BY DEF Init, Queue!Init, QP!Init, Queue!Slots, QP!Slots, Queue!PushIdle, QP!PushIdle,
           Queue!PopIdle, QP!PopIdle
  <2> QED BY <2>1, RingConstants, QP!InitInv
<1>2. FP!IInv
  <2>1. FP!Init
    BY DEF Init, Free!Init, FP!Init, Free!Slots, FP!Slots, Free!PushIdle, FP!PushIdle,
           Free!PopIdle, FP!PopIdle
  <2> QED BY <2>1, RingConstants, FP!InitInv
<1>3. Len(Queued) = 0 /\ Len(FreeList) = 0
  <2>1. QP!Count = 0 /\ FP!Count = 0
    BY DEF Init, Queue!Init, Free!Init, QP!Count, FP!Count
  <2> QED BY <2>1 DEF Queued, FreeList, QP!Contents, FP!Contents
<1>4. HandsOK
  BY RingConstants DEF Init, HandsOK, SourcePc, SinkPc
<1>5. HandsInv
  BY ReleasersAssumption
  DEF Init, HandsInv, Queue!Init, Free!Init, Queue!PushIdle, Free!PushIdle, Queue!PopIdle,
      Free!PopIdle
<1>6. PlacesInv
  <2>1. \A e : ~ In(e, Queued) /\ ~ In(e, FreeList)
    BY <1>3 DEF In
  <2>2. Once(Queued) /\ Once(FreeList)
    BY <1>3 DEF Once
  <2>3. \A e \in Events : ~ (e <= total_created) /\ source.event # e /\ sink.event # e
    BY RingConstants DEF Init, Events
  <2> QED BY <2>1, <2>2, <2>3 DEF PlacesInv
<1> QED BY <1>1, <1>2, <1>4, <1>5, <1>6 DEF IInv

LEMMA StepKeeps == FP!SingleProducer /\ IInv /\ [Next]_vars => IInv'
<1> SUFFICES ASSUME FP!SingleProducer, IInv, [Next]_vars PROVE IInv'
  OBVIOUS
<1>1. CASE Allocate
  BY <1>1, AllocateNewStep, AllocateQuietStep, AllocateTakenStep DEF Allocate
<1>2. CASE Load \/ Drop
  BY <1>2, FillStep
<1>3. CASE Push
  BY <1>3, PushStep, PushEndsStep DEF Push
<1>4. CASE SinkFound \/ SinkRead \/ SinkTaken
  BY <1>4, SinkPopStep, SinkTakenStep
<1>5. CASE Handle \/ Drained \/ Report
  BY <1>5, SinkQuietStep
<1>6. CASE Release
  BY <1>6, ReleaseStep, ReleaseEndsStep DEF Release
<1>7. CASE Warm
  BY <1>7, WarmStep
<1>8. CASE UNCHANGED vars
  <2>1. /\ UNCHANGED queue_vars /\ UNCHANGED free_vars
        /\ UNCHANGED << total_created, source, sink >>
    BY <1>8 DEF vars
  <2>2. QP!IInv' /\ Queued' = Queued /\ FP!IInv' /\ FreeList' = FreeList
    BY <2>1, QueueStep, FreeStep DEF IInv
  <2>3. HandsOK' /\ HandsInv'
    BY <2>1 DEF IInv, HandsOK, HandsInv, queue_vars, free_vars
  <2>4. PlacesInv'
    BY <2>1, <2>2, PlacesKept DEF IInv
  <2> QED BY <2>2, <2>3, <2>4 DEF IInv
<1> QED BY <1>1, <1>2, <1>3, <1>4, <1>5, <1>6, <1>7, <1>8
        DEF Next, SourceNext, SinkNext

LEMMA Invariant ==
  ASSUME Free!SingleProducer
  PROVE  Spec => []IInv
<1>1. FP!SingleProducer
  BY DEF Free!SingleProducer, FP!SingleProducer
<1>2. IInv /\ [Next]_vars => IInv'
  BY <1>1, StepKeeps
<1> QED BY <1>2, InitHolds, PTL DEF Spec

(* The pool's two rings, its count and its two threads keep their types.   *)
THEOREM TypeCorrect ==
  ASSUME Free!SingleProducer
  PROVE  Spec => []TypeOK
<1>1. IInv => TypeOK
  <2> SUFFICES ASSUME IInv PROVE TypeOK
    OBVIOUS
  <2>1. Queue!TypeOK
    BY DEF IInv, QP!IInv, QP!TypeOK, Queue!TypeOK, QP!Slots, Queue!Slots, QP!PushLocals,
           Queue!PushLocals, QP!PopLocals, Queue!PopLocals
  <2>2. Free!TypeOK
    BY DEF IInv, FP!IInv, FP!TypeOK, Free!TypeOK, FP!Slots, Free!Slots, FP!PushLocals,
           Free!PushLocals, FP!PopLocals, Free!PopLocals
  <2> QED BY <2>1, <2>2 DEF IInv, HandsOK, TypeOK
<1> QED BY <1>1, Invariant, PTL

(* How often an event is in a sequence without repetition.                 *)
LEMMA TimesIn ==
  ASSUME NEW s, Len(s) \in Nat, Once(s), NEW e
  PROVE  Cardinality({i \in 1 .. Len(s) : s[i] = e}) = IF In(e, s) THEN 1 ELSE 0
<1>1. CASE In(e, s)
  <2>1. PICK j \in 1 .. Len(s) : s[j] = e
    BY <1>1 DEF In
  <2>2. {i \in 1 .. Len(s) : s[i] = e} = {j}
    BY <2>1 DEF Once
  <2>3. Cardinality({j}) = 1
    BY FS_Singleton
  <2> QED BY <1>1, <2>2, <2>3
<1>2. CASE ~ In(e, s)
  <2>1. {i \in 1 .. Len(s) : s[i] = e} = {}
    BY <1>2 DEF In
  <2> QED BY <1>2, <2>1, FS_EmptySet
<1> QED BY <1>1, <1>2

(* No object leaks from the pool and none has two users, whatever the      *)
(* order in which the source and the sink run (event_pool.h:18-24).        *)
THEOREM EventsAreAccounted ==
  ASSUME Free!SingleProducer
  PROVE  Spec => []EveryEventAccounted
<1>1. IInv => EveryEventAccounted
  <2> SUFFICES ASSUME IInv, NEW e \in Events
               PROVE  Places(e) = IF e <= total_created THEN 1 ELSE 0
    BY DEF EveryEventAccounted
  <2>1. /\ Queue!Count = QP!Count /\ Queue!Contents = QP!Contents
        /\ Free!Count = FP!Count /\ Free!Contents = FP!Contents
    BY DEF Queue!Count, QP!Count, Free!Count, FP!Count, Queue!Contents, QP!Contents,
           Free!Contents, FP!Contents, Queue!SlotOf, QP!SlotOf, Free!SlotOf, FP!SlotOf
  <2>2. QP!Count = Len(Queued) /\ Len(Queued) \in Nat
    BY RingConstants, QP!ContentsFact DEF IInv, Queued
  <2>3. FP!Count = Len(FreeList) /\ Len(FreeList) \in Nat
    BY RingConstants, FP!ContentsFact DEF IInv, FreeList
  <2>4. Cardinality({i \in 1 .. Queue!Count : Queue!Contents[i] = e})
          = IF In(e, Queued) THEN 1 ELSE 0
    BY <2>1, <2>2, TimesIn DEF IInv, PlacesInv, Queued
  <2>5. Cardinality({i \in 1 .. Free!Count : Free!Contents[i] = e})
          = IF In(e, FreeList) THEN 1 ELSE 0
    BY <2>1, <2>3, TimesIn DEF IInv, PlacesInv, FreeList
  <2>6. Places(e) = (IF In(e, Queued) THEN 1 ELSE 0) + (IF In(e, FreeList) THEN 1 ELSE 0)
                    + (IF source.event = e THEN 1 ELSE 0) + (IF sink.event = e THEN 1 ELSE 0)
    BY <2>4, <2>5 DEF Places
  <2> QED BY <2>6 DEF IInv, PlacesInv
<1> QED BY <1>1, Invariant, PTL
=============================================================================
