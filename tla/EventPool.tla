----------------------------- MODULE EventPool -----------------------------
(***************************************************************************)
(* EventPool<T, SIZE> (src/esphome/core/event_pool.h) paired with a        *)
(* LockFreeQueue, the way every user of it is written: a source thread     *)
(* allocates an event, loads it and pushes it; a sink thread pops it,      *)
(* handles it and releases it.  The pair modelled is ESP32BLE's            *)
(* (src/esphome/components/esp32_ble/ble.cpp: enqueue_ble_event and loop). *)
(*                                                                         *)
(* The pool's free list is a second LockFreeQueue that runs the other way: *)
(* release() pushes on it and allocate() pops from it.  Both rings are     *)
(* instances of module LockFreeQueue, at its grain of atomicity.           *)
(***************************************************************************)
EXTENDS Integers, FiniteSets

CONSTANTS POOL_SIZE,            \* SIZE of the pool
          Q_SIZE,               \* SIZE of the event queue
          DropRange,            \* dropped_count_ counts modulo this
          None,                 \* nullptr
          HeapMayFail,          \* whether RAMAllocator can return nullptr
          Releasers             \* the threads that call release()

(* event_pool.h:26-29: the free list has one slot more than the pool.      *)
ASSUME PoolAssumption == POOL_SIZE \in 1..254
(* event_pool.h:18-24: the pool is no larger than the queue's capacity.    *)
ASSUME SizingAssumption == Q_SIZE \in 2..255 /\ POOL_SIZE <= Q_SIZE - 1
ASSUME FlagAssumption == HeapMayFail \in BOOLEAN
ASSUME ReleasersAssumption == "sink" \in Releasers
ASSUME RangeAssumption == DropRange \in Nat \ {0}
ASSUME NoneAssumption == None \notin 1..POOL_SIZE

Events == 1 .. POOL_SIZE        \* the objects the pool may create, in order

VARIABLES qbuffer, qhead, qtail, qdropped, qpush, qpop,   \* the event queue
          fbuffer, fhead, ftail, fdropped, fpush, fpop,   \* free_list_
          total_created,        \* total_created_
          source,               \* the source thread: where, and its event
          sink                  \* the sink thread: where, and its event

queue_vars == << qbuffer, qhead, qtail, qdropped, qpush, qpop >>
free_vars == << fbuffer, fhead, ftail, fdropped, fpush, fpop >>
vars == << queue_vars, free_vars, total_created, source, sink >>

Queue == INSTANCE LockFreeQueue
           WITH SIZE <- Q_SIZE, T <- Events, Producers <- {"source"},
                buffer <- qbuffer, head <- qhead, tail <- qtail,
                dropped_count <- qdropped, push <- qpush, pop <- qpop

FreeSlots_OnePerEvent == POOL_SIZE
FreeSlots == POOL_SIZE + 1

Free == INSTANCE LockFreeQueue
          WITH SIZE <- FreeSlots, T <- Events, Producers <- Releasers,
               buffer <- fbuffer, head <- fhead, tail <- ftail,
               dropped_count <- fdropped, push <- fpush, pop <- fpop
-----------------------------------------------------------------------------
SourcePc == {"idle", "allocate", "load", "push", "pushing", "drop"}
SinkPc == {"poll", "pop", "handle", "release", "releasing", "drain", "report"}

TypeOK == /\ Queue!TypeOK
          /\ Free!TypeOK
          /\ total_created \in 0 .. POOL_SIZE
          /\ source \in [pc : SourcePc, event : Events \cup {None}]
          /\ sink \in [pc : SinkPc, event : Events \cup {None}]

Init == /\ Queue!Init
        /\ Free!Init
        /\ total_created = 0
        /\ source = [pc |-> "idle", event |-> None]
        /\ sink = [pc |-> "poll", event |-> None]

SourceAt(pc) == source.pc = pc
SinkAt(pc) == sink.pc = pc
SourceGoes(pc) == source' = [source EXCEPT !.pc = pc]
SinkGoes(pc) == sink' = [sink EXCEPT !.pc = pc]
SourceLetsGo(pc) == source' = [pc |-> pc, event |-> None]
SinkLetsGo(pc) == sink' = [pc |-> pc, event |-> None]
-----------------------------------------------------------------------------
(* create_() when the free list is empty: a new object, or nullptr at      *)
(* capacity or when the heap has none to give.                             *)
AtCapacity_OneMore == total_created > POOL_SIZE
AtCapacity == total_created >= POOL_SIZE

AllocateNew_Uncounted ==
  /\ SourceAt("idle") /\ Free!PopEmpty
  /\ ~ AtCapacity
  /\ source' = [pc |-> "load", event |-> total_created + 1]
  /\ UNCHANGED << queue_vars, total_created, sink >>

AllocateNew ==
  /\ SourceAt("idle") /\ Free!PopEmpty
  /\ ~ AtCapacity
  /\ total_created' = total_created + 1
  /\ source' = [pc |-> "load", event |-> total_created']
  /\ UNCHANGED << queue_vars, sink >>

AllocateNothing ==
  /\ SourceAt("idle") /\ Free!PopEmpty
  /\ AtCapacity \/ HeapMayFail
  /\ SourceGoes("drop")
  /\ UNCHANGED << queue_vars, total_created, sink >>

AllocateFound ==
  /\ SourceAt("idle") /\ Free!PopFound
  /\ SourceGoes("allocate")
  /\ UNCHANGED << queue_vars, total_created, sink >>

AllocateRead ==
  /\ SourceAt("allocate") /\ Free!PopRead
  /\ UNCHANGED << queue_vars, total_created, source, sink >>

AllocateTaken ==
  /\ SourceAt("allocate") /\ Free!PopPublish
  /\ source' = [pc |-> "load", event |-> fpop.element]
  /\ UNCHANGED << queue_vars, total_created, sink >>

(* load_ble_event / populate / set_data: fill the event in.                *)
Load == /\ SourceAt("load")
        /\ SourceGoes("push")
        /\ UNCHANGED << queue_vars, free_vars, total_created, sink >>

(* The source ignores the result of push: a refused event is lost.         *)
PushBegins == /\ SourceAt("push")
              /\ IF Queue!Full
                 THEN /\ Queue!PushFull("source", source.event)
                      /\ SourceLetsGo("idle")
                 ELSE /\ Queue!PushRoom("source", source.event)
                      /\ SourceGoes("pushing")
              /\ UNCHANGED << free_vars, total_created, sink >>

PushWrites == /\ SourceAt("pushing") /\ Queue!PushWrite("source")
              /\ UNCHANGED << free_vars, total_created, source, sink >>

PushEnds == /\ SourceAt("pushing") /\ Queue!PushPublish("source")
            /\ SourceLetsGo("idle")
            /\ UNCHANGED << free_vars, total_created, sink >>

(* increment_dropped_count() for an event that could not be had.           *)
Drop == /\ SourceAt("drop")
        /\ Queue!CountDrop
        /\ SourceGoes("idle")
        /\ UNCHANGED << qbuffer, qhead, qtail, qpush, qpop >>
        /\ UNCHANGED << free_vars, total_created, sink >>

(* The whole of allocate() and push() has returned: the source is between  *)
(* two events.  Setting up, warm() then creates every object it can.       *)
Warm ==
  /\ SourceAt("idle") /\ SinkAt("poll") /\ ~ AtCapacity
  /\ \E k \in 1 .. POOL_SIZE - total_created :
       LET slot(j) == (ftail + j - 1) % FreeSlots IN
       /\ k = POOL_SIZE - total_created \/ HeapMayFail
       /\ total_created' = total_created + k
       /\ fbuffer' = [s \in DOMAIN fbuffer |->
                        IF \E j \in 1..k : s = slot(j)
                        THEN total_created + CHOOSE j \in 1..k : s = slot(j)
                        ELSE fbuffer[s]]
       /\ ftail' = slot(k + 1)
  /\ UNCHANGED << queue_vars, fhead, fdropped, fpush, fpop, source, sink >>
-----------------------------------------------------------------------------
(* ESP32BLE::loop(): the first pop of a pass returns at once when there is *)
(* nothing to do; the later ones end the pass with a look at the drops.    *)
SinkFound == /\ SinkAt("poll") \/ SinkAt("drain")
             /\ Queue!PopFound
             /\ SinkGoes("pop")
             /\ UNCHANGED << free_vars, total_created, source >>

SinkRead == /\ SinkAt("pop") /\ Queue!PopRead
            /\ UNCHANGED << free_vars, total_created, source, sink >>

SinkTaken == /\ SinkAt("pop") /\ Queue!PopPublish
             /\ sink' = [pc |-> "handle", event |-> qpop.element]
             /\ UNCHANGED << free_vars, total_created, source >>

Handle == /\ SinkAt("handle")
          /\ SinkGoes("release")
          /\ UNCHANGED << queue_vars, free_vars, total_created, source >>

(* release() ignores the result of the free list's push too.               *)
ReleaseBegins == /\ SinkAt("release")
                 /\ IF Free!Full
                    THEN /\ Free!PushFull("sink", sink.event)
                         /\ SinkLetsGo("drain")
                    ELSE /\ Free!PushRoom("sink", sink.event)
                         /\ SinkGoes("releasing")
                 /\ UNCHANGED << queue_vars, total_created, source >>

ReleaseWrites == /\ SinkAt("releasing") /\ Free!PushWrite("sink")
                 /\ UNCHANGED << queue_vars, total_created, source, sink >>

ReleaseEnds == /\ SinkAt("releasing") /\ Free!PushPublish("sink")
               /\ SinkLetsGo("drain")
               /\ UNCHANGED << queue_vars, total_created, source >>

Drained == /\ SinkAt("drain") /\ Queue!PopEmpty
           /\ SinkGoes("report")
           /\ UNCHANGED << free_vars, total_created, source >>

Report == /\ SinkAt("report")
          /\ Queue!ResetDropped \/ (qdropped = 0 /\ UNCHANGED queue_vars)
          /\ SinkGoes("poll")
          /\ UNCHANGED << free_vars, total_created, source >>
-----------------------------------------------------------------------------
Allocate == \/ AllocateNew \/ AllocateNothing
            \/ AllocateFound \/ AllocateRead \/ AllocateTaken
Push == PushBegins \/ PushWrites \/ PushEnds
Release == ReleaseBegins \/ ReleaseWrites \/ ReleaseEnds

SourceNext == Allocate \/ Load \/ Push \/ Drop
SinkNext == SinkFound \/ SinkRead \/ SinkTaken \/ Handle \/ Release
            \/ Drained \/ Report

Next == SourceNext \/ SinkNext \/ Warm

Spec == Init /\ [][Next]_vars

(* The sink is the main loop (or a task of its own): it keeps polling.     *)
FairSpec == Spec /\ WF_vars(SinkNext)
-----------------------------------------------------------------------------
(* In how many places the event e is: the two rings and the two hands.     *)
Places(e) == Cardinality({i \in 1 .. Queue!Count : Queue!Contents[i] = e})
             + Cardinality({i \in 1 .. Free!Count : Free!Contents[i] = e})
             + (IF source.event = e THEN 1 ELSE 0)
             + (IF sink.event = e THEN 1 ELSE 0)

(* Every object created is in exactly one place, always: none leaks from   *)
(* the pool and none has two users (event_pool.h:18-24, 109-112).          *)
EveryEventAccounted ==
  \A e \in Events : Places(e) = (IF e <= total_created THEN 1 ELSE 0)

(* Every event queued is handled and its object comes back to the pool.    *)
EveryEventReturns ==
  \A e \in Events :
    (\E i \in 1 .. Queue!Count : Queue!Contents[i] = e)
      ~> (\E i \in 1 .. Free!Count : Free!Contents[i] = e)
=============================================================================
