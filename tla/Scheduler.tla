----------------------------- MODULE Scheduler -----------------------------
(***************************************************************************)
(* The scheduler of src/esphome/core/scheduler.{h,cpp}: set_timeout,       *)
(* set_interval, defer and their cancels, called by the main loop and, on  *)
(* multi-threaded builds, by any other task, and Scheduler::call(), the    *)
(* pass over the due items that only the main loop makes.                  *)
(*                                                                         *)
(* A step is what the code does under one hold of lock_, or one read that  *)
(* it makes without the lock.  A callback runs outside the lock: while the *)
(* main loop is in one, any task may set and cancel timers, itself too.    *)
(*                                                                         *)
(* items_ and to_add_ are sets: a heap hands out an item with a least      *)
(* next_execution, which one of several is left open.  A key stands for    *)
(* the component, the kind of name and the name of an item.                *)
(***************************************************************************)
EXTENDS Integers, FiniteSets, Sequences

CONSTANTS Items,          \* SchedulerItem objects that may exist (a bound)
          Keys,           \* what an item can be named by
          Anonymous,      \* the keys that are a null static name
          Parallel,       \* the keys DelayAction uses with skip_cancel
          Components,
          Owner,          \* the component of each key, None for SELF_POINTER
          None,
          Delays,         \* the delays that are asked for
          MaxTime,        \* where the modelled clock stops (a bound)
          MaxDeleted,     \* MAX_LOGICALLY_DELETED_ITEMS
          MaxOffset,      \* MAX_INTERVAL_DELAY
          Builds          \* the values of ~ ESPHOME_THREAD_SINGLE looked at

ASSUME ItemsAssumption == IsFiniteSet(Items) /\ None \notin Items
ASSUME KeysAssumption == Anonymous \subseteq Keys /\ Parallel \subseteq Keys
                         /\ Anonymous \cap Parallel = {}
ASSUME OwnerAssumption == Owner \in [Keys -> Components \cup {None}]
                          /\ None \notin Components
ASSUME NumberAssumption == Delays \subseteq Nat /\ MaxTime \in Nat
                           /\ MaxDeleted \in Nat \ {0} /\ MaxOffset \in Nat
ASSUME BuildAssumption == Builds \subseteq BOOLEAN

VARIABLES item,            \* the fields of every SchedulerItem
          items,           \* items_, the heap
          to_add,          \* to_add_
          defer_queue,     \* defer_queue_, None where an item was taken out
          defer_front,     \* defer_queue_front_
          pool,            \* the freelist
          live,            \* the objects that are allocated
          to_add_count,    \* to_add_count_
          defer_count,     \* defer_count_
          to_remove,       \* to_remove_
          failed,          \* the components that are marked failed
          now,             \* millis_64()
          multi_threaded,  \* ~ ESPHOME_THREAD_SINGLE; never changes
          main,            \* where the main loop is, and its locals
          revoked          \* items the main loop itself has cancelled (ghost)

containers == << items, to_add, defer_queue, defer_front, pool, live >>
counters == << to_add_count, defer_count, to_remove >>
setting == << failed, multi_threaded >>
vars == << item, containers, counters, setting, now, main, revoked >>
-----------------------------------------------------------------------------
Types == {"timeout", "interval"}
ItemRecord == [key : Keys \cup {None}, type : Types, interval : Nat,
               next_execution : Nat, removed : BOOLEAN]

Steps == {"idle", "defer", "taken", "deferred", "stamp", "merge", "cleanup",
          "full", "heap", "due", "callback", "finish"}
MainRecord == [pc : Steps, item : Items \cup {None}, now_64 : Nat,
               defer_end : Nat, has_added : BOOLEAN]

Blank == [key |-> None, type |-> "timeout", interval |-> 0,
          next_execution |-> 0, removed |-> FALSE]
Idle == [pc |-> "idle", item |-> None, now_64 |-> 0, defer_end |-> 0,
         has_added |-> FALSE]

TypeOK == /\ item \in [Items -> ItemRecord]
          /\ items \subseteq Items /\ to_add \subseteq Items
          /\ defer_queue \in Seq(Items \cup {None})
          /\ defer_front \in 0 .. Len(defer_queue)
          /\ pool \subseteq Items /\ live \subseteq Items
          /\ to_add_count \in Nat /\ defer_count \in Nat /\ to_remove \in Nat
          /\ failed \subseteq Components /\ multi_threaded \in Builds
          /\ now \in Nat
          /\ main \in MainRecord
          /\ revoked \subseteq Items

Init == /\ item = [i \in Items |-> Blank]
        /\ items = {} /\ to_add = {}
        /\ defer_queue = << >> /\ defer_front = 0
        /\ pool = {} /\ live = {}
        /\ to_add_count = 0 /\ defer_count = 0 /\ to_remove = 0
        /\ failed = {} /\ multi_threaded \in Builds
        /\ now = 0
        /\ main = Idle
        /\ revoked = {}
-----------------------------------------------------------------------------
Deferred == {defer_queue[j] : j \in DOMAIN defer_queue} \ {None}
Removed(i) == item[i].removed
Failed(i) == Owner[item[i].key] \in failed

(* matches_item_locked_: a live item of this name and type.                *)
Matches(i, k, type) == ~ Removed(i) /\ item[i].key = k /\ item[i].type = type
Matching(S, k, type) == {i \in S : Matches(i, k, type)}

(* cancel_item_locked_: the sets of items it may mark.  With find_first it *)
(* marks one item, of the first container that has a match; without, all.  *)
MayMark_NotStaged(k, type, find_first) ==
  LET inDefer == IF multi_threaded /\ type = "timeout"
                 THEN Matching(Deferred, k, type) ELSE {}
      inHeap == Matching(items, k, type)
      first == IF inDefer # {} THEN inDefer ELSE inHeap
  IN  IF k \in Anonymous THEN {{}}
      ELSE IF ~ find_first THEN {inDefer \cup inHeap}
      ELSE IF first = {} THEN {{}} ELSE {{i} : i \in first}
MayMark(k, type, find_first) ==
  LET inDefer == IF multi_threaded /\ type = "timeout"
                 THEN Matching(Deferred, k, type) ELSE {}
      inHeap == Matching(items, k, type)
      inToAdd == Matching(to_add, k, type)
      first == IF inDefer # {} THEN inDefer
               ELSE IF inHeap # {} THEN inHeap ELSE inToAdd
  IN  IF k \in Anonymous THEN {{}}
      ELSE IF ~ find_first THEN {inDefer \cup inHeap \cup inToAdd}
      ELSE IF first = {} THEN {{}} ELSE {{i} : i \in first}

Marked(marks) == [i \in Items |-> IF i \in marks
                                  THEN [item[i] EXCEPT !.removed = TRUE]
                                  ELSE item[i]]
CountMarked_Never(marks) == UNCHANGED to_remove
CountMarked(marks) == to_remove' = to_remove + Cardinality(marks \cap items)

(* Only the main loop's own cancels are remembered in revoked.             *)
Revoke(by, marks) == IF by = "main" THEN revoked \cup marks ELSE revoked

(* recycle_item_main_loop_: the item goes to the freelist, where nothing   *)
(* reads its fields any more.                                              *)
Recycled(S) == [i \in Items |-> IF i \in S THEN Blank ELSE item[i]]
Recycle(S) == /\ item' = Recycled(S)
              /\ pool' = pool \cup S
              /\ revoked' = revoked \ S

(* An application calls the scheduler from component code and callbacks on *)
(* the main loop, and from other tasks at any moment.                      *)
MayCall(by) == \/ by = "main" /\ main.pc \in {"idle", "deferred", "callback"}
               \/ by = "other" /\ multi_threaded

(* get_item_from_pool_locked_: from the freelist, else newly allocated.    *)
HasItem == pool # {} \/ live # Items
NewItem == IF pool # {} THEN CHOOSE i \in pool : TRUE
                        ELSE CHOOSE i \in Items \ live : TRUE

(* calculate_interval_offset_: a random number in [0, max_offset).         *)
Offsets(delay) == LET max_offset == IF delay \div 2 < MaxOffset
                                    THEN delay \div 2 ELSE MaxOffset
                  IN  {0} \cup 0 .. max_offset - 1

(* An interval of 0 would always be due: it is made 1.                     *)
Coerced_Not(type, asked) == asked
Coerced(type, asked) == IF type = "interval" /\ asked = 0 THEN 1 ELSE asked

(* set_timer_common_ for a delay other than SCHEDULER_DONT_RUN.            *)
SetTimer(by, k, type, asked, skip_cancel) ==
  LET i == NewItem
      delay == Coerced(type, asked)
      isDefer == multi_threaded /\ type = "timeout" /\ delay = 0
  IN
  /\ MayCall(by) /\ HasItem
  /\ skip_cancel => k \in Parallel
  /\ \E marks \in IF skip_cancel THEN {{}} ELSE MayMark(k, type, TRUE),
        next \in IF isDefer THEN {0}
                 ELSE IF type = "timeout" THEN {now + delay}
                 ELSE {now + offset : offset \in Offsets(delay)} :
       /\ item' = [Marked(marks) EXCEPT ![i] =
                     [key |-> k, type |-> type,
                      interval |-> IF type = "interval" THEN delay ELSE 0,
                      next_execution |-> next, removed |-> FALSE]]
       /\ CountMarked(marks)
       /\ revoked' = Revoke(by, marks) \ {i}
  /\ pool' = pool \ {i}
  /\ live' = live \cup {i}
  /\ IF isDefer
     THEN /\ defer_queue' = Append(defer_queue, i)
          /\ defer_count' = defer_count + 1
          /\ UNCHANGED << to_add, to_add_count >>
     ELSE /\ to_add' = to_add \cup {i}
          /\ to_add_count' = to_add_count + 1
          /\ UNCHANGED << defer_queue, defer_count >>
  /\ UNCHANGED << items, defer_front, setting, now, main >>

(* cancel_item_ (all matches), and set_timer_common_ for DONT_RUN (one).   *)
Cancel_ErasesNow(by, k, type, find_first) ==
  /\ MayCall(by)
  /\ \E marks \in MayMark(k, type, find_first) :
       /\ marks # {}
       /\ items' = items \ marks
       /\ item' = Marked(marks)
       /\ revoked' = Revoke(by, marks)
  /\ UNCHANGED << to_add, defer_queue, defer_front, pool, live >>
  /\ UNCHANGED << counters, setting, now, main >>
Cancel(by, k, type, find_first) ==
  /\ MayCall(by)
  /\ \E marks \in MayMark(k, type, find_first) :
       /\ marks # {}
       /\ item' = Marked(marks)
       /\ CountMarked(marks)
       /\ revoked' = Revoke(by, marks)
  /\ UNCHANGED << containers, to_add_count, defer_count, setting, now, main >>

(* Component::mark_failed(), from component code.  What makes a component  *)
(* not failed again, a reset or a disable_loop(), is left out.             *)
MarkFailed(c) == /\ MayCall("main")
                 /\ c \notin failed
                 /\ failed' = failed \cup {c}
                 /\ UNCHANGED << item, containers, counters, multi_threaded, now, main, revoked >>

(* trim_freelist(), from the timeout that Application::setup() sets.       *)
TrimFreelist == /\ main.pc = "callback" /\ pool # {}
                /\ live' = live \ pool
                /\ pool' = {}
                /\ UNCHANGED << item, items, to_add, defer_queue, defer_front >>
                /\ UNCHANGED << counters, setting, now, main, revoked >>

Tick == /\ now < MaxTime
        /\ now' = now + 1
        /\ UNCHANGED << item, containers, counters, setting, main, revoked >>
-----------------------------------------------------------------------------
Goes(pc) == main' = [main EXCEPT !.pc = pc]
At(pc) == main.pc = pc

(* process_defer_queue_slow_path_ with the lock held: take the next item,  *)
(* leaving None in its slot, or clean the queue up when its end is met     *)
(* (cleanup_defer_queue_locked_, compact_defer_queue_locked_).             *)
TakeNext_FromBack(end) ==
  IF defer_front < end
  THEN /\ main' = [main EXCEPT !.pc = "taken", !.defer_end = end,
                               !.item = defer_queue[end - defer_front]]
       /\ defer_queue' = [defer_queue EXCEPT ![end - defer_front] = None]
       /\ defer_front' = defer_front + 1
  ELSE /\ main' = [main EXCEPT !.pc = "stamp", !.defer_end = 0, !.item = None]
       /\ defer_queue' = SubSeq(defer_queue, defer_front + 1, Len(defer_queue))
       /\ defer_front' = 0
TakeNext_ClearsAll(end) ==
  IF defer_front < end
  THEN /\ main' = [main EXCEPT !.pc = "taken", !.defer_end = end,
                               !.item = defer_queue[defer_front + 1]]
       /\ defer_queue' = [defer_queue EXCEPT ![defer_front + 1] = None]
       /\ defer_front' = defer_front + 1
  ELSE /\ main' = [main EXCEPT !.pc = "stamp", !.defer_end = 0, !.item = None]
       /\ defer_queue' = << >>
       /\ defer_front' = 0
TakeNext(end) ==
  IF defer_front < end
  THEN /\ main' = [main EXCEPT !.pc = "taken", !.defer_end = end,
                               !.item = defer_queue[defer_front + 1]]
       /\ defer_queue' = [defer_queue EXCEPT ![defer_front + 1] = None]
       /\ defer_front' = defer_front + 1
  ELSE /\ main' = [main EXCEPT !.pc = "stamp", !.defer_end = 0, !.item = None]
       /\ defer_queue' = SubSeq(defer_queue, defer_front + 1, Len(defer_queue))
       /\ defer_front' = 0

(* Scheduler::call() begins; the defer queue is looked at without the lock *)
BeginCall == /\ At("idle")
             /\ Goes(IF multi_threaded /\ defer_count # 0 THEN "defer" ELSE "stamp")
             /\ UNCHANGED << item, containers, counters, setting, now, revoked >>

BeginDefer == /\ At("defer")
              /\ TakeNext(Len(defer_queue))
              /\ defer_count' = 0
              /\ UNCHANGED << item, items, to_add, pool, live >>
              /\ UNCHANGED << to_add_count, to_remove, setting, now, revoked >>

(* should_skip_item_                                                       *)
ShouldSkip(i) == Removed(i) \/ Failed(i)

RunDeferred == /\ At("taken") /\ ~ ShouldSkip(main.item)
               /\ Goes("deferred")
               /\ UNCHANGED << item, containers, counters, setting, now, revoked >>

(* A deferred callback has returned, or was skipped.                       *)
EndDeferred_CountsLate ==
  /\ At("deferred") \/ (At("taken") /\ ShouldSkip(main.item))
  /\ Recycle({main.item})
  /\ TakeNext(main.defer_end)
  /\ defer_count' = 0
  /\ UNCHANGED << items, to_add, live, to_add_count, to_remove, setting, now >>
EndDeferred == /\ At("deferred") \/ (At("taken") /\ ShouldSkip(main.item))
               /\ Recycle({main.item})
               /\ TakeNext(main.defer_end)
               /\ UNCHANGED << items, to_add, live, counters, setting, now >>

(* now_64 is taken once for the whole pass over the heap.                  *)
Stamp == /\ At("stamp")
         /\ main' = [main EXCEPT !.pc = "merge", !.now_64 = now]
         /\ UNCHANGED << item, containers, counters, setting, now, revoked >>

(* process_to_add, with its lock-free fast path.                           *)
ToAddEmpty == IF multi_threaded THEN to_add_count = 0 ELSE to_add = {}
ProcessToAdd_KeepsCount ==
  LET gone == {i \in to_add : Removed(i)} IN
  IF ToAddEmpty
  THEN UNCHANGED << item, containers, counters, revoked >>
  ELSE /\ items' = items \cup (to_add \ gone)
       /\ Recycle(gone)
       /\ to_add' = {}
       /\ UNCHANGED << defer_queue, defer_front, live, counters >>
ProcessToAdd ==
  LET gone == {i \in to_add : Removed(i)} IN
  IF ToAddEmpty
  THEN UNCHANGED << item, containers, counters, revoked >>
  ELSE /\ items' = items \cup (to_add \ gone)
       /\ Recycle(gone)
       /\ to_add' = {}
       /\ to_add_count' = 0
       /\ UNCHANGED << defer_queue, defer_front, live, defer_count, to_remove >>

Merge == /\ At("merge")
         /\ ProcessToAdd
         /\ Goes("cleanup")
         /\ UNCHANGED << setting, now >>

(* The items that can be at the top of the heap.                           *)
Tops(S) == {i \in S : \A j \in S : item[i].next_execution <= item[j].next_execution}

(* cleanup_: pop removed items off the top until a live one is on top.  Of *)
(* the removed ones that tie with it, some may have been on top.           *)
Cleanup ==
  LET kept == {i \in items : ~ Removed(i)}
      before == {i \in items \ kept : \A j \in kept :
                   item[i].next_execution < item[j].next_execution}
      tied == {i \in (items \ kept) \ before : i \in Tops(items \ before)}
  IN
  IF to_remove = 0
  THEN UNCHANGED << item, containers, counters, revoked >>
  ELSE \E some \in SUBSET tied :
         /\ items' = items \ (before \cup some)
         /\ Recycle(before \cup some)
         /\ to_remove' = to_remove - Cardinality(before \cup some)
         /\ UNCHANGED << to_add, defer_queue, defer_front, live >>
         /\ UNCHANGED << to_add_count, defer_count >>

CleanTop == /\ At("cleanup")
            /\ Cleanup
            /\ Goes("full")
            /\ UNCHANGED << setting, now >>

(* full_cleanup_removed_items_, when many are removed but not on top.      *)
FullCleanup == /\ At("full")
               /\ IF to_remove < MaxDeleted
                  THEN UNCHANGED << item, containers, counters, revoked >>
                  ELSE LET gone == {i \in items : Removed(i)} IN
                       /\ items' = items \ gone
                       /\ Recycle(gone)
                       /\ to_remove' = 0
                       /\ UNCHANGED << to_add, defer_queue, defer_front, live >>
                       /\ UNCHANGED << to_add_count, defer_count >>
               /\ Goes("heap")
               /\ UNCHANGED << setting, now >>
-----------------------------------------------------------------------------
(* The loop over the due items.                                            *)
DueTops == {i \in Tops(items) : item[i].next_execution <= main.now_64}

(* Pop the item off the heap and recycle it.                               *)
PopAndRecycle(i) == /\ items' = items \ {i}
                    /\ Recycle({i})
                    /\ UNCHANGED << to_add, defer_queue, defer_front, live >>
                    /\ UNCHANGED << to_add_count, defer_count, setting, now >>

PopFailed == /\ At("heap")
             /\ \E i \in DueTops : Failed(i) /\ PopAndRecycle(i)
             /\ UNCHANGED << to_remove, main >>

PopRemoved == /\ At("heap")
              /\ \E i \in DueTops : ~ Failed(i) /\ Removed(i) /\ PopAndRecycle(i)
              /\ to_remove' = to_remove - 1
              /\ UNCHANGED main

FindDue_Unchecked == /\ At("heap")
                     /\ \E i \in DueTops :
                          main' = [main EXCEPT !.pc = "due", !.item = i]
                     /\ UNCHANGED << item, containers, counters, setting, now, revoked >>
FindDue == /\ At("heap")
           /\ \E i \in DueTops :
                /\ ~ Failed(i) /\ ~ Removed(i)
                /\ main' = [main EXCEPT !.pc = "due", !.item = i]
           /\ UNCHANGED << item, containers, counters, setting, now, revoked >>

StartCallback == /\ At("due")
                 /\ main' = [main EXCEPT !.pc = "callback"]
                 /\ UNCHANGED << item, containers, counters, setting, now, revoked >>

(* Only after the callback is the item popped: cancelled meanwhile it is   *)
(* recycled, an interval is pushed back, a timeout is recycled.            *)
EndCancelled == /\ At("callback") /\ Removed(main.item)
                /\ PopAndRecycle(main.item)
                /\ to_remove' = to_remove - 1
                /\ main' = [main EXCEPT !.pc = "heap", !.item = None]

HasAdded == main.has_added \/ to_add # {}
HeapAgain == main' = [main EXCEPT !.pc = "heap", !.item = None,
                                 !.has_added = HasAdded]

EndTimeout == /\ At("callback") /\ ~ Removed(main.item)
              /\ item[main.item].type = "timeout"
              /\ PopAndRecycle(main.item)
              /\ HeapAgain
              /\ UNCHANGED to_remove

EndInterval == /\ At("callback") /\ ~ Removed(main.item)
               /\ item[main.item].type = "interval"
               /\ item' = [item EXCEPT ![main.item].next_execution =
                                 main.now_64 + item[main.item].interval]
               /\ HeapAgain
               /\ UNCHANGED << containers, counters, setting, now, revoked >>

(* Nothing more is due.                                                    *)
EndHeap == /\ At("heap") /\ DueTops = {}
           /\ Goes("finish")
           /\ UNCHANGED << item, containers, counters, setting, now, revoked >>

EndCall == /\ At("finish")
           /\ IF main.has_added THEN ProcessToAdd
              ELSE UNCHANGED << item, containers, counters, revoked >>
           /\ main' = Idle
           /\ UNCHANGED << setting, now >>

(* next_schedule_in(): before sleeping the main loop asks how long it may, *)
(* which also cleans the top of the heap.                                  *)
DeferEmpty == IF multi_threaded THEN defer_count = 0 ELSE to_add = {}
NextScheduleIn == /\ At("idle") /\ DeferEmpty
                  /\ Cleanup
                  /\ UNCHANGED << setting, now, main >>
-----------------------------------------------------------------------------
DeferPass == BeginDefer \/ RunDeferred \/ EndDeferred
HeapPass == PopFailed \/ PopRemoved \/ FindDue \/ StartCallback
            \/ EndCancelled \/ EndTimeout \/ EndInterval \/ EndHeap
Call == BeginCall \/ DeferPass \/ Stamp \/ Merge \/ CleanTop \/ FullCleanup
        \/ HeapPass \/ EndCall

Callers == {"main", "other"}
Api == \E by \in Callers, k \in Keys, type \in Types :
          \/ \E delay \in Delays, skip_cancel \in BOOLEAN :
               SetTimer(by, k, type, delay, skip_cancel)
          \/ \E find_first \in BOOLEAN : Cancel(by, k, type, find_first)

Next == Call \/ Api \/ NextScheduleIn \/ TrimFreelist \/ Tick
        \/ \E c \in Components : MarkFailed(c)

Spec == Init /\ [][Next]_vars

(* The main loop keeps calling the scheduler, and callbacks return.  No    *)
(* other task, and no clock, is obliged to move.                           *)
FairSpec == Spec /\ WF_vars(Call)
-----------------------------------------------------------------------------
(* The item whose callback runs out of the defer queue is in no container. *)
Hand == IF main.pc \in {"taken", "deferred"} THEN {main.item} ELSE {}

Disjoint(sets) == \A p, q \in DOMAIN sets : p # q => sets[p] \cap sets[q] = {}

(* Every allocated item is in exactly one container, or in the main loop's *)
(* hands, whatever other tasks do meanwhile: none is lost, none is in the  *)
(* freelist while still in use (debug_verify_no_leak_, scheduler.cpp:840). *)
EveryItemInOnePlace ==
  /\ live = items \cup to_add \cup Deferred \cup pool \cup Hand
  /\ Disjoint(<< items, to_add, Deferred, pool, Hand >>)
  /\ \A p, q \in DOMAIN defer_queue :
       defer_queue[p] = defer_queue[q] /\ defer_queue[p] # None => p = q

(* A name has at most one live timer of each type, in whichever container: *)
(* what lets set_timer_common_ stop at the first match (scheduler.h:323-   *)
(* 328).  DelayAction's parallel keys are exempt.                          *)
OneLivePerKey ==
  \A k \in Keys \ (Anonymous \cup Parallel), type \in Types :
    Cardinality(Matching(items \cup to_add \cup Deferred, k, type)) <= 1

(* The counters behind the lock-free fast paths never hide work: outside a *)
(* pass each says how many items its container holds (scheduler.h:526-617).*)
(* to_remove_ never misses a removed item of the heap, so cleanup_ may     *)
(* trust a zero; it is exact until a component fails (scheduler.h:301-305).*)
CountersAreExact ==
  LET removed == Cardinality({i \in items : Removed(i)}) IN
  /\ to_add_count = Cardinality(to_add)
  /\ defer_count = Len(defer_queue) -
                     (IF Hand # {} THEN main.defer_end ELSE 0)
  /\ to_remove >= removed
  /\ failed = {} => to_remove = removed

(* The item whose callback runs is still the one at the top of the heap,   *)
(* which is what is popped when it returns (scheduler.cpp:524-530), though *)
(* timers are set and cancelled meanwhile.                                 *)
ExecutedStaysOnTop ==
  main.pc \in {"due", "callback"} => main.item \in DueTops

(* A timer the main loop cancelled never runs (scheduler.cpp:487-509).     *)
RevokedNeverRuns ==
  [][StartCallback \/ RunDeferred => main.item \notin revoked]_vars

(* defer() is first-in first-out through the index, the emptied slots and  *)
(* the compaction of defer_queue_ (scheduler.cpp:332-406).                 *)
Pending == SubSeq(defer_queue, defer_front + 1, Len(defer_queue))
DeferFifo == INSTANCE BoundedFifo WITH T <- Items, queue <- Pending,
                                       Capacity <- Cardinality(Items)
DeferIsFifo == DeferFifo!Spec

(* Every timer that is due, staged or deferred gets its turn: it runs, is  *)
(* merged into the heap, or is thrown away because it was cancelled or its *)
(* component failed (scheduler.cpp:409-582).                               *)
Waiting(i) == \/ i \in to_add \cup Deferred
              \/ i \in items /\ item[i].next_execution <= now
AllAreServed == \A i \in Items : Waiting(i) ~> (~ Waiting(i) \/ main.item = i)
=============================================================================
