------------------------------ MODULE Millis64 ------------------------------
(***************************************************************************)
(* Millis64Impl::compute() of core/time_64.h and time_64.cpp: the 32-bit   *)
(* millisecond clock extended to 64 bits by counting its rollovers, in the *)
(* three forms the build chooses from.  It is called by the main loop with *)
(* a timestamp taken earlier and by any task with a fresh one; a call may  *)
(* be overtaken by others at every access to what they share.              *)
(*                                                                         *)
(* `time' is what a clock that never rolls over would show; a call knows   *)
(* only the low word of its timestamp.  A step is one atomic access.       *)
(***************************************************************************)
EXTENDS Integers

CONSTANTS
    Threads,  \* the main loop and other tasks
    Range,    \* values of the low word (2^32 in the code)
    Window,   \* ROLLOVER_WINDOW (10000)
    Builds,   \* the threading models explored, a subset of AllBuilds
    MaxLag,   \* bounds the age of a timestamp and the time between two calls
    MaxTime,  \* bounds the clock
    None

AllBuilds == {"single", "no_atomics", "atomics"}
HALF_MAX_UINT32 == (Range - 1) \div 2
ASSUME BuildsAssumption == Builds \subseteq AllBuilds
ASSUME RangeAssumption == Range \in Nat /\ Window \in 0 .. Range
ASSUME LagAssumption == MaxLag \in Nat /\ 2 * MaxLag < HALF_MAX_UINT32
ASSUME BoundAssumption == MaxTime \in Nat
ASSUME NoneAssumption == None \notin Threads

VARIABLES
    build,         \* fixed by the build
    time,          \* the time that has passed, in milliseconds
    last_millis,
    millis_major,
    lock,          \* who holds the mutex
    call,          \* each thread's call: its timestamp and its locals
    seen,          \* the newest timestamp answered (ghost)
    overtaken      \* a call lost its race against a rollover (ghost)

vars == <<build, time, last_millis, millis_major, lock, call, seen, overtaken>>

Idle == [pc |-> "idle", stamp |-> 0, major |-> 0, last |-> 0]
Locked == {"reread", "locked", "store"}

Init ==
    /\ build \in Builds
    /\ time = 0 /\ last_millis = 0 /\ millis_major = 0
    /\ lock = None /\ call = [t \in Threads |-> Idle]
    /\ seen = 0 /\ overtaken = FALSE

-----------------------------------------------------------------------------
At(t, pc) == call[t].pc = pc
Now(t) == call[t].stamp % Range
Goes(t, pc) == call' = [call EXCEPT ![t].pc = pc]

\* now < last by more than half the range: the low word has rolled over.
RolledOver(now, last) == now < last /\ last - now > HALF_MAX_UINT32

NearRollover(now, last) == last > Range - 1 - Window \/ now < Window

Value(t) == Now(t) + call[t].major * Range

\* The answer is given.
Returns(t) ==
    /\ call' = [call EXCEPT ![t] = Idle]
    /\ seen' = IF call[t].stamp > seen THEN call[t].stamp ELSE seen

\* A thread takes its timestamp and calls.  Without threads, it is the only one.
Begin(t) ==
    /\ At(t, "idle")
    /\ build = "single" => \A u \in Threads : At(u, "idle")
    /\ call' = [call EXCEPT ![t] = [Idle EXCEPT !.pc = "major", !.stamp = time]]
    /\ UNCHANGED <<build, time, last_millis, millis_major, lock, seen, overtaken>>

\* The form for a single thread, which nothing interrupts.
Compute(t) ==
    /\ build = "single" /\ At(t, "major")
    /\ LET now  == Now(t)
           over == RolledOver(now, last_millis)
       IN /\ millis_major' = IF over THEN millis_major + 1 ELSE millis_major
          /\ last_millis' = IF over \/ now > last_millis THEN now ELSE last_millis
          /\ call' = [call EXCEPT ![t].pc = "return", ![t].major = millis_major']
    /\ UNCHANGED <<build, time, lock, seen, overtaken>>

LoadMajor(t) ==
    /\ build # "single" /\ At(t, "major")
    /\ call' = [call EXCEPT ![t].pc = "last", ![t].major = millis_major]
    /\ UNCHANGED <<build, time, last_millis, millis_major, lock, seen, overtaken>>

\* ... and which way to go on: under the lock, forward, or neither.
LoadLast(t) ==
    /\ At(t, "last")
    /\ LET last == last_millis
           near == build = "no_atomics" /\ NearRollover(Now(t), last)
       IN call' = [call EXCEPT ![t].last = last,
                     ![t].pc = IF near \/ RolledOver(Now(t), last) THEN "lock"
                               ELSE IF build = "atomics" THEN "forward"
                               ELSE IF Now(t) > last THEN "forward_store" ELSE "return"]
    /\ UNCHANGED <<build, time, last_millis, millis_major, lock, seen, overtaken>>

-----------------------------------------------------------------------------
(* Under the lock.                                                         *)

\* Mutant: the value read before the lock is trusted.
Lock_KeepsLast(t) ==
    /\ At(t, "lock") /\ lock = None
    /\ lock' = t /\ Goes(t, "locked")
    /\ UNCHANGED <<build, time, last_millis, millis_major, seen, overtaken>>

Lock(t) ==
    /\ At(t, "lock") /\ lock = None
    /\ lock' = t /\ Goes(t, "reread")
    /\ UNCHANGED <<build, time, last_millis, millis_major, seen, overtaken>>

\* last_millis is read again, and without atomics millis_major too.
Reread(t) ==
    /\ At(t, "reread")
    /\ call' = [call EXCEPT ![t].pc = "locked", ![t].last = last_millis,
                  ![t].major = IF build = "no_atomics" THEN millis_major ELSE @]
    /\ UNCHANGED <<build, time, last_millis, millis_major, lock, seen, overtaken>>

\* Calls with a timestamp from before this rollover have been overtaken by it.
Overtakes(t) ==
    \E u \in Threads : ~At(u, "idle") /\ call[u].stamp \div Range < call[t].stamp \div Range

\* millis_major is incremented where it is; without atomics the copy is stored.
CountRollover(t) ==
    /\ At(t, "locked") /\ RolledOver(Now(t), call[t].last)
    /\ millis_major' = 1 + (IF build = "atomics" THEN millis_major ELSE call[t].major)
    /\ call' = [call EXCEPT ![t].pc = "store", ![t].major = @ + 1]
    /\ overtaken' = (overtaken \/ Overtakes(t))
    /\ UNCHANGED <<build, time, last_millis, lock, seen>>

CountNothing(t) ==
    /\ At(t, "locked") /\ ~RolledOver(Now(t), call[t].last) /\ Goes(t, "store")
    /\ UNCHANGED <<build, time, last_millis, millis_major, lock, seen, overtaken>>

\* Mutant: a return that leaves the mutex locked.
Store_KeepsLock(t) ==
    /\ At(t, "store")
    /\ last_millis' = Now(t)
    /\ Goes(t, IF build = "atomics" THEN "check" ELSE "return")
    /\ UNCHANGED <<build, time, millis_major, lock, seen, overtaken>>

\* last_millis is published after millis_major, and the lock released.
Store(t) ==
    /\ At(t, "store")
    /\ last_millis' = Now(t) /\ lock' = None
    /\ Goes(t, IF build = "atomics" THEN "check" ELSE "return")
    /\ UNCHANGED <<build, time, millis_major, seen, overtaken>>

-----------------------------------------------------------------------------
(* Without the lock.                                                       *)

\* The form without atomics stores what it has.
ForwardStore(t) ==
    /\ At(t, "forward_store")
    /\ last_millis' = Now(t) /\ Goes(t, "return")
    /\ UNCHANGED <<build, time, millis_major, lock, seen, overtaken>>

MayForward(t) == Now(t) > call[t].last /\ Now(t) - call[t].last < HALF_MAX_UINT32

\* compare_exchange_weak: `last' is what was found when it fails.
Exchange(t) ==
    /\ At(t, "forward") /\ MayForward(t)
    /\ IF last_millis = call[t].last THEN last_millis' = Now(t) /\ Goes(t, "check")
       ELSE call' = [call EXCEPT ![t].last = last_millis] /\ UNCHANGED last_millis
    /\ UNCHANGED <<build, time, millis_major, lock, seen, overtaken>>

NoForward(t) ==
    /\ At(t, "forward") /\ ~MayForward(t) /\ Goes(t, "check")
    /\ UNCHANGED <<build, time, last_millis, millis_major, lock, seen, overtaken>>

\* Mutant: no second look at millis_major.
Check_Unchecked(t) ==
    /\ At(t, "check") /\ Goes(t, "return")
    /\ UNCHANGED <<build, time, last_millis, millis_major, lock, seen, overtaken>>

\* The high word must not have changed since it was read: else once more.
Check(t) ==
    /\ At(t, "check")
    /\ Goes(t, IF millis_major = call[t].major THEN "return" ELSE "major")
    /\ UNCHANGED <<build, time, last_millis, millis_major, lock, seen, overtaken>>

Return(t) ==
    /\ At(t, "return") /\ Returns(t)
    /\ UNCHANGED <<build, time, last_millis, millis_major, lock, overtaken>>

\* A timestamp is not older than MaxLag when it is done with, and the scheduler
\* asks for the time in every pass of the main loop.
Tick ==
    /\ time < MaxTime /\ time - seen < MaxLag
    /\ \A t \in Threads : At(t, "idle") \/ time - call[t].stamp < MaxLag
    /\ time' = time + 1
    /\ UNCHANGED <<build, last_millis, millis_major, lock, call, seen, overtaken>>

Step(t) ==
    \/ Compute(t) \/ LoadMajor(t) \/ LoadLast(t)
    \/ Lock(t) \/ Reread(t) \/ CountRollover(t) \/ CountNothing(t) \/ Store(t)
    \/ ForwardStore(t) \/ Exchange(t) \/ NoForward(t) \/ Check(t) \/ Return(t)

Next == Tick \/ \E t \in Threads : Begin(t) \/ Step(t)

Spec == Init /\ [][Next]_vars

-----------------------------------------------------------------------------
(* Properties.                                                             *)

Pcs == Locked \cup {"idle", "major", "last", "lock", "forward", "forward_store", "check",
                    "return"}
TypeOK ==
    /\ build \in Builds /\ time \in 0 .. MaxTime /\ seen \in 0 .. time
    /\ last_millis \in 0 .. Range - 1 /\ millis_major \in Nat
    /\ call \in [Threads -> [pc : Pcs, stamp : 0 .. time, major : Nat, last : 0 .. Range - 1]]
    /\ overtaken \in BOOLEAN
    /\ \A t \in Threads : lock = t <=> call[t].pc \in Locked
    /\ lock \in Threads \cup {None}

\* Together the two words are a time that has been: whenever the lock is free each
\* rollover so far has been counted once (time_64.cpp:98-117 and 152-178).
CountedOnce ==
    lock = None =>
        LET counted == last_millis + millis_major * Range
        IN counted <= time /\ counted >= seen - MaxLag

\* The same, but for the form without atomics, until a call was overtaken by a
\* rollover between its timestamp and its store.
CountedOnceUnlessOvertaken == (build = "no_atomics" /\ overtaken) \/ CountedOnce

\* An answer is the time of its timestamp (time_64.cpp:67-69, :119-123 and :179-181).
\* With atomics a call that a rollover overtook gets the high word of after it; without
\* them nothing is promised once a call was overtaken.
AnswersAreExact ==
    [][\A t \in Threads : Return(t) =>
           \/ Value(t) = call[t].stamp
           \/ /\ build = "atomics" /\ Value(t) = call[t].stamp + Range
              /\ call[t].stamp \div Range < millis_major
           \/ build = "no_atomics" /\ overtaken]_vars

=============================================================================
