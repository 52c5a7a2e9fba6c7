--------------------------- MODULE MainLoop_proofs ---------------------------
(***************************************************************************)
(* Proofs about MainLoop, for any timers, delays, producers and platforms, *)
(* and every loop interval.                                                *)
(***************************************************************************)
EXTENDS MainLoop, FiniteSetTheorems, TLAPS

(* From the computation of the delay on, until the sleep has ended.        *)
DelayIsSafe ==
    at \in {"enter", "asleep"} =>
        ~hf /\ \A t \in Timers : timer[t] = "heap" => asleep <= left[t]

(* What a pass has seen in to_add_ is there until the pass ends, and it    *)
(* will merge then.                                                        *)
OwedIsMerged ==
    /\ \A t \in owed : timer[t] = "staged"
    /\ owed # {} => /\ added
                    /\ at = "heap" \/ (at = "callback" /\ back = "heap")

(* The inductive invariant.                                                *)
IInv == TypeOK /\ DelayIsSafe /\ OwedIsMerged
-----------------------------------------------------------------------------
(* A set of numbers that are not negative has a least one.                 *)
LEMMA LeastNumber ==
  ASSUME NEW S \in SUBSET Nat, S # {}
  PROVE  \E m \in S : \A n \in S : m <= n
<1> DEFINE upto == {0 .. n : n \in S}
           Smaller == StrictSubsetOrdering(Nat)
<1>1. upto \subseteq FiniteSubsetsOf(Nat) /\ upto # {}
  <2>1. ASSUME NEW n \in S PROVE 0 .. n \in SUBSET Nat /\ IsFiniteSet(0 .. n)
    BY FS_Interval
  <2> QED BY <2>1 DEF FiniteSubsetsOf
<1>2. \E T \in upto : \A U \in upto : ~ (<<U, T>> \in Smaller)
  <2> HIDE DEF upto, Smaller
  <2>1. IsWellFoundedOn(Smaller, FiniteSubsetsOf(Nat))
    BY FS_StrictSubsetOrderingWellFounded DEF Smaller
  <2> QED BY <1>1, <2>1, WFMin
<1>3. PICK m \in S : \A n \in S : ~ (<<0 .. n, 0 .. m>> \in Smaller)
  BY <1>2
<1>4. ASSUME NEW n \in S, n < m PROVE FALSE
  <2>1. 0 .. n \subseteq 0 .. m /\ 0 .. n # 0 .. m
    <3>1. m \in 0 .. m /\ m \notin 0 .. n
      BY <1>4
    <3> QED BY <1>4, <3>1
  <2>2. 0 .. n \in SUBSET Nat /\ 0 .. m \in SUBSET Nat
    OBVIOUS
  <2>3. <<0 .. n, 0 .. m>> \in StrictSubsetOrdering(Nat)
    BY <2>1, <2>2, Zenon DEF StrictSubsetOrdering
  <2> QED BY <1>3, <2>3
<1> QED BY <1>4

LEMMA LeftFact ==
  ASSUME TypeOK, NEW t \in Timers
  PROVE  left[t] \in Int /\ left[t] >= -1
  BY DelaysAssumption DEF TypeOK

(* A heap that holds a timer has one on top.                               *)
LEMMA HeapHasTop ==
  ASSUME TypeOK, NEW heap \in SUBSET Timers, heap # {}
  PROVE  \E h \in heap : \A k \in heap : left[h] <= left[k]
<1> DEFINE S == {left[k] + 1 : k \in heap}
<1>1. S \in SUBSET Nat /\ S # {}
  BY LeftFact
<1>2. PICK m \in S : \A n \in S : m <= n
  <2> HIDE DEF S
  <2> QED BY <1>1, LeastNumber
<1>3. PICK h \in heap : m = left[h] + 1
  BY <1>2
<1>4. ASSUME NEW k \in heap PROVE left[h] <= left[k]
  <2>1. m <= left[k] + 1
    BY <1>2
  <2> QED BY <1>3, <2>1, LeftFact
<1> QED BY <1>4

(* next_schedule_in() gives one answer or none: 0 when there is something  *)
(* to do now, else what the first deadline of the heap allows.             *)
LEMMA NextScheduleFact ==
  ASSUME TypeOK
  PROVE  \/ NextScheduleIn = {} /\ \A t \in Timers : timer[t] # "heap"
         \/ NextScheduleIn = {0}
         \/ \E n \in Nat \ {0} : /\ NextScheduleIn = {n}
                                 /\ \A t \in Timers : timer[t] = "heap" => n <= left[t]
<1> DEFINE heap == {t \in Timers : timer[t] = "heap"}
           tops == {h \in heap : \A k \in heap : left[h] <= left[k]}
           now  == IF SingleThreaded THEN "staged" ELSE "deferred"
           wait(t) == IF left[t] < 0 THEN 0 ELSE left[t]
<1>1. CASE \E t \in Timers : timer[t] = now
  BY <1>1 DEF NextScheduleIn
<1>2. CASE ~ \E t \in Timers : timer[t] = now
  <2>1. NextScheduleIn = {wait(t) : t \in tops}
    BY <1>2 DEF NextScheduleIn
  <2>2. CASE heap = {}
    BY <2>1, <2>2
  <2>3. CASE heap # {}
    <3>1. PICK h \in tops : TRUE
      BY <2>3, HeapHasTop
    <3>2. ASSUME NEW t \in tops PROVE left[t] = left[h]
      BY <3>1, LeftFact
    <3>3. NextScheduleIn = {wait(h)}
      BY <2>1, <3>1, <3>2
    <3>4. \A t \in Timers : timer[t] = "heap" => left[h] <= left[t]
      BY <3>1
    <3> QED BY <3>1, <3>3, <3>4, LeftFact
  <2> QED BY <2>2, <2>3
<1> QED BY <1>1, <1>2

(* The delay respects the loop interval and the first deadline.            *)
LEMMA DelayFact ==
  ASSUME TypeOK
  PROVE  /\ DelayTime \in 0 .. LoopInterval
         /\ hf => DelayTime = 0
         /\ DelayTime # 0 =>
              \A t \in Timers : timer[t] = "heap" => DelayTime <= left[t]
<1> DEFINE until == LoopInterval - elapsed
           Fits(d) == /\ d = until \/ d \in NextScheduleIn
                      /\ \A s \in NextScheduleIn : d <= s
<1>1. until \in Nat /\ until <= LoopInterval
  BY IntervalAssumption DEF TypeOK
<1>2. CASE hf
  BY <1>2, IntervalAssumption DEF DelayTime
<1>3. CASE ~hf
  <2>1. DelayTime = CHOOSE d \in 0 .. until : Fits(d)
    BY <1>3 DEF DelayTime
  <2> HIDE DEF until
  <2>2. \E d \in 0 .. until : Fits(d)
    <3>1. CASE NextScheduleIn = {}
      BY <1>1, <3>1
    <3>2. ASSUME NEW n \in Nat, NextScheduleIn = {n} PROVE \E d \in 0 .. until : Fits(d)
      <4>1. CASE n <= until
        BY <1>1, <3>2, <4>1
      <4>2. CASE n > until
        BY <1>1, <3>2, <4>2
      <4> QED BY <1>1, <4>1, <4>2
    <3> QED BY <3>1, <3>2, NextScheduleFact
  <2>3. DelayTime \in 0 .. until /\ \A s \in NextScheduleIn : DelayTime <= s
    <3> HIDE DEF Fits
    <3>1. DelayTime \in 0 .. until /\ Fits(DelayTime)
      BY <2>1, <2>2
    <3> QED BY <3>1 DEF Fits
  <2>4. ASSUME DelayTime # 0, NEW t \in Timers, timer[t] = "heap"
        PROVE  DelayTime <= left[t]
    <3>1. NextScheduleIn # {0}
      BY <1>1, <2>3, <2>4
    <3>2. PICK n \in Nat \ {0} : NextScheduleIn = {n} /\ n <= left[t]
      BY <2>4, <3>1, NextScheduleFact
    <3> QED BY <1>1, <2>3, <3>2, LeftFact
  <2> QED BY <1>1, <1>3, <2>3, <2>4, IntervalAssumption
<1> QED BY <1>2, <1>3
-----------------------------------------------------------------------------
(* The steps, first those of the scheduler's pass.                         *)

LEMMA PassKeeps ==
  ASSUME IInv, StartPass \/ StartHeap \/ ReturnFromTimer \/ EndPass \/ \E t \in Timers : RunTimer(t)
  PROVE  IInv'
<1> USE DEF IInv, TypeOK, DelayIsSafe, OwedIsMerged, wakeVars
<1>1. \A t \in Timers : left[t] \in UNION {-1 .. d : d \in Delays}
  OBVIOUS
<1>2. Merged \in [Timers -> {"none", "deferred", "staged", "heap", "running"}]
  BY DEF Merged
<1>3. CASE StartPass
  BY <1>3 DEF StartPass
<1>4. CASE StartHeap
  BY <1>2, <1>4 DEF StartHeap
<1>5. CASE EndPass
  <2>1. owed' = {}
    BY <1>5 DEF EndPass, Merged
  <2> QED BY <1>2, <1>5, <2>1 DEF EndPass
<1>6. CASE ReturnFromTimer
  <2>1. -1 \in UNION {-1 .. d : d \in Delays}
    BY DelaysAssumption
  <2>2. left' \in [Timers -> UNION {-1 .. d : d \in Delays}]
    BY <1>6, <2>1 DEF ReturnFromTimer
  <2> QED BY <1>6, <2>2 DEF ReturnFromTimer
<1>7. ASSUME NEW t \in Timers, RunTimer(t) PROVE IInv'
  BY <1>7 DEF RunTimer
<1> QED BY <1>3, <1>4, <1>5, <1>6, <1>7

(* The gate and the component phase do not touch the timers.               *)
LEMMA PhaseKeeps ==
  ASSUME IInv, TakeAtomic \/ TakeRead \/ TakeClear \/ EndPhase \/ \E p \in Producers : RunComponent(p)
  PROVE  IInv'
<1> USE DEF IInv, TypeOK, DelayIsSafe, OwedIsMerged, timerVars, MainOnly
<1>1. CASE TakeAtomic
  BY <1>1 DEF TakeAtomic, Decide
<1>2. CASE TakeRead
  BY <1>2 DEF TakeRead
<1>3. CASE TakeClear
  BY <1>3 DEF TakeClear, Decide
<1>4. CASE EndPhase
  BY <1>4, IntervalAssumption DEF EndPhase
<1>5. ASSUME NEW p \in Producers, RunComponent(p) PROVE IInv'
  BY <1>5 DEF RunComponent
<1> QED BY <1>1, <1>2, <1>3, <1>4, <1>5

(* The sleep.                                                              *)
LEMMA SleepKeeps ==
  ASSUME IInv, ComputeDelay \/ EnterSleep \/ ClearWoke \/ WakeUp
  PROVE  IInv'
<1> USE DEF IInv, timerVars, MainOnly
<1>5. at \notin {"heap", "callback"} /\ UNCHANGED timerVars
  BY DEF ComputeDelay, EnterSleep, ClearWoke, WakeUp
<1>6. owed = {} /\ OwedIsMerged'
  BY <1>5 DEF OwedIsMerged
<1>1. CASE ComputeDelay
  <2>1. /\ asleep' = DelayTime /\ DelayTime \in 0 .. LoopInterval
        /\ at' = IF DelayTime = 0 THEN "tick" ELSE "enter"
        /\ UNCHANGED <<platform, timerVars, call, back, taken, flag, signal, work, todo, hf,
                       elapsed>>
    BY <1>1, DelayFact DEF ComputeDelay
  <2>2. TypeOK'
    BY <2>1 DEF TypeOK
  <2>3. DelayIsSafe'
    BY <2>1, DelayFact DEF DelayIsSafe, TypeOK
  <2> QED BY <1>6, <2>2, <2>3
<1>2. CASE EnterSleep
  <2>1. /\ at = "enter" /\ at' \in {"asleep", "clear", "tick"}
        /\ at' = "asleep" => asleep' = asleep
        /\ asleep' = asleep \/ asleep' = 0
        /\ UNCHANGED <<platform, timerVars, call, back, taken, flag, work, todo, hf, elapsed>>
    BY <1>2 DEF EnterSleep
  <2>2. signal' \in BOOLEAN
    BY <1>2 DEF EnterSleep, TypeOK
  <2>3. TypeOK'
    BY <2>1, <2>2, IntervalAssumption DEF TypeOK
  <2> QED BY <1>6, <2>1, <2>3 DEF DelayIsSafe
<1>3. CASE ClearWoke
  BY <1>3, <1>6 DEF ClearWoke, TypeOK, DelayIsSafe
<1>4. CASE WakeUp
  BY <1>4, <1>6, IntervalAssumption DEF WakeUp, TypeOK, DelayIsSafe
<1> QED BY <1>1, <1>2, <1>3, <1>4

(* A timer that is set goes to a queue, not to the heap, so the sleep that *)
(* another task's call finds under way stays safe.                         *)
LEMMA UseTimerKeeps ==
  ASSUME IInv, UseTimer
  PROVE  IInv'
<1> USE DEF IInv, TypeOK, DelayIsSafe, OwedIsMerged, loopVars, wakeVars
<1>1. UNCHANGED <<platform, loopVars, wakeVars>>
  BY DEF UseTimer
<1>2. ASSUME NEW t \in Timers, CancelTimer(t) PROVE IInv'
  <2>1. -1 \in UNION {-1 .. d : d \in Delays}
    BY DelaysAssumption
  <2> QED BY <1>1, <1>2, <2>1 DEF CancelTimer
<1>3. ASSUME NEW t \in Timers, NEW d \in Delays, SetTimer(t, d) PROVE IInv'
  <2>1. d \in UNION {-1 .. e : e \in Delays}
    BY DelaysAssumption
  <2>2. Container(d) \in {"deferred", "staged"}
    BY DEF Container
  <2> QED BY <1>1, <1>3, <2>1, <2>2, BoundAssumption DEF SetTimer
<1> QED BY <1>2, <1>3 DEF UseTimer

(* A millisecond brings the end of the sleep as much nearer as any         *)
(* deadline.                                                               *)
LEMMA TickKeeps ==
  ASSUME IInv, Tick
  PROVE  IInv'
<1>1. /\ elapsed' = IF elapsed < LoopInterval THEN elapsed + 1 ELSE elapsed
      /\ asleep' = IF asleep > 0 THEN asleep - 1 ELSE asleep
      /\ left' = [t \in Timers |-> IF timer[t] \in {"staged", "heap"} /\ left[t] >= 0
                                   THEN left[t] - 1 ELSE left[t]]
      /\ UNCHANGED <<platform, wakeVars, at, taken, todo, hf, back, timer, due, added, owed, sets>>
  BY DEF Tick, Sooner
<1>2. ASSUME NEW t \in Timers PROVE left'[t] \in UNION {-1 .. d : d \in Delays}
  <2>1. PICK d \in Delays : left[t] \in -1 .. d
    BY DEF IInv, TypeOK
  <2>2. left'[t] \in -1 .. d
    BY <1>1, <2>1, DelaysAssumption
  <2> QED BY <2>2
<1>3. TypeOK'
  <2>1. left' \in [Timers -> UNION {-1 .. d : d \in Delays}]
    BY <1>1, <1>2
  <2>2. elapsed' \in 0 .. LoopInterval /\ asleep' \in 0 .. LoopInterval
    BY <1>1, IntervalAssumption DEF IInv, TypeOK
  <2> QED BY <1>1, <2>1, <2>2 DEF IInv, TypeOK, wakeVars
<1>4. DelayIsSafe'
  <2> SUFFICES ASSUME at' \in {"enter", "asleep"}
               PROVE  ~hf' /\ \A t \in Timers : timer'[t] = "heap" => asleep' <= left'[t]
    BY DEF DelayIsSafe
  <2>1. at = "asleep" /\ asleep > 0 /\ asleep \in Int
    BY <1>1, IntervalAssumption DEF Tick, InCallback, IInv, TypeOK
  <2>2. ASSUME NEW t \in Timers, timer[t] = "heap" PROVE asleep' <= left'[t]
    <3>1. asleep <= left[t] /\ left[t] \in Int
      BY <2>1, <2>2, LeftFact DEF IInv, DelayIsSafe
    <3> QED BY <1>1, <2>1, <2>2, <3>1
  <2> QED BY <1>1, <2>1, <2>2 DEF IInv, DelayIsSafe
<1> QED BY <1>1, <1>3, <1>4 DEF IInv, OwedIsMerged

LEMMA RequestKeeps ==
  ASSUME IInv, RequestHighFrequency
  PROVE  IInv'
<1>1. /\ hf' = ~hf /\ at \notin {"enter", "asleep"}
      /\ UNCHANGED <<platform, wakeVars, timerVars, at, taken, todo, back, elapsed, asleep>>
  BY DEF RequestHighFrequency, InCallback
<1>2. TypeOK'
  BY <1>1 DEF IInv, TypeOK, wakeVars, timerVars
<1>3. DelayIsSafe'
  BY <1>1 DEF DelayIsSafe
<1> QED BY <1>1, <1>2, <1>3 DEF IInv, OwedIsMerged, timerVars

LEMMA ProducerKeeps ==
  ASSUME IInv, NEW p \in Producers, Queue(p) \/ SetFlag(p) \/ Signal(p) \/ Interrupt(p)
  PROVE  IInv'
<1> USE DEF IInv, TypeOK, DelayIsSafe, OwedIsMerged, loopVars, timerVars
<1>1. CASE Queue(p)
  BY <1>1 DEF Queue
<1>2. CASE SetFlag(p)
  BY <1>2 DEF SetFlag
<1>3. CASE Signal(p)
  BY <1>3 DEF Signal
<1>4. CASE Interrupt(p)
  BY <1>4 DEF Interrupt
<1> QED BY <1>1, <1>2, <1>3, <1>4

LEMMA StepKeeps == IInv /\ [Next]_vars => IInv'
<1> SUFFICES ASSUME IInv, [Next]_vars PROVE IInv'
  OBVIOUS
<1>1. CASE LoopStep
  BY <1>1, PassKeeps, PhaseKeeps, SleepKeeps DEF LoopStep
<1>2. CASE UseTimer \/ RequestHighFrequency \/ Tick
  BY <1>2, UseTimerKeeps, RequestKeeps, TickKeeps
<1>3. CASE UNCHANGED vars
  BY <1>3 DEF vars, loopVars, wakeVars, timerVars, IInv, TypeOK, DelayIsSafe, OwedIsMerged
<1> QED BY <1>1, <1>2, <1>3, ProducerKeeps DEF Next

LEMMA InitHolds == Init => IInv
<1>1. -1 \in UNION {-1 .. d : d \in Delays}
  BY DelaysAssumption
<1> SUFFICES ASSUME Init PROVE IInv
  OBVIOUS
<1>2. left \in [Timers -> UNION {-1 .. d : d \in Delays}]
  BY <1>1 DEF Init
<1>3. elapsed \in 0 .. LoopInterval /\ asleep \in 0 .. LoopInterval /\ sets \in 0 .. MaxSets
  BY IntervalAssumption, BoundAssumption DEF Init
<1> QED BY <1>2, <1>3 DEF Init, IInv, TypeOK, DelayIsSafe, OwedIsMerged

LEMMA Invariant == Spec => []IInv
  BY InitHolds, StepKeeps, PTL DEF Spec
-----------------------------------------------------------------------------
(* Every variable keeps its type; above all the computed delay is between  *)
(* 0 and the loop interval.                                                *)
THEOREM TypeCorrect == Spec => []TypeOK
<1>1. IInv => TypeOK
  BY DEF IInv
<1> QED BY <1>1, Invariant, PTL

(* A sleep ends by the first deadline in the heap, and none is begun under *)
(* a high-frequency request, whatever timers the loop's callbacks and, on  *)
(* multi-threaded builds, other tasks set and cancel at any time.          *)
THEOREM NeverSleepsTooLong == Spec => []NeverOversleeps
<1>1. IInv => NeverOversleeps
  BY DEF IInv, DelayIsSafe, OwedIsMerged, NeverOversleeps
<1> QED BY <1>1, Invariant, PTL
-----------------------------------------------------------------------------
(* What WakeIsEnough rests on.  Under an exchange the flag or the running  *)
(* phase remembers every component with work whose producer has set it,    *)
(* and a loop that goes to sleep after that is signalled or is about to be.*)
WorkIsRemembered ==
    \A p \in Producers : work[p] /\ call[p] # "queued" => flag \/ (at = "phase" /\ p \in todo)
SleepIsCutShort ==
    at \in {"phase", "delay", "enter", "asleep"} /\ flag =>
        signal \/ \E p \in Producers : call[p] = "flagged"
NoWakeIsLost == AtomicTake => WorkIsRemembered /\ SleepIsCutShort

WakeInv == TypeOK /\ NoWakeIsLost /\ (AtomicTake => at # "take")

(* A step that gives neither flag nor signal, and does not leave the phase. *)
LEMMA QuietStepKeepsWake ==
  ASSUME NoWakeIsLost, UNCHANGED <<platform, flag, signal, call, work, todo>>,
         at' = at \/ (at # "phase" /\ at' \notin {"phase", "delay"}
                     /\ (at' \in {"enter", "asleep"} => at \in {"delay", "enter", "asleep"}))
  PROVE  NoWakeIsLost'
  BY DEF NoWakeIsLost, WorkIsRemembered, SleepIsCutShort, AtomicTake

(* The exchange at the gate: a flag that was set opens it.                  *)
LEMMA TakeKeepsWake ==
  ASSUME TypeOK, NoWakeIsLost, TakeAtomic
  PROVE  NoWakeIsLost'
<1>1. /\ at = "gate" /\ flag' = FALSE /\ AtomicTake
      /\ UNCHANGED <<platform, signal, call, work>>
      /\ flag => at' = "phase" /\ todo' = Producers
  BY DEF TakeAtomic, Decide, MainOnly
<1>2. WorkIsRemembered'
  BY <1>1 DEF NoWakeIsLost, WorkIsRemembered
<1> QED BY <1>1, <1>2 DEF NoWakeIsLost, SleepIsCutShort

LEMMA PhaseKeepsWake ==
  ASSUME TypeOK, NoWakeIsLost, EndPhase \/ \E p \in Producers : RunComponent(p)
  PROVE  NoWakeIsLost'
<1> USE DEF NoWakeIsLost, WorkIsRemembered, SleepIsCutShort, AtomicTake, MainOnly
<1>1. CASE EndPhase
  BY <1>1 DEF EndPhase
<1>2. ASSUME NEW p \in Producers, RunComponent(p) PROVE NoWakeIsLost'
  BY <1>2 DEF RunComponent, TypeOK
<1> QED BY <1>1, <1>2

(* The flag comes before the signal.                                       *)
LEMMA ProducerKeepsWake ==
  ASSUME TypeOK, NoWakeIsLost,
         NEW p \in Producers, Queue(p) \/ SetFlag(p) \/ Signal(p) \/ Interrupt(p)
  PROVE  NoWakeIsLost'
<1> USE DEF NoWakeIsLost, WorkIsRemembered, SleepIsCutShort, AtomicTake, loopVars, TypeOK
<1>1. CASE Queue(p)
  BY <1>1 DEF Queue
<1>2. CASE SetFlag(p)
  BY <1>2 DEF SetFlag
<1>3. CASE Signal(p)
  BY <1>3 DEF Signal
<1>4. CASE Interrupt(p)
  BY <1>4 DEF Interrupt, SingleThreaded
<1> QED BY <1>1, <1>2, <1>3, <1>4

(* A signal is used up only by a loop that then looks at the flag again.   *)
LEMMA SleepKeepsWake ==
  ASSUME TypeOK, NoWakeIsLost, ComputeDelay \/ EnterSleep \/ ClearWoke \/ WakeUp
  PROVE  NoWakeIsLost'
<1> USE DEF NoWakeIsLost, WorkIsRemembered, SleepIsCutShort, AtomicTake, MainOnly
<1>1. CASE ComputeDelay
  BY <1>1 DEF ComputeDelay
<1>2. CASE EnterSleep
  BY <1>2 DEF EnterSleep, WokeFlag
<1>3. CASE ClearWoke
  BY <1>3 DEF ClearWoke
<1>4. CASE WakeUp
  BY <1>4 DEF WakeUp
<1> QED BY <1>1, <1>2, <1>3, <1>4

LEMMA StepKeepsWake == IInv /\ WakeInv /\ [Next]_vars => WakeInv'
<1> SUFFICES ASSUME IInv, WakeInv, [Next]_vars PROVE WakeInv'
  OBVIOUS
<1>1. TypeOK'
  BY StepKeeps DEF IInv
<1>2. platform' = platform /\ (AtomicTake' <=> AtomicTake)
  <2> USE DEF MainOnly
  <2>1. CASE LoopStep
    BY <2>1 DEF LoopStep, StartPass, StartHeap, ReturnFromTimer, EndPass, RunTimer, TakeAtomic,
                TakeRead, TakeClear, RunComponent, EndPhase, ComputeDelay, EnterSleep, ClearWoke,
                WakeUp, AtomicTake
  <2>2. CASE UseTimer \/ RequestHighFrequency \/ Tick \/ UNCHANGED vars
    BY <2>2 DEF UseTimer, RequestHighFrequency, Tick, vars, AtomicTake
  <2>3. CASE \E p \in Producers : Queue(p) \/ SetFlag(p) \/ Signal(p) \/ Interrupt(p)
    BY <2>3 DEF Queue, SetFlag, Signal, Interrupt, AtomicTake
  <2> QED BY <2>1, <2>2, <2>3 DEF Next
<1>3. CASE ~AtomicTake
  BY <1>1, <1>2, <1>3 DEF WakeInv, NoWakeIsLost
<1>4. CASE AtomicTake
  <2> USE DEF WakeInv
  <2>1. CASE StartPass \/ StartHeap \/ ReturnFromTimer \/ EndPass \/ \E t \in Timers : RunTimer(t)
    <3>1. /\ UNCHANGED <<platform, flag, signal, call, work, todo>>
          /\ at # "phase" /\ at' \in {"defers", "heap", "gate", "callback"}
      BY <2>1 DEF StartPass, StartHeap, ReturnFromTimer, EndPass, RunTimer, wakeVars, TypeOK
    <3> QED BY <1>1, <3>1, QuietStepKeepsWake
  <2>2. CASE TakeAtomic
    <3>1. at' # "take"
      BY <2>2 DEF TakeAtomic, Decide
    <3> QED BY <1>1, <2>2, <3>1, TakeKeepsWake
  <2>3. CASE TakeRead \/ TakeClear
    BY <1>4, <2>3 DEF TakeRead, TakeClear
  <2>4. CASE EndPhase \/ \E p \in Producers : RunComponent(p)
    <3>1. at' # "take"
      BY <2>4 DEF EndPhase, RunComponent
    <3> QED BY <1>1, <2>4, <3>1, PhaseKeepsWake
  <2>5. CASE ComputeDelay \/ EnterSleep \/ ClearWoke \/ WakeUp
    <3>1. at' # "take"
      BY <2>5 DEF ComputeDelay, EnterSleep, ClearWoke, WakeUp
    <3> QED BY <1>1, <2>5, <3>1, SleepKeepsWake
  <2>6. CASE UseTimer \/ RequestHighFrequency \/ Tick \/ UNCHANGED vars
    <3>1. UNCHANGED <<platform, flag, signal, call, work, todo, at>>
      BY <2>6 DEF UseTimer, RequestHighFrequency, Tick, vars, loopVars, wakeVars
    <3> QED BY <1>1, <1>4, <3>1, QuietStepKeepsWake
  <2>7. CASE \E p \in Producers : Queue(p) \/ SetFlag(p) \/ Signal(p) \/ Interrupt(p)
    <3>1. at' = at
      BY <2>7 DEF Queue, SetFlag, Signal, Interrupt, loopVars
    <3> QED BY <1>1, <1>4, <2>7, <3>1, ProducerKeepsWake
  <2> QED BY <2>1, <2>2, <2>3, <2>4, <2>5, <2>6, <2>7 DEF Next, LoopStep
<1> QED BY <1>3, <1>4

(* On a build whose wake_request_take() is one exchange no wake-up is lost:*)
(* work whose producer has set the flag is remembered until a phase has    *)
(* run its component, and a loop that sleeps meanwhile has its signal or   *)
(* is about to get it.                                                     *)
THEOREM WakeIsNotLost == Spec => []NoWakeIsLost
<1>1. Init => WakeInv
  <2>1. Init => NoWakeIsLost /\ at # "take"
    BY DEF Init, NoWakeIsLost, WorkIsRemembered, SleepIsCutShort
  <2> QED BY <2>1, InitHolds DEF IInv, WakeInv
<1>2. WakeInv => NoWakeIsLost
  BY DEF WakeInv
<1> QED BY <1>1, <1>2, StepKeepsWake, Invariant, PTL DEF Spec
=============================================================================
