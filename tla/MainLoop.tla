------------------------------ MODULE MainLoop ------------------------------
(***************************************************************************)
(* The main loop of core/application.h: one pass of the scheduler, the     *)
(* gate of the component phase, the phase, and a sleep that another task   *)
(* or an interrupt can cut short (core/wake.h and its platform headers).   *)
(*                                                                         *)
(* Time is relative: the milliseconds since the last component phase, the  *)
(* milliseconds left to each timer and to the sleep.  A Tick passes while  *)
(* the loop sleeps or while a callback or a component's loop() runs.       *)
(* Nothing else takes time.  Of the scheduler only what the loop sees is   *)
(* kept: which timers are deferred, staged in to_add_ or in the heap, and  *)
(* which of them this pass found due (module Scheduler has the rest).      *)
(***************************************************************************)
EXTENDS Integers, FiniteSets

CONSTANTS
    Producers,     \* tasks or interrupts, each feeding one component's queue
    Timers,        \* keys of one-shot timers
    Delays,        \* the delays timers are set with, 0 among them
    Platforms,     \* the builds explored, a subset of AllPlatforms
    LoopInterval,  \* loop_interval_
    MaxSets        \* bounds how many timers are set

AllPlatforms == {"esp32", "bk72xx", "esp8266", "rp2"}
ASSUME PlatformsAssumption == Platforms \subseteq AllPlatforms
ASSUME IntervalAssumption == LoopInterval \in Nat \ {0}
ASSUME DelaysAssumption == Delays \subseteq Nat /\ 0 \in Delays
ASSUME BoundAssumption == MaxSets \in Nat

VARIABLES
    platform,  \* fixed by the build
    at,        \* where the main loop is
    flag,      \* g_wake_requested
    taken,     \* the value wake_request_take() has read
    signal,    \* the task notification, semaphore or g_main_loop_woke
    call,      \* where each producer is in its call
    work,      \* whether each component's queue holds something
    todo,      \* components the running phase has not called yet
    hf,        \* HighFrequencyLoopRequester::num_requests > 0
    timer,     \* where each timer's item is
    left,      \* milliseconds to each timer's deadline, -1 when past
    due,       \* the items this pass of the scheduler still has to run
    back,      \* the part of the pass a callback returns to
    added,     \* has_added_items
    owed,      \* timers the pass has seen in to_add_ and must merge (ghost)
    elapsed,   \* milliseconds since last_loop_, LoopInterval when more
    asleep,    \* milliseconds left to the sleep
    sets       \* timers set so far

loopVars  == <<at, taken, todo, hf, back, elapsed, asleep>>
wakeVars  == <<flag, signal, call, work>>
timerVars == <<timer, left, due, added, owed, sets>>
vars == <<platform, loopVars, wakeVars, timerVars>>

\* What the builds differ in.
AtomicTake     == platform = "esp32"                  \* std::atomic exchange
SingleThreaded == platform \in {"esp8266", "rp2"}     \* producers interrupt the loop
WokeFlag       == platform \in {"esp8266", "rp2"}     \* a flag, not a task notification

TypeOK ==
    /\ platform \in Platforms
    /\ at \in {"tick", "defers", "heap", "callback", "gate", "take", "phase", "delay",
               "enter", "clear", "asleep"}
    /\ flag \in BOOLEAN /\ taken \in BOOLEAN /\ signal \in BOOLEAN /\ hf \in BOOLEAN
    /\ call \in [Producers -> {"none", "queued", "flagged"}]
    /\ work \in [Producers -> BOOLEAN]
    /\ todo \in SUBSET Producers /\ due \in SUBSET Timers
    /\ timer \in [Timers -> {"none", "deferred", "staged", "heap", "running"}]
    /\ left \in [Timers -> UNION {-1 .. d : d \in Delays}]
    /\ back \in {"defers", "heap"} /\ added \in BOOLEAN /\ owed \subseteq Timers
    /\ elapsed \in 0 .. LoopInterval /\ asleep \in 0 .. LoopInterval
    /\ sets \in 0 .. MaxSets

Init ==
    /\ platform \in Platforms
    /\ at = "tick" /\ flag = FALSE /\ taken = FALSE /\ signal = FALSE /\ hf = FALSE
    /\ call = [p \in Producers |-> "none"] /\ work = [p \in Producers |-> FALSE]
    /\ todo = {} /\ due = {} /\ back = "heap" /\ added = FALSE /\ owed = {}
    /\ timer = [t \in Timers |-> "none"] /\ left = [t \in Timers |-> -1]
    /\ elapsed = 0 /\ asleep = 0 /\ sets = 0

-----------------------------------------------------------------------------
(* The scheduler, as the loop sees it.                                     *)

\* defer() has a queue of its own on multi-threaded builds only.
Container(d) == IF d = 0 /\ ~SingleThreaded THEN "deferred" ELSE "staged"

\* Cancel-before-add: the timer's former item will not run.
SetTimer(t, d) ==
    /\ sets < MaxSets /\ sets' = sets + 1
    /\ timer' = [timer EXCEPT ![t] = Container(d)]
    /\ left' = [left EXCEPT ![t] = d]
    /\ due' = due \ {t} /\ owed' = owed \ {t}
    /\ UNCHANGED added

CancelTimer(t) ==
    /\ timer[t] # "none"
    /\ timer' = [timer EXCEPT ![t] = "none"]
    /\ left' = [left EXCEPT ![t] = -1]
    /\ due' = due \ {t} /\ owed' = owed \ {t}
    /\ UNCHANGED <<added, sets>>

Merged == [t \in Timers |-> IF timer[t] = "staged" THEN "heap" ELSE timer[t]]

StartPass ==
    /\ at = "tick" /\ at' = "defers"
    /\ due' = {t \in Timers : timer[t] = "deferred"}
    /\ UNCHANGED <<platform, wakeVars, taken, todo, hf, back, elapsed, asleep,
                   timer, left, added, owed, sets>>

\* Mutant: staged timers are left to the merge at the end of a pass.
StartHeap_NoMerge ==
    /\ at = "defers" /\ due = {} /\ at' = "heap"
    /\ due' = {t \in Timers : timer[t] = "heap" /\ left[t] <= 0}
    /\ added' = FALSE /\ owed' = {}
    /\ UNCHANGED <<platform, wakeVars, taken, todo, hf, back, elapsed, asleep,
                   timer, left, sets>>

\* process_to_add(), then the items due by the time the pass started with.
StartHeap ==
    /\ at = "defers" /\ due = {} /\ at' = "heap"
    /\ timer' = Merged
    /\ due' = {t \in Timers : timer'[t] = "heap" /\ left[t] <= 0}
    /\ added' = FALSE /\ owed' = {}
    /\ UNCHANGED <<platform, wakeVars, taken, todo, hf, back, elapsed, asleep, left, sets>>

RunTimer(t) ==
    /\ at \in {"defers", "heap"} /\ t \in due
    /\ at' = "callback" /\ back' = at
    /\ timer' = [timer EXCEPT ![t] = "running"]
    /\ due' = due \ {t} /\ owed' = owed \ {t}
    /\ UNCHANGED <<platform, wakeVars, taken, todo, hf, elapsed, asleep, left, added, sets>>

\* Mutant: what the callback has staged goes unnoticed.
ReturnFromTimer_Unnoticed ==
    LET done   == {t \in Timers : timer[t] = "running"}
        staged == {t \in Timers : timer[t] = "staged"}
    IN /\ at = "callback" /\ at' = back
       /\ timer' = [t \in Timers |-> IF t \in done THEN "none" ELSE timer[t]]
       /\ left' = [t \in Timers |-> IF t \in done THEN -1 ELSE left[t]]
       /\ owed' = IF back = "heap" /\ done # {} THEN owed \cup staged ELSE owed
       /\ UNCHANGED <<platform, wakeVars, taken, todo, hf, back, elapsed, asleep, due, added,
                      sets>>

\* An item cancelled or replaced while its callback ran is dropped without
\* a look at to_add_.
ReturnFromTimer ==
    LET done   == {t \in Timers : timer[t] = "running"}
        staged == {t \in Timers : timer[t] = "staged"}
    IN /\ at = "callback" /\ at' = back
       /\ timer' = [t \in Timers |-> IF t \in done THEN "none" ELSE timer[t]]
       /\ left' = [t \in Timers |-> IF t \in done THEN -1 ELSE left[t]]
       /\ added' = (added \/ (back = "heap" /\ done # {} /\ staged # {}))
       /\ owed' = IF back = "heap" /\ done # {} THEN owed \cup staged ELSE owed
       /\ UNCHANGED <<platform, wakeVars, taken, todo, hf, back, elapsed, asleep, due, sets>>

EndPass ==
    /\ at = "heap" /\ due = {} /\ at' = "gate"
    /\ timer' = IF added THEN Merged ELSE timer
    /\ owed' = {t \in owed : timer'[t] = "staged"}
    /\ UNCHANGED <<platform, wakeVars, taken, todo, hf, back, elapsed, asleep,
                   left, due, added, sets>>

\* Mutant: only the queues are looked at, the heap is left to the loop interval.
NextScheduleIn_OnlyQueues ==
    IF \E t \in Timers : timer[t] = (IF SingleThreaded THEN "staged" ELSE "deferred")
    THEN {0} ELSE {}

\* next_schedule_in(): none, 0 or the time to the heap's first deadline.
NextScheduleIn ==
    LET heap == {t \in Timers : timer[t] = "heap"}
        now  == IF SingleThreaded THEN "staged" ELSE "deferred"
    IN IF \E t \in Timers : timer[t] = now THEN {0}
       ELSE {IF left[t] < 0 THEN 0 ELSE left[t] :
                 t \in {h \in heap : \A k \in heap : left[h] <= left[k]}}

-----------------------------------------------------------------------------
(* The loop.                                                               *)

MainOnly == UNCHANGED <<platform, timerVars, call, back>>

Decide(requested) ==
    IF requested \/ hf \/ elapsed >= LoopInterval
    THEN at' = "phase" /\ todo' = Producers
    ELSE at' = "delay" /\ UNCHANGED todo

\* wake_request_take() as one exchange, and the gate.
TakeAtomic ==
    /\ at = "gate" /\ AtomicTake
    /\ flag' = FALSE /\ Decide(flag)
    /\ MainOnly /\ UNCHANGED <<taken, signal, work, hf, elapsed, asleep>>

\* wake_request_take() as a load and a store.
TakeRead ==
    /\ at = "gate" /\ ~AtomicTake
    /\ taken' = flag /\ at' = "take"
    /\ MainOnly /\ UNCHANGED <<flag, signal, work, todo, hf, elapsed, asleep>>

TakeClear ==
    /\ at = "take"
    /\ flag' = FALSE /\ Decide(taken)
    /\ taken' = FALSE
    /\ MainOnly /\ UNCHANGED <<signal, work, hf, elapsed, asleep>>

\* A component's loop() drains its queue.
RunComponent(p) ==
    /\ at = "phase" /\ p \in todo
    /\ todo' = todo \ {p}
    /\ work' = [work EXCEPT ![p] = FALSE]
    /\ MainOnly /\ UNCHANGED <<at, taken, flag, signal, hf, elapsed, asleep>>
EndPhase ==
    /\ at = "phase" /\ todo = {}
    /\ at' = "delay" /\ elapsed' = 0
    /\ MainOnly /\ UNCHANGED <<taken, flag, signal, work, todo, hf, asleep>>

\* Mutant: the component phase is let come one millisecond late.
DelayTime_OneMore ==
    IF hf THEN 0
    ELSE LET until == LoopInterval - elapsed + 1
         IN CHOOSE d \in 0 .. until :
                /\ d = until \/ d \in NextScheduleIn
                /\ \A s \in NextScheduleIn : d <= s

DelayTime ==
    IF hf THEN 0
    ELSE LET until == LoopInterval - elapsed
         IN CHOOSE d \in 0 .. until :
                /\ d = until \/ d \in NextScheduleIn
                /\ \A s \in NextScheduleIn : d <= s

\* wakeable_delay(0) yields and leaves the signal as it is.
ComputeDelay ==
    /\ at = "delay"
    /\ asleep' = DelayTime
    /\ at' = IF DelayTime = 0 THEN "tick" ELSE "enter"
    /\ MainOnly /\ UNCHANGED <<taken, flag, signal, work, todo, hf, elapsed>>

\* Mutant: an old notification is dropped before the loop blocks.
EnterSleep_DropsOld ==
    /\ at = "enter" /\ at' = "asleep" /\ signal' = FALSE
    /\ MainOnly /\ UNCHANGED <<taken, flag, work, todo, hf, elapsed, asleep>>

\* A notification given before the take makes it return at once.  The woke
\* flag is first read and then cleared.
EnterSleep ==
    /\ at = "enter"
    /\ IF ~signal THEN at' = "asleep" /\ UNCHANGED <<signal, asleep>>
       ELSE IF WokeFlag THEN at' = "clear" /\ UNCHANGED signal /\ asleep' = 0
       ELSE at' = "tick" /\ signal' = FALSE /\ asleep' = 0
    /\ MainOnly /\ UNCHANGED <<taken, flag, work, todo, hf, elapsed>>

ClearWoke ==
    /\ at = "clear" /\ at' = "tick" /\ signal' = FALSE
    /\ MainOnly /\ UNCHANGED <<taken, flag, work, todo, hf, elapsed, asleep>>

\* The sleep ends on the signal or on time.  The rp2 clears its flag
\* afterwards, the esp8266 leaves it set, a notification is consumed.  That
\* the rp2 finds no alarm to set, and delays instead, is left out.
WakeUp ==
    /\ at = "asleep" /\ (signal \/ asleep = 0)
    /\ at' = IF platform = "rp2" THEN "clear" ELSE "tick"
    /\ signal' = (WokeFlag /\ signal)
    /\ asleep' = 0
    /\ MainOnly /\ UNCHANGED <<taken, flag, work, todo, hf, elapsed>>

-----------------------------------------------------------------------------
(* What components, callbacks, tasks and interrupts do.                    *)

InCallback == at = "callback" \/ (at = "phase" /\ todo # {})

\* set_timeout() and cancel_timeout() from a callback or a loop(), and on
\* multi-threaded builds from any task at any time.
UseTimer ==
    /\ InCallback \/ ~SingleThreaded
    /\ \E t \in Timers : CancelTimer(t) \/ \E d \in Delays : SetTimer(t, d)
    /\ UNCHANGED <<platform, loopVars, wakeVars>>

\* HighFrequencyLoopRequester::start() and stop().
RequestHighFrequency ==
    /\ InCallback /\ hf' = ~hf
    /\ UNCHANGED <<platform, wakeVars, timerVars, at, taken, todo, back, elapsed, asleep>>
\* Mutant: a loop that is not asleep is not signalled.
Signal_OnlyIfAsleep(p) ==
    /\ call[p] = "flagged"
    /\ signal' = (signal \/ at = "asleep") /\ call' = [call EXCEPT ![p] = "none"]
    /\ UNCHANGED <<platform, loopVars, timerVars, flag, work>>

\* A task queues its data, then calls wake_loop_threadsafe(): the flag first,
\* the signal after it.
Queue(p) ==
    /\ ~SingleThreaded /\ call[p] = "none"
    /\ work' = [work EXCEPT ![p] = TRUE] /\ call' = [call EXCEPT ![p] = "queued"]
    /\ UNCHANGED <<platform, loopVars, timerVars, flag, signal>>

SetFlag(p) ==
    /\ call[p] = "queued"
    /\ flag' = TRUE /\ call' = [call EXCEPT ![p] = "flagged"]
    /\ UNCHANGED <<platform, loopVars, timerVars, signal, work>>

Signal(p) ==
    /\ call[p] = "flagged"
    /\ signal' = TRUE /\ call' = [call EXCEPT ![p] = "none"]
    /\ UNCHANGED <<platform, loopVars, timerVars, flag, work>>

\* An interrupt of a single-threaded build runs to its end between two steps
\* of the loop.
Interrupt(p) ==
    /\ SingleThreaded
    /\ work' = [work EXCEPT ![p] = TRUE] /\ flag' = TRUE /\ signal' = TRUE
    /\ UNCHANGED <<platform, loopVars, timerVars, call>>

Sooner(n) == IF n > 0 THEN n - 1 ELSE n

Tick ==
    /\ InCallback \/ (at = "asleep" /\ asleep > 0)
    /\ elapsed' = IF elapsed < LoopInterval THEN elapsed + 1 ELSE elapsed
    /\ asleep' = Sooner(asleep)
    /\ left' = [t \in Timers |-> IF timer[t] \in {"staged", "heap"} /\ left[t] >= 0
                                 THEN left[t] - 1 ELSE left[t]]
    /\ UNCHANGED <<platform, wakeVars, at, taken, todo, hf, back, timer, due, added,
                   owed, sets>>

LoopStep ==
    \/ StartPass \/ StartHeap \/ ReturnFromTimer \/ EndPass
    \/ \E t \in Timers : RunTimer(t)
    \/ TakeAtomic \/ TakeRead \/ TakeClear
    \/ \E p \in Producers : RunComponent(p)
    \/ EndPhase \/ ComputeDelay \/ EnterSleep \/ ClearWoke \/ WakeUp

Next ==
    \/ LoopStep \/ UseTimer \/ RequestHighFrequency \/ Tick
    \/ \E p \in Producers : Queue(p) \/ SetFlag(p) \/ Signal(p) \/ Interrupt(p)

Spec == Init /\ [][Next]_vars

\* The main task keeps running, and a call that has begun ends.  Time is
\* left out: a sleep may last for ever unless something ends it.
FairSpec ==
    /\ Spec /\ WF_vars(LoopStep)
    /\ \A p \in Producers : WF_vars(SetFlag(p)) /\ WF_vars(Signal(p))

-----------------------------------------------------------------------------
(* Properties.                                                             *)

\* A sleep ends by the deadline of every timer in the heap, whatever was set,
\* replaced or cancelled since the scheduler's pass began, and of every timer that a
\* callback of the pass has set and the pass has seen in to_add_ (scheduler.cpp:558-563);
\* and the loop does not sleep at all on a high-frequency request, made in a component's
\* loop() of the same pass above all (application.h:786-806).
NeverOversleeps ==
    at = "asleep" =>
        /\ ~hf
        /\ \A t \in Timers : timer[t] = "heap" \/ t \in owed => asleep <= left[t]

\* Under an exchange work whose producer has called wake_loop_threadsafe() is
\* drained without any time having to pass: the wake-up alone ends the sleep and
\* opens the gate.
WakeIsEnough ==
    \A p \in Producers : AtomicTake /\ work[p] /\ call[p] = "none" ~> ~work[p]

\* As long as time passes every timer is run, unless it is cancelled: none is left in
\* to_add_ or the defer queue by a pass that had another reason to end.
TimersComeUp ==
    []<><<Tick>>_vars => \A t \in Timers : timer[t] # "none" ~> timer[t] \in {"running", "none"}

=============================================================================
