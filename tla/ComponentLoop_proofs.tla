------------------------ MODULE ComponentLoop_proofs ------------------------
(***************************************************************************)
(* Proofs about ComponentLoop, for every number of components, whichever   *)
(* of them may fail, be reset or be asked for, and every MaxOps.           *)
(***************************************************************************)
EXTENDS ComponentLoop, TLAPS

(* Every component has a place in f, and only one.                         *)
Onto(f) == \A c \in Components : \E s \in Slots : f[s] = c
OneToOne(f) == \A s, t \in Slots : f[s] = f[t] => s = t

(* looping_components_ holds every component once, and the two indices     *)
(* have their ranges.                                                      *)
ArrayInv == /\ looping \in [Slots -> Components]
            /\ Onto(looping) /\ OneToOne(looping)
            /\ active_end \in 0 .. N
            /\ index \in 0 .. IndexRange - 1

(* Where the main loop can be with which locals.                           *)
MainInv == /\ main.pc \in {"setup", "proceed", "wait"} => ~ SetUp
           /\ At("phase") => SetUp
           /\ At("setup") => main.j = 0
           /\ main.pc \in {"idle", "scan", "wait"} /\ ~ SetUp => main.j >= 1
           /\ At("body") /\ ~ SetUp => main.j <= main.i
           /\ At("body") => main.running \in Components
           /\ ~ At("body") => main.running = None

(* A failed component is remembered as one.                                *)
FailedRemembered == \A c \in Components : state[c] = "failed" => c \in failed_once

(* The scan is in the inactive part.                                       *)
ScanIsInactive == At("scan") => active_end <= main.scan

(* What is asked of the component that runs is still to be processed.      *)
RunningIsAsked ==
  \A c \in owed : c = main.running =>
    pending[c] /\ (has_pending \/ c \in requesting)

(* The inductive invariant.                                                *)
IInv == /\ TypeOK /\ ArrayInv /\ MainInv
        /\ ScanIsInactive /\ FailedRemembered /\ RunningIsAsked
        /\ PartitionMatchesState /\ NoLostRequest
-----------------------------------------------------------------------------
(* The components in the order of setup().                                 *)
LEMMA OrderFact == \A n \in 1 .. N : Order[n] \in Components
  BY OrderAssumption DEF N

LEMMA PositionFact == \A c \in Components : Position(c) \in Int
<1> TAKE c \in Components
<1>1. DOMAIN Order = 1 .. N
  BY OrderAssumption DEF N
<1>2. \E n \in DOMAIN Order : Order[n] = c
  BY DEF Components
<1>3. Position(c) \in DOMAIN Order
  BY <1>2 DEF Position
<1> QED BY <1>1, <1>3, OrderAssumption

(* SlotOf finds the one slot of a component.                               *)
LEMMA SlotOfFact ==
  ASSUME ArrayInv, NEW c \in Components
  PROVE  /\ SlotOf(c) \in Slots
         /\ looping[SlotOf(c)] = c
         /\ c \in Active <=> SlotOf(c) < active_end
<1>1. \E s \in Slots : looping[s] = c
  BY DEF ArrayInv, Onto
<1>2. SlotOf(c) \in Slots /\ looping[SlotOf(c)] = c
  BY <1>1 DEF SlotOf
<1>3. c \in Active <=> SlotOf(c) < active_end
  <2>1. ASSUME NEW s \in 0 .. active_end - 1, looping[s] = c
        PROVE  SlotOf(c) < active_end
    <3>1. s \in Slots
      BY OrderAssumption DEF ArrayInv, Slots
    <3>2. SlotOf(c) = s
      BY <1>2, <2>1, <3>1 DEF ArrayInv, OneToOne
    <3> QED BY <3>2, OrderAssumption DEF ArrayInv
  <2>2. ASSUME SlotOf(c) < active_end PROVE SlotOf(c) \in 0 .. active_end - 1
    BY <1>2, <2>2, OrderAssumption DEF ArrayInv, Slots
  <2> QED BY <1>2, <2>1, <2>2 DEF Active
<1> QED BY <1>2, <1>3

(* Exchanging two places keeps every component in one place.               *)
LEMMA SwapFact ==
  ASSUME NEW f \in [Slots -> Components], Onto(f), OneToOne(f),
         NEW s \in Slots, NEW t \in Slots,
         NEW g, g = [f EXCEPT ![s] = f[t], ![t] = f[s]]
  PROVE  /\ g \in [Slots -> Components]
         /\ Onto(g) /\ OneToOne(g)
         /\ g[s] = f[t] /\ g[t] = f[s]
         /\ \A u \in Slots \ {s, t} : g[u] = f[u]
<1>1. /\ g \in [Slots -> Components]
      /\ g[s] = f[t] /\ g[t] = f[s]
      /\ \A u \in Slots \ {s, t} : g[u] = f[u]
  OBVIOUS
<1>2. ASSUME NEW c \in Components PROVE \E u \in Slots : g[u] = c
  <2>1. PICK u \in Slots : f[u] = c
    BY DEF Onto
  <2>2. CASE u = s
    BY <1>1, <2>1, <2>2
  <2>3. CASE u = t
    BY <1>1, <2>1, <2>3
  <2>4. CASE u \notin {s, t}
    BY <1>1, <2>1, <2>4
  <2> QED BY <2>2, <2>3, <2>4
<1>3. ASSUME NEW u \in Slots, NEW v \in Slots, g[u] = g[v] PROVE u = v
  BY <1>1, <1>3 DEF OneToOne
<1> QED BY <1>1, <1>2, <1>3 DEF Onto, OneToOne

(* The indices are numbers modulo IndexRange.                              *)
LEMMA RangeFact == /\ IndexRange \in Nat \ {0}
                   /\ \A i \in Int : i % IndexRange \in 0 .. IndexRange - 1
<1>1. IndexRange \in Nat \ {0}
  BY DEF IndexRange
<1>2. \A i \in Int : i % IndexRange \in 0 .. IndexRange - 1
  <2>1. PICK R : R = IndexRange
    OBVIOUS
  <2>2. SUFFICES ASSUME NEW i \in Int PROVE i % R \in 0 .. R - 1
    BY <2>1
  <2> QED BY <1>1, <2>1
<1> QED BY <1>1, <1>2

(* Disabling a component takes it, and no other, out of the active part.   *)
LEMMA DisableEffect ==
  ASSUME ArrayInv, NEW c \in Components, DisableComponentLoop(c)
  PROVE  ArrayInv' /\ Active' = Active \ {c} /\ active_end' <= active_end
<1>1. CASE c \notin Active
  BY <1>1, OrderAssumption DEF DisableComponentLoop, partition, ArrayInv, Active
<1>2. CASE c \in Active
  <2> DEFINE s == SlotOf(c)
             last == active_end - 1
  <2>1. /\ s \in Slots /\ looping[s] = c /\ s <= last /\ last \in Slots
        /\ active_end \in Nat /\ N \in Nat
    BY <1>2, SlotOfFact, OrderAssumption DEF ArrayInv, Slots
  <2>2. /\ looping' = Swapped(s, last) /\ active_end' = last
        /\ index' = index \/ index' = (index - 1) % IndexRange
    BY <1>2 DEF DisableComponentLoop
  <2>3. /\ looping' \in [Slots -> Components]
        /\ Onto(looping') /\ OneToOne(looping')
        /\ looping'[s] = looping[last] /\ looping'[last] = looping[s]
        /\ \A u \in Slots \ {s, last} : looping'[u] = looping[u]
    <3> HIDE DEF s, last
    <3>1. looping' = [looping EXCEPT ![s] = looping[last], ![last] = looping[s]]
      BY <2>2 DEF Swapped
    <3> QED BY <2>1, <3>1, SwapFact DEF ArrayInv
  <2> HIDE DEF s
  <2>4. index' \in 0 .. IndexRange - 1
    <3>1. index \in 0 .. IndexRange - 1 /\ index - 1 \in Int
      BY RangeFact DEF ArrayInv
    <3> QED BY <2>2, <3>1, RangeFact
  <2>5. ArrayInv'
    <3>1. active_end' \in 0 .. N
      BY <2>1, <2>2 DEF Slots
    <3> QED BY <2>3, <2>4, <3>1 DEF ArrayInv
  <2>6. ASSUME NEW u \in 0 .. last - 1
        PROVE  looping'[u] \in Active /\ looping'[u] # c
    <3>1. u \in Slots /\ u # last /\ u \in 0 .. active_end - 1
      BY <2>1, OrderAssumption DEF Slots
    <3>2. CASE u = s
      <4>1. last \in 0 .. active_end - 1 /\ looping[last] # c
        BY <2>1, <3>1, <3>2 DEF ArrayInv, OneToOne
      <4> QED BY <2>3, <3>2, <4>1 DEF Active
    <3>3. CASE u # s
      <4>1. looping[u] # c
        BY <2>1, <3>1, <3>3 DEF ArrayInv, OneToOne
      <4> QED BY <2>3, <3>1, <3>3, <4>1 DEF Active
    <3> QED BY <3>2, <3>3
  <2>7. ASSUME NEW u \in 0 .. active_end - 1, looping[u] # c
        PROVE  \E v \in 0 .. last - 1 : looping'[v] = looping[u]
    <3>1. u \in Slots /\ u # s
      BY <2>1, <2>7 DEF Slots
    <3>2. CASE u = last
      <4>1. s \in 0 .. last - 1
        BY <2>1, <3>1, <3>2 DEF Slots
      <4> QED BY <2>3, <3>2, <4>1
    <3>3. CASE u # last
      <4>1. u \in 0 .. last - 1
        BY <2>1, <3>3
      <4> QED BY <2>3, <3>1, <3>3, <4>1
    <3> QED BY <3>2, <3>3
  <2>8. Active' = {looping'[u] : u \in 0 .. last - 1}
    BY <2>2 DEF Active
  <2>9. Active' \subseteq Active \ {c}
    BY <2>6, <2>8
  <2>10. ASSUME NEW d \in Active, d # c PROVE d \in Active'
    <3>1. PICK u \in 0 .. active_end - 1 : looping[u] = d
      BY DEF Active
    <3> QED BY <2>7, <2>8, <2>10, <3>1
  <2>11. Active' = Active \ {c}
    BY <2>9, <2>10
  <2> QED BY <2>1, <2>2, <2>5, <2>11
<1> QED BY <1>1, <1>2

(* Activating an inactive slot puts its component into the active part, and*)
(* leaves the slots behind it alone.                                       *)
LEMMA ActivateEffect ==
  ASSUME ArrayInv, NEW s \in Slots, active_end <= s, Activate(s)
  PROVE  /\ ArrayInv'
         /\ Active' = Active \cup {looping[s]}
         /\ active_end' = active_end + 1
         /\ \A u \in Slots : u > s => looping'[u] = looping[u]
<1> DEFINE e == active_end
<1>1. /\ e \in Slots /\ e \in Nat /\ N \in Nat /\ s < N
      /\ looping' = Swapped(s, e) /\ active_end' = e + 1
      /\ index' = index
  BY OrderAssumption DEF ArrayInv, Slots, Activate
<1>2. /\ looping' \in [Slots -> Components]
      /\ Onto(looping') /\ OneToOne(looping')
      /\ looping'[s] = looping[e] /\ looping'[e] = looping[s]
      /\ \A u \in Slots \ {s, e} : looping'[u] = looping[u]
  <2> HIDE DEF e
  <2>1. looping' = [looping EXCEPT ![s] = looping[e], ![e] = looping[s]]
    BY <1>1 DEF Swapped
  <2>2. looping \in [Slots -> Components] /\ Onto(looping) /\ OneToOne(looping)
    BY DEF ArrayInv
  <2>3. e \in Slots
    BY <1>1
  <2> QED BY <2>1, <2>2, <2>3, SwapFact
<1>3. ArrayInv'
  BY <1>1, <1>2 DEF ArrayInv, Slots
<1>4. \A u \in 0 .. e - 1 : looping'[u] = looping[u]
  BY <1>1, <1>2 DEF Slots
<1>5. Active' = {looping'[u] : u \in 0 .. e}
  BY <1>1 DEF Active
<1>6. ASSUME NEW u \in 0 .. e
      PROVE  looping'[u] \in Active \cup {looping[s]}
  <2>1. CASE u = e
    BY <1>2, <2>1
  <2>2. CASE u # e
    <3>1. u \in 0 .. e - 1
      BY <1>1, <2>2
    <3> QED BY <1>4, <3>1 DEF Active
  <2> QED BY <2>1, <2>2
<1>7. ASSUME NEW u \in 0 .. e - 1
      PROVE  looping[u] \in Active'
  <2>1. u \in 0 .. e
    BY <1>1
  <2> QED BY <1>4, <1>5, <2>1
<1>8. looping[s] \in Active'
  BY <1>1, <1>2, <1>5
<1>9. Active' = Active \cup {looping[s]}
  <2>1. Active' \subseteq Active \cup {looping[s]}
    BY <1>5, <1>6
  <2>2. Active \subseteq Active'
    BY <1>7 DEF Active
  <2> QED BY <1>8, <2>1, <2>2
<1>10. \A u \in Slots : u > s => looping'[u] = looping[u]
  BY <1>1, <1>2 DEF Slots
<1> QED BY <1>1, <1>3, <1>9, <1>10
-----------------------------------------------------------------------------
LEMMA NFact == N \in Nat /\ N >= 1 /\ Slots = 0 .. N - 1
  BY OrderAssumption, RangeFact DEF Slots

(* The lists of setup() that Init starts from.                             *)
LEMMA ArrangementFact ==
  ASSUME NEW early \in SUBSET Components, NEW f \in Arrangements(early)
  PROVE  f \in [Slots -> Components] /\ Onto(f) /\ OneToOne(f)
<1>1. f \in [Slots -> Components] /\ Onto(f)
  BY DEF Arrangements, Onto
<1>2. ASSUME NEW s \in Slots, NEW t \in Slots, s < t PROVE f[s] # f[t]
  <2>1. (f[s] \in early <=> f[t] \in early) => Position(f[s]) < Position(f[t])
    BY <1>2 DEF Arrangements
  <2>2. f[s] \in Components
    BY <1>1
  <2>3. ASSUME f[s] = f[t] PROVE FALSE
    <3>1. Position(f[s]) < Position(f[t]) /\ Position(f[s]) = Position(f[t])
      BY <2>1, <2>3
    <3>2. Position(f[s]) \in Int
      BY <2>2, PositionFact
    <3> QED BY <3>1, <3>2
  <2> QED BY <2>3
<1>3. \A s, t \in Slots : s < t \/ t < s \/ s = t
  BY NFact
<1> QED BY <1>1, <1>2, <1>3 DEF OneToOne

LEMMA InitKeeps == Init => IInv
<1> SUFFICES ASSUME Init PROVE IInv
  OBVIOUS
<1>1. PICK early \in SUBSET Components :
        /\ looping \in Arrangements(early)
        /\ active_end \in {e \in 0 .. N : \A s \in Slots :
                                          s < e <=> looping[s] \notin early}
        /\ state = [c \in Components |-> IF c \in early THEN "loop_done"
                                                       ELSE "construction"]
  BY DEF Init
<1>2. ArrayInv
  <2>1. looping \in [Slots -> Components] /\ Onto(looping) /\ OneToOne(looping)
    BY <1>1, ArrangementFact
  <2> QED BY <1>1, <2>1, RangeFact DEF Init, ArrayInv
<1>3. TypeOK
  <2>1. main \in MainRecord
    BY NFact, UseAssumption DEF Init, MainRecord
  <2>2. state \in [Components -> States]
    BY <1>1 DEF States
  <2> QED BY <1>2, <2>1, <2>2 DEF Init, TypeOK, ArrayInv, Onto
<1>4. MainInv /\ ScanIsInactive
  BY NFact DEF Init, MainInv, ScanIsInactive, SetUp, At
<1>5. FailedRemembered
  BY <1>1 DEF FailedRemembered
<1>6. PartitionMatchesState
  <2>1. ASSUME NEW c \in Components PROVE c \in Active <=> c \notin early
    <3>1. /\ SlotOf(c) \in Slots /\ looping[SlotOf(c)] = c
          /\ c \in Active <=> SlotOf(c) < active_end
      BY <1>2, SlotOfFact
    <3> QED BY <1>1, <3>1
  <2> QED BY <1>1, <2>1 DEF PartitionMatchesState, Runnable
<1>7. RunningIsAsked /\ NoLostRequest
  BY DEF Init, RunningIsAsked, NoLostRequest
<1> QED BY <1>2, <1>3, <1>4, <1>5, <1>6, <1>7 DEF IInv
-----------------------------------------------------------------------------
(* A step of the main loop that leaves the partition, what has been asked  *)
(* and what can run alone: most of them.                                   *)
LEMMA QuietStepKeeps ==
  ASSUME IInv,
         UNCHANGED << looping, active_end, pending, requesting, failed_once >>,
         index' \in 0 .. IndexRange - 1, in_loop' \in BOOLEAN,
         has_pending' \in BOOLEAN, has_pending => has_pending',
         state' \in [Components -> States],
         \A c \in Components :
           /\ state'[c] \in Runnable <=> state[c] \in Runnable
           /\ state'[c] \in {"failed", "loop_done"} => state'[c] = state[c],
         main' \in MainRecord, MainInv',
         At("scan") => main.scan = N, main'.pc # "scan",
         main'.running \in {main.running, None} \/ main'.running \notin owed',
         owed' \subseteq owed, due' \subseteq Components, extra' \subseteq Components
  PROVE  IInv'
<1>1. ArrayInv'
  BY DEF IInv, ArrayInv
<1>2. TypeOK'
  <2>1. TypeOK /\ ArrayInv
    BY DEF IInv
  <2> QED BY <1>1, <2>1 DEF TypeOK, ArrayInv, Onto
<1>3. ScanIsInactive'
  BY DEF ScanIsInactive, At
<1>4. FailedRemembered'
  BY DEF IInv, FailedRemembered
<1>5. Active' = Active
  BY DEF Active
<1>6. PartitionMatchesState'
  BY <1>5 DEF IInv, PartitionMatchesState
<1>7. RunningIsAsked'
  <2>1. RunningIsAsked /\ TypeOK
    BY DEF IInv
  <2> QED BY <2>1, NoneAssumption DEF RunningIsAsked, TypeOK
<1>8. NoLostRequest'
  <2>1. ASSUME NEW c \in owed', state'[c] = "loop_done"
        PROVE  /\ pending[c]
               /\ has_pending \/ c \in requesting
    <3>1. c \in owed /\ c \in Components /\ state[c] = "loop_done"
      BY <2>1 DEF IInv, TypeOK
    <3>2. ~ (At("scan") /\ \E s \in main.scan .. N - 1 : looping[s] = c)
      BY NFact
    <3> QED BY <3>1, <3>2 DEF IInv, NoLostRequest
  <2> QED BY <2>1 DEF NoLostRequest
<1> QED BY <1>1, <1>2, <1>3, <1>4, <1>6, <1>7, <1>8 DEF IInv

(* What the main loop's locals are made of.                                *)
LEMMA MainFact ==
  ASSUME main \in MainRecord
  PROVE  /\ main.pc \in {"setup", "proceed", "idle", "scan", "wait", "phase", "body"}
         /\ main.i \in 1 .. N + 1 /\ main.j \in 0 .. N + 1
         /\ main.running \in Components \cup {None}
         /\ main.ops \in 0 .. MaxOps /\ main.scan \in 0 .. N
         /\ main.found \in BOOLEAN
  BY DEF MainRecord

(* Component::call() in setup() or in its busy-wait.                       *)
LEMMA CallRunsKeeps ==
  ASSUME IInv, NEW c \in Components, CallRuns(c),
         ~ At("scan"), ~ SetUp, main.j <= main.i
  PROVE  IInv'
<1>1. TypeOK /\ main \in MainRecord
  BY DEF IInv, TypeOK
<1>2. main' = [main EXCEPT !.pc = "body", !.running = c, !.ops = 0]
  BY DEF CallRuns, Enters
<1>3. main' \in MainRecord
  <2>1. 0 \in 0 .. MaxOps
    BY UseAssumption
  <2> QED BY <1>1, <1>2, <2>1 DEF MainRecord
<1>4. /\ main'.pc = "body" /\ main'.running = c
      /\ main'.i = main.i /\ main'.j = main.j
  BY <1>1, <1>2 DEF MainRecord
<1>5. MainInv'
  BY <1>4 DEF MainInv, SetUp, At
<1>6. /\ state' \in [Components -> States]
      /\ \A d \in Components :
           /\ state'[d] \in Runnable <=> state[d] \in Runnable
           /\ state'[d] \in {"failed", "loop_done"} => state'[d] = state[d]
  BY <1>1 DEF CallRuns, StateIs, TypeOK, States, Runnable
<1>7. /\ owed' = owed \ {c} /\ UNCHANGED << due, extra, in_loop, has_pending, index >>
      /\ UNCHANGED << looping, active_end, pending, requesting, failed_once >>
  BY DEF CallRuns, Enters, partition, flags
<1>8. ArrayInv
  BY DEF IInv
<1> QED BY <1>1, <1>3, <1>4, <1>5, <1>6, <1>7, <1>8, QuietStepKeeps DEF TypeOK, ArrayInv

(* The other steps of the main loop leave the component states alone, but  *)
(* for the last of setup().                                                *)
LEMMA PassingStepKeeps ==
  ASSUME IInv,
         UNCHANGED << looping, active_end, pending, requesting, failed_once >>,
         UNCHANGED << state, owed >>,
         index' \in 0 .. IndexRange - 1, in_loop' \in BOOLEAN,
         has_pending' \in BOOLEAN, has_pending => has_pending',
         main' \in MainRecord, MainInv',
         At("scan") => main.scan = N, main'.pc # "scan",
         main'.running \in {main.running, None},
         due' \subseteq Components, extra' \subseteq Components
  PROVE  IInv'
<1>1. state' \in [Components -> States]
  BY DEF IInv, TypeOK
<1> QED BY <1>1, QuietStepKeeps

LEMMA SetupCallKeeps == IInv /\ SetupCall => IInv'
<1> SUFFICES ASSUME IInv, SetupCall PROVE IInv'
  OBVIOUS
<1> DEFINE c == Order[main.i]
<1>1. /\ TypeOK /\ ArrayInv /\ MainInv /\ main \in MainRecord /\ At("setup")
      /\ ~ At("scan")
  BY DEF IInv, TypeOK, SetupCall, At
<1>2. ~ SetUp /\ main.j = 0 /\ main.running = None /\ main.i \in 1 .. N
  BY <1>1, MainFact, NFact DEF MainInv, At, SetUp
<1>3. c \in Components
  BY <1>2, OrderFact
<1>4. CASE CallRuns(c)
  BY <1>1, <1>2, <1>3, <1>4, CallRunsKeeps
<1>5. CASE CallSkips(c, [main EXCEPT !.pc = "proceed"])
  <2>1. main' = [main EXCEPT !.pc = "proceed"]
    BY <1>5 DEF CallSkips
  <2>2. main' \in MainRecord
    BY <1>1, <2>1 DEF MainRecord
  <2>3. /\ main'.pc = "proceed" /\ main'.running = main.running
        /\ main'.i = main.i /\ main'.j = main.j
    BY <1>1, <2>1 DEF MainRecord
  <2>4. MainInv'
    BY <1>2, <2>3 DEF MainInv, At, SetUp
  <2> QED BY <1>1, <1>5, <2>2, <2>3, <2>4, PassingStepKeeps
       DEF CallSkips, partition, flags, ghosts, TypeOK, ArrayInv
<1> QED BY <1>4, <1>5 DEF SetupCall

LEMMA WaitCallKeeps == IInv /\ WaitCall => IInv'
<1> SUFFICES ASSUME IInv, WaitCall PROVE IInv'
  OBVIOUS
<1> DEFINE c == Order[main.j]
<1>1. /\ TypeOK /\ ArrayInv /\ MainInv /\ main \in MainRecord /\ At("wait")
      /\ ~ At("scan") /\ main.j <= main.i
  BY DEF IInv, TypeOK, WaitCall, At
<1>2. /\ ~ SetUp /\ main.j \in 1 .. N /\ main.running = None /\ main.i \in 1 .. N
  BY <1>1, MainFact, NFact DEF MainInv, At, SetUp
<1>3. c \in Components
  BY <1>2, OrderFact
<1>4. CASE CallRuns(c)
  BY <1>1, <1>2, <1>3, <1>4, CallRunsKeeps
<1>5. CASE CallSkips(c, [main EXCEPT !.j = main.j + 1])
  <2>1. main' = [main EXCEPT !.j = main.j + 1]
    BY <1>5 DEF CallSkips
  <2>2. main' \in MainRecord
    BY <1>1, <1>2, <2>1, NFact DEF MainRecord
  <2>3. /\ main'.pc = main.pc /\ main'.running = main.running
        /\ main'.i = main.i /\ main'.j = main.j + 1
    BY <1>1, <2>1 DEF MainRecord
  <2>4. MainInv'
    BY <1>1, <1>2, <2>3 DEF MainInv, At, SetUp
  <2> QED BY <1>1, <1>5, <2>2, <2>3, <2>4, PassingStepKeeps
       DEF CallSkips, partition, flags, ghosts, TypeOK, ArrayInv, At
<1> QED BY <1>4, <1>5 DEF WaitCall

LEMMA NextComponentKeeps == IInv /\ NextComponent => IInv'
<1> SUFFICES ASSUME IInv, NextComponent PROVE IInv'
  OBVIOUS
<1>1. /\ TypeOK /\ ArrayInv /\ MainInv /\ main \in MainRecord /\ main.pc = "proceed"
      /\ PartitionMatchesState
  BY DEF IInv, TypeOK, NextComponent, At
<1>2. /\ main.running = None /\ main.i \in 1 .. N
  BY <1>1, MainFact, NFact DEF MainInv, At, SetUp
<1>3. main' = [main EXCEPT !.pc = IF main.i < N THEN "setup" ELSE "idle",
                           !.i = main.i + 1, !.j = 0]
  BY DEF NextComponent
<1>4. main' \in MainRecord
  <2>1. main.i + 1 \in 1 .. N + 1 /\ 0 \in 0 .. N + 1
    BY <1>2, NFact
  <2> QED BY <1>1, <1>3, <2>1 DEF MainRecord
<1>5. /\ main'.pc = IF main.i < N THEN "setup" ELSE "idle"
      /\ main'.running = main.running
      /\ main'.i = main.i + 1 /\ main'.j = 0
  BY <1>1, <1>3 DEF MainRecord
<1>6. MainInv'
  BY <1>2, <1>5, NFact DEF MainInv, At, SetUp
<1>7. /\ state' \in [Components -> States]
      /\ \A d \in Components :
           /\ state'[d] \in Runnable <=> state[d] \in Runnable
           /\ state'[d] \in {"failed", "loop_done"} => state'[d] = state[d]
  BY <1>1 DEF NextComponent, TypeOK, States, Runnable, PartitionMatchesState
<1>8. /\ UNCHANGED << due, extra, in_loop, has_pending, index, owed >>
      /\ UNCHANGED << looping, active_end, pending, requesting, failed_once >>
  BY DEF NextComponent, partition, flags, ghosts
<1> QED BY <1>1, <1>4, <1>5, <1>6, <1>7, <1>8, QuietStepKeeps DEF TypeOK, ArrayInv, At

LEMMA WaitMoreKeeps == IInv /\ WaitMore => IInv'
<1> SUFFICES ASSUME IInv, WaitMore PROVE IInv'
  OBVIOUS
<1>1. /\ TypeOK /\ ArrayInv /\ MainInv /\ main \in MainRecord /\ main.pc = "proceed"
  BY DEF IInv, TypeOK, WaitMore, At
<1>2. main' = [main EXCEPT !.pc = "idle", !.j = 1]
  BY DEF WaitMore
<1>3. main' \in MainRecord
  <2>1. 1 \in 0 .. N + 1
    BY NFact
  <2> QED BY <1>1, <1>2, <2>1 DEF MainRecord
<1>4. main'.pc = "idle" /\ main'.running = main.running /\ main'.i = main.i /\ main'.j = 1
  BY <1>1, <1>2 DEF MainRecord
<1>5. MainInv'
  BY <1>1, <1>4, NFact DEF MainInv, At, SetUp
<1>6. /\ UNCHANGED << looping, active_end, pending, requesting, failed_once >>
      /\ UNCHANGED << index, state, owed, due, extra, in_loop, has_pending >>
  BY DEF WaitMore, partition, flags, ghosts
<1> QED BY <1>1, <1>3, <1>4, <1>5, <1>6, PassingStepKeeps DEF TypeOK, ArrayInv, At

LEMMA WaitEndsKeeps == IInv /\ WaitEnds => IInv'
<1> SUFFICES ASSUME IInv, WaitEnds PROVE IInv'
  OBVIOUS
<1>1. /\ TypeOK /\ ArrayInv /\ MainInv /\ main \in MainRecord /\ main.pc = "wait"
  BY DEF IInv, TypeOK, WaitEnds, At
<1>2. main' = [main EXCEPT !.pc = "proceed"]
  BY DEF WaitEnds, Goes
<1>3. main' \in MainRecord
  BY <1>1, <1>2 DEF MainRecord
<1>4. /\ main'.pc = "proceed" /\ main'.running = main.running
      /\ main'.i = main.i /\ main'.j = main.j
  BY <1>1, <1>2 DEF MainRecord
<1>5. MainInv'
  BY <1>1, <1>4 DEF MainInv, At, SetUp
<1>6. /\ UNCHANGED << looping, active_end, pending, requesting, failed_once >>
      /\ UNCHANGED << index, state, owed, due, extra, has_pending >> /\ in_loop' = FALSE
  BY DEF WaitEnds, partition, flags, ghosts
<1> QED BY <1>1, <1>3, <1>4, <1>5, <1>6, PassingStepKeeps DEF TypeOK, ArrayInv, At

LEMMA RunLoopKeeps == IInv /\ RunLoop => IInv'
<1> SUFFICES ASSUME IInv, RunLoop PROVE IInv'
  OBVIOUS
<1> DEFINE c == looping[index]
<1>1. /\ TypeOK /\ ArrayInv /\ MainInv /\ main \in MainRecord /\ main.pc = "phase"
      /\ index < active_end
  BY DEF IInv, TypeOK, RunLoop, At
<1>2. c \in Components
  <2>1. index \in Nat /\ active_end \in 0 .. N
    BY <1>1, RangeFact DEF ArrayInv
  <2>2. index \in Slots
    BY <1>1, <2>1, NFact
  <2> QED BY <1>1, <2>2 DEF ArrayInv
<1>3. main' = [main EXCEPT !.pc = "body", !.running = c, !.ops = 0]
  BY DEF RunLoop, Enters
<1>4. main' \in MainRecord
  <2>1. 0 \in 0 .. MaxOps
    BY UseAssumption
  <2> QED BY <1>1, <1>2, <1>3, <2>1 DEF MainRecord
<1>5. /\ main'.pc = "body" /\ main'.running = c
      /\ main'.i = main.i /\ main'.j = main.j
  BY <1>1, <1>3 DEF MainRecord
<1>6. MainInv'
  BY <1>1, <1>2, <1>5 DEF MainInv, At, SetUp
<1>7. /\ UNCHANGED << looping, active_end, pending, requesting, failed_once >>
      /\ UNCHANGED << index, state, in_loop, has_pending >>
      /\ owed' = owed \ {c} /\ due' = due \ {c} /\ extra' = extra \ {c}
  BY DEF RunLoop, Enters, partition, flags
<1>8. /\ due' \subseteq Components /\ extra' \subseteq Components
      /\ index' \in 0 .. IndexRange - 1
      /\ state' \in [Components -> States]
      /\ in_loop' \in BOOLEAN /\ has_pending' \in BOOLEAN
  BY <1>1, <1>7 DEF TypeOK, ArrayInv
<1> HIDE DEF c
<1> QED BY <1>1, <1>4, <1>5, <1>6, <1>7, <1>8, QuietStepKeeps DEF At

LEMMA ReturnsKeeps == IInv /\ Returns => IInv'
<1> SUFFICES ASSUME IInv, Returns PROVE IInv'
  OBVIOUS
<1> DEFINE pc == IF SetUp THEN "phase" ELSE IF main.j = 0 THEN "proceed" ELSE "wait"
           j == IF SetUp \/ main.j = 0 THEN main.j ELSE main.j + 1
<1>1. /\ TypeOK /\ ArrayInv /\ MainInv /\ main \in MainRecord /\ main.pc = "body"
  BY DEF IInv, TypeOK, Returns, At
<1>2. main' = [main EXCEPT !.running = None, !.ops = 0, !.pc = pc, !.j = j]
  BY DEF Returns
<1>3. ~ SetUp => main.j <= main.i /\ main.i <= N
  BY <1>1, MainFact, NFact DEF MainInv, At, SetUp
<1>4. main' \in MainRecord
  <2>1. j \in 0 .. N + 1
    BY <1>1, <1>3, MainFact, NFact
  <2>2. 0 \in 0 .. MaxOps
    BY UseAssumption
  <2>3. pc \in {"phase", "proceed", "wait"}
    OBVIOUS
  <2> HIDE DEF j, pc
  <2> QED BY <1>1, <1>2, <2>1, <2>2, <2>3 DEF MainRecord
<1>5. /\ main'.pc = pc /\ main'.running = None
      /\ main'.i = main.i /\ main'.j = j
  <2> HIDE DEF j, pc
  <2> QED BY <1>1, <1>2 DEF MainRecord
<1>6. MainInv'
  BY <1>1, <1>5, MainFact DEF MainInv, At, SetUp
<1>7. /\ UNCHANGED << looping, active_end, pending, requesting, failed_once >>
      /\ UNCHANGED << state, owed, due, extra, in_loop, has_pending >>
      /\ index' = index \/ index' = (index + 1) % IndexRange
  BY DEF Returns, flags, ghosts
<1>8. index' \in 0 .. IndexRange - 1
  <2>1. index \in 0 .. IndexRange - 1 /\ index + 1 \in Int
    BY <1>1, RangeFact DEF ArrayInv
  <2>2. (index + 1) % IndexRange \in 0 .. IndexRange - 1
    BY <2>1, RangeFact
  <2> QED BY <1>7, <2>1, <2>2
<1>9. main'.pc # "scan"
  BY <1>5
<1> HIDE DEF pc, j
<1> QED BY <1>1, <1>4, <1>5, <1>6, <1>7, <1>8, <1>9, PassingStepKeeps DEF TypeOK, At

LEMMA EndPhaseKeeps == IInv /\ EndPhase => IInv'
<1> SUFFICES ASSUME IInv, EndPhase PROVE IInv'
  OBVIOUS
<1>1. /\ TypeOK /\ ArrayInv /\ MainInv /\ main \in MainRecord /\ main.pc = "phase"
  BY DEF IInv, TypeOK, EndPhase, At
<1>2. main' = [main EXCEPT !.pc = "idle"]
  BY DEF EndPhase, Goes
<1>3. main' \in MainRecord
  BY <1>1, <1>2 DEF MainRecord
<1>4. /\ main'.pc = "idle" /\ main'.running = main.running
      /\ main'.i = main.i /\ main'.j = main.j
  BY <1>1, <1>2 DEF MainRecord
<1>5. MainInv'
  BY <1>1, <1>4 DEF MainInv, At, SetUp
<1>6. /\ UNCHANGED << looping, active_end, pending, requesting, failed_once >>
      /\ UNCHANGED << index, state, owed, has_pending >>
      /\ in_loop' = FALSE /\ due' = {} /\ extra' = {}
  BY DEF EndPhase, partition, flags
<1> QED BY <1>1, <1>3, <1>4, <1>5, <1>6, PassingStepKeeps DEF TypeOK, ArrayInv, At
-----------------------------------------------------------------------------
(* The phase proper is entered from either side of the guard.              *)
LEMMA EntersPhaseKeeps ==
  ASSUME IInv, EntersPhase, At("idle") \/ (At("scan") /\ main.scan = N),
         has_pending' \in BOOLEAN, has_pending => has_pending',
         UNCHANGED << looping, active_end, state, pending, requesting >>,
         UNCHANGED << owed, failed_once >>
  PROVE  IInv'
<1> DEFINE pc == IF SetUp THEN "phase" ELSE "wait"
<1>1. /\ TypeOK /\ ArrayInv /\ MainInv /\ main \in MainRecord
      /\ main.pc \in {"idle", "scan"}
  BY DEF IInv, TypeOK, At
<1>2. main' = [main EXCEPT !.pc = pc, !.scan = 0, !.found = FALSE]
  BY DEF EntersPhase
<1>3. main' \in MainRecord
  <2>1. 0 \in 0 .. N
    BY NFact
  <2>2. pc \in {"phase", "wait"}
    OBVIOUS
  <2> HIDE DEF pc
  <2> QED BY <1>1, <1>2, <2>1, <2>2 DEF MainRecord
<1>4. /\ main'.pc = pc /\ main'.running = main.running
      /\ main'.i = main.i /\ main'.j = main.j
  <2> HIDE DEF pc
  <2> QED BY <1>1, <1>2 DEF MainRecord
<1>5. MainInv'
  BY <1>1, <1>4, MainFact DEF MainInv, At, SetUp
<1>6. Active \subseteq Components
  <2>1. \A s \in 0 .. active_end - 1 : s \in Slots
    BY <1>1, NFact DEF ArrayInv
  <2> QED BY <1>1, <2>1 DEF ArrayInv, Active
<1>7. /\ index' \in 0 .. IndexRange - 1 /\ in_loop' \in BOOLEAN
      /\ due' \subseteq Components /\ extra' \subseteq Components
  BY <1>1, <1>6, RangeFact DEF EntersPhase, ArrayInv
<1>8. main'.pc # "scan"
  BY <1>4
<1> HIDE DEF pc
<1> QED BY <1>1, <1>3, <1>4, <1>5, <1>7, <1>8, PassingStepKeeps DEF At

LEMMA ScanEndsKeeps == IInv /\ ScanEnds => IInv'
<1> SUFFICES ASSUME IInv, ScanEnds PROVE IInv'
  OBVIOUS
<1>1. has_pending \in BOOLEAN /\ main.found \in BOOLEAN
  BY MainFact DEF IInv, TypeOK
<1>2. has_pending' \in BOOLEAN /\ (has_pending => has_pending')
  BY <1>1 DEF ScanEnds
<1> QED BY <1>2, EntersPhaseKeeps DEF ScanEnds

(* The scan begins at the first inactive component: no owed one is active. *)
LEMMA BeginPhaseKeeps == IInv /\ BeginPhase => IInv'
<1> SUFFICES ASSUME IInv, BeginPhase PROVE IInv'
  OBVIOUS
<1>1. /\ TypeOK /\ ArrayInv /\ MainInv /\ main \in MainRecord /\ main.pc = "idle"
      /\ has_pending \in BOOLEAN
  BY DEF IInv, TypeOK, BeginPhase, At
<1>2. CASE ~ has_pending
  <2>1. /\ EntersPhase /\ has_pending' = has_pending
        /\ UNCHANGED << looping, active_end, state, pending, requesting >>
        /\ UNCHANGED << owed, failed_once >>
    BY <1>2 DEF BeginPhase
  <2>2. At("idle")
    BY <1>1 DEF At
  <2>3. has_pending' \in BOOLEAN /\ (has_pending => has_pending')
    BY <1>1, <1>2, <2>1
  <2> QED BY <2>1, <2>2, <2>3, EntersPhaseKeeps
<1>3. CASE has_pending
  <2>1. /\ UNCHANGED << looping, active_end, state, pending, requesting >>
        /\ UNCHANGED << owed, failed_once, index, in_loop, due, extra >>
        /\ has_pending' = FALSE
        /\ main' = [main EXCEPT !.pc = "scan", !.scan = active_end]
    BY <1>3 DEF BeginPhase
  <2>2. main' \in MainRecord
    BY <1>1, <2>1 DEF MainRecord, ArrayInv
  <2>3. /\ main'.pc = "scan" /\ main'.running = main.running
        /\ main'.i = main.i /\ main'.j = main.j /\ main'.scan = active_end
    BY <1>1, <2>1 DEF MainRecord
  <2>4. ArrayInv'
    BY <1>1, <2>1 DEF ArrayInv
  <2>5. TypeOK'
    BY <1>1, <2>1, <2>2 DEF TypeOK
  <2>6. MainInv'
    BY <1>1, <2>3 DEF MainInv, At, SetUp
  <2>7. ScanIsInactive'
    BY <1>1, <2>1, <2>3 DEF ScanIsInactive, ArrayInv
  <2>8. Active' = Active
    BY <2>1 DEF Active
  <2>9. FailedRemembered' /\ PartitionMatchesState'
    BY <2>1, <2>8 DEF IInv, FailedRemembered, PartitionMatchesState
  <2>10. RunningIsAsked'
    <3>1. main'.running = None
      BY <1>1, <2>3 DEF MainInv, At
    <3> QED BY <1>1, <2>1, <3>1, NoneAssumption DEF RunningIsAsked, TypeOK
  <2>11. NoLostRequest'
    <3>1. ASSUME NEW c \in owed, state[c] = "loop_done"
          PROVE  pending[c] /\ \E s \in active_end .. N - 1 : looping[s] = c
      <4>1. c \in Components /\ pending[c]
        BY <1>1, <3>1 DEF IInv, TypeOK, NoLostRequest
      <4>2. c \notin Active
        BY <3>1, <4>1 DEF IInv, PartitionMatchesState, Runnable
      <4>3. PICK s \in Slots : looping[s] = c
        BY <1>1, <4>1 DEF ArrayInv, Onto
      <4>4. s \in active_end .. N - 1
        BY <1>1, <4>2, <4>3, NFact DEF ArrayInv, Active
      <4> QED BY <4>1, <4>3, <4>4
    <3> QED BY <2>1, <2>3, <3>1 DEF NoLostRequest, At
  <2> QED BY <2>2, <2>4, <2>5, <2>6, <2>7, <2>9, <2>10, <2>11 DEF IInv
<1> QED BY <1>1, <1>2, <1>3

(* What the scan has passed is enabled, or was not owed.                   *)
LEMMA ScanNextKeeps == IInv /\ ScanNext => IInv'
<1> SUFFICES ASSUME IInv, ScanNext PROVE IInv'
  OBVIOUS
<1> DEFINE c == looping[main.scan]
           n == main.scan
<1>1. /\ TypeOK /\ ArrayInv /\ MainInv /\ main \in MainRecord /\ main.pc = "scan"
      /\ ScanIsInactive
  BY DEF IInv, TypeOK, ScanNext, At
<1>2. n \in Slots /\ n + 1 \in 0 .. N /\ c \in Components /\ active_end <= n
  BY <1>1, MainFact, NFact DEF ScanNext, ArrayInv, ScanIsInactive, At
<1>3. /\ main' = [main EXCEPT !.scan = n + 1]
         \/ main' = [main EXCEPT !.scan = n + 1,
                       !.found = main.found \/ (pending[c] /\ state[c] # "loop")]
      /\ UNCHANGED << in_loop, has_pending, requesting, owed, due, extra, failed_once >>
  BY DEF ScanNext, ghosts
<1>4. main' \in MainRecord
  <2>1. pending[c] \in BOOLEAN
    BY <1>1, <1>2 DEF TypeOK
  <2>2. (main.found \/ (pending[c] /\ state[c] # "loop")) \in BOOLEAN
    BY <1>1, <2>1, MainFact
  <2> HIDE DEF c, n
  <2> QED BY <1>1, <1>2, <1>3, <2>2 DEF MainRecord
<1>5. /\ main'.pc = "scan" /\ main'.running = main.running
      /\ main'.i = main.i /\ main'.j = main.j /\ main'.scan = n + 1
  <2> HIDE DEF c, n
  <2> QED BY <1>1, <1>3 DEF MainRecord
<1>6. MainInv'
  BY <1>1, <1>5 DEF MainInv, At, SetUp
<1>7. RunningIsAsked'
  <2>1. main'.running = None
    BY <1>1, <1>5 DEF MainInv, At
  <2> QED BY <1>1, <1>3, <2>1, NoneAssumption DEF RunningIsAsked, TypeOK
<1>8. ASSUME NEW d \in owed, state[d] = "loop_done"
      PROVE  /\ d \in Components /\ pending[d]
             /\ \/ has_pending \/ d \in requesting
                \/ \E s \in n .. N - 1 : looping[s] = d
  BY <1>1, <1>8 DEF IInv, TypeOK, NoLostRequest, At
<1>9. CASE pending[c] /\ state[c] = "loop_done"
  <2>1. /\ pending' = [pending EXCEPT ![c] = FALSE]
        /\ state' = [state EXCEPT ![c] = "loop"]
        /\ Activate(n)
    BY <1>9 DEF ScanNext, StateIs
  <2> HIDE DEF c
  <2>2. /\ ArrayInv' /\ Active' = Active \cup {looping[n]}
        /\ active_end' = active_end + 1
        /\ \A u \in Slots : u > n => looping'[u] = looping[u]
    BY <1>1, <1>2, <2>1, ActivateEffect
  <2>3. Active' = Active \cup {c}
    BY <2>2 DEF c
  <2>4. TypeOK'
    BY <1>1, <1>2, <1>3, <1>4, <2>1, <2>2 DEF TypeOK, ArrayInv, Onto, States
  <2>5. ScanIsInactive'
    BY <1>1, <1>2, <1>5, <2>2, NFact DEF ScanIsInactive, ArrayInv
  <2>6. FailedRemembered'
    BY <1>1, <1>2, <1>3, <2>1 DEF IInv, FailedRemembered, TypeOK
  <2>7. PartitionMatchesState'
    BY <1>1, <1>2, <1>3, <2>1, <2>3 DEF IInv, PartitionMatchesState, Runnable, TypeOK
  <2>8. NoLostRequest'
    <3>1. ASSUME NEW d \in owed, state'[d] = "loop_done"
          PROVE  /\ pending'[d]
                 /\ \/ has_pending \/ d \in requesting
                    \/ \E s \in n + 1 .. N - 1 : looping'[s] = d
      <4>1. d # c /\ d \in Components /\ state[d] = "loop_done"
        BY <1>1, <1>2, <2>1, <3>1 DEF TypeOK
      <4>2. pending'[d]
        BY <1>1, <1>8, <2>1, <4>1 DEF TypeOK
      <4>3. ASSUME NEW s \in n .. N - 1, looping[s] = d
            PROVE  s \in n + 1 .. N - 1 /\ looping'[s] = d
        <5>1. s \in Slots /\ s # n
          BY <1>2, <4>1, <4>3, NFact DEF c
        <5> QED BY <1>2, <2>2, <4>3, <5>1, NFact
      <4> QED BY <1>8, <4>1, <4>2, <4>3
    <3> QED BY <1>3, <1>5, <3>1 DEF NoLostRequest, At
  <2> QED BY <1>6, <1>7, <2>2, <2>4, <2>5, <2>6, <2>7, <2>8 DEF IInv
<1>10. CASE ~ (pending[c] /\ state[c] = "loop_done")
  <2>1. /\ pending' = [pending EXCEPT ![c] = pending[c] /\ state[c] # "loop"]
        /\ UNCHANGED << state, looping, active_end, index >>
    BY <1>10 DEF ScanNext, partition
  <2> HIDE DEF c
  <2>2. ArrayInv'
    BY <1>1, <2>1 DEF ArrayInv
  <2>3. pending' \in [Components -> BOOLEAN]
    BY <1>1, <1>2, <2>1 DEF TypeOK
  <2>4. TypeOK'
    BY <1>1, <1>3, <1>4, <2>1, <2>3 DEF TypeOK
  <2>5. ScanIsInactive'
    BY <1>1, <1>2, <1>5, <2>1, NFact DEF ScanIsInactive, ArrayInv
  <2>6. Active' = Active
    BY <2>1 DEF Active
  <2>7. FailedRemembered' /\ PartitionMatchesState'
    BY <1>3, <2>1, <2>6 DEF IInv, FailedRemembered, PartitionMatchesState
  <2>8. NoLostRequest'
    <3>1. ASSUME NEW d \in owed, state[d] = "loop_done"
          PROVE  /\ pending'[d]
                 /\ \/ has_pending \/ d \in requesting
                    \/ \E s \in n + 1 .. N - 1 : looping[s] = d
      <4>1. d # c
        BY <1>8, <1>10, <3>1
      <4>2. pending'[d]
        BY <1>1, <1>8, <2>1, <3>1, <4>1 DEF TypeOK
      <4>3. ASSUME NEW s \in n .. N - 1, looping[s] = d
            PROVE  s \in n + 1 .. N - 1
        BY <1>2, <4>1, <4>3, NFact DEF c
      <4> QED BY <1>8, <3>1, <4>2, <4>3
    <3> QED BY <1>3, <1>5, <2>1, <3>1 DEF NoLostRequest, At
  <2> QED BY <1>6, <1>7, <2>2, <2>4, <2>5, <2>7, <2>8 DEF IInv
<1> QED BY <1>9, <1>10
-----------------------------------------------------------------------------
(* What component code calls takes a step of the main loop's locals only.  *)
LEMMA ActsFact ==
  ASSUME TypeOK, MainInv, MayAct, Acts
  PROVE  /\ main' \in MainRecord /\ MainInv'
         /\ main'.running = main.running
         /\ main.pc # "scan" /\ main'.pc # "scan"
<1>1. main \in MainRecord
  BY DEF TypeOK
<1>2. CASE At("body")
  <2>1. main.ops + 1 \in 0 .. MaxOps /\ main' = [main EXCEPT !.ops = main.ops + 1]
    BY <1>1, <1>2, MainFact, UseAssumption DEF MayAct, Acts
  <2>2. main' \in MainRecord
    BY <1>1, <2>1 DEF MainRecord
  <2>3. /\ main'.pc = main.pc /\ main'.running = main.running
        /\ main'.i = main.i /\ main'.j = main.j
    BY <1>1, <2>1 DEF MainRecord
  <2> QED BY <1>2, <2>2, <2>3 DEF MainInv, At, SetUp
<1>3. CASE ~ At("body")
  <2>1. main' = main /\ main.pc = "idle"
    BY <1>3 DEF MayAct, Acts, At
  <2> QED BY <1>1, <2>1 DEF MainInv, At, SetUp
<1> QED BY <1>2, <1>3

(* One operation on the component c: what it does to the partition and to  *)
(* the states has to fit together; the requests keep by themselves.        *)
LEMMA OperationKeeps ==
  ASSUME IInv, NEW c \in Components, MayAct, Acts,
         ArrayInv', in_loop' = in_loop, UNCHANGED flags,
         state' \in [Components -> States],
         \A d \in Components \ {c} :
           /\ state'[d] = state[d]
           /\ d \in Active' <=> d \in Active,
         state'[c] = "failed" => c \in failed_once',
         c \in Active' => state'[c] \in Runnable,
         state'[c] \in Runnable /\ c \notin failed_once' => c \in Active',
         failed_once \subseteq failed_once', failed_once' \subseteq Components,
         owed' \subseteq owed,
         state'[c] = "loop_done" /\ c \in owed' => c = main.running,
         due' \subseteq Components, extra' \subseteq Components
  PROVE  IInv'
<1>1. /\ TypeOK /\ MainInv /\ FailedRemembered /\ RunningIsAsked
      /\ PartitionMatchesState /\ NoLostRequest
      /\ UNCHANGED << pending, has_pending, requesting >>
  BY DEF IInv, flags
<1>2. /\ main' \in MainRecord /\ MainInv'
      /\ main'.running = main.running
      /\ main.pc # "scan" /\ main'.pc # "scan"
  BY <1>1, ActsFact
<1>3. TypeOK'
  BY <1>1, <1>2 DEF TypeOK, ArrayInv, Onto
<1>4. ScanIsInactive'
  BY <1>2 DEF ScanIsInactive, At
<1>5. FailedRemembered'
  BY <1>1 DEF FailedRemembered
<1>6. PartitionMatchesState'
  BY <1>1 DEF PartitionMatchesState
<1>7. RunningIsAsked'
  BY <1>1, <1>2 DEF RunningIsAsked
<1>8. NoLostRequest'
  <2>1. ASSUME NEW d \in owed', state'[d] = "loop_done"
        PROVE  pending[d] /\ (has_pending \/ d \in requesting)
    <3>1. CASE d = c
      BY <1>1, <2>1, <3>1 DEF RunningIsAsked
    <3>2. CASE d # c
      BY <1>1, <1>2, <2>1, <3>2 DEF NoLostRequest, TypeOK, At
    <3> QED BY <3>1, <3>2
  <2> QED BY <1>1, <2>1 DEF NoLostRequest
<1> QED BY <1>2, <1>3, <1>4, <1>5, <1>6, <1>7, <1>8 DEF IInv

LEMMA StopsFact ==
  ASSUME TypeOK, NEW c \in Components, Stops(c)
  PROVE  due' \subseteq Components /\ extra' \subseteq Components
  BY DEF TypeOK, Stops

LEMMA DisableLoopKeeps ==
  ASSUME IInv, NEW c \in Components, DisableLoop(c)
  PROVE  IInv'
<1>1. TypeOK /\ ArrayInv
  BY DEF IInv
<1>2. ArrayInv' /\ Active' = Active \ {c}
  BY <1>1, DisableEffect DEF DisableLoop
<1>3. /\ state' = [state EXCEPT ![c] = "loop_done"]
      /\ UNCHANGED << in_loop, flags, failed_once >>
      /\ owed' = IF c = main.running THEN owed ELSE owed \ {c}
  BY DEF DisableLoop, StateIs
<1>4. due' \subseteq Components /\ extra' \subseteq Components
  BY <1>1, StopsFact DEF DisableLoop
<1>5. /\ state' \in [Components -> States] /\ state'[c] = "loop_done"
      /\ \A d \in Components \ {c} : state'[d] = state[d]
  BY <1>1, <1>3 DEF TypeOK, States
<1>6. MayAct /\ Acts
  BY DEF DisableLoop
<1>7. "loop_done" \notin Runnable /\ failed_once \subseteq Components
  BY <1>1 DEF Runnable, TypeOK
<1> QED BY <1>2, <1>3, <1>4, <1>5, <1>6, <1>7, OperationKeeps

LEMMA EnableLoopKeeps ==
  ASSUME IInv, NEW c \in Components, EnableLoop(c)
  PROVE  IInv'
<1>1. TypeOK /\ ArrayInv
  BY DEF IInv
<1>2. ArrayInv' /\ Active' = Active \cup {c}
  <2>1. CASE c \in Active
    BY <1>1, <2>1 DEF EnableLoop, partition, ArrayInv, Active
  <2>2. CASE c \notin Active
    <3>1. /\ SlotOf(c) \in Slots /\ looping[SlotOf(c)] = c
          /\ ~ SlotOf(c) < active_end
      BY <1>1, <2>2, SlotOfFact
    <3>2. active_end <= SlotOf(c)
      BY <1>1, <3>1, NFact DEF ArrayInv
    <3>3. Activate(SlotOf(c))
      BY <2>2 DEF EnableLoop
    <3> QED BY <1>1, <3>1, <3>2, <3>3, ActivateEffect
  <2> QED BY <2>1, <2>2
<1>3. /\ state' = [state EXCEPT ![c] = "loop"]
      /\ UNCHANGED << in_loop, flags, owed, due, failed_once >>
      /\ extra' = extra \cup {c}
  BY DEF EnableLoop, StateIs
<1>4. /\ state' \in [Components -> States] /\ state'[c] = "loop"
      /\ \A d \in Components \ {c} : state'[d] = state[d]
      /\ due' \subseteq Components /\ extra' \subseteq Components
      /\ failed_once \subseteq Components
  BY <1>1, <1>3 DEF TypeOK, States
<1>5. MayAct /\ Acts
  BY DEF EnableLoop
<1>6. "loop" \in Runnable
  BY DEF Runnable
<1> QED BY <1>2, <1>3, <1>4, <1>5, <1>6, OperationKeeps

LEMMA MarkFailedKeeps ==
  ASSUME IInv, NEW c \in Components, MarkFailed(c)
  PROVE  IInv'
<1>1. TypeOK /\ ArrayInv
  BY DEF IInv
<1>2. ArrayInv' /\ Active' = Active \ {c}
  BY <1>1, DisableEffect DEF MarkFailed
<1>3. /\ state' = [state EXCEPT ![c] = "failed"]
      /\ UNCHANGED << in_loop, flags >>
      /\ owed' = owed \ {c} /\ failed_once' = failed_once \cup {c}
  BY DEF MarkFailed, StateIs
<1>4. due' \subseteq Components /\ extra' \subseteq Components
  BY <1>1, StopsFact DEF MarkFailed
<1>5. /\ state' \in [Components -> States] /\ state'[c] = "failed"
      /\ \A d \in Components \ {c} : state'[d] = state[d]
      /\ failed_once' \subseteq Components
  BY <1>1, <1>3 DEF TypeOK, States
<1>6. MayAct /\ Acts
  BY DEF MarkFailed
<1>7. "failed" \notin Runnable
  BY DEF Runnable
<1> QED BY <1>2, <1>3, <1>4, <1>5, <1>6, <1>7, OperationKeeps

LEMMA ResetKeeps ==
  ASSUME IInv, NEW c \in Components, ResetToConstructionState(c)
  PROVE  IInv'
<1>1. TypeOK /\ ArrayInv /\ FailedRemembered /\ PartitionMatchesState
  BY DEF IInv
<1>2. /\ state' = [state EXCEPT ![c] = "construction"] /\ state[c] = "failed"
      /\ UNCHANGED << looping, active_end, index, in_loop, flags >>
      /\ UNCHANGED << owed, due, extra, failed_once >>
  BY DEF ResetToConstructionState, StateIs, partition, ghosts
<1>3. ArrayInv' /\ Active' = Active
  BY <1>1, <1>2 DEF ArrayInv, Active
<1>4. c \in failed_once
  BY <1>1, <1>2 DEF FailedRemembered
<1>5. /\ state' \in [Components -> States] /\ state'[c] = "construction"
      /\ \A d \in Components \ {c} : state'[d] = state[d]
      /\ due' \subseteq Components /\ extra' \subseteq Components
      /\ failed_once \subseteq Components
  BY <1>1, <1>2 DEF TypeOK, States
<1>6. MayAct /\ Acts
  BY DEF ResetToConstructionState
<1>7. "construction" \in Runnable
  BY DEF Runnable
<1> QED BY <1>2, <1>3, <1>4, <1>5, <1>6, <1>7, OperationKeeps
-----------------------------------------------------------------------------
LEMMA RequestBeginsKeeps ==
  ASSUME IInv, NEW c \in Components, RequestBegins(c)
  PROVE  IInv'
<1>1. /\ TypeOK /\ ArrayInv /\ MainInv /\ ScanIsInactive /\ FailedRemembered
      /\ RunningIsAsked /\ PartitionMatchesState /\ NoLostRequest
  BY DEF IInv
<1>2. /\ pending' = [pending EXCEPT ![c] = TRUE]
      /\ requesting' = requesting \cup {c}
      /\ owed' \subseteq owed \cup {c}
      /\ UNCHANGED << looping, active_end, index, in_loop, state, has_pending >>
      /\ UNCHANGED << main, due, extra, failed_once >>
  BY DEF RequestBegins, partition
<1>3. ArrayInv' /\ Active' = Active
  BY <1>1, <1>2 DEF ArrayInv, Active
<1>4. /\ pending' \in [Components -> BOOLEAN] /\ pending'[c]
      /\ \A d \in Components \ {c} : pending'[d] = pending[d]
  BY <1>1, <1>2 DEF TypeOK
<1>5. TypeOK'
  BY <1>1, <1>2, <1>4 DEF TypeOK
<1>6. MainInv' /\ ScanIsInactive'
  BY <1>1, <1>2 DEF MainInv, ScanIsInactive, SetUp, At
<1>7. FailedRemembered' /\ PartitionMatchesState'
  BY <1>1, <1>2, <1>3 DEF FailedRemembered, PartitionMatchesState
<1>8. RunningIsAsked'
  <2>1. ASSUME NEW d \in owed', d = main.running
        PROVE  pending'[d] /\ (has_pending \/ d \in requesting')
    <3>1. CASE d = c
      BY <1>2, <1>4, <3>1
    <3>2. CASE d # c
      BY <1>1, <1>2, <1>4, <2>1, <3>2 DEF RunningIsAsked, TypeOK
    <3> QED BY <3>1, <3>2
  <2> QED BY <1>2, <2>1 DEF RunningIsAsked
<1>9. NoLostRequest'
  <2>1. ASSUME NEW d \in owed', state[d] = "loop_done"
        PROVE  /\ pending'[d]
               /\ \/ has_pending \/ d \in requesting'
                  \/ At("scan") /\ \E s \in main.scan .. N - 1 : looping[s] = d
    <3>1. CASE d = c
      BY <1>2, <1>4, <3>1
    <3>2. CASE d # c
      BY <1>1, <1>2, <1>4, <2>1, <3>2 DEF NoLostRequest, TypeOK
    <3> QED BY <3>1, <3>2
  <2> QED BY <1>2, <2>1 DEF NoLostRequest, At
<1> QED BY <1>3, <1>5, <1>6, <1>7, <1>8, <1>9 DEF IInv

LEMMA RequestEndsKeeps ==
  ASSUME IInv, NEW c \in Components, RequestEnds(c)
  PROVE  IInv'
<1>1. /\ TypeOK /\ ArrayInv /\ MainInv /\ ScanIsInactive /\ FailedRemembered
      /\ RunningIsAsked /\ PartitionMatchesState /\ NoLostRequest
  BY DEF IInv
<1>2. /\ has_pending' = TRUE /\ requesting' = requesting \ {c}
      /\ UNCHANGED << looping, active_end, index, in_loop, state, pending >>
      /\ UNCHANGED << main, owed, due, extra, failed_once >>
  BY DEF RequestEnds, partition, ghosts
<1>3. ArrayInv' /\ Active' = Active
  BY <1>1, <1>2 DEF ArrayInv, Active
<1>4. TypeOK'
  BY <1>1, <1>2 DEF TypeOK
<1>5. MainInv' /\ ScanIsInactive'
  BY <1>1, <1>2 DEF MainInv, ScanIsInactive, SetUp, At
<1>6. FailedRemembered' /\ PartitionMatchesState'
  BY <1>1, <1>2, <1>3 DEF FailedRemembered, PartitionMatchesState
<1>7. RunningIsAsked' /\ NoLostRequest'
  BY <1>1, <1>2 DEF RunningIsAsked, NoLostRequest
<1> QED BY <1>3, <1>4, <1>5, <1>6, <1>7 DEF IInv

LEMMA StutterKeeps == IInv /\ UNCHANGED vars => IInv'
<1> SUFFICES ASSUME IInv, UNCHANGED vars PROVE IInv'
  OBVIOUS
<1>1. /\ TypeOK /\ ArrayInv /\ MainInv /\ ScanIsInactive /\ FailedRemembered
      /\ RunningIsAsked /\ PartitionMatchesState /\ NoLostRequest
  BY DEF IInv
<1>2. /\ UNCHANGED << looping, active_end, index, in_loop, state, pending >>
      /\ UNCHANGED << has_pending, requesting, main, owed, due, extra, failed_once >>
  BY DEF vars, partition, flags, ghosts
<1>3. ArrayInv' /\ Active' = Active
  BY <1>1, <1>2 DEF ArrayInv, Active
<1>4. TypeOK' /\ MainInv' /\ ScanIsInactive'
  BY <1>1, <1>2 DEF TypeOK, MainInv, ScanIsInactive, SetUp, At
<1>5. FailedRemembered' /\ PartitionMatchesState'
  BY <1>1, <1>2, <1>3 DEF FailedRemembered, PartitionMatchesState
<1>6. RunningIsAsked' /\ NoLostRequest'
  BY <1>1, <1>2 DEF RunningIsAsked, NoLostRequest, At
<1> QED BY <1>3, <1>4, <1>5, <1>6 DEF IInv

(* IInv is inductive.                                                      *)
LEMMA StepKeeps == IInv /\ [Next]_vars => IInv'
<1> SUFFICES ASSUME IInv, [Next]_vars PROVE IInv'
  OBVIOUS
<1>1. CASE MainStep
  BY <1>1, SetupCallKeeps, NextComponentKeeps, WaitMoreKeeps, WaitCallKeeps,
     WaitEndsKeeps, BeginPhaseKeeps, ScanNextKeeps, ScanEndsKeeps, RunLoopKeeps,
     ReturnsKeeps, EndPhaseKeeps DEF MainStep
<1>2. ASSUME NEW c \in Components, Operation(c) PROVE IInv'
  BY <1>2, DisableLoopKeeps, EnableLoopKeeps, MarkFailedKeeps, ResetKeeps DEF Operation
<1>3. ASSUME NEW c \in Components, RequestBegins(c) \/ RequestEnds(c) PROVE IInv'
  BY <1>3, RequestBeginsKeeps, RequestEndsKeeps
<1>4. CASE UNCHANGED vars
  BY <1>4, StutterKeeps
<1> QED BY <1>1, <1>2, <1>3, <1>4 DEF Next

LEMMA IInvHolds == Spec => []IInv
  BY InitKeeps, StepKeeps, PTL DEF Spec

(* Every variable of Application and of the components keeps its type; in  *)
(* particular looping_components_active_end_ stays within the vector and   *)
(* every component stays in it, however many are swapped.                  *)
THEOREM TypeCorrect == Spec => []TypeOK
<1>1. IInv => TypeOK
  BY DEF IInv
<1> QED BY <1>1, IInvHolds, PTL

(* The partition of looping_components_ agrees with the component states   *)
(* whatever components disable, enable, fail and reset each other, and     *)
(* whenever they do (application.h:493-507).                               *)
THEOREM PartitionIsCorrect == Spec => []PartitionMatchesState
<1>1. IInv => PartitionMatchesState
  BY DEF IInv
<1> QED BY <1>1, IInvHolds, PTL

(* enable_loop_soon_any_context() loses no request, wherever between the   *)
(* main loop's reads and clears of the two flags its two writes fall.      *)
THEOREM NoRequestIsLost == Spec => []NoLostRequest
<1>1. IInv => NoLostRequest
  BY DEF IInv
<1> QED BY <1>1, IInvHolds, PTL
-----------------------------------------------------------------------------
(* The walk over the active part: from NextIndex on are the components that*)
(* are due, and others only if they may run besides.  As long as one is    *)
(* due, the component that runs is not among those the walk is past.       *)
InPhase == SetUp /\ main.pc \in {"phase", "body"}
NextIndex == IF At("body") THEN (index + 1) % IndexRange ELSE index
Ahead(s) == NextIndex <= s /\ s < active_end

WalkInv ==
  InPhase =>
    /\ in_loop
    /\ \A s \in Slots : Ahead(s) => looping[s] \in due \cup extra
    /\ \A c \in due : \E s \in Slots : Ahead(s) /\ looping[s] = c
    /\ At("body") /\ due # {} =>
         \A s \in Slots : s < active_end /\ looping[s] = main.running =>
                            s = index \/ Ahead(s)

(* Quotient and remainder.                                                  *)
LEMMA DivModFact ==
  ASSUME NEW R \in Nat, R > 1, NEW m \in Int
  PROVE  /\ m \div R \in Int /\ m % R \in 0 .. R - 1
         /\ m % R = m - R * (m \div R)
<1>1. m \div R \in Int
  OBVIOUS
<1>2. m % R \in 0 .. R - 1
  OBVIOUS
<1>3. m % R = m - R * (m \div R)
  OBVIOUS
<1> QED BY <1>1, <1>2, <1>3

(* The indices are several.                                                *)
LEMMA RangeNotOne == IndexRange > 1
BY DEF IndexRange

(* The index that follows, and the one before, as the code computes them.  *)
LEMMA WrapFact ==
  ASSUME NEW i \in 0 .. IndexRange - 1
  PROVE  /\ (i + 1) % IndexRange = IF i = IndexRange - 1 THEN 0 ELSE i + 1
         /\ (i - 1) % IndexRange = IF i = 0 THEN IndexRange - 1 ELSE i - 1
<1>0. IndexRange \in Nat /\ IndexRange > 1
  BY RangeFact, RangeNotOne
<1>1. PICK R : R = IndexRange /\ R \in Nat /\ R > 1
  BY <1>0
<1>2. \A m \in Int : /\ m \div R \in Int /\ m % R \in 0 .. R - 1
                     /\ m % R = m - R * (m \div R)
  <2>1. ASSUME NEW m \in Int
        PROVE  m \div R \in Int /\ m % R \in 0 .. R - 1 /\ m % R = m - R * (m \div R)
    <3>1. R \in Nat /\ R > 1
      BY <1>1
    <3> QED BY <3>1, DivModFact
  <2> QED BY <2>1
<1>3. i \in Int /\ i \in 0 .. R - 1 /\ i + 1 \in Int /\ i - 1 \in Int
  BY <1>1
<1>4. ASSUME NEW m \in Int, NEW x \in 0 .. R - 1, NEW e \in {-1, 0, 1}, m = x + e * R
      PROVE  m % R = x
  <2>1. PICK q, r : q = m \div R /\ r = m % R
    OBVIOUS
  <2>2. q \in Int /\ r \in 0 .. R - 1 /\ r = m - R * q
    BY <1>2, <2>1
  <2>3. PICK d \in Int : d = e - q
    BY <2>2
  <2>4. r - x = R * d
    BY <1>1, <1>4, <2>2, <2>3
  <2>5. d = 0
    <3>1. d >= 1 => R * d >= R
      BY <1>1, <2>3
    <3>2. d <= -1 => R * d <= -R
      BY <1>1, <2>3
    <3>3. -R < r - x /\ r - x < R
      BY <1>1, <2>2
    <3> QED BY <1>1, <2>2, <2>3, <2>4, <3>1, <3>2, <3>3
  <2>6. r = x
    BY <1>1, <2>2, <2>4, <2>5
  <2> QED BY <2>1, <2>6
<1>5. (i + 1) % R = IF i = R - 1 THEN 0 ELSE i + 1
  <2>1. CASE i = R - 1
    BY <1>1, <1>3, <1>4, <2>1
  <2>2. CASE i # R - 1
    BY <1>1, <1>3, <1>4, <2>2
  <2> QED BY <2>1, <2>2
<1>6. (i - 1) % R = IF i = 0 THEN R - 1 ELSE i - 1
  <2>1. CASE i = 0
    BY <1>1, <1>3, <1>4, <2>1
  <2>2. CASE i # 0
    BY <1>1, <1>3, <1>4, <2>2
  <2> QED BY <2>1, <2>2
<1> QED BY <1>1, <1>5, <1>6

LEMMA SlotFact == \A s \in Slots : s \in Nat /\ s < N /\ s < IndexRange - 1
<1>1. N \in 1 .. IndexRange - 1
  BY OrderAssumption
<1>2. Slots = 0 .. N - 1 /\ N \in Nat /\ IndexRange \in Nat
  BY NFact, RangeFact
<1> QED BY <1>1, <1>2

(* What a swap across the border does to the slots ahead of the walk, where*)
(* the index steps back if it is the place of the running one that is      *)
(* taken: nothing new is ahead, and nothing is lost unless c was behind.   *)
LEMMA ShrinkWalk ==
  ASSUME NEW L \in [Slots -> Components], NEW M \in [Slots -> Components],
         OneToOne(L), OneToOne(M), NEW s \in Slots, NEW last \in Slots, s <= last,
         M[s] = L[last], M[last] = L[s],
         \A u \in Slots \ {s, last} : M[u] = L[u],
         NEW i \in 0 .. IndexRange - 1, NEW n \in Nat, NEW m \in Nat,
         n = IF i = IndexRange - 1 THEN 0 ELSE i + 1,
         m = IF s # last /\ s = i THEN i ELSE n
  PROVE  /\ \A t \in Slots : m <= t /\ t < last =>
              /\ M[t] # L[s]
              /\ \E u \in Slots : n <= u /\ u < last + 1 /\ L[u] = M[t]
         /\ s = i \/ n <= s =>
              \A u \in Slots : n <= u /\ u < last + 1 /\ L[u] # L[s] =>
                \E t \in Slots : m <= t /\ t < last /\ M[t] = L[u]
<1>1. /\ \A t \in Slots : t \in Nat /\ t < IndexRange - 1
      /\ IndexRange \in Nat
  BY SlotFact, RangeFact
<1>2. ASSUME NEW t \in Slots, m <= t, t < last
      PROVE  /\ M[t] # L[s]
             /\ \E u \in Slots : n <= u /\ u < last + 1 /\ L[u] = M[t]
  <2>1. M[t] # M[last]
    BY <1>1, <1>2 DEF OneToOne
  <2>2. CASE t = s
    <3>1. n <= last
      BY <1>1, <1>2, <2>2
    <3> QED BY <1>1, <2>1, <2>2, <3>1
  <2>3. CASE t # s
    <3>1. L[t] = M[t]
      BY <1>1, <1>2, <2>3
    <3>2. n <= t /\ t < last + 1
      BY <1>1, <1>2, <2>3
    <3> QED BY <2>1, <3>1, <3>2
  <2> QED BY <2>2, <2>3
<1>3. ASSUME s = i \/ n <= s, NEW u \in Slots, n <= u, u < last + 1, L[u] # L[s]
      PROVE  \E t \in Slots : m <= t /\ t < last /\ M[t] = L[u]
  <2>1. u # s /\ s \in Nat /\ last \in Nat /\ u \in Nat
    BY <1>1, <1>3
  <2>2. CASE u = last
    <3>1. m <= s /\ s < last
      BY <1>1, <1>3, <2>1, <2>2
    <3> QED BY <2>2, <3>1
  <2>3. CASE u # last
    <3>1. M[u] = L[u] /\ u < last
      BY <1>3, <2>1, <2>3
    <3>2. m <= u
      BY <1>1, <1>3, <2>1, <2>3
    <3> QED BY <3>1, <3>2
  <2> QED BY <2>2, <2>3
<1> QED BY <1>2, <1>3

(* An operation leaves the main loop where it is.                          *)
LEMMA ActsWalk ==
  ASSUME IInv, MayAct, Acts
  PROVE  /\ InPhase' => InPhase /\ At("body")
         /\ At("body")' = At("body") /\ main'.running = main.running
         /\ index' = index => NextIndex' = NextIndex
<1>1. main \in MainRecord /\ (At("body") \/ main.pc = "idle")
  BY DEF IInv, TypeOK, MayAct, At
<1>2. main'.pc = main.pc /\ main'.i = main.i /\ main'.running = main.running
  BY <1>1 DEF Acts, MainRecord
<1> QED BY <1>1, <1>2 DEF InPhase, SetUp, At, NextIndex

(* Stopping a component, whichever and by whom.                            *)
LEMMA DisableWalk ==
  ASSUME IInv, IInv', WalkInv, NEW c \in Components,
         MayAct, Acts, DisableComponentLoop(c), Stops(c), in_loop' = in_loop
  PROVE  WalkInv'
<1> SUFFICES ASSUME InPhase' PROVE WalkInv'
  BY DEF WalkInv
<1>1. /\ InPhase /\ At("body") /\ At("body")' /\ main'.running = main.running
      /\ index' = index => NextIndex' = NextIndex
  BY ActsWalk
<1>2. /\ in_loop
      /\ \A s \in Slots : Ahead(s) => looping[s] \in due \cup extra
      /\ \A d \in due : \E s \in Slots : Ahead(s) /\ looping[s] = d
      /\ due # {} => \A s \in Slots : s < active_end /\ looping[s] = main.running =>
                                        s = index \/ Ahead(s)
  BY <1>1 DEF WalkInv
<1>3. ArrayInv /\ ArrayInv'
  BY DEF IInv
<1>4. /\ due' \subseteq due \ {c} /\ (c # main.running => due' = {})
      /\ \A d : d \in due \cup extra /\ d # c => d \in due' \cup extra'
  BY DEF Stops
<1>5. CASE c \notin Active
  <2>1. UNCHANGED << looping, active_end, index >>
    BY <1>5 DEF DisableComponentLoop, partition
  <2>2. \A s \in Slots : Ahead(s)' <=> Ahead(s)
    BY <1>1, <2>1 DEF Ahead
  <2>3. \A s \in Slots : Ahead(s) => looping[s] # c
    <3>1. ASSUME NEW s \in Slots, Ahead(s) PROVE looping[s] \in Active
      <4>1. s \in 0 .. active_end - 1
        BY <1>3, <3>1, SlotFact, NFact DEF Ahead, ArrayInv
      <4> QED BY <4>1 DEF Active
    <3> QED BY <1>5, <3>1
  <2> QED BY <1>1, <1>2, <1>4, <2>1, <2>2, <2>3 DEF WalkInv
<1>6. CASE c \in Active
  <2>1. PICK L, M, s, last, i, e :
          /\ L = looping /\ M = looping' /\ s = SlotOf(c) /\ last = active_end - 1
          /\ i = index /\ e = active_end
    OBVIOUS
  <2>2. /\ s \in Slots /\ L[s] = c /\ s < e /\ e \in 0 .. N
        /\ L \in [Slots -> Components] /\ OneToOne(L) /\ Onto(L)
        /\ M \in [Slots -> Components] /\ OneToOne(M)
        /\ i \in 0 .. IndexRange - 1
    BY <1>3, <1>6, <2>1, SlotOfFact DEF ArrayInv
  <2>3. last \in Slots /\ s <= last /\ last = e - 1 /\ last \in Nat /\ s \in Nat /\ e = last + 1
    BY <2>1, <2>2, NFact, SlotFact
  <2>4. /\ M = [L EXCEPT ![s] = L[last], ![last] = L[s]] /\ active_end' = last
        /\ index' = IF s # last /\ s = i THEN (i - 1) % IndexRange ELSE i
    BY <1>2, <1>6, <2>1 DEF DisableComponentLoop, Swapped
  <2>5. M[s] = L[last] /\ M[last] = L[s] /\ \A u \in Slots \ {s, last} : M[u] = L[u]
    BY <2>2, <2>3, <2>4, SwapFact
  <2>6. PICK n, m : n = NextIndex /\ m = NextIndex'
    OBVIOUS
  <2>7. n \in Nat /\ n = IF i = IndexRange - 1 THEN 0 ELSE i + 1
    BY <1>1, <2>1, <2>2, <2>6, WrapFact, RangeFact DEF NextIndex
  <2>8. m \in Nat /\ m = IF s # last /\ s = i THEN i ELSE n
    <3>1. CASE s # last /\ s = i
      <4>1. index' = IF i = 0 THEN IndexRange - 1 ELSE i - 1
        BY <2>2, <2>4, <3>1, WrapFact
      <4>2. index' \in 0 .. IndexRange - 1
        BY <2>2, <4>1, RangeFact
      <4>3. m = IF index' = IndexRange - 1 THEN 0 ELSE index' + 1
        <5>1. m = (index' + 1) % IndexRange
          BY <1>1, <2>6 DEF NextIndex
        <5> QED BY <4>2, <5>1, WrapFact
      <4>4. i < IndexRange - 1
        BY <2>2, <3>1, SlotFact
      <4>5. m = i
        BY <2>2, <4>1, <4>3, <4>4, RangeFact
      <4> QED BY <2>2, <3>1, <4>5, RangeFact
    <3>2. CASE ~ (s # last /\ s = i)
      <4>1. m = n
        BY <1>1, <2>1, <2>4, <2>6, <3>2
      <4> QED BY <2>7, <3>2, <4>1
    <3> QED BY <3>1, <3>2
  <2>9. /\ \A t \in Slots : m <= t /\ t < last =>
             /\ M[t] # L[s]
             /\ \E u \in Slots : n <= u /\ u < last + 1 /\ L[u] = M[t]
        /\ s = i \/ n <= s =>
             \A u \in Slots : n <= u /\ u < last + 1 /\ L[u] # L[s] =>
               \E t \in Slots : m <= t /\ t < last /\ M[t] = L[u]
    <3>1. /\ L \in [Slots -> Components] /\ M \in [Slots -> Components]
          /\ OneToOne(L) /\ OneToOne(M) /\ s \in Slots /\ last \in Slots /\ s <= last
          /\ i \in 0 .. IndexRange - 1
      BY <2>2, <2>3
    <3>2. n \in Nat /\ m \in Nat
      BY <2>7, <2>8
    <3> QED BY <2>5, <2>7, <2>8, <3>1, <3>2, ShrinkWalk
  <2>10. \A t \in Slots : /\ Ahead(t) <=> n <= t /\ t < last + 1
                          /\ Ahead(t)' <=> m <= t /\ t < last
    BY <2>1, <2>3, <2>4, <2>6 DEF Ahead
  <2>11. ASSUME NEW t \in Slots, Ahead(t)' PROVE M[t] \in due' \cup extra'
    <3>1. M[t] # c /\ \E u \in Slots : Ahead(u) /\ L[u] = M[t]
      BY <2>2, <2>9, <2>10, <2>11
    <3> QED BY <1>2, <1>4, <2>1, <3>1
  <2>12. ASSUME NEW d \in due' PROVE \E t \in Slots : Ahead(t)' /\ M[t] = d
    <3>1. d \in due /\ d # c /\ c = main.running
      BY <1>4, <2>12
    <3>2. s = i \/ n <= s
      <4>1. s = index \/ Ahead(s)
        BY <1>2, <2>1, <2>2, <3>1
      <4> QED BY <2>1, <2>2, <2>10, <4>1
    <3>3. PICK u \in Slots : Ahead(u) /\ L[u] = d
      BY <1>2, <2>1, <3>1
    <3>4. \E t \in Slots : m <= t /\ t < last /\ M[t] = L[u]
      BY <2>2, <2>9, <2>10, <3>1, <3>2, <3>3
    <3> QED BY <2>10, <3>3, <3>4
  <2>13. ASSUME due' # {}, NEW t \in Slots, t < active_end' PROVE M[t] # main.running
    <3>1. c = main.running
      BY <1>4, <2>13
    <3>2. t < last /\ t \in Nat
      BY <2>4, <2>13, SlotFact
    <3>3. t # last
      BY <2>3, <3>2
    <3> QED BY <2>2, <2>3, <2>5, <3>1, <3>3 DEF OneToOne
  <2> QED BY <1>1, <1>2, <2>1, <2>11, <2>12, <2>13 DEF WalkInv
<1> QED BY <1>5, <1>6

(* Enabling one puts it at the end of what is ahead.                       *)
LEMMA EnableWalk ==
  ASSUME IInv, IInv', WalkInv, NEW c \in Components, EnableLoop(c)
  PROVE  WalkInv'
<1> SUFFICES ASSUME InPhase' PROVE WalkInv'
  BY DEF WalkInv
<1>0. MayAct /\ Acts /\ in_loop' = in_loop /\ due' = due /\ extra' = extra \cup {c}
  BY DEF EnableLoop
<1>1. /\ InPhase /\ At("body") /\ At("body")' /\ main'.running = main.running
      /\ index' = index => NextIndex' = NextIndex
  BY <1>0, ActsWalk
<1>2. /\ in_loop
      /\ \A s \in Slots : Ahead(s) => looping[s] \in due \cup extra
      /\ \A d \in due : \E s \in Slots : Ahead(s) /\ looping[s] = d
      /\ due # {} => \A s \in Slots : s < active_end /\ looping[s] = main.running =>
                                        s = index \/ Ahead(s)
  BY <1>1 DEF WalkInv
<1>3. ArrayInv /\ ArrayInv'
  BY DEF IInv
<1>4. CASE c \in Active
  <2>1. UNCHANGED << looping, active_end, index >>
    BY <1>4 DEF EnableLoop, partition
  <2>2. \A s \in Slots : Ahead(s)' <=> Ahead(s)
    BY <1>1, <2>1 DEF Ahead
  <2> QED BY <1>0, <1>1, <1>2, <2>1, <2>2 DEF WalkInv
<1>5. CASE c \notin Active
  <2>1. PICK L, M, s, e : L = looping /\ M = looping' /\ s = SlotOf(c) /\ e = active_end
    OBVIOUS
  <2>2. /\ s \in Slots /\ L[s] = c /\ ~ (s < e) /\ e \in 0 .. N
        /\ L \in [Slots -> Components] /\ OneToOne(L) /\ Onto(L)
    BY <1>3, <1>5, <2>1, SlotOfFact DEF ArrayInv
  <2>3. e \in Slots /\ e <= s /\ e \in Nat /\ s \in Nat
    BY <2>2, NFact, SlotFact
  <2>4. /\ M = [L EXCEPT ![s] = L[e], ![e] = L[s]] /\ active_end' = e + 1 /\ index' = index
    BY <1>5, <2>1 DEF EnableLoop, Activate, Swapped
  <2>5. M[e] = c /\ \A u \in Slots \ {s, e} : M[u] = L[u]
    BY <2>2, <2>3, <2>4, SwapFact
  <2>6. PICK n : n = NextIndex /\ n = NextIndex'
    BY <1>1, <2>4
  <2>7. n \in Nat
    <3>1. index \in 0 .. IndexRange - 1
      BY <1>3 DEF ArrayInv
    <3>2. index + 1 \in Int
      BY <3>1, RangeFact
    <3> QED BY <2>6, <3>1, <3>2, RangeFact DEF NextIndex
  <2>8. \A t \in Slots : t < e => M[t] = L[t]
    <3>1. \A t \in Slots : t < e => t # s /\ t # e
      BY <2>3, SlotFact
    <3> QED BY <2>5, <3>1
  <2>9. \A t \in Slots : /\ Ahead(t) <=> n <= t /\ t < e
                         /\ Ahead(t)' <=> n <= t /\ t < e + 1
    BY <2>1, <2>4, <2>6 DEF Ahead
  <2>10. \A t \in Slots : t < e + 1 => t < e \/ t = e
    BY <2>3, SlotFact
  <2>11. \A t \in Slots : t < e => t < e + 1
    BY <2>3, SlotFact
  <2>12. ASSUME NEW t \in Slots, Ahead(t)' PROVE M[t] \in due' \cup extra'
    <3>1. CASE t = e
      BY <1>0, <2>5, <3>1
    <3>2. CASE t # e
      <4>1. Ahead(t) /\ M[t] = L[t]
        BY <2>8, <2>9, <2>10, <2>12, <3>2
      <4> QED BY <1>0, <1>2, <2>1, <4>1
    <3> QED BY <3>1, <3>2
  <2>13. ASSUME NEW d \in due' PROVE \E t \in Slots : Ahead(t)' /\ M[t] = d
    <3>1. PICK t \in Slots : Ahead(t) /\ L[t] = d
      BY <1>0, <1>2, <2>1, <2>13
    <3> QED BY <2>8, <2>9, <2>11, <3>1
  <2>14. ASSUME due' # {}, NEW t \in Slots, t < active_end', M[t] = main.running
         PROVE  t = index \/ Ahead(t)'
    <3>1. PICK u \in Slots : Ahead(u)
      BY <1>0, <1>2, <2>14
    <3>2. n <= e
      BY <2>3, <2>7, <2>9, <3>1, SlotFact
    <3>3. CASE t = e
      BY <2>3, <2>9, <3>2, <3>3
    <3>4. CASE t # e
      <4>1. t < e /\ M[t] = L[t]
        BY <2>4, <2>8, <2>10, <2>14, <3>4
      <4>2. t = index \/ Ahead(t)
        BY <1>0, <1>2, <2>1, <2>14, <4>1
      <4> QED BY <2>9, <2>11, <4>1, <4>2
    <3> QED BY <3>3, <3>4
  <2> QED BY <1>0, <1>1, <1>2, <2>1, <2>4, <2>12, <2>13, <2>14 DEF WalkInv
<1> QED BY <1>4, <1>5

(* The main loop's own steps.  A phase begins with all that is active due; *)
(* a call takes the next one, and its return goes on behind it.            *)
LEMMA EntersWalk ==
  ASSUME IInv, EntersPhase, UNCHANGED << looping, active_end >>
  PROVE  WalkInv'
<1>1. main \in MainRecord /\ ArrayInv
  BY DEF IInv, TypeOK
<1>2. main'.pc = (IF SetUp THEN "phase" ELSE "wait") /\ main'.i = main.i
  BY <1>1 DEF EntersPhase, MainRecord
<1>3. CASE ~ SetUp
  BY <1>2, <1>3 DEF WalkInv, InPhase
<1>4. CASE SetUp
  <2>1. /\ main'.pc = "phase" /\ in_loop' = TRUE
        /\ index' = 0 /\ due' = Active /\ extra' = {}
    BY <1>2, <1>4 DEF EntersPhase
  <2>2. \A s \in Slots : Ahead(s)' <=> s < active_end
    BY <2>1, SlotFact DEF Ahead, NextIndex, At
  <2>3. \A s \in Slots : s < active_end <=> s \in 0 .. active_end - 1
    BY <1>1, NFact DEF ArrayInv
  <2>4. \A s \in 0 .. active_end - 1 : s \in Slots
    BY <1>1, NFact DEF ArrayInv
  <2> QED BY <2>1, <2>2, <2>3, <2>4 DEF WalkInv, At, Active
<1> QED BY <1>3, <1>4

LEMMA RunLoopWalk ==
  ASSUME IInv, WalkInv, RunLoop
  PROVE  WalkInv' /\ looping[index] \in due \cup extra
<1>1. /\ main \in MainRecord /\ ArrayInv /\ SetUp
      /\ main.pc = "phase" /\ index < active_end
  BY DEF IInv, TypeOK, MainInv, RunLoop, At
<1>2. PICK c : c = looping[index]
  OBVIOUS
<1>3. /\ main'.pc = "body" /\ main'.running = c /\ main'.i = main.i
      /\ due' = due \ {c} /\ extra' = extra \ {c}
      /\ UNCHANGED << looping, active_end, index, in_loop >>
  BY <1>1, <1>2 DEF RunLoop, Enters, MainRecord, partition
<1>4. /\ index \in 0 .. IndexRange - 1 /\ index \in Slots /\ NextIndex = index
      /\ NextIndex' = index + 1 /\ index \in Nat /\ active_end \in Nat
  <2>1. index \in 0 .. IndexRange - 1 /\ index \in Slots /\ active_end \in Nat /\ index \in Nat
    BY <1>1, NFact, RangeFact DEF ArrayInv
  <2>2. NextIndex' = (index + 1) % IndexRange
    BY <1>3 DEF NextIndex, At
  <2>3. index < IndexRange - 1
    BY <2>1, SlotFact
  <2>4. NextIndex' = index + 1
    BY <2>1, <2>2, <2>3, WrapFact, RangeFact
  <2> QED BY <1>1, <2>1, <2>4 DEF NextIndex, At
<1>5. /\ in_loop
      /\ \A s \in Slots : Ahead(s) => looping[s] \in due \cup extra
      /\ \A d \in due : \E s \in Slots : Ahead(s) /\ looping[s] = d
  BY <1>1 DEF WalkInv, InPhase
<1>6. Ahead(index)
  BY <1>1, <1>4 DEF Ahead
<1>7. \A s \in Slots : Ahead(s)' <=> Ahead(s) /\ s # index
  BY <1>3, <1>4, SlotFact DEF Ahead
<1>8. \A s \in Slots : looping[s] = c => s = index
  BY <1>1, <1>2, <1>4 DEF ArrayInv, OneToOne
<1>9. WalkInv'
  <2>1. \A s \in Slots : Ahead(s)' => looping[s] \in due' \cup extra'
    BY <1>3, <1>5, <1>7, <1>8
  <2>2. ASSUME NEW d \in due' PROVE \E s \in Slots : Ahead(s)' /\ looping[s] = d
    BY <1>2, <1>3, <1>5, <1>7, <2>2
  <2>3. \A s \in Slots : looping[s] = main'.running => s = index
    BY <1>3, <1>8
  <2> QED BY <1>3, <1>5, <2>1, <2>2, <2>3 DEF WalkInv
<1> QED BY <1>4, <1>5, <1>6, <1>9

LEMMA ReturnsWalk ==
  ASSUME IInv, WalkInv, Returns
  PROVE  WalkInv'
<1>1. main \in MainRecord /\ main.pc = "body"
  BY DEF IInv, TypeOK, Returns, At
<1>2. /\ main'.i = main.i
      /\ main'.pc = IF SetUp THEN "phase" ELSE IF main.j = 0 THEN "proceed" ELSE "wait"
      /\ index' = IF SetUp THEN (index + 1) % IndexRange ELSE index
      /\ UNCHANGED << looping, active_end, in_loop, due, extra >>
  BY <1>1 DEF Returns, MainRecord, ghosts
<1>3. CASE ~ SetUp
  BY <1>2, <1>3 DEF WalkInv, InPhase
<1>4. CASE SetUp
  <2>1. NextIndex' = NextIndex /\ ~ At("body")' /\ InPhase
    BY <1>1, <1>2, <1>4 DEF NextIndex, At, InPhase
  <2>2. \A s \in Slots : Ahead(s)' <=> Ahead(s)
    BY <1>2, <2>1 DEF Ahead
  <2> QED BY <1>2, <2>1, <2>2 DEF WalkInv
<1> QED BY <1>3, <1>4

(* The other steps are not made in a phase, or leave the walk alone.       *)
LEMMA OutsideWalk ==
  ASSUME IInv, SetupCall \/ NextComponent \/ WaitMore \/ WaitCall \/ WaitEnds \/ ScanNext \/ EndPhase
  PROVE  ~ InPhase'
<1>1. main \in MainRecord /\ MainInv
  BY DEF IInv, TypeOK
<1>2. CASE SetupCall \/ WaitCall
  <2>1. ~ SetUp
    BY <1>1, <1>2 DEF SetupCall, WaitCall, At, MainInv
  <2>2. main'.i = main.i
    BY <1>1, <1>2 DEF SetupCall, WaitCall, CallRuns, CallSkips, Enters, MainRecord
  <2> QED BY <2>1, <2>2 DEF InPhase, SetUp
<1>3. CASE NextComponent \/ WaitMore \/ WaitEnds \/ ScanNext \/ EndPhase
  <2>1. main'.pc \notin {"phase", "body"}
    BY <1>1, <1>3 DEF NextComponent, WaitMore, WaitEnds, ScanNext, EndPhase, Goes, At, MainRecord
  <2> QED BY <2>1 DEF InPhase
<1> QED BY <1>2, <1>3

LEMMA StillWalk ==
  ASSUME WalkInv, UNCHANGED << looping, active_end, index, in_loop, due, extra >>,
         InPhase' => InPhase, At("body")' = At("body"), main'.running = main.running
  PROVE  WalkInv'
<1>1. NextIndex' = NextIndex
  BY DEF NextIndex
<1>2. \A s \in Slots : Ahead(s)' <=> Ahead(s)
  BY <1>1 DEF Ahead
<1> QED BY <1>2 DEF WalkInv

LEMMA WalkKeeps == IInv /\ IInv' /\ WalkInv /\ [Next]_vars => WalkInv'
<1> SUFFICES ASSUME IInv, IInv', WalkInv, [Next]_vars PROVE WalkInv'
  OBVIOUS
<1>1. CASE SetupCall \/ NextComponent \/ WaitMore \/ WaitCall \/ WaitEnds \/ ScanNext \/ EndPhase
  BY <1>1, OutsideWalk DEF WalkInv
<1>2. CASE BeginPhase
  <2>1. CASE has_pending
    <3>1. main \in MainRecord /\ main'.pc = "scan"
      BY <1>2, <2>1 DEF IInv, TypeOK, BeginPhase, MainRecord
    <3> QED BY <3>1 DEF WalkInv, InPhase
  <2>2. CASE ~ has_pending
    BY <1>2, <2>2, EntersWalk DEF BeginPhase
  <2> QED BY <2>1, <2>2
<1>3. CASE ScanEnds
  BY <1>3, EntersWalk DEF ScanEnds
<1>4. CASE RunLoop
  BY <1>4, RunLoopWalk
<1>5. CASE Returns
  BY <1>5, ReturnsWalk
<1>6. ASSUME NEW c \in Components, DisableLoop(c) \/ MarkFailed(c) PROVE WalkInv'
  <2>1. /\ MayAct /\ Acts /\ DisableComponentLoop(c) /\ Stops(c) /\ in_loop' = in_loop
    BY <1>6 DEF DisableLoop, MarkFailed
  <2> QED BY <2>1, DisableWalk
<1>7. ASSUME NEW c \in Components, EnableLoop(c) PROVE WalkInv'
  BY <1>7, EnableWalk
<1>8. ASSUME NEW c \in Components, ResetToConstructionState(c) PROVE WalkInv'
  <2>1. /\ MayAct /\ Acts
        /\ UNCHANGED << looping, active_end, index, in_loop, due, extra >>
    BY <1>8 DEF ResetToConstructionState, partition, ghosts
  <2> QED BY <2>1, ActsWalk, StillWalk
<1>9. ASSUME NEW c \in Components, RequestBegins(c) \/ RequestEnds(c) PROVE WalkInv'
  <2>1. UNCHANGED << main, looping, active_end, index, in_loop, due, extra >>
    BY <1>9 DEF RequestBegins, RequestEnds, partition, ghosts
  <2>2. (InPhase' => InPhase) /\ At("body")' = At("body")
    BY <2>1 DEF InPhase, SetUp, At
  <2> QED BY <2>1, <2>2, StillWalk
<1>10. CASE UNCHANGED vars
  <2>1. UNCHANGED << main, looping, active_end, index, in_loop, due, extra >>
    BY <1>10 DEF vars, partition, ghosts
  <2>2. (InPhase' => InPhase) /\ At("body")' = At("body")
    BY <2>1 DEF InPhase, SetUp, At
  <2> QED BY <2>1, <2>2, StillWalk
<1> QED BY <1>1, <1>2, <1>3, <1>4, <1>5, <1>6, <1>7, <1>8, <1>9, <1>10
        DEF Next, MainStep, Operation

(* Every phase runs what is active once, and passes nothing over, for any  *)
(* number of components and any swaps their code causes on the way.        *)
THEOREM PhaseRunsEachOnce == Spec => EachRunsOnce
<1>1. Init => WalkInv
  BY DEF Init, WalkInv, InPhase
<1>2. IInv /\ WalkInv /\ RunLoop => looping[index] \in due \cup extra
  BY RunLoopWalk
<1>3. ASSUME IInv, WalkInv, EndPhase PROVE due = {}
  <2>1. InPhase /\ ~ At("body") /\ ArrayInv /\ index >= active_end
    BY <1>3 DEF EndPhase, IInv, MainInv, InPhase, At
  <2>2. \A s \in Slots : ~ Ahead(s)
    <3>1. index \in Int /\ active_end \in Int
      BY <2>1, RangeFact DEF ArrayInv
    <3> QED BY <2>1, <3>1, SlotFact DEF Ahead, NextIndex
  <2> QED BY <1>3, <2>1, <2>2 DEF WalkInv
<1>4. IInv /\ WalkInv =>
        (RunLoop => looping[index] \in due \cup extra) /\ (EndPhase => due = {})
  BY <1>2, <1>3
<1>5. IInv /\ WalkInv /\ [Next]_vars =>
        [/\ RunLoop => looping[index] \in due \cup extra
         /\ EndPhase => due = {}]_vars
  BY <1>4
<1> QED BY <1>1, <1>5, InitKeeps, StepKeeps, WalkKeeps, PTL DEF Spec, EachRunsOnce
=============================================================================
