--------------------------- MODULE ComponentLoop ---------------------------
(***************************************************************************)
(* Which components run, and when: Application::setup() and the component  *)
(* phase of Application::loop() (src/esphome/core/application.{h,cpp}),    *)
(* with the component states they keep (src/esphome/core/component.cpp).   *)
(*                                                                         *)
(* looping_components_ is partitioned into [active | inactive]; disabling, *)
(* enabling and failing a component swap it across the border, also while  *)
(* the main loop walks the active part.  Interrupts and other tasks ask    *)
(* for a component's loop through two volatile flags, written one after    *)
(* the other, that the main loop reads and clears in the opposite order.   *)
(*                                                                         *)
(* Only components with a loop() are modelled.  What their code does is    *)
(* open: it may disable, enable, fail or reset any component.              *)
(***************************************************************************)
EXTENDS Integers, Sequences

CONSTANTS Order,        \* components_, in the order of setup
          None,
          Requesters,   \* the components whose loop is asked for elsewhere
          Failing,      \* the components that may be marked failed
          Resettable,   \* those that may reset_to_construction_state()
          MaxOps        \* operations in one call of a component (a bound)

Components == {Order[n] : n \in DOMAIN Order}
N == Len(Order)
Slots == 0 .. N - 1
IndexRange == 65536     \* current_loop_index_ is an uint16_t

ASSUME OrderAssumption == /\ Order \in Seq(Components)
                          /\ N \in 1 .. IndexRange - 1
                          /\ \A m, n \in 1 .. N : Order[m] = Order[n] => m = n
ASSUME NoneAssumption == None \notin Components
ASSUME UseAssumption == /\ Requesters \subseteq Components
                        /\ Resettable \subseteq Failing /\ Failing \subseteq Components
                        /\ MaxOps \in Nat

VARIABLES looping,       \* looping_components_
          active_end,    \* looping_components_active_end_
          index,         \* current_loop_index_
          in_loop,       \* in_loop_
          state,         \* component_state_ & COMPONENT_STATE_MASK
          pending,       \* pending_enable_loop_
          has_pending,   \* has_pending_enable_loop_requests_
          requesting,    \* in enable_loop_soon_any_context(), flag set
          main,          \* where the main loop is, and its locals
          owed,          \* requested, and not run since (ghost)
          due,           \* active since the phase began, not run (ghost)
          extra,         \* may run in this phase all the same (ghost)
          failed_once    \* marked failed at some time (ghost)

partition == << looping, active_end, index >>
flags == << pending, has_pending, requesting >>
ghosts == << owed, due, extra, failed_once >>
vars == << partition, in_loop, state, flags, main, ghosts >>
-----------------------------------------------------------------------------
States == {"construction", "setup", "loop", "failed", "loop_done"}
Runnable == {"construction", "setup", "loop"}

(* i: the component setup() is at, or N + 1 when it is done; j: the one    *)
(* its busy-wait is at, or 0.                                              *)
MainRecord == [pc : {"setup", "proceed", "idle", "scan", "wait", "phase", "body"},
               i : 1 .. N + 1, j : 0 .. N + 1, running : Components \cup {None},
               ops : 0 .. MaxOps, scan : 0 .. N, found : BOOLEAN]

Active == {looping[s] : s \in 0 .. active_end - 1}
SetUp == main.i > N

TypeOK == /\ looping \in [Slots -> Components]
          /\ \A c \in Components : \E s \in Slots : looping[s] = c
          /\ active_end \in 0 .. N
          /\ index \in 0 .. IndexRange - 1
          /\ in_loop \in BOOLEAN
          /\ state \in [Components -> States]
          /\ pending \in [Components -> BOOLEAN]
          /\ has_pending \in BOOLEAN
          /\ requesting \subseteq Components
          /\ main \in MainRecord
          /\ owed \subseteq Components /\ failed_once \subseteq Components
          /\ due \subseteq Components /\ extra \subseteq Components

(* calculate_looping_components_: the components in the order of setup(),  *)
(* those that disabled their loop early last, as the inactive part.        *)
Position(c) == CHOOSE n \in DOMAIN Order : Order[n] = c
Arrangements(early) ==
  {f \in [Slots -> Components] :
     /\ \A c \in Components : \E s \in Slots : f[s] = c
     /\ \A s, t \in Slots : s < t =>
          IF f[s] \in early <=> f[t] \in early
          THEN Position(f[s]) < Position(f[t])
          ELSE f[t] \in early}

(* A component may have disabled its loop before setup(); one that was     *)
(* marked failed before is left out.                                       *)
Init ==
  /\ \E early \in SUBSET Components :
       /\ looping \in Arrangements(early)
       /\ active_end \in {e \in 0 .. N : \A s \in Slots :
                                             s < e <=> looping[s] \notin early}
       /\ state = [c \in Components |-> IF c \in early THEN "loop_done"
                                                       ELSE "construction"]
  /\ index = 0 /\ in_loop = FALSE
  /\ pending = [c \in Components |-> FALSE]
  /\ has_pending = FALSE /\ requesting = {}
  /\ main = [pc |-> "setup", i |-> 1, j |-> 0, running |-> None,
             ops |-> 0, scan |-> 0, found |-> FALSE]
  /\ owed = {} /\ due = {} /\ extra = {} /\ failed_once = {}
-----------------------------------------------------------------------------
At(pc) == main.pc = pc
Goes(pc) == main' = [main EXCEPT !.pc = pc]
StateIs(c, s) == state' = [state EXCEPT ![c] = s]

SlotOf(c) == CHOOSE s \in Slots : looping[s] = c
Swapped(s, t) == [looping EXCEPT ![s] = looping[t], ![t] = looping[s]]

(* disable_component_loop_: the last active component takes the place of   *)
(* this one; if that is the place being run, it is run next.               *)
DisableComponentLoop_KeepsIndex(c) ==
  LET last == active_end - 1
  IN  IF c \in Active
      THEN /\ looping' = Swapped(SlotOf(c), last)
           /\ active_end' = last
           /\ UNCHANGED index
      ELSE UNCHANGED partition
DisableComponentLoop_NoWrap(c) ==
  LET s == SlotOf(c)
      last == active_end - 1
  IN  IF c \in Active
      THEN /\ looping' = Swapped(s, last)
           /\ active_end' = last
           /\ index' = IF s # last /\ in_loop /\ s = index THEN index - 1 ELSE index
      ELSE UNCHANGED partition
DisableComponentLoop(c) ==
  LET s == SlotOf(c)
      last == active_end - 1
  IN  IF c \in Active
      THEN /\ looping' = Swapped(s, last)
           /\ active_end' = last
           /\ index' = IF s # last /\ in_loop /\ s = index
                       THEN (index - 1) % IndexRange ELSE index
      ELSE UNCHANGED partition

(* activate_looping_component_                                             *)
Activate(s) == /\ looping' = Swapped(s, active_end)
               /\ active_end' = active_end + 1
               /\ UNCHANGED index

(* Component code runs in a setup() or a loop(), or in the scheduler's     *)
(* callbacks at the top of an iteration.                                   *)
MayAct == IF At("body") THEN main.ops < MaxOps ELSE At("idle")
Acts == main' = IF At("body") THEN [main EXCEPT !.ops = main.ops + 1] ELSE main

(* Stopping another component than the one that runs frees the rest of     *)
(* this phase from its duty, and the request it had from being owed.       *)
Stops(c) == IF c = main.running THEN /\ due' = due \ {c}
                                     /\ extra' = extra \ {c}
            ELSE /\ due' = {}
                 /\ extra' = (extra \cup due) \ {c}

DisableLoop(c) ==
  /\ MayAct /\ Acts
  /\ state[c] # "loop_done"
  /\ StateIs(c, "loop_done")
  /\ DisableComponentLoop(c)
  /\ Stops(c)
  /\ owed' = IF c = main.running THEN owed ELSE owed \ {c}
  /\ UNCHANGED << in_loop, flags, failed_once >>

EnableLoop(c) ==
  /\ MayAct /\ Acts
  /\ state[c] = "loop_done"
  /\ StateIs(c, "loop")
  /\ IF c \in Active THEN UNCHANGED partition ELSE Activate(SlotOf(c))
  /\ extra' = extra \cup {c}
  /\ UNCHANGED << in_loop, flags, owed, due, failed_once >>

MarkFailed_StaysActive(c) ==
  /\ MayAct /\ Acts
  /\ c \in Failing
  /\ StateIs(c, "failed")
  /\ Stops(c)
  /\ owed' = owed \ {c}
  /\ failed_once' = failed_once \cup {c}
  /\ UNCHANGED << partition, in_loop, flags >>
MarkFailed(c) ==
  /\ MayAct /\ Acts
  /\ c \in Failing
  /\ StateIs(c, "failed")
  /\ DisableComponentLoop(c)
  /\ Stops(c)
  /\ owed' = owed \ {c}
  /\ failed_once' = failed_once \cup {c}
  /\ UNCHANGED << in_loop, flags >>

ResetToConstructionState(c) ==
  /\ MayAct /\ Acts
  /\ c \in Resettable /\ state[c] = "failed"
  /\ StateIs(c, "construction")
  /\ UNCHANGED << partition, in_loop, flags, ghosts >>

(* enable_loop_soon_any_context(), from an interrupt or another task: the  *)
(* component's flag first, then the global one.                            *)
RequestBegins(c) == /\ c \in Requesters \ requesting
                    /\ pending' = [pending EXCEPT ![c] = TRUE]
                    /\ requesting' = requesting \cup {c}
                    /\ owed' = IF c \in Active \/ state[c] = "loop_done"
                               THEN owed \cup {c} ELSE owed
                    /\ UNCHANGED << partition, in_loop, state, has_pending >>
                    /\ UNCHANGED << main, due, extra, failed_once >>

RequestEnds(c) == /\ c \in requesting
                  /\ has_pending' = TRUE
                  /\ requesting' = requesting \ {c}
                  /\ UNCHANGED << partition, in_loop, state, pending, main, ghosts >>
-----------------------------------------------------------------------------
(* A component's setup() or loop() is entered, which answers the requests  *)
(* made so far.                                                            *)
Enters(c) == /\ main' = [main EXCEPT !.pc = "body", !.running = c, !.ops = 0]
             /\ owed' = owed \ {c}

(* Component::call(): setup() the first time, loop() from the second on,   *)
(* and nothing for a component that has failed or is done.                 *)
CallRuns(c) == /\ state[c] \in Runnable
               /\ StateIs(c, IF state[c] = "construction" THEN "setup" ELSE "loop")
               /\ Enters(c)
               /\ UNCHANGED << partition, in_loop, flags, due, extra, failed_once >>
CallSkips(c, next) == /\ state[c] \notin Runnable
                      /\ main' = next
                      /\ UNCHANGED << partition, in_loop, state, flags, ghosts >>

(* Application::setup() calls each component once ...                      *)
SetupCall == /\ At("setup")
             /\ \/ CallRuns(Order[main.i])
                \/ CallSkips(Order[main.i], [main EXCEPT !.pc = "proceed"])

(* ... then goes on to the next, if this one can_proceed(), which is for   *)
(* the component to say; after the last, the active ones are set to LOOP.  *)
NextComponent ==
  /\ At("proceed")
  /\ main' = [main EXCEPT !.pc = IF main.i < N THEN "setup" ELSE "idle",
                          !.i = main.i + 1, !.j = 0]
  /\ state' = IF main.i < N THEN state
              ELSE [c \in Components |-> IF c \in Active THEN "loop" ELSE state[c]]
  /\ UNCHANGED << partition, in_loop, flags, ghosts >>

(* Until then the busy-wait runs the scheduler and the components so far;  *)
(* it gives up on a component that has failed.                             *)
WaitMore ==
  /\ At("proceed")
  /\ main.j = 0 \/ state[Order[main.i]] # "failed"
  /\ main' = [main EXCEPT !.pc = "idle", !.j = 1]
  /\ UNCHANGED << partition, in_loop, state, flags, ghosts >>

WaitCall ==
  /\ At("wait") /\ main.j <= main.i
  /\ \/ CallRuns(Order[main.j])
     \/ CallSkips(Order[main.j], [main EXCEPT !.j = main.j + 1])

WaitEnds ==
  /\ At("wait") /\ main.j > main.i
  /\ in_loop' = FALSE
  /\ Goes("proceed")
  /\ UNCHANGED << partition, state, flags, ghosts >>
-----------------------------------------------------------------------------
(* The phase proper begins once requests are processed: in setup() the     *)
(* busy-wait's calls, in loop() the walk over the active components.       *)
EntersPhase ==
  /\ in_loop' = TRUE
  /\ main' = [main EXCEPT !.pc = IF SetUp THEN "phase" ELSE "wait",
                          !.scan = 0, !.found = FALSE]
  /\ index' = IF SetUp THEN 0 ELSE index
  /\ due' = IF SetUp THEN Active ELSE {}
  /\ extra' = {}

(* ComponentPhaseGuard: the global flag is cleared before the scan.        *)
BeginPhase ==
  /\ At("idle")
  /\ IF has_pending
     THEN /\ has_pending' = FALSE
          /\ main' = [main EXCEPT !.pc = "scan", !.scan = active_end]
          /\ UNCHANGED << index, in_loop, due, extra >>
     ELSE /\ EntersPhase
          /\ UNCHANGED has_pending
  /\ UNCHANGED << looping, active_end, state, pending, requesting >>
  /\ UNCHANGED << owed, failed_once >>

(* enable_pending_loops_ looks at one inactive component.                  *)
ScanNext ==
  LET c == looping[main.scan] IN
  /\ At("scan") /\ main.scan < N
  /\ IF pending[c] /\ state[c] = "loop_done"
     THEN /\ pending' = [pending EXCEPT ![c] = FALSE]
          /\ StateIs(c, "loop")
          /\ Activate(main.scan)
          /\ main' = [main EXCEPT !.scan = main.scan + 1]
     ELSE /\ pending' = [pending EXCEPT ![c] = pending[c] /\ state[c] # "loop"]
          /\ main' = [main EXCEPT !.scan = main.scan + 1,
                        !.found = main.found \/ (pending[c] /\ state[c] # "loop")]
          /\ UNCHANGED << state, partition >>
  /\ UNCHANGED << in_loop, has_pending, requesting, ghosts >>

(* What could not be enabled yet is looked at again next time.             *)
ScanEnds_ClearsFlag ==
  /\ At("scan") /\ main.scan = N
  /\ has_pending' = main.found
  /\ EntersPhase
  /\ UNCHANGED << looping, active_end, state, pending, requesting >>
  /\ UNCHANGED << owed, failed_once >>
ScanEnds ==
  /\ At("scan") /\ main.scan = N
  /\ has_pending' = (has_pending \/ main.found)
  /\ EntersPhase
  /\ UNCHANGED << looping, active_end, state, pending, requesting >>
  /\ UNCHANGED << owed, failed_once >>

RunLoop ==
  LET c == looping[index] IN
  /\ At("phase") /\ index < active_end
  /\ Enters(c)
  /\ due' = due \ {c} /\ extra' = extra \ {c}
  /\ UNCHANGED << partition, in_loop, state, flags, failed_once >>

(* The setup() or loop() returns to where it was called from.              *)
Returns ==
  /\ At("body")
  /\ main' = [main EXCEPT !.running = None, !.ops = 0,
                !.pc = IF SetUp THEN "phase" ELSE IF main.j = 0 THEN "proceed" ELSE "wait",
                !.j = IF SetUp \/ main.j = 0 THEN main.j ELSE main.j + 1]
  /\ index' = IF SetUp THEN (index + 1) % IndexRange ELSE index
  /\ UNCHANGED << looping, active_end, in_loop, state, flags, ghosts >>

EndPhase ==
  /\ At("phase") /\ index >= active_end
  /\ in_loop' = FALSE
  /\ Goes("idle")
  /\ due' = {} /\ extra' = {}
  /\ UNCHANGED << partition, state, flags, owed, failed_once >>
-----------------------------------------------------------------------------
MainStep == SetupCall \/ NextComponent \/ WaitMore \/ WaitCall \/ WaitEnds
            \/ BeginPhase \/ ScanNext \/ ScanEnds \/ RunLoop \/ Returns \/ EndPhase

Operation(c) == DisableLoop(c) \/ EnableLoop(c) \/ MarkFailed(c)
                \/ ResetToConstructionState(c)

Next == \/ MainStep
        \/ \E c \in Components : Operation(c) \/ RequestBegins(c) \/ RequestEnds(c)

Spec == Init /\ [][Next]_vars

(* The main loop never stops, every setup() and loop() returns, and so     *)
(* does every interrupt handler.                                           *)
FairSpec == /\ Spec
            /\ WF_vars(MainStep)
            /\ \A c \in Components : WF_vars(RequestEnds(c))
-----------------------------------------------------------------------------
(* The border of the partition agrees with the component states: what is   *)
(* active is not failed or done, and what should loop is active, except a  *)
(* component that failed and was reset (application.h:493-507).            *)
PartitionMatchesState ==
  \A c \in Components :
    /\ c \in Active => state[c] \in Runnable
    /\ state[c] \in Runnable /\ c \notin failed_once => c \in Active

(* No request is lost: as long as a disabled component is owed a loop()    *)
(* its flag is set, and the global flag is set, or about to be, or cleared *)
(* by a scan that has yet to come to the component (application.cpp:449-   *)
(* 499, application.h:654-665).                                            *)
NoLostRequest ==
  \A c \in owed : state[c] = "loop_done" =>
    /\ pending[c]
    /\ \/ has_pending
       \/ c \in requesting
       \/ At("scan") /\ \E s \in main.scan .. N - 1 : looping[s] = c

(* No component runs twice in a phase, unless it was enabled in it, however*)
(* the components are swapped meanwhile; and a phase that ends has run     *)
(* every component that was active when it began and stopped itself at     *)
(* most: a swapped one is not passed over (application.cpp:395-422).       *)
EachRunsOnce == [][/\ RunLoop => looping[index] \in due \cup extra
                  /\ EndPhase => due = {}]_vars

(* A component whose loop was requested gets to run it, or is stopped by   *)
(* other code (component.h:251-257).                                       *)
RequestsAreServed ==
  \A c \in Components : c \in owed /\ SetUp ~> c \notin owed

=============================================================================
