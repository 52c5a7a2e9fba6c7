----------------------------- MODULE Automation -----------------------------
(***************************************************************************)
(* Automations: the chains of actions of src/esphome/core/automation.h and *)
(* base_automation.h, and the four kinds of script of                      *)
(* src/esphome/components/script/script.h that start, stop and await them. *)
(*                                                                         *)
(* All of it runs on the main loop, but an action that has to wait returns *)
(* and is resumed by a timer or by its component's loop(), and an action   *)
(* may execute or stop any script, the one it is part of and those that    *)
(* are further down the stack too.  `stack' holds the calls under way, the *)
(* innermost first; a step runs the code from one call to the next.        *)
(*                                                                         *)
(* A program says which scripts there are and of which actions they are    *)
(* made, as the generated code does; it is chosen once, by Init.  An       *)
(* instance is known by the number in the last argument it was given.      *)
(***************************************************************************)
EXTENDS Integers, FiniteSets, Sequences, SequencesExt

CONSTANTS Programs,        \* the programs that are looked at
          MaxId,           \* instances that are asked for (a bound)
          None

Kinds == {"execute", "stop", "delay", "wait", "wait_until", "if", "while",
          "repeat", "continuation", "while_continuation",
          "repeat_continuation"}
Continuations == {"continuation", "while_continuation", "repeat_continuation"}
Modes == {"single", "restart", "queued", "parallel"}

(* The lists inside of an action; what they resume it with when they end.  *)
Branches(p, a) ==
  IF p.kind[a] = "if" THEN {p.then[a], p.els[a]}
  ELSE IF p.kind[a] \in {"while", "repeat"} THEN {p.then[a]} ELSE {}
InsideOf(p, a) == UNION {Range(list) : list \in Branches(p, a)}
ContinuationOf(kind) == CASE kind = "if" -> "continuation"
                          [] kind = "while" -> "while_continuation"
                          [] OTHER -> "repeat_continuation"
EndsWith(p, list, kind) ==
  \A i \in DOMAIN list : IF i = Len(list) THEN p.kind[list[i]] = kind
                        ELSE p.kind[list[i]] \notin Continuations

(* The fields of a program.  `arity' is how many arguments an action has   *)
(* (its template arguments), `script' the script that it is part of.       *)
IsTyped(p) ==
  LET actions == DOMAIN p.kind
      scripts == DOMAIN p.mode
  IN  /\ None \notin actions
      /\ p.mode \in [scripts -> Modes]
      /\ p.max_runs \in [scripts -> Nat]
      /\ p.chain \in [scripts -> Seq(actions)]
      /\ p.kind \in [actions -> Kinds]
      /\ p.then \in [actions -> Seq(actions)]
      /\ p.els \in [actions -> Seq(actions)]
      /\ p.count \in [actions -> Nat]
      /\ p.timeout \in [actions -> BOOLEAN]
      /\ p.arity \in [actions -> Nat \ {0}]
      /\ p.script \in [actions -> scripts]
      /\ \A s \in scripts : p.mode[s] = "queued" => p.max_runs[s] > 0
      /\ \A a \in actions : /\ p.kind[a] \in {"execute", "stop", "wait"}
                               => p.target[a] \in scripts
                            /\ p.kind[a] \in {"if", "while", "repeat"}
                               => p.then[a] # << >>

(* An action is in one list, which links it to the next; add_then() and    *)
(* add_else() close a nested one with a continuation, and nothing else     *)
(* makes one.  The lists of a script nest: what is part of it is reached   *)
(* from its own list.                                                      *)
IsLinked(p) ==
  LET actions == DOMAIN p.kind
      scripts == DOMAIN p.mode
  IN  /\ \A s, z \in scripts :
           s # z => Range(p.chain[s]) \cap Range(p.chain[z]) = {}
      /\ \A a, b \in actions : a # b => InsideOf(p, a) \cap InsideOf(p, b) = {}
      /\ \A s \in scripts, a \in actions :
           Range(p.chain[s]) \cap InsideOf(p, a) = {}
      /\ \A s \in scripts : \A a \in Range(p.chain[s]) :
           p.kind[a] \notin Continuations /\ p.arity[a] = 1 /\ p.script[a] = s
      /\ \A a \in actions : \A list \in Branches(p, a) :
           EndsWith(p, list, ContinuationOf(p.kind[a]))
      /\ \A a \in actions : \A b \in InsideOf(p, a) :
           /\ p.arity[b] = p.arity[a] + IF p.kind[a] = "repeat" THEN 1 ELSE 0
           /\ p.script[b] = p.script[a]
      /\ \A s \in scripts : \A reached \in SUBSET actions :
           Range(p.chain[s]) \subseteq reached
           /\ (\A a \in reached : InsideOf(p, a) \subseteq reached)
           => {a \in actions : p.script[a] = s} \subseteq reached

IsProgram(p) == IsTyped(p) /\ IsLinked(p)
ASSUME ProgramsAssumption == \A p \in Programs : IsProgram(p)
ASSUME BoundAssumption == MaxId \in Nat

VARIABLES program,
          num_running,     \* num_running_ of every action
          stack,           \* the calls under way, innermost first
          timers,          \* the pending timeouts of the DelayActions
          waiting,         \* param_queue_ of script.wait, var_queue_ of wait_until
          generation,      \* stop_generation_ of wait_until
          ring,            \* var_queue_, queue_front_, num_queued_ of a queued script
          loops,           \* the component state of what has a loop()
          condition,       \* what every condition checks, constant during a call
          next_id,         \* the number of the next instance
          stopped          \* instances below this one were stopped (ghost)

vars == << program, num_running, stack, timers, waiting, generation, ring,
           loops, condition, next_id, stopped >>
-----------------------------------------------------------------------------
Scripts == DOMAIN program.mode
Actions == DOMAIN program.kind
OfKind(kinds) == {a \in Actions : program.kind[a] \in kinds}
Waits == OfKind({"wait", "wait_until"})
Queued == {s \in Scripts : program.mode[s] = "queued"}
Capacity(s) == program.max_runs[s] - 1
Id(x) == Last(x)

(* Every action is in one of the lists.                                   *)
Lists == {program.chain[s] : s \in Scripts}
         \cup UNION {Branches(program, a) : a \in Actions}
ListOf(a) == CHOOSE list \in Lists : a \in Range(list)
Following(a) == LET list == ListOf(a)
                    i == CHOOSE j \in DOMAIN list : list[j] = a
                IN  IF i < Len(list) THEN list[i + 1] ELSE None
Inside(a) == InsideOf(program, a)
Parent(a) == CHOOSE b \in Actions : a \in Inside(b)

Frame(op, a, x) == [op |-> op, of |-> a, args |-> x]
Play(list, x) == IF list = << >> THEN << >>
                 ELSE << Frame("play", Head(list), x) >>
Top(op) == stack # << >> /\ stack[1].op = op
Plays(kind) == Top("play") /\ program.kind[stack[1].of] = kind
This == stack[1].of
Args == stack[1].args
Call(frames) == stack' = frames \o Tail(stack)
Return == Call(<< >>)
Entered(a) == [num_running EXCEPT ![a] = @ + 1]

EmptyRing(s) == [slots |-> [i \in 0 .. Capacity(s) - 1 |-> << >>],
                 front |-> 0, count |-> 0]
(* The state the device starts in.                                         *)
Fresh == [num_running |-> [a \in Actions |-> 0],
          waiting |-> [a \in Waits |-> << >>],
          generation |-> [a \in OfKind({"wait_until"}) |-> 0],
          ring |-> [s \in Queued |-> EmptyRing(s)],
          loops |-> [c \in Waits \cup Queued |-> "construction"],
          stopped |-> [s \in Scripts |-> 1]]
Init == /\ program \in Programs
        /\ num_running = Fresh.num_running
        /\ stack = << >> /\ timers = {}
        /\ waiting = Fresh.waiting /\ generation = Fresh.generation
        /\ ring = Fresh.ring /\ loops = Fresh.loops
        /\ condition = FALSE
        /\ next_id = 1 /\ stopped = Fresh.stopped
-----------------------------------------------------------------------------
(* is_running of a list, and num_running_total of one, which adds up what  *)
(* its actions count; nested lists are counted by the action they belong   *)
(* to.                                                                     *)
ActionIsRunning(s) == \E a \in Range(program.chain[s]) : num_running[a] > 0
Counted(actions) ==
  Cardinality(UNION {{a} \X (1 .. num_running[a]) : a \in actions})
NumRunning(s) == Counted(Range(program.chain[s]))

EnableLoop(c) ==
  loops' = [loops EXCEPT ![c] = IF @ = "done" THEN "loop" ELSE @]
DisableLoop(c) == loops' = [loops EXCEPT ![c] = "done"]

(* stop_complex down a list, when its counters are num: what is reached is *)
(* the list and, of an action that is running, the lists inside; such an   *)
(* action stops itself.                                                    *)
StopList(list, num) ==
  LET running == {a \in Actions : num[a] > 0}
      reached(stopping) == Range(list) \cup UNION {Inside(a) : a \in stopping}
      hit == {a \in running :
                \A S \in SUBSET running : running \cap reached(S) \subseteq S => a \in S}
  IN  /\ num_running' = [a \in Actions |-> IF a \in reached(hit) THEN 0 ELSE num[a]]
      /\ timers' = {t \in timers : t.of \notin hit}
      /\ waiting' = [a \in Waits |-> IF a \in hit THEN << >> ELSE waiting[a]]
      /\ generation' = [a \in DOMAIN generation |->
                          (generation[a] + IF a \in hit THEN 1 ELSE 0) % 256]
      /\ loops' = [c \in DOMAIN loops |-> IF c \in hit THEN "done" ELSE loops[c]]

StopScript(s, num) ==
  /\ StopList(program.chain[s], num)
  /\ ring' = [q \in Queued |-> IF q = s THEN EmptyRing(s) ELSE ring[q]]
  /\ stopped' = [stopped EXCEPT ![s] = next_id]
-----------------------------------------------------------------------------
(* play_next_: the instance leaves this action and enters the next one; a  *)
(* stop in between has left nothing to be counted down.                    *)
PlayNext ==
  /\ Top("next")
  /\ IF num_running[This] > 0
     THEN /\ num_running' = [num_running EXCEPT ![This] = @ - 1]
          /\ Call(IF Following(This) = None THEN << >>
                  ELSE << Frame("play", Following(This), Args) >>)
     ELSE Return /\ UNCHANGED num_running
  /\ UNCHANGED << program, timers, waiting, generation, ring, loops,
                  condition, next_id, stopped >>

PlayExecute ==
  /\ Plays("execute")
  /\ num_running' = Entered(This)
  /\ next_id' = next_id + 1
  /\ Call(<< Frame("execute", program.target[This], << next_id >>),
             Frame("next", This, Args) >>)
  /\ UNCHANGED << program, timers, waiting, generation, ring, loops,
                  condition, stopped >>

PlayStop ==
  /\ Plays("stop")
  /\ StopScript(program.target[This], Entered(This))
  /\ Call(<< Frame("next", This, Args) >>)
  /\ UNCHANGED << program, condition, next_id >>

\* Mutant: skip_cancel is never set.
PlayDelay_AlwaysCancels ==
  /\ Plays("delay")
  /\ num_running' = Entered(This)
  /\ timers' = {t \in timers : t.of # This}
               \cup {[of |-> This, args |-> Args]}
  /\ Return
  /\ UNCHANGED << program, waiting, generation, ring, loops, condition,
                  next_id, stopped >>

(* The only instance takes over the action's timeout; a further one, which *)
(* can only be that of a parallel script, skips the cancel.                *)
PlayDelay ==
  /\ Plays("delay")
  /\ num_running' = Entered(This)
  /\ LET same == {t \in timers : t.of = This}
         cancelled == IF num_running'[This] > 1 \/ same = {} THEN {}
                      ELSE {CHOOSE t \in same : TRUE}
     IN  timers' = (timers \ cancelled) \cup {[of |-> This, args |-> Args]}
  /\ Return
  /\ UNCHANGED << program, waiting, generation, ring, loops, condition,
                  next_id, stopped >>

PlayWait ==
  /\ Plays("wait")
  /\ num_running' = Entered(This)
  /\ IF ActionIsRunning(program.target[This])
     THEN /\ waiting' = [waiting EXCEPT ![This] = Append(@, Args)]
          /\ EnableLoop(This)
          /\ Return
     ELSE /\ Call(<< Frame("next", This, Args) >>)
          /\ UNCHANGED << waiting, loops >>
  /\ UNCHANGED << program, timers, generation, ring, condition, next_id,
                  stopped >>

PlayWaitUntil ==
  /\ Plays("wait_until")
  /\ num_running' = Entered(This)
  /\ IF condition
     THEN Call(<< Frame("next", This, Args) >>) /\ UNCHANGED waiting
     ELSE /\ waiting' = [waiting EXCEPT ![This] = Append(@, Args)]
          /\ Call(<< Frame("process", This, Args),
                     Frame("enable_if_waiting", This, Args) >>)
  /\ UNCHANGED << program, timers, generation, ring, loops, condition,
                  next_id, stopped >>
-----------------------------------------------------------------------------
PlayIf ==
  /\ Plays("if")
  /\ num_running' = Entered(This)
  /\ LET list == IF condition THEN program.then[This] ELSE program.els[This]
     IN  Call(IF list = << >> THEN << Frame("next", This, Args) >>
              ELSE Play(list, Args))
  /\ UNCHANGED << program, timers, waiting, generation, ring, loops,
                  condition, next_id, stopped >>

(* A while whose condition is false at once stops what runs inside it,     *)
(* also for the instances that were there before.                          *)
PlayWhile ==
  /\ Plays("while")
  /\ IF condition
     THEN /\ num_running' = Entered(This)
          /\ Call(Play(program.then[This], Args))
          /\ UNCHANGED << timers, waiting, generation, loops >>
     ELSE /\ StopList(program.then[This], Entered(This))
          /\ Call(<< Frame("next", This, Args) >>)
  /\ UNCHANGED << program, ring, condition, next_id, stopped >>

(* The body of a repeat gets the iteration in front of the arguments.      *)
PlayRepeat ==
  /\ Plays("repeat")
  /\ num_running' = Entered(This)
  /\ Call(IF program.count[This] > 0
          THEN Play(program.then[This], << 0 >> \o Args)
          ELSE << Frame("next", This, Args) >>)
  /\ UNCHANGED << program, timers, waiting, generation, ring, loops,
                  condition, next_id, stopped >>

(* The last action of a nested list resumes the action around it.          *)
PlayContinuation ==
  /\ \/ Plays("continuation")
     \/ Plays("while_continuation")
     \/ Plays("repeat_continuation")
  /\ num_running' = Entered(This)
  /\ LET parent == Parent(This)
         resume == CASE program.kind[This] = "continuation" ->
                          << Frame("next", parent, Args) >>
                     [] program.kind[This] = "while_continuation" ->
                          IF num_running[parent] > 0 /\ condition
                          THEN Play(program.then[parent], Args)
                          ELSE << Frame("next", parent, Args) >>
                     [] OTHER ->
                          IF Head(Args) + 1 >= program.count[parent]
                          THEN << Frame("next", parent, Tail(Args)) >>
                          ELSE Play(program.then[parent],
                                    << Head(Args) + 1 >> \o Tail(Args))
     IN  Call(resume \o << Frame("next", This, Args) >>)
  /\ UNCHANGED << program, timers, waiting, generation, ring, loops,
                  condition, next_id, stopped >>
-----------------------------------------------------------------------------
RunActions(s, x) == Play(program.chain[s], x)
Executes(mode) == Top("execute") /\ program.mode[This] = mode

ExecuteSingle ==
  /\ Executes("single")
  /\ Call(IF ActionIsRunning(This) THEN << >> ELSE RunActions(This, Args))
  /\ UNCHANGED << program, num_running, timers, waiting, generation, ring,
                  loops, condition, next_id, stopped >>

ExecuteRestart ==
  /\ Executes("restart")
  /\ IF ActionIsRunning(This)
     THEN /\ StopList(program.chain[This], num_running)
          /\ stopped' = [stopped EXCEPT ![This] = Id(Args)]
     ELSE UNCHANGED << num_running, timers, waiting, generation, loops, stopped >>
  /\ Call(RunActions(This, Args))
  /\ UNCHANGED << program, ring, condition, next_id >>

ExecuteParallel ==
  /\ Executes("parallel")
  /\ Call(IF program.max_runs[This] # 0
             /\ NumRunning(This) >= program.max_runs[This]
          THEN << >> ELSE RunActions(This, Args))
  /\ UNCHANGED << program, num_running, timers, waiting, generation, ring,
                  loops, condition, next_id, stopped >>

\* Mutant: the running instance is not counted against max_runs_.
ExecuteQueued_OneMore ==
  /\ Executes("queued")
  /\ LET r == ring[This]
         place == (r.front + r.count) % Capacity(This)
     IN  IF ~ ActionIsRunning(This) /\ r.count = 0
         THEN /\ Call(RunActions(This, Args)
                      \o << Frame("script_loop", This, Args) >>)
              /\ UNCHANGED << ring, loops >>
         ELSE /\ IF r.count >= program.max_runs[This]
                 THEN UNCHANGED << ring, loops >>
                 ELSE /\ ring' = [ring EXCEPT
                                    ![This].slots[place] = Args,
                                    ![This].count = @ + 1]
                      /\ EnableLoop(This)
              /\ Return
  /\ UNCHANGED << program, num_running, timers, waiting, generation,
                  condition, next_id, stopped >>

ExecuteQueued ==
  /\ Executes("queued")
  /\ LET r == ring[This]
         full == r.count + 1 >= program.max_runs[This]
         place == (r.front + r.count) % Capacity(This)
     IN  IF ~ ActionIsRunning(This) /\ r.count = 0
         THEN /\ Call(RunActions(This, Args)
                      \o << Frame("script_loop", This, Args) >>)
              /\ UNCHANGED << ring, loops >>
         ELSE /\ IF full THEN UNCHANGED << ring, loops >>
                 ELSE /\ ring' = [ring EXCEPT
                                    ![This].slots[place] = Args,
                                    ![This].count = @ + 1]
                      /\ EnableLoop(This)
              /\ Return
  /\ UNCHANGED << program, num_running, timers, waiting, generation,
                  condition, next_id, stopped >>

\* Mutant: the read position is not wrapped.
ScriptLoop_NoWrap ==
  /\ Top("script_loop")
  /\ LET r == ring[This]
         end == << Frame("script_loop_ends", This, Args) >>
     IN  IF r.count # 0 /\ ~ ActionIsRunning(This)
         THEN /\ ring' = [ring EXCEPT ![This].count = @ - 1,
                                      ![This].front = @ + 1]
              /\ Call(RunActions(This, r.slots[r.front]) \o end)
         ELSE Call(end) /\ UNCHANGED ring
  /\ UNCHANGED << program, num_running, timers, waiting, generation, loops,
                  condition, next_id, stopped >>

(* QueueingScript::loop(), up to the queued instance and after it.         *)
ScriptLoop ==
  /\ Top("script_loop")
  /\ LET r == ring[This]
         end == << Frame("script_loop_ends", This, Args) >>
     IN  IF r.count # 0 /\ ~ ActionIsRunning(This)
         THEN /\ ring' = [ring EXCEPT
                            ![This].slots[r.front] = << >>,
                            ![This].count = @ - 1,
                            ![This].front = (@ + 1) % Capacity(This)]
              /\ Call(RunActions(This, r.slots[r.front]) \o end)
         ELSE Call(end) /\ UNCHANGED ring
  /\ UNCHANGED << program, num_running, timers, waiting, generation, loops,
                  condition, next_id, stopped >>
ScriptLoopEnds ==
  /\ Top("script_loop_ends")
  /\ IF ring[This].count = 0 THEN DisableLoop(This) ELSE UNCHANGED loops
  /\ Return
  /\ UNCHANGED << program, num_running, timers, waiting, generation, ring,
                  condition, next_id, stopped >>
-----------------------------------------------------------------------------
(* ScriptWaitAction::loop() resumes the first that waits, and removes it   *)
(* from the list when the rest of its chain has returned.                  *)
WaitLoop(a) ==
  /\ stack = << >> /\ program.kind[a] = "wait" /\ loops[a] = "loop"
  /\ num_running[a] > 0
  /\ ~ ActionIsRunning(program.target[a])
  /\ IF waiting[a] # << >>
     THEN /\ stack' = << Frame("next", a, Head(waiting[a])),
                         Frame("pop_front", a, Head(waiting[a])) >>
          /\ UNCHANGED loops
     ELSE DisableLoop(a) /\ UNCHANGED stack
  /\ UNCHANGED << program, num_running, timers, waiting, generation, ring,
                  condition, next_id, stopped >>
PopFront ==
  /\ Top("pop_front")
  /\ waiting[This] # << >>
  /\ waiting' = [waiting EXCEPT ![This] = Tail(@)]
  /\ Return
  /\ UNCHANGED << program, num_running, timers, generation, ring, loops,
                  condition, next_id, stopped >>

(* pop_front of an empty list is undefined: it frees the list's own node,  *)
(* and the heap's check restarts the device.                               *)
PopFrontOfNone ==
  /\ Top("pop_front")
  /\ waiting[This] = << >>
  /\ num_running' = Fresh.num_running
  /\ stack' = << >> /\ timers' = {}
  /\ waiting' = Fresh.waiting /\ generation' = Fresh.generation
  /\ ring' = Fresh.ring /\ loops' = Fresh.loops
  /\ next_id' = 1 /\ stopped' = Fresh.stopped
  /\ UNCHANGED << program, condition >>
-----------------------------------------------------------------------------
(* process_queue_ of wait_until: the list is moved aside and walked; what  *)
(* still has to wait goes back in front of what was added meanwhile.  An   *)
(* item may expire at any check if the action has a timeout (as long as    *)
(* there are instances left to be numbered).                               *)
WaitUntilLoop(a) ==
  /\ stack = << >> /\ program.kind[a] = "wait_until" /\ loops[a] = "loop"
  /\ num_running[a] > 0
  /\ stack' = << Frame("process", a, << >>),
                 Frame("disable_unless_waiting", a, << >>) >>
  /\ UNCHANGED << program, num_running, timers, waiting, generation, ring,
                  loops, condition, next_id, stopped >>

Walk(a, queue, pending, seen) ==
  [op |-> "walk", of |-> a, queue |-> queue, pending |-> pending, seen |-> seen]

ProcessQueue ==
  /\ Top("process")
  /\ waiting' = [waiting EXCEPT ![This] = << >>]
  /\ Call(<< Walk(This, waiting[This], << >>, generation[This]) >>)
  /\ UNCHANGED << program, num_running, timers, generation, ring, loops,
                  condition, next_id, stopped >>

\* Mutant: a stop inside the resumed chain goes unnoticed.
Walks_Unchecked == Top("walk")

Walks == Top("walk") /\ stack[1].seen = generation[This]
WalkKeeps ==
  /\ Walks /\ stack[1].queue # << >> /\ ~ condition
  /\ Call(<< Walk(This, Tail(stack[1].queue),
                  Append(stack[1].pending, Head(stack[1].queue)),
                  generation[This]) >>)
  /\ UNCHANGED << program, num_running, timers, waiting, generation, ring,
                  loops, condition, next_id, stopped >>
WalkResumes ==
  /\ Walks /\ stack[1].queue # << >>
  /\ condition \/ (program.timeout[This] /\ next_id <= MaxId)
  /\ Call(<< Frame("next", This, Head(stack[1].queue)),
             Walk(This, Tail(stack[1].queue), stack[1].pending,
                  generation[This]) >>)
  /\ UNCHANGED << program, num_running, timers, waiting, generation, ring,
                  loops, condition, next_id, stopped >>

\* Mutant: what still has to wait goes behind what was added meanwhile.
WalkEnds_Behind ==
  /\ Walks /\ stack[1].queue = << >>
  /\ waiting' = [waiting EXCEPT ![This] = @ \o stack[1].pending]
  /\ Return
  /\ UNCHANGED << program, num_running, timers, generation, ring, loops,
                  condition, next_id, stopped >>

WalkEnds ==
  /\ Walks /\ stack[1].queue = << >>
  /\ waiting' = [waiting EXCEPT ![This] = stack[1].pending \o @]
  /\ Return
  /\ UNCHANGED << program, num_running, timers, generation, ring, loops,
                  condition, next_id, stopped >>
(* stop() has run inside the chain: what the walk still holds is dropped.  *)
WalkIsCancelled ==
  /\ Top("walk") /\ stack[1].seen # generation[This]
  /\ Return
  /\ UNCHANGED << program, num_running, timers, waiting, generation, ring,
                  loops, condition, next_id, stopped >>

Processed ==
  /\ \/ Top("enable_if_waiting")
        /\ IF waiting[This] # << >> THEN EnableLoop(This) ELSE UNCHANGED loops
     \/ Top("disable_unless_waiting")
        /\ IF waiting[This] = << >> THEN DisableLoop(This) ELSE UNCHANGED loops
  /\ Return
  /\ UNCHANGED << program, num_running, timers, waiting, generation, ring,
                  condition, next_id, stopped >>
-----------------------------------------------------------------------------
\* Mutant: setup() of a waiting action undoes an earlier enable_loop().
Setup_Disables(c) ==
  /\ stack = << >> /\ loops[c] = "construction"
  /\ loops' = [loops EXCEPT ![c] = IF c \in Waits THEN "done" ELSE "loop"]
  /\ UNCHANGED << program, num_running, stack, timers, waiting, generation,
                  ring, condition, next_id, stopped >>

(* What the main loop does when no call is under way: it sets components   *)
(* up, runs due timers and the loops of components.                        *)
Setup(c) ==
  /\ stack = << >> /\ loops[c] = "construction"
  /\ loops' = [loops EXCEPT ![c] = IF c \in Waits /\ num_running[c] = 0
                                   THEN "done" ELSE "loop"]
  /\ UNCHANGED << program, num_running, stack, timers, waiting, generation,
                  ring, condition, next_id, stopped >>

Fire(t) ==
  /\ stack = << >> /\ t \in timers
  /\ timers' = timers \ {t}
  /\ stack' = << Frame("next", t.of, t.args) >>
  /\ UNCHANGED << program, num_running, waiting, generation, ring, loops,
                  condition, next_id, stopped >>

QueuedLoop(s) ==
  /\ stack = << >> /\ loops[s] = "loop"
  /\ stack' = << Frame("script_loop", s, << >>) >>
  /\ UNCHANGED << program, num_running, timers, waiting, generation, ring,
                  loops, condition, next_id, stopped >>

(* What the rest of the configuration does: a button, a sensor, the API.   *)
Execute(s) ==
  /\ stack = << >> /\ next_id <= MaxId
  /\ stack' = << Frame("execute", s, << next_id >>) >>
  /\ next_id' = next_id + 1
  /\ UNCHANGED << program, num_running, timers, waiting, generation, ring,
                  loops, condition, stopped >>
Stop(s) ==
  /\ stack = << >>
  /\ StopScript(s, num_running)
  /\ UNCHANGED << program, stack, condition, next_id >>
ConditionChanges ==
  /\ stack = << >>
  /\ condition' = ~ condition
  /\ UNCHANGED << program, num_running, stack, timers, waiting, generation,
                  ring, loops, next_id, stopped >>

Runs == \/ PlayNext \/ PlayExecute \/ PlayStop \/ PlayDelay \/ PlayWait
        \/ PlayWaitUntil \/ PlayIf \/ PlayWhile \/ PlayRepeat
        \/ PlayContinuation
        \/ ExecuteSingle \/ ExecuteRestart \/ ExecuteParallel \/ ExecuteQueued
        \/ ScriptLoop \/ ScriptLoopEnds
        \/ PopFront \/ PopFrontOfNone
        \/ ProcessQueue \/ WalkKeeps \/ WalkResumes \/ WalkEnds
        \/ WalkIsCancelled \/ Processed

Next == \/ Runs
        \/ \E t \in timers : Fire(t)
        \/ \E c \in DOMAIN loops : Setup(c)
        \/ \E a \in Waits : WaitLoop(a) \/ WaitUntilLoop(a)
        \/ \E s \in Queued : QueuedLoop(s)
        \/ \E s \in Scripts : Execute(s) \/ Stop(s)
        \/ ConditionChanges

Spec == Init /\ [][Next]_vars
-----------------------------------------------------------------------------
TypeOK ==
  /\ program \in Programs
  /\ num_running \in [Actions -> Nat]
  /\ \A t \in timers : program.kind[t.of] = "delay" /\ t.args \in Seq(Nat)
  /\ waiting \in [Waits -> Seq(Seq(Nat))]
  /\ generation \in [OfKind({"wait_until"}) -> 0 .. 255]
  /\ \A s \in Queued :
       /\ ring[s].slots \in [0 .. Capacity(s) - 1 -> Seq(Nat)]
       /\ ring[s].count \in 0 .. Capacity(s)
       /\ ring[s].front = 0 \/ ring[s].front < Capacity(s)
  /\ loops \in [Waits \cup Queued -> {"construction", "loop", "done"}]
  /\ condition \in BOOLEAN
  /\ next_id \in Nat \ {0}
  /\ stopped \in [Scripts -> Nat]

(* A stopped action has no instances left, and any other counts in         *)
(* num_running_ just those that it holds: those whose timeout is pending,  *)
(* those that wait, and those that are somewhere in its nested lists.  One *)
(* too many, and the script is_running() for good.                         *)
Held(a) ==
  CASE program.kind[a] = "delay" -> Cardinality({t \in timers : t.of = a})
    [] a \in Waits -> Len(waiting[a])
    [] OTHER -> Counted(Inside(a))
CountsAreExact ==
  stack = << >> => \A a \in Actions : num_running[a] = Held(a)

(* No script runs more often than its mode allows, whatever its actions    *)
(* start and stop while it is being started: one instance at a time in     *)
(* modes single, restart and queued, max_runs_ in all with those that are  *)
(* queued, and max_runs_ in parallel.                                      *)
RunLimits ==
  \A s \in Scripts :
    CASE program.mode[s] = "parallel" ->
           \/ program.max_runs[s] = 0
           \/ NumRunning(s) <= program.max_runs[s]
      [] program.mode[s] = "queued" ->
           /\ NumRunning(s) <= 1
           /\ NumRunning(s) + ring[s].count <= program.max_runs[s]
      [] OTHER -> NumRunning(s) <= 1

(* First come, first served: the ring of a queued script holds the queued  *)
(* instances in the order they were asked for, all after the one that      *)
(* runs, and nothing in its free slots, whatever was stopped meanwhile.    *)
Ascending(ids) == \A i, j \in DOMAIN ids : i < j => ids[i] < ids[j]
Place(s, i) == (ring[s].front + i - 1) % Capacity(s)
InRing(s) == [i \in 1 .. ring[s].count |-> ring[s].slots[Place(s, i)]]
Suspended(s) ==
  {Id(t.args) : t \in {u \in timers : u.of \in Range(program.chain[s])}}
QueueOrderIsKept ==
  \A s \in Queued :
    /\ \A k \in DOMAIN ring[s].slots :
         ring[s].slots[k] # << >> <=> \E i \in 1 .. ring[s].count : k = Place(s, i)
    /\ LET ids == [i \in DOMAIN InRing(s) |-> Id(InRing(s)[i])]
       IN  /\ Ascending(ids)
           /\ \A run \in Suspended(s) : \A id \in Range(ids) : run < id

(* What waits in a list is in the order it came in, also after a resumed   *)
(* chain has added to the list (in programs in which nothing can overtake  *)
(* on the way to it).                                                      *)
WaitOrderIsKept ==
  \A a \in Waits : Ascending([i \in DOMAIN waiting[a] |-> Id(waiting[a][i])])

(* What was stopped stays stopped: no action is played for an instance     *)
(* that stop(), or a restart, has ended, though the calls that were under  *)
(* way then still return into its chain.                                   *)
StoppedNeverPlays ==
  Top("play") => Id(Args) >= stopped[program.script[This]]

(* The list of script.wait still begins with the instance that was resumed *)
(* when pop_front takes it off.                                            *)
PopsWhatItPlayed ==
  Top("pop_front") => waiting[This] # << >> /\ Head(waiting[This]) = Args
-----------------------------------------------------------------------------
(* The main loop returns from every call, and each of its passes runs the  *)
(* timers that are due and the loop() of every component that has not      *)
(* disabled it.  All that is assumed of it is that it keeps doing some of  *)
(* each kind, in a program with one component of each kind.                *)
Fairness ==
  /\ WF_vars(Runs)
  /\ SF_vars(\E t \in timers : Fire(t))
  /\ SF_vars(\E c \in DOMAIN loops : Setup(c))
  /\ SF_vars(\E a \in Waits : WaitLoop(a))
  /\ SF_vars(\E s \in Queued : QueuedLoop(s))
FairSpec == Spec /\ Fairness

(* Whoever waits for a script goes on after it, and every queued instance  *)
(* gets its turn, unless it is stopped: no enable_loop() is missing.       *)
Waiting == {Id(x) : x \in UNION {Range(waiting[a]) : a \in OfKind({"wait"})}}
           \cup {Id(x) : x \in UNION {Range(InRing(s)) : s \in Queued}}
EveryoneGoesOn ==
  \A i \in 1 .. MaxId : (i \in Waiting) ~> (i \notin Waiting)
=============================================================================
