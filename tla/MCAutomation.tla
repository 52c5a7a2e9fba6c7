---------------------------- MODULE MCAutomation ----------------------------
(* Small programs for Automation.  A nested list ends in its continuation, *)
(* as add_then() and add_else() leave it.                                  *)
EXTENDS Automation, TLC

NoLists(actions) == [a \in actions |-> << >>]
(* A program of scripts without nested lists; `inner' are the actions that *)
(* are in none of its lists, and the scripts they are part of.             *)
Nesting(mode, max_runs, chain, kind, target, inner) ==
  [mode |-> mode, max_runs |-> max_runs, chain |-> chain, kind |-> kind,
   target |-> target, then |-> NoLists(DOMAIN kind), els |-> NoLists(DOMAIN kind),
   count |-> [a \in DOMAIN kind |-> 0], timeout |-> [a \in DOMAIN kind |-> FALSE],
   arity |-> [a \in DOMAIN kind |-> 1],
   script |-> [a \in DOMAIN kind |->
                 IF a \in DOMAIN inner THEN inner[a]
                 ELSE CHOOSE s \in DOMAIN chain : a \in Range(chain[s])]]
Flat(mode, max_runs, chain, kind, target) ==
  Nesting(mode, max_runs, chain, kind, target, << >>)

(* A button starts a queued script and then waits for it.                  *)
QueuedProgram ==
  Flat("A" :> "queued" @@ "W" :> "parallel", "A" :> 3 @@ "W" :> 0,
       "A" :> << "delay" >> @@ "W" :> << "start", "await" >>,
       "delay" :> "delay" @@ "start" :> "execute" @@ "await" :> "wait",
       "delay" :> None @@ "start" :> "A" @@ "await" :> "A")

(* Parallel instances wait for a restarting script, and the first that is  *)
(* resumed stops them all.                                                 *)
WaitThenStopProgram ==
  Flat("A" :> "parallel" @@ "B" :> "restart", "A" :> 2 @@ "B" :> 0,
       "A" :> << "await", "stop" >> @@ "B" :> << "delay" >>,
       "await" :> "wait" @@ "stop" :> "stop" @@ "delay" :> "delay",
       "await" :> "B" @@ "stop" :> "A" @@ "delay" :> None)

(* What waits for a condition restarts itself when it is resumed.          *)
ReentryProgram ==
  [Flat("A" :> "parallel" @@ "C" :> "single", "A" :> 0 @@ "C" :> 0,
        "A" :> << "until", "again" >> @@ "C" :> << "stop", "start" >>,
        "until" :> "wait_until" @@ "again" :> "execute" @@ "stop" :> "stop"
          @@ "start" :> "execute",
        "until" :> None @@ "again" :> "C" @@ "stop" :> "A" @@ "start" :> "A")
   EXCEPT !.timeout = [@ EXCEPT !["until"] = TRUE]]

(* The same without the stop: the new instance joins those that wait.      *)
JoinProgram ==
  [Flat("A" :> "parallel" @@ "C" :> "single", "A" :> 0 @@ "C" :> 0,
        "A" :> << "until", "again" >> @@ "C" :> << "start" >>,
        "until" :> "wait_until" @@ "again" :> "execute"
          @@ "start" :> "execute",
        "until" :> None @@ "again" :> "C" @@ "start" :> "A")
   EXCEPT !.timeout = [@ EXCEPT !["until"] = TRUE]]

(* Nested lists with delays in them.                                       *)
NestedProgram ==
  [Nesting("A" :> "single" @@ "P" :> "parallel", "A" :> 0 @@ "P" :> 0,
        "A" :> << "if" >> @@ "P" :> << "times", "halt" >>,
        "if" :> "if" @@ "then" :> "delay" @@ "end_then" :> "continuation"
          @@ "loop" :> "while" @@ "pause" :> "delay"
          @@ "end_loop" :> "while_continuation" @@ "end_else" :> "continuation"
          @@ "times" :> "repeat" @@ "rest" :> "delay"
          @@ "end_times" :> "repeat_continuation" @@ "halt" :> "stop",
        [a \in {"if", "then", "end_then", "loop", "pause", "end_loop",
                "end_else", "times", "rest", "end_times", "halt"} |->
           IF a = "halt" THEN "A" ELSE None],
        [a \in {"then", "end_then", "loop", "pause", "end_loop", "end_else",
                "rest", "end_times"} |->
           IF a \in {"rest", "end_times"} THEN "P" ELSE "A"])
   EXCEPT !.then = [@ EXCEPT !["if"] = << "then", "end_then" >>,
                             !["loop"] = << "pause", "end_loop" >>,
                             !["times"] = << "rest", "end_times" >>],
          !.els = [@ EXCEPT !["if"] = << "loop", "end_else" >>],
          !.count = [@ EXCEPT !["times"] = 2],
          !.arity = [@ EXCEPT !["rest"] = 2, !["end_times"] = 2]]

(* Instances of a parallel script loop while the condition holds.          *)
WhileProgram ==
  [Nesting("P" :> "parallel", "P" :> 0, "P" :> << "loop" >>,
        "loop" :> "while" @@ "pause" :> "delay" @@ "end" :> "while_continuation",
        [a \in {"loop", "pause", "end"} |-> None],
        "pause" :> "P" @@ "end" :> "P")
   EXCEPT !.then = [@ EXCEPT !["loop"] = << "pause", "end" >>]]

(* Parallel instances of a while are left out: see AutomationWhile.cfg.    *)
MCPrograms == {QueuedProgram, WaitThenStopProgram, ReentryProgram, JoinProgram,
               NestedProgram}
MCWait == {WaitThenStopProgram}
MCWhile == {WhileProgram}
=============================================================================
